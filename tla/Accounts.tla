------------------------------ MODULE Accounts ------------------------------
(***************************************************************************)
(* The users of the chat: who registers, who logs in, and who is banned    *)
(* from sending texts.  Table users of the database (a row per name, with  *)
(* the password and the ban) is shared by the clients, each of which reads *)
(* and writes it with statements of its own; nobody else looks at the ban. *)
(*   - checkUserInfo, doReg and doLogin, before the menu;                  *)
(*   - dispatchClientRequest, the menu, which asks IsBan;                  *)
(*   - the dialogs of client_send.c, among them banOne.                    *)
(* Statements are formatted into buffers of 64 bytes: one for a name that  *)
(* is too long is cut, and fails.  A session is one run of the client.     *)
(* What is sent and received is in modules ChatServer, Mailbox and         *)
(* ChatFraming; the database and the terminal are external.                *)
(***************************************************************************)
EXTENDS Integers, FiniteSets

CONSTANTS Names,     \* names that may be typed
          NameLen,   \* the length of each
          Admin,     \* the name "admin"
          Pwds,      \* passwords that may be typed
          PwdLen,    \* the length of each
          InitUsers, \* the users that exist at first, and their passwords
          MaxSess,   \* bound on the runs of the client program
          MaxBan,    \* bound on the bans and releases
          MaxText    \* bound on the texts sent

NoName == "none"

ASSUME AccountsConstants ==
  /\ MaxSess \in Nat /\ MaxBan \in Nat /\ MaxText \in Nat
  /\ NameLen \in [Names -> 1..31] /\ Admin \in Names /\ NoName \notin Names
  /\ PwdLen \in [Pwds -> 0..39]
  /\ DOMAIN InitUsers \subseteq Names
  /\ \A n \in DOMAIN InitUsers : InitUsers[n] \in Pwds

Sessions == 1..MaxSess

\* The dialogs of the menu: those in Texts ask for the ban first, those in
\* Admins are for the administrator; "done" is banOne when it has succeeded.
Texts   == {"one", "all"}
Admins  == {"users", "ban"}
Dialogs == Texts \cup Admins \cup {"done", "friends", "request", "file"}

VARIABLES password, \* table users: the password of each name
          banned,   \* table users: the names whose ban is 1
          cpc,      \* where client s is
          srcName,  \* who is logged in there
          \* history
          bans,     \* updates of a ban so far
          since,    \* since[n]: which of them was the last for n
          opened,   \* opened[s]: how many there were when its dialog opened
          texts     \* the texts sent, with the ban of their sender then

table   == <<password, banned>>
history == <<bans, since, opened, texts>>
vars    == <<table, cpc, srcName, history>>

Init ==
  /\ password = InitUsers /\ banned = {}
  /\ cpc = [s \in Sessions |-> "off"]
  /\ srcName = [s \in Sessions |-> NoName]
  /\ bans = 0 /\ since = [n \in Names |-> 0]
  /\ opened = [s \in Sessions |-> 0]
  /\ texts = {}

Goto(s, p) == cpc' = [cpc EXCEPT ![s] = p]

\* The program ends.
End(s) ==
  /\ Goto(s, "gone")
  /\ srcName' = [srcName EXCEPT ![s] = NoName]
  /\ opened' = [opened EXCEPT ![s] = 0]
  /\ UNCHANGED <<table, bans, since, texts>>

-----------------------------------------------------------------------------
(* The terminal and the buffers.                                           *)

\* getPassword stops at the end of the line or after 20 characters, and what
\* is behind them is the answer to the next question.
ReadWhole(p) == PwdLen[p] < 20

\* The password is confirmed: it is long enough and typed twice.  Of a longer
\* line the second reading gets the rest, which differs from the first.
Confirmed(p, q) == PwdLen[p] >= 6 /\ ReadWhole(p) /\ ReadWhole(q) /\ p = q

\* snprintf into a buffer of 64.
Fits(length) == length <= 64 - 1

\* Mutant: a larger buffer for the query, as users with long names would ask
\* for, and none for the update.
SelectFits_Larger(n) == 50 + NameLen[n] <= 128 - 1

SelectFits(n) == Fits(50 + NameLen[n])  \* IsBan
UpdateFits(n) == Fits(46 + NameLen[n])  \* banOne

\* What IsBan can return: atoi is given one character and reads on behind it,
\* so that a 0 may be followed by digits and a user may seem to be banned.
IsBan(n) == IF n \in banned THEN {TRUE} ELSE BOOLEAN

-----------------------------------------------------------------------------
(* checkUserInfo, doReg, doLogin.                                          *)

Start(s) ==
  /\ cpc[s] = "off" /\ \A r \in 1..(s - 1) : cpc[r] # "off"
  /\ Goto(s, "choice")
  /\ UNCHANGED <<table, srcName, history>>

\* 1, 2, 0 or something else: after another digit the end of its line is read
\* as the next choice, which is no digit, and the program ends.
Choice(s) ==
  /\ cpc[s] = "choice"
  /\ \/ /\ \E p \in {"reg", "login"} : Goto(s, p)
        /\ UNCHANGED <<table, srcName, history>>
     \/ End(s)

\* Who does not confirm the password is asked again: that changes nothing.
\* The insert fails for a name that has a row, and then the program ends;
\* otherwise the user logs in, under whatever name.
Register(s) ==
  /\ cpc[s] = "reg"
  /\ \E n \in Names, p, q \in Pwds :
       /\ Confirmed(p, q)
       /\ \/ n \in DOMAIN password /\ End(s)
          \/ /\ n \notin DOMAIN password
             /\ password' = [m \in DOMAIN password \cup {n} |->
                               IF m = n THEN p ELSE password[m]]
             /\ Goto(s, "login")
             /\ UNCHANGED <<banned, srcName, history>>

\* The rows are searched for the name and the password; then the server is
\* connected.  If either fails the program ends.
Login(s) ==
  /\ cpc[s] = "login"
  /\ \/ \E n \in DOMAIN password, p \in Pwds :
          /\ ReadWhole(p) /\ password[n] = p
          /\ srcName' = [srcName EXCEPT ![s] = n] /\ Goto(s, "menu")
          /\ UNCHANGED <<table, history>>
     \/ End(s)

-----------------------------------------------------------------------------
(* dispatchClientRequest.                                                  *)

\* Mutant: only choice 4 asks.
ChooseText_OnlyOne(s) ==
  /\ cpc[s] = "menu" /\ SelectFits(srcName[s])
  /\ \E d \in Texts, b \in IsBan(srcName[s]) :
       /\ b => d = "all"
       /\ Goto(s, d) /\ opened' = [opened EXCEPT ![s] = bans]
  /\ UNCHANGED <<table, srcName, bans, since, texts>>

\* 4 and 5: IsBan, whose query fails, and ends the program, for a longer name.
\* Who is banned is told so and stays at the menu.
ChooseText(s) ==
  /\ cpc[s] = "menu"
  /\ \/ ~SelectFits(srcName[s]) /\ End(s)
     \/ /\ SelectFits(srcName[s])
        /\ \E d \in Texts, b \in IsBan(srcName[s]) :
             /\ Goto(s, IF b THEN "menu" ELSE d)
             /\ opened' = [opened EXCEPT ![s] = IF b THEN 0 ELSE bans]
        /\ UNCHANGED <<table, srcName, bans, since, texts>>

\* The other choices; 1 and 7 are for the administrator.
Choose(s) ==
  /\ cpc[s] = "menu"
  /\ \E d \in Dialogs \ (Texts \cup {"done"}) :
       (d \in Admins => srcName[s] = Admin) /\ Goto(s, d)
  /\ UNCHANGED <<table, srcName, history>>

\* 8, or the end of the program anywhere else.
Leave(s) == cpc[s] \notin {"off", "gone"} /\ End(s)

-----------------------------------------------------------------------------
(* client_send.c.                                                          *)

\* sendMsg2One and sendMsg2All: the loop over the texts.
SendText(s) ==
  /\ cpc[s] \in Texts /\ Cardinality(texts) < MaxText
  /\ texts' = texts \cup
       {[id |-> Cardinality(texts) + 1, src |-> srcName[s],
         banned |-> srcName[s] \in banned, opened |-> opened[s],
         since |-> since[srcName[s]]]}
  /\ UNCHANGED <<table, cpc, srcName, bans, since, opened>>

\* The word exit, at the question for the receiver or in the loop.
Exit(s) ==
  /\ cpc[s] \in Texts \cup {"done", "file"} /\ Goto(s, "menu")
  /\ opened' = [opened EXCEPT ![s] = 0]
  /\ UNCHANGED <<table, srcName, bans, since, texts>>

\* A dialog that leaves the table as it is ends.
Close(s, d) ==
  /\ cpc[s] = d /\ Goto(s, "menu") /\ UNCHANGED <<table, srcName, history>>

\* The rows are printed, or the query has failed; then the word exit.
GetUserList(s)   == Close(s, "users")
GetFriendList(s) == Close(s, "friends")

\* sendAddFriendMsg, sendDelFriendMsg: one message, unless the name is exit.
RequestFriend(s) == Close(s, "request")

\* banOne: the update fails for a name that is too long, but not for one that
\* has no row.  Then the dialog waits for the word exit.
BanOne(s) ==
  /\ cpc[s] = "ban" /\ bans < MaxBan
  /\ \E n \in Names, flag \in BOOLEAN :
       \/ ~UpdateFits(n) /\ Close(s, "ban")
       \/ /\ UpdateFits(n)
          /\ banned' = IF flag THEN banned \cup ({n} \cap DOMAIN password)
                       ELSE banned \ {n}
          /\ since' = [since EXCEPT ![n] = bans + 1]
          /\ bans' = bans + 1 /\ Goto(s, "done")
          /\ UNCHANGED <<password, srcName, opened, texts>>

Session(s) == Start(s) \/ Choice(s) \/ Register(s) \/ Login(s) \/ ChooseText(s)
              \/ Choose(s) \/ Leave(s) \/ SendText(s) \/ Exit(s) \/ GetUserList(s)
              \/ GetFriendList(s) \/ RequestFriend(s) \/ BanOne(s)

Next == \E s \in Sessions : Session(s)

Spec == Init /\ [][Next]_vars

-----------------------------------------------------------------------------
(* Properties.                                                             *)

TypeOK ==
  /\ DOMAIN InitUsers \subseteq DOMAIN password
  /\ \A n \in DOMAIN password : n \in Names /\ password[n] \in Pwds
  /\ banned \subseteq DOMAIN password
  /\ cpc \in [Sessions -> {"off", "choice", "reg", "login", "menu", "gone"}
                            \cup Dialogs]
  /\ srcName \in [Sessions -> {NoName} \cup DOMAIN password]
  /\ bans \in 0..MaxBan /\ since \in [Names -> 0..MaxBan]
  /\ opened \in [Sessions -> 0..MaxBan]

\* A user who is banned sends texts in a dialog that was open by then, and in
\* no other, however many clients the user runs and however often the ban is
\* changed; and who has sent a text can be banned: the update fits for every
\* name the query of the menu fits for (mysql.c 5-57, client_daemon.c 248-257,
\* client_send.c 315-373).
BanHolds ==
  /\ TypeOK
  /\ \A t \in texts : /\ t.banned => t.opened < t.since
                      /\ UpdateFits(t.src)
=============================================================================
