------------------------------ MODULE Mailbox ------------------------------
(***************************************************************************)
(* What the chat keeps in the database: table friends (a row per direction *)
(* of a friendship) and table message (texts for users who were offline).  *)
(* Both tables are read and written by several processes, each statement a *)
(* transaction of its own:                                                 *)
(*   - the client, when it starts, shows the stored texts of its user and  *)
(*     deletes them (getUserMsgFromMysql, called by dispatchClientRequest) *)
(*   - its receive thread inserts the rows of a friendship its user agrees *)
(*     to (doProcAddFriendRequest, insertFriend2Mysql);                    *)
(*   - the server's threads check and delete friendships and store texts   *)
(*     (procSendMsg2One, procAddFriendMsg, procDelFriendMsg).              *)
(* Statements are formatted into fixed buffers: one that does not fit is   *)
(* cut short, is no SQL any more, and has no effect.  Any other statement  *)
(* can be refused by the database as well; of a change only a line on the  *)
(* screen says so.  A query that fails ends the server.                    *)
(* A session is one run of the client program; a user may have several.    *)
(* The server's threads and list are reduced to what the tables depend on: *)
(* module ChatServer has their races.  A server that ended is started anew *)
(* and knows none of the clients there are.                                *)
(***************************************************************************)
EXTENDS Integers, Sequences, FiniteSets

CONSTANTS Users,        \* rows of table users
          Strangers,    \* names that are not in table users
          NameLen,      \* the length of each name
          WordLens,     \* lengths of the texts sent in this instance
          Kinds,        \* kinds of message sent in this instance
          InitFriends,  \* rows of table friends at the start
          MaxSess,      \* bound on the runs of the client program
          MaxMsg,       \* bound on the messages sent
          MaxFault      \* bound on the calls that fail for no reason of ours

AllKinds == {"one", "add", "del"}
Names    == Users \cup Strangers

ASSUME MailboxConstants ==
  /\ MaxSess \in Nat \ {0} /\ MaxMsg \in Nat /\ MaxFault \in Nat
  /\ Users \cap Strangers = {}
  /\ NameLen \in [Names -> 1..31]
  /\ WordLens \subseteq 0..254
  /\ Kinds \subseteq AllKinds
  /\ InitFriends \subseteq Users \X Users
  /\ \A r \in InitFriends : <<r[2], r[1]>> \in InitFriends

Sessions == 1..MaxSess
MsgIds   == 1..MaxMsg
Msg      == [id : MsgIds, kind : AllKinds, src : Users, des : Names,
             len : WordLens]
NoMsg    == [id |-> 0]

VARIABLES friends,   \* table friends
          message,   \* table message
          sent,      \* messages sent by all clients so far
          user,      \* user[s]: who runs session s
          cpc,       \* where the main thread of client s is
          hasCheck,  \* its flag of the same name: a valid choice was made
          req,       \* what client s wrote and the server has not read
          rbox,      \* what the server wrote to client s, not yet received
          rpc,       \* where the receive thread of client s is
          spc,       \* where the server's thread for s is
          job,       \* the message it handles
          target,    \* the session its pDestNode belongs to
          listed,    \* sessions with a node in the server's list
          shown,     \* shown[s][i]: how often s showed text i (2: or more)
          faults,    \* calls that failed so far
          \* history
          settled,   \* texts stored while no session was clearing for des, and not
                      \* read by one that they did not reach
          agreed,    \* pairs that agreed to be friends and did not undo it
          raced,     \* pairs whose rows were changed by two at a time, or by
                     \* a process that ended in between
          refused,   \* pairs one of whose rows the database did not change
          unfetched  \* sessions that failed to fetch or to clear their texts

tables   == <<friends, message>>
clientV  == <<sent, user, cpc, hasCheck>>
recvV    == <<rbox, rpc>>
serverV  == <<spc, job, target, listed>>
fetchV   == <<shown, unfetched>>
pairHist == <<agreed, raced, refused, faults>>
vars == <<tables, clientV, req, recvV, serverV, fetchV, settled, pairHist>>

Init ==
  /\ friends = InitFriends /\ message = {} /\ sent = 0
  /\ user \in [Sessions -> Users]
  /\ cpc = [s \in Sessions |-> "off"]
  /\ hasCheck = [s \in Sessions |-> FALSE]
  /\ req = [s \in Sessions |-> <<>>]
  /\ rbox = [s \in Sessions |-> <<>>]
  /\ rpc = [s \in Sessions |-> "read"]
  /\ spc = [s \in Sessions |-> "none"]
  /\ job = [s \in Sessions |-> NoMsg]
  /\ target = [s \in Sessions |-> 0]
  /\ listed = {}
  /\ shown = [s \in Sessions |-> [i \in MsgIds |-> 0]]
  /\ settled = {}
  /\ agreed = {} /\ raced = {} /\ refused = {}
  /\ faults = 0 /\ unfetched = {}

-----------------------------------------------------------------------------
(* Statements and the buffers they are formatted into.                      *)

\* snprintf into a buffer of size n keeps n - 1 characters.
Fits(length, n) == length <= n - 1

\* insert into message ..., into tmpSql[128]; the time takes 5 to 8 characters.
MailFits(m, time) ==
  Fits(67 + NameLen[m.src] + NameLen[m.des] + m.len + time, 128)

\* Mutant: buffers that are one character too short.
FriendFits_Less(a, b) == Fits(51 + NameLen[a] + NameLen[b], 64)

\* insert into friends ..., into insertSql1[64] and insertSql2[64].
FriendFits(a, b) == Fits(50 + NameLen[a] + NameLen[b], 64)

\* select * from users ..., into tmpSql[64]; the queries of friends fit 128.
UserFits(n) == Fits(39 + NameLen[n], 64)

\* A call fails, be it that the database refuses it.
Fault == faults < MaxFault /\ faults' = faults + 1

Pair(m) == {m.src, m.des}

\* Somebody inserted, or deleted, the first row of the pair and not the second.
HalfAdded(p)   == \E s \in Sessions : rpc[s] = "ins2" /\ Pair(Head(rbox[s])) = p
HalfDeleted(p) == \E s \in Sessions : spc[s] = "del2" /\ Pair(job[s]) = p

\* A session has shown the texts of user n and is about to delete them.
Clearing(n) == \E s \in Sessions : cpc[s] = "delete" /\ user[s] = n

Show(s, ids) ==
  [i \in MsgIds |-> IF i \in ids /\ shown[s][i] < 2 THEN shown[s][i] + 1
                    ELSE shown[s][i]]

-----------------------------------------------------------------------------
(* The client's main thread.                                                *)

Login(s) ==
  /\ cpc[s] = "off" /\ \A t \in 1..(s - 1) : cpc[t] # "off"
  /\ cpc' = [cpc EXCEPT ![s] = "select"]
  /\ UNCHANGED <<tables, sent, user, hasCheck, req, recvV, serverV, fetchV,
                 settled, pairHist>>

\* Mutant: the texts are selected by their sender.
Select_Src(s) ==
  /\ cpc[s] = "select"
  /\ shown' = [shown EXCEPT ![s] =
                 Show(s, {m.id : m \in {r \in message : r.src = user[s]}})]
  /\ cpc' = [cpc EXCEPT ![s] = "delete"]
  /\ UNCHANGED <<tables, sent, user, hasCheck, req, recvV, serverV, unfetched,
                 settled, pairHist>>

\* select ... from message where desName = user, and print every row.
Select(s) ==
  /\ cpc[s] = "select"
  /\ shown' = [shown EXCEPT ![s] =
                 Show(s, {m.id : m \in {r \in message : r.des = user[s]}})]
  /\ cpc' = [cpc EXCEPT ![s] = "delete"]
  /\ UNCHANGED <<tables, sent, user, hasCheck, req, recvV, serverV, unfetched,
                 settled, pairHist>>

\* Mutant: the statement has no where clause.
Delete_All(s) ==
  /\ cpc[s] = "delete"
  /\ message' = {}
  /\ cpc' = [cpc EXCEPT ![s] = "menu"]
  /\ UNCHANGED <<friends, sent, user, hasCheck, req, recvV, serverV, fetchV,
                 settled, pairHist>>

\* delete from message where desName = user
Delete(s) ==
  /\ cpc[s] = "delete"
  /\ message' = {m \in message : m.des # user[s]}
  /\ cpc' = [cpc EXCEPT ![s] = "menu"]
  /\ UNCHANGED <<friends, sent, user, hasCheck, req, recvV, serverV, fetchV,
                 settled, pairHist>>

\* The SELECT or the DELETE fails, or there is no handle to do them with: the
\* client goes on to its menu. (After a SELECT that failed the closed handle is
\* used for the DELETE: it fails too, if the client does not end there.) Or the
\* rows are selected but do not reach the client (mysql_store_result is NULL):
\* none is printed, and they are deleted all the same.
FetchFails(s) ==
  /\ cpc[s] \in {"select", "delete"} /\ Fault
  /\ unfetched' = unfetched \cup {s}
  /\ \/ cpc' = [cpc EXCEPT ![s] = "menu"] /\ UNCHANGED settled
     \/ /\ cpc[s] = "select" /\ cpc' = [cpc EXCEPT ![s] = "delete"]
        /\ settled' = settled \ {m.id : m \in {r \in message : r.des = user[s]}}
  /\ UNCHANGED <<tables, sent, user, hasCheck, req, recvV, serverV, shown,
                 agreed, raced, refused>>

\* A choice that is no digit, at the menu: back to the top of the loop, which
\* fetches again as long as no valid choice was made.
BadInput(s) ==
  /\ cpc[s] = "menu" /\ ~hasCheck[s]
  /\ cpc' = [cpc EXCEPT ![s] = "select"]
  /\ UNCHANGED <<tables, sent, user, hasCheck, req, recvV, serverV, fetchV,
                 settled, pairHist>>

\* A valid choice: a message to some name, written when all before it has been
\* read (bound: the main thread has one message of its own under way).
Choose(s) ==
  /\ cpc[s] = "menu" /\ req[s] = <<>> /\ sent < MaxMsg
  /\ hasCheck' = [hasCheck EXCEPT ![s] = TRUE]
  /\ \E k \in Kinds, d \in Names, n \in WordLens :
       req' = [req EXCEPT ![s] = <<[id |-> sent + 1, kind |-> k,
                                    src |-> user[s], des |-> d, len |-> n]>>]
  /\ sent' = sent + 1
  /\ UNCHANGED <<tables, user, cpc, recvV, serverV, fetchV, settled, pairHist>>

\* The client ends, by choice 8 or otherwise, with all its threads: also when
\* it does not get a connection to the database.
Leave(s) ==
  /\ cpc[s] \notin {"off", "gone"}
  /\ cpc' = [cpc EXCEPT ![s] = "gone"]
  /\ rpc' = [rpc EXCEPT ![s] = "read"]
  /\ rbox' = [rbox EXCEPT ![s] = <<>>]
  /\ raced' = raced \cup (IF rpc[s] = "ins2" THEN {Pair(Head(rbox[s]))} ELSE {})
  /\ UNCHANGED <<tables, sent, user, hasCheck, req, serverV, fetchV, settled,
                 agreed, refused, faults>>

-----------------------------------------------------------------------------
(* The client's receive thread: clientProcRecvMsg, doProcAddFriendRequest.  *)

Received(s) == rbox' = [rbox EXCEPT ![s] = Tail(@)]

\* A text is printed; so is an answer to a request of one's own.
RecvText(s) ==
  /\ rpc[s] = "read" /\ rbox[s] # <<>> /\ Received(s)
  /\ LET m == Head(rbox[s]) IN
       \/ m.kind = "one" /\ shown' = [shown EXCEPT ![s] = Show(s, {m.id})]
       \/ m.kind = "add" /\ m.src = user[s] /\ shown' = shown
  /\ UNCHANGED <<tables, clientV, req, rpc, serverV, unfetched, settled,
                 pairHist>>

\* The answer to a request is the request itself, sent back to its sender.
Answer(s) ==
  LET m == Head(rbox[s])
  IN req' = [req EXCEPT ![s] = Append(@, [m EXCEPT !.des = m.src])]

\* Somebody asks to be friends: the user declines, or agrees.
Decline(s) ==
  /\ rpc[s] = "read" /\ rbox[s] # <<>>
  /\ Head(rbox[s]).kind = "add" /\ Head(rbox[s]).src # user[s]
  /\ Answer(s) /\ Received(s)
  /\ UNCHANGED <<tables, clientV, rpc, serverV, fetchV, settled, pairHist>>

Agree(s) ==
  /\ rpc[s] = "read" /\ rbox[s] # <<>>
  /\ Head(rbox[s]).kind = "add" /\ Head(rbox[s]).src # user[s]
  /\ rpc' = [rpc EXCEPT ![s] = "ins1"]
  /\ UNCHANGED <<tables, clientV, req, rbox, serverV, fetchV, settled, pairHist>>

\* The database refuses a statement about a row of the pair. Its result is
\* only looked at for a line on the screen.
Refused(p) == Fault /\ refused' = refused \cup {p} /\ UNCHANGED friends

\* One insert of insertFriend2Mysql, racing a deletion that is half done.
InsertRow(a, b) ==
  /\ \/ /\ friends' = IF FriendFits(a, b) THEN friends \cup {<<a, b>>}
                      ELSE friends
        /\ UNCHANGED <<refused, faults>>
     \/ FriendFits(a, b) /\ Refused({a, b})
  /\ raced' = raced \cup (IF HalfDeleted({a, b}) THEN {{a, b}} ELSE {})

Insert1(s) ==
  /\ rpc[s] = "ins1"
  /\ InsertRow(Head(rbox[s]).src, user[s])
  /\ rpc' = [rpc EXCEPT ![s] = "ins2"]
  /\ UNCHANGED <<message, clientV, req, rbox, serverV, fetchV, settled, agreed>>

\* Then the receive thread answers that its user agreed, whatever became of
\* the two statements.
Insert2(s) ==
  /\ rpc[s] = "ins2"
  /\ InsertRow(user[s], Head(rbox[s]).src)
  /\ agreed' = agreed \cup {Pair(Head(rbox[s]))}
  /\ rpc' = [rpc EXCEPT ![s] = "read"] /\ Answer(s) /\ Received(s)
  /\ UNCHANGED <<message, clientV, serverV, fetchV, settled>>

-----------------------------------------------------------------------------
(* The server: its accept loop and the thread of session s.                 *)

Goto(s, pc) == spc' = [spc EXCEPT ![s] = pc]

\* The accept loop gets to the connection; the client does not wait for it.
Register(s) ==
  /\ cpc[s] # "off" /\ spc[s] = "none" /\ Goto(s, "read")
  /\ listed' = listed \cup {s}
  /\ UNCHANGED <<tables, clientV, req, recvV, job, target, fetchV, settled,
                 pairHist>>

\* The client is gone and all it wrote was read: delNode takes the newest
\* node of the name.
Unregister(s) ==
  /\ spc[s] = "read" /\ cpc[s] = "gone" /\ req[s] = <<>> /\ Goto(s, "over")
  /\ LET same == {t \in listed : user[t] = user[s]}
     IN listed' = listed \ {t \in same : \A u \in same : u <= t}
  /\ UNCHANGED <<tables, clientV, req, recvV, job, target, fetchV, settled,
                 pairHist>>

ReadReq(s) ==
  /\ spc[s] = "read" /\ req[s] # <<>> /\ Goto(s, "check")
  /\ job' = [job EXCEPT ![s] = Head(req[s])]
  /\ req' = [req EXCEPT ![s] = Tail(@)]
  /\ UNCHANGED <<tables, clientV, recvV, target, listed, fetchV, settled,
                 pairHist>>

\* checkUserIsExist, checkReciverIsFriend; who fails gets an answer only. If the
\* rows do not reach the server (mysql_store_result is NULL), nobody fails.
Check(s) ==
  /\ spc[s] = "check" /\ (job[s].kind = "add" => UserFits(job[s].des))
  /\ LET m  == job[s]
         ok == IF m.kind = "add" THEN m.des \in Users
               ELSE <<m.src, m.des>> \in friends
     IN \/ ~ok /\ Goto(s, "read") /\ UNCHANGED faults
        \/ /\ IF ok THEN UNCHANGED faults ELSE Fault
           /\ Goto(s, IF m.kind \in {"one", "add"} THEN "search" ELSE "del1")
  /\ UNCHANGED <<tables, clientV, req, recvV, job, target, listed, fetchV,
                 settled, agreed, raced, refused>>

\* handle_error ends the server with all its threads: a query was cut short,
\* another call fails where a thread reads, asks or connects; or it ends for
\* another reason. It is started anew, with an empty list.
ServerDown(s) ==
  /\ \/ /\ spc[s] = "check" /\ job[s].kind = "add" /\ ~UserFits(job[s].des)
        /\ UNCHANGED faults
     \/ spc[s] \notin {"none", "over"} /\ Fault
  /\ spc' = [t \in Sessions |-> IF cpc[t] = "off" THEN "none" ELSE "over"]
  /\ listed' = {}
  /\ raced' = raced \cup {Pair(job[t]) : t \in {u \in Sessions : spc[u] = "del2"}}
  /\ UNCHANGED <<tables, clientV, req, recvV, job, target, fetchV, settled,
                 agreed, refused>>

\* searchName: the newest node of the name, or none; procAddFriendMsg has
\* nothing more to do then.
Search(s) ==
  /\ spc[s] = "search"
  /\ LET m    == job[s]
         same == {t \in listed : user[t] = m.des}
     IN \/ /\ same # {} /\ Goto(s, "write")
           /\ target' = [target EXCEPT ![s] =
                           CHOOSE t \in same : \A u \in same : u <= t]
        \/ /\ same = {} /\ UNCHANGED target
           /\ Goto(s, IF m.kind = "one" THEN "store" ELSE "read")
  /\ UNCHANGED <<tables, clientV, req, recvV, job, listed, fetchV, settled,
                 pairHist>>

\* write(pDestNode->sfd, ...): lost when that client is gone.
Write(s) ==
  /\ spc[s] = "write" /\ Goto(s, "read")
  /\ LET t == target[s] IN
       rbox' = IF cpc[t] = "gone" THEN rbox
               ELSE [rbox EXCEPT ![t] = Append(@, job[s])]
  /\ UNCHANGED <<tables, clientV, req, rpc, job, target, listed, fetchV,
                 settled, pairHist>>

\* insertUserMsg2Mysql; nobody is told when the text is not stored.
Store(s) ==
  /\ spc[s] = "store" /\ Goto(s, "read")
  /\ LET m == job[s] IN
     \/ /\ \E time \in 5..8 :
             IF MailFits(m, time)
             THEN /\ message' = message \cup {m}
                  /\ settled' = settled \cup
                                  (IF Clearing(m.des) THEN {} ELSE {m.id})
             ELSE UNCHANGED <<message, settled>>
        /\ UNCHANGED faults
     \/ Fault /\ UNCHANGED <<message, settled>>
  /\ UNCHANGED <<friends, clientV, req, recvV, job, target, listed, fetchV,
                 agreed, raced, refused>>

\* One delete of deleteFriendFromMysql, racing a friendship half inserted.
DeleteRow(a, b) ==
  /\ \/ friends' = friends \ {<<a, b>>} /\ UNCHANGED <<refused, faults>>
     \/ Refused({a, b})
  /\ raced' = raced \cup (IF HalfAdded({a, b}) THEN {{a, b}} ELSE {})

Delete1(s) ==
  /\ spc[s] = "del1" /\ Goto(s, "del2")
  /\ DeleteRow(job[s].src, job[s].des)
  /\ agreed' = agreed \ {Pair(job[s])}
  /\ UNCHANGED <<message, clientV, req, recvV, job, target, listed, fetchV,
                 settled>>

\* Mutant: the second statement repeats the first.
Delete2_SameRow(s) ==
  /\ spc[s] = "del2" /\ Goto(s, "read")
  /\ DeleteRow(job[s].src, job[s].des)
  /\ UNCHANGED <<message, clientV, req, recvV, job, target, listed, fetchV,
                 settled, agreed>>

Delete2(s) ==
  /\ spc[s] = "del2" /\ Goto(s, "read")
  /\ DeleteRow(job[s].des, job[s].src)
  /\ UNCHANGED <<message, clientV, req, recvV, job, target, listed, fetchV,
                 settled, agreed>>

-----------------------------------------------------------------------------
Main(s)   == Login(s) \/ Select(s) \/ Delete(s) \/ FetchFails(s)
             \/ BadInput(s) \/ Choose(s) \/ Leave(s)
Recv(s)   == RecvText(s) \/ Decline(s) \/ Agree(s) \/ Insert1(s) \/ Insert2(s)
Server(s) == Register(s) \/ Unregister(s) \/ ReadReq(s) \/ Check(s)
             \/ ServerDown(s) \/ Search(s) \/ Write(s) \/ Store(s)
             \/ Delete1(s) \/ Delete2(s)

Next == \E s \in Sessions : Main(s) \/ Recv(s) \/ Server(s)

Spec == Init /\ [][Next]_vars

\* A client that has started goes on by itself up to the menu.
FairSpec == Spec /\ \A s \in Sessions : WF_vars(Select(s) \/ Delete(s))

-----------------------------------------------------------------------------
(* Properties.                                                              *)

TypeOK ==
  /\ friends \subseteq Users \X Users /\ message \subseteq Msg
  /\ sent \in 0..MaxMsg
  /\ user \in [Sessions -> Users]
  /\ cpc \in [Sessions -> {"off", "select", "delete", "menu", "gone"}]
  /\ hasCheck \in [Sessions -> BOOLEAN]
  /\ req \in [Sessions -> Seq(Msg)]
  /\ rbox \in [Sessions -> Seq(Msg)]
  /\ rpc \in [Sessions -> {"read", "ins1", "ins2"}]
  /\ spc \in [Sessions -> {"none", "read", "check", "search", "write",
                           "store", "del1", "del2", "over"}]
  /\ job \in [Sessions -> Msg \cup {NoMsg}]
  /\ target \in [Sessions -> 0..MaxSess]
  /\ \A s \in Sessions :
       /\ spc[s] \notin {"none", "read", "over"} => job[s] # NoMsg
       /\ spc[s] = "write" => target[s] # 0
       /\ rpc[s] # "read" => rbox[s] # <<>>
  /\ listed \subseteq Sessions
  /\ shown \in [Sessions -> [MsgIds -> 0..2]]
  /\ settled \subseteq MsgIds
  /\ agreed \subseteq SUBSET Names /\ raced \subseteq SUBSET Names
  /\ refused \subseteq SUBSET Names
  /\ faults \in 0..MaxFault /\ unfetched \subseteq Sessions

Stored     == {m.id : m \in message}
Displayed(i) == \E s \in Sessions : shown[s][i] > 0

\* A text stored while no client of the receiver is between reading its texts
\* and deleting them is never lost, but where the rows that were read do not
\* reach the client: it stays in the table until it was shown, and however often
\* the menu fetches, one session shows it at most once, if its fetches do not
\* fail (getUserMsgFromMysql 340-374, dispatchClientRequest 203-227).
SettledMailKept ==
  /\ TypeOK
  /\ \A i \in settled : i \in Stored \/ Displayed(i)
  /\ \A s \in Sessions \ unfetched, i \in MsgIds : shown[s][i] <= 1

\* Pairs the code does not look after: two parties changed their rows at the
\* same time, or a process ended between the two statements, or the database
\* refused one of the two and nobody cared.
Spoilt == raced \cup refused

\* The two rows of any other friendship are there or gone together: no longer
\* than between two statements is there one of them (insertFriend2Mysql
\* 449-454, deleteFriendFromMysql 190-195).
FriendsMutual ==
  \A a, b \in Users :
    {a, b} \in Spoilt \/ HalfAdded({a, b}) \/ HalfDeleted({a, b})
    \/ (<<a, b>> \in friends <=> <<b, a>> \in friends)

\* A text stored outside a fetch is shown once a client of the receiver gets
\* to its menu, unless that client ends first, or it or another one of the
\* receiver fails to fetch (dispatchClientRequest 203-207).
MailShown ==
  \A s \in Sessions, i \in MsgIds :
    /\ cpc[s] = "select" /\ i \in settled
    /\ \E m \in message : m.id = i /\ m.des = user[s]
    ~> Displayed(i) \/ cpc[s] = "gone" \/ s \in unfetched \/ i \notin settled

\* Two users one of whom agreed to the request of the other are friends until
\* one of them deletes the other, unless the pair is spoilt. (The answer that
\* the user agreed is sent in any case, client_proc.c 32-41; a request between
\* names of more than 13 characters together is never recorded, for they do not
\* fit the statements, mysql.c 447-448.)
AgreedAreFriends ==
  \A a, b \in Users :
    a # b /\ NameLen[a] + NameLen[b] <= 13 /\ {a, b} \in agreed \ Spoilt
      => <<a, b>> \in friends
=============================================================================
