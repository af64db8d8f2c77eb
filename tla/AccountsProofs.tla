--------------------------- MODULE AccountsProofs ---------------------------
(***************************************************************************)
(* Proofs about Accounts, for any names, passwords, and numbers of clients *)
(* and bans.  A text is judged by the ban its sender has when it is sent,  *)
(* and by when the dialog was opened: so the invariant has to relate the   *)
(* two for every dialog that is open, whether a text follows or not.       *)
(***************************************************************************)
EXTENDS Accounts, TLAPS

\* Who is past the login has a row, and so a name.
LoggedIn ==
  \A s \in Sessions :
    cpc[s] \in {"menu"} \cup Dialogs => srcName[s] \in DOMAIN password

\* No dialog was opened, and no ban changed, later than now.
Clocks ==
  /\ \A s \in Sessions : opened[s] <= bans
  /\ \A n \in Names : since[n] <= bans

\* A dialog for texts belongs to a user whose name fits the query, and who was
\* banned after it was opened if at all.
DialogOpen(s) ==
  /\ SelectFits(srcName[s])
  /\ srcName[s] \in banned => opened[s] < since[srcName[s]]

DialogsOpen == \A s \in Sessions : cpc[s] \in Texts => DialogOpen(s)

TextsHold ==
  \A t \in texts : (t.banned => t.opened < t.since) /\ UpdateFits(t.src)

AccountsInv == TypeOK /\ LoggedIn /\ Clocks /\ DialogsOpen /\ TextsHold

-----------------------------------------------------------------------------
(* A name the query fits for, the update fits for too.                     *)

LEMMA FitsBoth ==
  ASSUME NEW n \in Names, SelectFits(n)
  PROVE  UpdateFits(n)
<1>1. NameLen[n] \in Nat
  BY AccountsConstants
<1> QED
  BY <1>1 DEF SelectFits, UpdateFits, Fits

-----------------------------------------------------------------------------
(* The steps.                                                              *)

LEMMA InitInv == Init => AccountsInv
<1> SUFFICES ASSUME Init PROVE AccountsInv
  OBVIOUS
<1> USE AccountsConstants DEF Init
<1>1. TypeOK
  BY DEF TypeOK
<1>2. LoggedIn /\ Clocks /\ DialogsOpen /\ TextsHold
  BY DEF LoggedIn, Clocks, DialogsOpen, TextsHold, Dialogs, Texts, Admins
<1> QED
  BY <1>1, <1>2 DEF AccountsInv

\* Steps that only move a session, to where no text is sent, or end it.
LEMMA MoveInv ==
  ASSUME AccountsInv, NEW s \in Sessions, NEW p,
         p \in {"choice", "reg", "login"}
           \/ /\ p \in {"menu"} \cup (Dialogs \ Texts)
              /\ cpc[s] \in {"menu"} \cup Dialogs,
         Goto(s, p), opened' = opened \/ opened' = [opened EXCEPT ![s] = 0],
         UNCHANGED <<table, srcName, bans, since, texts>>
  PROVE  AccountsInv'
<1> USE DEF AccountsInv, Goto, table
<1>1. opened' \in [Sessions -> 0..MaxBan] /\ \A r \in Sessions : opened'[r] <= bans
  BY AccountsConstants DEF TypeOK, Clocks
<1>2. TypeOK'
  BY <1>1 DEF TypeOK, Dialogs, Texts, Admins
<1>3. LoggedIn'
  BY DEF LoggedIn, TypeOK, Dialogs, Texts, Admins
<1>4. Clocks'
  BY <1>1 DEF Clocks
<1>5. DialogsOpen'
  <2> SUFFICES ASSUME NEW r \in Sessions, cpc'[r] \in Texts PROVE DialogOpen(r)'
    BY DEF DialogsOpen
  <2>1. r # s
    BY DEF TypeOK, Dialogs, Texts, Admins
  <2>2. cpc[r] \in Texts /\ opened'[r] = opened[r]
    BY <2>1 DEF TypeOK
  <2> QED
    BY <2>2 DEF DialogsOpen, DialogOpen, SelectFits
<1>6. TextsHold'
  BY DEF TextsHold, UpdateFits
<1> QED
  BY <1>2, <1>3, <1>4, <1>5, <1>6

LEMMA EndInv ==
  ASSUME AccountsInv, NEW s \in Sessions, End(s)
  PROVE  AccountsInv'
<1> USE DEF AccountsInv, End, Goto, table
<1>1. opened' \in [Sessions -> 0..MaxBan] /\ \A r \in Sessions : opened'[r] <= bans
  BY AccountsConstants DEF TypeOK, Clocks
<1>2. TypeOK'
  BY <1>1 DEF TypeOK
<1>3. LoggedIn' /\ Clocks'
  BY <1>1 DEF LoggedIn, Clocks, TypeOK, Dialogs, Texts, Admins
<1>4. DialogsOpen'
  <2> SUFFICES ASSUME NEW r \in Sessions, cpc'[r] \in Texts PROVE DialogOpen(r)'
    BY DEF DialogsOpen
  <2>1. r # s
    BY DEF TypeOK, Texts
  <2>2. cpc[r] \in Texts /\ opened'[r] = opened[r] /\ srcName'[r] = srcName[r]
    BY <2>1 DEF TypeOK
  <2> QED
    BY <2>2 DEF DialogsOpen, DialogOpen, SelectFits
<1>5. TextsHold'
  BY DEF TextsHold, UpdateFits
<1> QED
  BY <1>2, <1>3, <1>4, <1>5

\* A user who registers is not banned and opens no dialog yet.
LEMMA RegisterInv ==
  ASSUME AccountsInv, NEW s \in Sessions, Register(s)
  PROVE  AccountsInv'
<1>1. CASE End(s)
  BY <1>1, EndInv
<1>2. CASE ~End(s)
  <2> USE DEF AccountsInv, Goto, history
  <2>1. PICK n \in Names, p \in Pwds :
          /\ password' = [m \in DOMAIN password \cup {n} |->
                            IF m = n THEN p ELSE password[m]]
          /\ Goto(s, "login") /\ UNCHANGED <<banned, srcName, history>>
    BY <1>2 DEF Register
  <2>2. DOMAIN password' = DOMAIN password \cup {n}
    BY <2>1
  <2>3. TypeOK'
    BY <2>1, <2>2 DEF TypeOK
  <2>4. LoggedIn' /\ Clocks'
    BY <2>1, <2>2 DEF LoggedIn, Clocks, TypeOK, Dialogs, Texts, Admins
  <2>5. DialogsOpen'
    BY <2>1 DEF DialogsOpen, DialogOpen, SelectFits, TypeOK, Texts
  <2>6. TextsHold'
    BY <2>1 DEF TextsHold, UpdateFits
  <2> QED
    BY <2>3, <2>4, <2>5, <2>6
<1> QED
  BY <1>1, <1>2

LEMMA LoginInv ==
  ASSUME AccountsInv, NEW s \in Sessions, Login(s)
  PROVE  AccountsInv'
<1>1. CASE End(s)
  BY <1>1, EndInv
<1>2. CASE ~End(s)
  <2> USE DEF AccountsInv, Goto, history, table
  <2>1. PICK n \in DOMAIN password :
          /\ srcName' = [srcName EXCEPT ![s] = n] /\ Goto(s, "menu")
          /\ UNCHANGED <<table, history>>
    BY <1>2 DEF Login
  <2>2. TypeOK'
    BY <2>1 DEF TypeOK
  <2>3. LoggedIn' /\ Clocks'
    BY <2>1 DEF LoggedIn, Clocks, TypeOK
  <2>4. DialogsOpen'
    <3> SUFFICES ASSUME NEW r \in Sessions, cpc'[r] \in Texts
                 PROVE  DialogOpen(r)'
      BY DEF DialogsOpen
    <3>1. r # s
      BY <2>1 DEF TypeOK, Texts
    <3>2. cpc[r] \in Texts /\ srcName'[r] = srcName[r]
      BY <2>1, <3>1 DEF TypeOK
    <3> QED
      BY <2>1, <3>2 DEF DialogsOpen, DialogOpen, SelectFits
  <2>5. TextsHold'
    BY <2>1 DEF TextsHold, UpdateFits
  <2> QED
    BY <2>2, <2>3, <2>4, <2>5
<1> QED
  BY <1>1, <1>2

\* The dialog is opened for a user who is not banned, whatever IsBan makes of
\* the character behind the ban.
LEMMA ChooseTextInv ==
  ASSUME AccountsInv, NEW s \in Sessions, ChooseText(s)
  PROVE  AccountsInv'
<1>1. CASE End(s)
  BY <1>1, EndInv
<1>2. CASE ~End(s)
  <2>1. PICK d \in Texts, b \in IsBan(srcName[s]) :
          /\ Goto(s, IF b THEN "menu" ELSE d)
          /\ opened' = [opened EXCEPT ![s] = IF b THEN 0 ELSE bans]
    BY <1>2 DEF ChooseText
  <2>2. /\ cpc[s] = "menu" /\ SelectFits(srcName[s])
        /\ UNCHANGED <<table, srcName, bans, since, texts>>
    BY <1>2 DEF ChooseText
  <2>3. CASE b
    BY <2>1, <2>2, <2>3, MoveInv
  <2>4. CASE ~b
    <3> USE <2>1, <2>2, <2>4 DEF AccountsInv, Goto, table
    <3>1. srcName[s] \notin banned
      BY DEF IsBan
    <3>2. opened' = [opened EXCEPT ![s] = bans]
      OBVIOUS
    <3>3. opened' \in [Sessions -> 0..MaxBan]
          /\ \A r \in Sessions : opened'[r] <= bans
      BY <3>2 DEF TypeOK, Clocks
    <3>4. TypeOK'
      BY <3>3 DEF TypeOK, Dialogs
    <3>5. LoggedIn' /\ Clocks'
      BY <3>3 DEF LoggedIn, Clocks, TypeOK, Dialogs
    <3>6. DialogsOpen'
      <4> SUFFICES ASSUME NEW r \in Sessions, cpc'[r] \in Texts
                   PROVE  DialogOpen(r)'
        BY DEF DialogsOpen
      <4>1. CASE r = s
        BY <3>1, <4>1 DEF DialogOpen, SelectFits
      <4>2. CASE r # s
        <5>1. cpc[r] \in Texts /\ opened'[r] = opened[r]
          BY <3>2, <4>2 DEF TypeOK
        <5> QED
          BY <5>1 DEF DialogsOpen, DialogOpen, SelectFits
      <4> QED
        BY <4>1, <4>2
    <3>7. TextsHold'
      BY DEF TextsHold, UpdateFits
    <3> QED
      BY <3>4, <3>5, <3>6, <3>7
  <2> QED
    BY <2>3, <2>4
<1> QED
  BY <1>1, <1>2

LEMMA SendTextInv ==
  ASSUME AccountsInv, NEW s \in Sessions, SendText(s)
  PROVE  AccountsInv'
<1> USE DEF AccountsInv, SendText, table
<1>1. TypeOK' /\ LoggedIn' /\ Clocks'
  BY DEF TypeOK, LoggedIn, Clocks
<1>2. DialogsOpen'
  BY DEF DialogsOpen, DialogOpen, SelectFits
<1>3. srcName[s] \in Names /\ DialogOpen(s)
  BY DEF LoggedIn, DialogsOpen, TypeOK, Dialogs
<1>4. UpdateFits(srcName[s])
  BY <1>3, FitsBoth DEF DialogOpen
<1>5. TextsHold'
  <2> SUFFICES ASSUME NEW t \in texts'
               PROVE  (t.banned => t.opened < t.since) /\ UpdateFits(t.src)
    BY DEF TextsHold, UpdateFits
  <2>1. CASE t \in texts
    BY <2>1 DEF TextsHold
  <2>2. CASE t \notin texts
    <3>1. /\ t.src = srcName[s] /\ t.banned = (srcName[s] \in banned)
          /\ t.opened = opened[s] /\ t.since = since[srcName[s]]
      BY <2>2
    <3> QED
      BY <1>3, <1>4, <3>1 DEF DialogOpen
  <2> QED
    BY <2>1, <2>2
<1> QED
  BY <1>1, <1>2, <1>5

LEMMA CloseInv ==
  ASSUME AccountsInv, NEW s \in Sessions, NEW d \in Dialogs, Close(s, d)
  PROVE  AccountsInv'
  BY MoveInv DEF Close, history

\* A ban is later than every dialog that is open; a release changes nothing
\* for those who are not banned.
LEMMA BanOneInv ==
  ASSUME AccountsInv, NEW s \in Sessions, BanOne(s)
  PROVE  AccountsInv'
<1> USE DEF AccountsInv, Goto
<1>0. CASE Close(s, "ban")
  BY <1>0, CloseInv DEF Dialogs, Admins, Texts
<1> SUFFICES ASSUME ~Close(s, "ban") PROVE AccountsInv'
  BY <1>0
<1>1. PICK n \in Names, flag \in BOOLEAN :
        /\ banned' = IF flag THEN banned \cup ({n} \cap DOMAIN password)
                     ELSE banned \ {n}
        /\ since' = [since EXCEPT ![n] = bans + 1]
  BY DEF BanOne
<1>2. /\ cpc[s] = "ban" /\ bans < MaxBan /\ bans' = bans + 1
      /\ Goto(s, "done") /\ UNCHANGED <<password, srcName, opened, texts>>
  BY DEF BanOne
<1>3. bans' \in 0..MaxBan /\ since' \in [Names -> 0..MaxBan]
  BY <1>1, <1>2, AccountsConstants DEF TypeOK
<1>4. TypeOK'
  BY <1>1, <1>2, <1>3 DEF TypeOK, Dialogs
<1>5. LoggedIn' /\ Clocks'
  BY <1>1, <1>2 DEF LoggedIn, Clocks, TypeOK, Dialogs, Texts, Admins
<1>6. DialogsOpen'
  <2> SUFFICES ASSUME NEW r \in Sessions, cpc'[r] \in Texts PROVE DialogOpen(r)'
    BY DEF DialogsOpen
  <2>1. cpc[r] \in Texts /\ srcName[r] \in Names
    BY <1>2 DEF TypeOK, LoggedIn, Texts, Dialogs
  <2>2. DialogOpen(r) /\ opened[r] <= bans
    BY <2>1 DEF DialogsOpen, Clocks
  <2>3. CASE srcName[r] = n
    <3>1. since'[srcName[r]] = bans + 1
      BY <1>1, <2>3 DEF TypeOK
    <3> QED
      BY <1>2, <2>2, <3>1 DEF DialogOpen, SelectFits, TypeOK
  <2>4. CASE srcName[r] # n
    <3>1. /\ since'[srcName[r]] = since[srcName[r]]
          /\ srcName[r] \in banned' => srcName[r] \in banned
      BY <1>1, <2>1, <2>4 DEF TypeOK
    <3> QED
      BY <1>2, <2>2, <3>1 DEF DialogOpen, SelectFits
  <2> QED
    BY <2>3, <2>4
<1>7. TextsHold'
  BY <1>2 DEF TextsHold, UpdateFits
<1> QED
  BY <1>4, <1>5, <1>6, <1>7

LEMMA StepInv == AccountsInv /\ [Next]_vars => AccountsInv'
<1> SUFFICES ASSUME AccountsInv, [Next]_vars PROVE AccountsInv'
  OBVIOUS
<1>1. ASSUME NEW s \in Sessions, Session(s) PROVE AccountsInv'
  <2>1. CASE Start(s)
    BY <2>1, MoveInv DEF Start, history
  <2>2. CASE Choice(s)
    <3>1. CASE End(s)
      BY <3>1, EndInv
    <3>2. CASE ~End(s)
      <4>1. PICK p \in {"reg", "login"} : Goto(s, p)
        BY <2>2, <3>2 DEF Choice
      <4>2. UNCHANGED <<table, srcName, history>>
        BY <2>2, <3>2 DEF Choice
      <4> QED
        BY <4>1, <4>2, MoveInv DEF history
    <3> QED
      BY <3>1, <3>2
  <2>3. CASE Choose(s)
    <3>1. PICK d \in Dialogs \ Texts : Goto(s, d)
      BY <2>3 DEF Choose
    <3> QED
      BY <2>3, <3>1, MoveInv DEF Choose, history
  <2>4. CASE Leave(s)
    BY <2>4, EndInv DEF Leave
  <2>5. CASE Exit(s)
    BY <2>5, MoveInv DEF Exit, Dialogs
  <2>6. CASE GetUserList(s) \/ GetFriendList(s) \/ RequestFriend(s)
    BY <2>6, CloseInv
       DEF GetUserList, GetFriendList, RequestFriend, Dialogs, Admins
  <2> QED
    BY <1>1, <2>1, <2>2, <2>3, <2>4, <2>5, <2>6, RegisterInv, LoginInv, ChooseTextInv,
       SendTextInv, BanOneInv DEF Session
<1>2. CASE UNCHANGED vars
  BY <1>2 DEF vars, table, history, AccountsInv, TypeOK, LoggedIn, Clocks,
              DialogsOpen, DialogOpen, TextsHold, SelectFits, UpdateFits
<1> QED
  BY <1>1, <1>2 DEF Next

\* The ban holds, as BanHolds says, in every state the clients can reach.
THEOREM AccountsBan == Spec => []BanHolds
<1>1. AccountsInv => BanHolds
  BY DEF AccountsInv, BanHolds, TextsHold
<1> QED
  BY <1>1, InitInv, StepInv, PTL DEF Spec
=============================================================================
