--------------------------- MODULE MailboxProofs ---------------------------
(***************************************************************************)
(* Proofs about Mailbox, for any users, names, texts, and any number of    *)
(* sessions and messages.  Two statements make or undo a friendship: the   *)
(* invariant says what the rows are between the two, so that only a pair   *)
(* that is spoilt can be left with one.  A text is in one place at a       *)
(* time: so it is shown once by a session, and not lost when it is stored. *)
(***************************************************************************)
EXTENDS Mailbox, SequenceTheorems, WellFoundedInduction, TLAPS

\* What the server writes to a session is for its user; who is about to insert
\* has a request of another user before him.
Routed ==
  /\ \A s \in Sessions : \A k \in DOMAIN rbox[s] : rbox[s][k].des = user[s]
  /\ \A s \in Sessions :
       spc[s] = "write" => target[s] \in Sessions /\ user[target[s]] = job[s].des
  /\ \A s \in Sessions :
       rpc[s] # "read" => Head(rbox[s]).kind = "add" /\ Head(rbox[s]).src # user[s]

\* After the first insert the row is there, if it fits; after the first delete
\* it is not, and nobody has agreed since: or the pair is spoilt.
AddHalf ==
  \A s \in Sessions :
    LET m == Head(rbox[s]) IN
    rpc[s] = "ins2" /\ Pair(m) \notin Spoilt /\ FriendFits(m.src, user[s])
      => <<m.src, user[s]>> \in friends

DeleteHalf ==
  \A s \in Sessions :
    spc[s] = "del2" /\ Pair(job[s]) \notin Spoilt
      => <<job[s].src, job[s].des>> \notin friends /\ Pair(job[s]) \notin agreed

\* A pair whose rows do not fit stays as it is while it is half added.
Mutual ==
  \A a, b \in Users :
    \/ {a, b} \in Spoilt \/ HalfDeleted({a, b})
    \/ HalfAdded({a, b}) /\ FriendFits(a, b)
    \/ (<<a, b>> \in friends <=> <<b, a>> \in friends)

Agreed ==
  \A a, b \in Users :
    a # b /\ FriendFits(a, b) /\ {a, b} \in agreed \ Spoilt => <<a, b>> \in friends

PairInv == TypeOK /\ Routed /\ AddHalf /\ DeleteHalf /\ Mutual /\ Agreed

\* A text is in one place: what a client wrote (only the first message can be
\* a text), what a thread of the server handles, what was written to a client,
\* or the table.
TextFirst ==
  \A s \in Sessions : \A k \in DOMAIN req[s] : req[s][k].kind # "add" => k = 1

InReq(s, i) == req[s] # <<>> /\ req[s][1].kind = "one" /\ req[s][1].id = i
InJob(s, i) ==
  /\ spc[s] \in {"check", "search", "write", "store"}
  /\ job[s].kind = "one" /\ job[s].id = i
InBox(s, k, i) ==
  k \in DOMAIN rbox[s] /\ rbox[s][k].kind = "one" /\ rbox[s][k].id = i

AloneAt(i) ==
  \A s, t \in Sessions :
    /\ InReq(s, i) => (InReq(t, i) => s = t) /\ ~InJob(t, i) /\ i \notin Stored
    /\ InJob(s, i) => (InJob(t, i) => s = t) /\ i \notin Stored
    /\ \A k \in DOMAIN rbox[s] : InBox(s, k, i) =>
         /\ ~InReq(t, i) /\ ~InJob(t, i) /\ i \notin Stored
         /\ \A l \in DOMAIN rbox[t] : InBox(t, l, i) => s = t /\ k = l

Alone == \A i \in MsgIds : AloneAt(i)

OnItsWay(i) ==
  \E s \in Sessions :
    InReq(s, i) \/ InJob(s, i) \/ \E k \in DOMAIN rbox[s] : InBox(s, k, i)

\* Only texts are stored.
OnlyTexts == \A s \in Sessions : spc[s] = "store" => job[s].kind = "one"

OneRow == \A m, n \in message : m.id = n.id => m = n

\* A text on its way has not been shown, and ids are given out in order.
NotYetShown ==
  \A i \in MsgIds :
    /\ OnItsWay(i) => i <= sent /\ \A t \in Sessions : shown[t][i] = 0
    /\ i \in Stored \/ Displayed(i) => i <= sent

\* A row a session has shown is one of its user, and about to be deleted, if
\* its fetches do not fail.
ShownRows ==
  \A m \in message : \A s \in Sessions :
    shown[s][m.id] > 0 =>
      m.des = user[s] /\ (cpc[s] \in {"delete", "gone"} \/ s \in unfetched)

Once == \A s \in Sessions \ unfetched, i \in MsgIds : shown[s][i] <= 1

\* A settled text is not deleted before it was shown.
Safe ==
  \A i \in settled :
    Displayed(i) \/ \E m \in message : m.id = i /\ ~Clearing(m.des)

TextInv ==
  /\ TypeOK /\ Routed
  /\ TextFirst /\ OnlyTexts /\ Alone /\ OneRow /\ NotYetShown
  /\ ShownRows /\ Once /\ Safe

-----------------------------------------------------------------------------
(* Types.                                                                  *)

LEMMA Constants ==
  /\ MaxSess \in Nat \ {0} /\ MaxMsg \in Nat /\ MaxFault \in Nat /\ Kinds \subseteq AllKinds
  /\ Users \cap Strangers = {} /\ WordLens \subseteq 0..254
  /\ NameLen \in [Names -> 1..31] /\ InitFriends \subseteq Users \X Users
  /\ \A r \in InitFriends : <<r[2], r[1]>> \in InitFriends
BY MailboxConstants

LEMMA NoMsgIsNone == NoMsg \notin Msg
<1> SUFFICES ASSUME NoMsg \in Msg PROVE FALSE
  OBVIOUS
<1>1. NoMsg.id \in MsgIds
  BY DEF Msg
<1> QED
  BY <1>1, Constants DEF NoMsg, MsgIds

\* A queue and its head.
LEMMA Queue ==
  ASSUME NEW q \in Seq(Msg)
  PROVE  /\ Len(q) \in Nat /\ DOMAIN q = 1..Len(q)
         /\ \A k \in DOMAIN q : q[k] \in Msg
         /\ q # <<>> => /\ Head(q) \in Msg /\ Head(q) = q[1] /\ 1 \in DOMAIN q
                        /\ Tail(q) \in Seq(Msg) /\ Len(Tail(q)) = Len(q) - 1
                        /\ DOMAIN Tail(q) = 1..(Len(q) - 1)
                        /\ \A k \in DOMAIN Tail(q) : k + 1 \in DOMAIN q /\ Tail(q)[k] = q[k + 1]
         /\ \A m \in Msg :
              /\ Append(q, m) \in Seq(Msg) /\ Len(Append(q, m)) = Len(q) + 1
              /\ DOMAIN Append(q, m) = 1..(Len(q) + 1) /\ Append(q, m) # <<>>
              /\ \A k \in DOMAIN q : k \in DOMAIN Append(q, m) /\ Append(q, m)[k] = q[k]
              /\ Append(q, m)[Len(q) + 1] = m
<1>1. Len(q) \in Nat /\ DOMAIN q = 1..Len(q) /\ \A k \in DOMAIN q : q[k] \in Msg
  BY LenProperties, ElementOfSeq
<1>2. ASSUME q # <<>>
      PROVE  /\ Head(q) \in Msg /\ Head(q) = q[1] /\ 1 \in DOMAIN q
             /\ Tail(q) \in Seq(Msg) /\ Len(Tail(q)) = Len(q) - 1
             /\ DOMAIN Tail(q) = 1..(Len(q) - 1)
             /\ \A k \in DOMAIN Tail(q) : k + 1 \in DOMAIN q /\ Tail(q)[k] = q[k + 1]
  <2>1. /\ Head(q) \in Msg /\ Tail(q) \in Seq(Msg) /\ Len(Tail(q)) = Len(q) - 1
        /\ \A k \in 1..Len(Tail(q)) : Tail(q)[k] = q[k + 1]
    BY <1>2, HeadTailProperties
  <2>2. DOMAIN Tail(q) = 1..Len(Tail(q)) /\ Len(Tail(q)) \in Nat
    BY <2>1, LenProperties
  <2>3. Head(q) = q[1] /\ 1 \in DOMAIN q
    BY <1>1, <1>2, EmptySeq
  <2> QED
    BY <1>1, <2>1, <2>2, <2>3
<1>3. ASSUME NEW m \in Msg
      PROVE  /\ Append(q, m) \in Seq(Msg) /\ Len(Append(q, m)) = Len(q) + 1
             /\ DOMAIN Append(q, m) = 1..(Len(q) + 1) /\ Append(q, m) # <<>>
             /\ \A k \in DOMAIN q : k \in DOMAIN Append(q, m) /\ Append(q, m)[k] = q[k]
             /\ Append(q, m)[Len(q) + 1] = m
  BY <1>1
<1> QED
  BY <1>1, <1>2, <1>3

LEMMA InitTypes == Init => TypeOK
<1> SUFFICES ASSUME Init PROVE TypeOK
  OBVIOUS
<1> USE Constants DEF Init
<1>1. /\ friends \subseteq Users \X Users /\ message \subseteq Msg /\ sent \in 0..MaxMsg
      /\ settled \subseteq MsgIds /\ agreed \subseteq SUBSET Names
      /\ raced \subseteq SUBSET Names /\ listed \subseteq Sessions
      /\ refused \subseteq SUBSET Names /\ faults \in 0..MaxFault
      /\ unfetched \subseteq Sessions
  OBVIOUS
<1>2. /\ user \in [Sessions -> Users]
      /\ cpc \in [Sessions -> {"off", "select", "delete", "menu", "gone"}]
      /\ hasCheck \in [Sessions -> BOOLEAN]
      /\ rpc \in [Sessions -> {"read", "ins1", "ins2"}]
      /\ spc \in [Sessions -> {"none", "read", "check", "search", "write",
                               "store", "del1", "del2", "over"}]
      /\ job \in [Sessions -> Msg \cup {NoMsg}]
      /\ target \in [Sessions -> 0..MaxSess]
  OBVIOUS
<1>3. req \in [Sessions -> Seq(Msg)] /\ rbox \in [Sessions -> Seq(Msg)]
  OBVIOUS
<1>4. shown \in [Sessions -> [MsgIds -> 0..2]]
  OBVIOUS
<1>5. \A s \in Sessions : spc[s] = "none" /\ rpc[s] = "read"
  OBVIOUS
<1> QED
  BY <1>1, <1>2, <1>3, <1>4, <1>5 DEF TypeOK

LEMMA ShowType ==
  ASSUME TypeOK, NEW s \in Sessions, NEW ids
  PROVE  /\ Show(s, ids) \in [MsgIds -> 0..2]
         /\ [shown EXCEPT ![s] = Show(s, ids)] \in [Sessions -> [MsgIds -> 0..2]]
<1>1. Show(s, ids) \in [MsgIds -> 0..2]
  <2> SUFFICES ASSUME NEW i \in MsgIds
               PROVE  (IF i \in ids /\ shown[s][i] < 2 THEN shown[s][i] + 1
                       ELSE shown[s][i]) \in 0..2
    BY DEF Show
  <2>1. shown[s][i] \in 0..2
    BY DEF TypeOK
  <2> QED
    BY <2>1
<1> QED
  BY <1>1 DEF TypeOK

LEMMA FaultType == TypeOK /\ Fault => faults' \in 0..MaxFault
BY Constants DEF Fault, TypeOK

LEMMA MainTypes ==
  ASSUME TypeOK, NEW s \in Sessions, Main(s)
  PROVE  TypeOK'
<1> USE DEF tables, clientV, recvV, serverV, fetchV, pairHist
<1>1. CASE Login(s) \/ BadInput(s)
  BY <1>1 DEF TypeOK, Login, BadInput
<1>2. CASE Select(s)
  BY <1>2, ShowType DEF TypeOK, Select
<1>3. CASE Delete(s) \/ FetchFails(s)
  <2>1. CASE Delete(s)
    BY <2>1 DEF TypeOK, Delete
  <2>2. CASE FetchFails(s)
    <3>1. faults' \in 0..MaxFault /\ unfetched' \subseteq Sessions
      BY <2>2, FaultType DEF FetchFails, TypeOK
    <3> QED
      BY <2>2, <3>1 DEF TypeOK, FetchFails
  <2> QED
    BY <1>3, <2>1, <2>2
<1>4. CASE Choose(s)
  <2>1. PICK k \in Kinds, d \in Names, n \in WordLens :
          req' = [req EXCEPT ![s] = <<[id |-> sent + 1, kind |-> k,
                                       src |-> user[s], des |-> d, len |-> n]>>]
    BY <1>4 DEF Choose
  <2>2. sent + 1 \in MsgIds /\ sent + 1 \in 0..MaxMsg
    BY <1>4, Constants DEF Choose, TypeOK, MsgIds
  <2>3. [id |-> sent + 1, kind |-> k, src |-> user[s], des |-> d, len |-> n] \in Msg
    BY <2>2, Constants DEF Msg, TypeOK
  <2>4. req' \in [Sessions -> Seq(Msg)]
    BY <2>1, <2>3 DEF TypeOK
  <2>5. hasCheck' \in [Sessions -> BOOLEAN]
    BY <1>4 DEF Choose, TypeOK
  <2> QED
    BY <2>2, <2>4, <2>5, <1>4 DEF TypeOK, Choose
<1>5. CASE Leave(s)
  <2>1. rpc[s] = "ins2" => Head(rbox[s]) \in Msg
    BY Queue DEF TypeOK
  <2>2. rpc[s] = "ins2" => Pair(Head(rbox[s])) \in SUBSET Names
    BY <2>1 DEF Pair, Msg, Names
  <2>3. raced' \subseteq SUBSET Names
    BY <2>2, <1>5 DEF Leave, TypeOK
  <2>4. rbox' \in [Sessions -> Seq(Msg)] /\ cpc' \in [Sessions -> {"off", "select", "delete",
  "menu", "gone"}]
          /\ rpc' \in [Sessions -> {"read", "ins1", "ins2"}]
    BY <1>5 DEF Leave, TypeOK
  <2>5. \A t \in Sessions : rpc'[t] # "read" => rbox'[t] # <<>>
    BY <1>5 DEF Leave, TypeOK
  <2> QED
    BY <2>3, <2>4, <2>5, <1>5 DEF TypeOK, Leave
<1> QED
  BY <1>1, <1>2, <1>3, <1>4, <1>5 DEF Main

\* The request a receive thread handles, and its answer.
LEMMA RequestFacts ==
  ASSUME TypeOK, NEW s \in Sessions, rbox[s] # <<>>
  PROVE  LET m == Head(rbox[s]) IN
         /\ m \in Msg /\ m = rbox[s][1] /\ [m EXCEPT !.des = m.src] \in Msg
         /\ [m EXCEPT !.des = m.src].kind = m.kind /\ [m EXCEPT !.des = m.src].id = m.id
         /\ Received(s) => rbox' \in [Sessions -> Seq(Msg)]
         /\ Answer(s) => req' \in [Sessions -> Seq(Msg)]
         /\ Pair(m) \in SUBSET Names
<1> DEFINE m == Head(rbox[s])
<1>1. m \in Msg /\ m = rbox[s][1] /\ Tail(rbox[s]) \in Seq(Msg)
  BY Queue DEF TypeOK
<1>2. /\ [m EXCEPT !.des = m.src] \in Msg
      /\ [m EXCEPT !.des = m.src].kind = m.kind /\ [m EXCEPT !.des = m.src].id = m.id
  BY <1>1 DEF Msg, Names
<1>3. Pair(m) \in SUBSET Names
  BY <1>1 DEF Pair, Msg, Names
<1>4. Received(s) => rbox' \in [Sessions -> Seq(Msg)]
  BY <1>1 DEF Received, TypeOK
<1>5. Answer(s) => req' \in [Sessions -> Seq(Msg)]
  BY <1>2, Queue DEF Answer, TypeOK
<1> QED
  BY <1>1, <1>2, <1>3, <1>4, <1>5

LEMMA InsertType ==
  ASSUME TypeOK, NEW a \in Users, NEW b \in Users, InsertRow(a, b)
  PROVE  /\ friends' \subseteq Users \X Users /\ raced' \subseteq SUBSET Names
         /\ refused' \subseteq SUBSET Names /\ faults' \in 0..MaxFault
<1>1. /\ friends' \subseteq friends \cup {<<a, b>>} /\ raced' \subseteq raced \cup {{a, b}}
      /\ refused' \subseteq refused \cup {{a, b}} /\ (Fault \/ faults' = faults)
  BY DEF InsertRow, Refused
<1>2. {a, b} \in SUBSET Names /\ <<a, b>> \in Users \X Users
  BY DEF Names
<1>3. faults' \in 0..MaxFault
  BY <1>1, FaultType DEF TypeOK
<1> QED
  BY <1>1, <1>2, <1>3 DEF TypeOK

LEMMA RecvTypes ==
  ASSUME TypeOK, NEW s \in Sessions, Recv(s)
  PROVE  TypeOK'
<1> USE DEF tables, clientV, recvV, serverV, fetchV, pairHist
<1>1. CASE RecvText(s)
  <2>1. rbox' \in [Sessions -> Seq(Msg)]
    BY <1>1, RequestFacts DEF RecvText
  <2>2. shown' \in [Sessions -> [MsgIds -> 0..2]]
    <3>1. \/ shown' = [shown EXCEPT ![s] = Show(s, {Head(rbox[s]).id})]
          \/ shown' = shown
      BY <1>1 DEF RecvText
    <3>2. [shown EXCEPT ![s] = Show(s, {Head(rbox[s]).id})] \in [Sessions -> [MsgIds -> 0..2]]
      BY ShowType
    <3>3. shown \in [Sessions -> [MsgIds -> 0..2]]
      BY DEF TypeOK
    <3> QED
      BY <3>1, <3>2, <3>3
  <2>3. \A t \in Sessions : rpc'[t] # "read" => rbox'[t] # <<>>
    BY <1>1 DEF RecvText, Received, TypeOK
  <2> QED
    BY <2>1, <2>2, <2>3, <1>1 DEF RecvText, TypeOK
<1>2. CASE Decline(s)
  <2>1. rbox' \in [Sessions -> Seq(Msg)] /\ req' \in [Sessions -> Seq(Msg)]
    BY <1>2, RequestFacts DEF Decline
  <2>2. \A t \in Sessions : rpc'[t] # "read" => rbox'[t] # <<>>
    BY <1>2 DEF Decline, Received, TypeOK
  <2> QED
    BY <2>1, <2>2, <1>2 DEF Decline, TypeOK
<1>3. CASE Agree(s)
  BY <1>3 DEF TypeOK, Agree
<1>4. CASE Insert1(s)
  <2>1. Head(rbox[s]).src \in Users /\ user[s] \in Users
    BY <1>4, RequestFacts DEF Insert1, TypeOK, Msg
  <2>2. /\ friends' \subseteq Users \X Users /\ raced' \subseteq SUBSET Names
        /\ refused' \subseteq SUBSET Names /\ faults' \in 0..MaxFault
    BY <2>1, <1>4, InsertType DEF Insert1
  <2> QED
    BY <2>2, <1>4 DEF Insert1, TypeOK
<1>5. CASE Insert2(s)
  <2>1. Head(rbox[s]).src \in Users /\ user[s] \in Users /\ rbox[s] # <<>>
    BY <1>5, RequestFacts DEF Insert2, TypeOK, Msg
  <2>2. /\ friends' \subseteq Users \X Users /\ raced' \subseteq SUBSET Names
        /\ refused' \subseteq SUBSET Names /\ faults' \in 0..MaxFault
    BY <2>1, <1>5, InsertType DEF Insert2
  <2>3. /\ rbox' \in [Sessions -> Seq(Msg)] /\ req' \in [Sessions -> Seq(Msg)]
        /\ agreed' \subseteq SUBSET Names
    <3>1. Pair(Head(rbox[s])) \in SUBSET Names
      BY <2>1, RequestFacts
    <3>2. agreed' = agreed \cup {Pair(Head(rbox[s]))} /\ Received(s) /\ Answer(s)
      BY <1>5 DEF Insert2
    <3>3. agreed' \subseteq SUBSET Names
      BY <3>1, <3>2 DEF TypeOK
    <3> QED
      BY <2>1, <3>2, <3>3, RequestFacts
  <2>4. /\ rpc' \in [Sessions -> {"read", "ins1", "ins2"}]
        /\ \A t \in Sessions : rpc'[t] # "read" => rbox'[t] # <<>>
    BY <1>5 DEF Insert2, Received, TypeOK
  <2> QED
    BY <2>2, <2>3, <2>4, <1>5 DEF Insert2, TypeOK
<1> QED
  BY <1>1, <1>2, <1>3, <1>4, <1>5 DEF Recv

LEMMA JobType ==
  ASSUME TypeOK, NEW s \in Sessions, spc[s] \notin {"none", "read", "over"}
  PROVE  job[s] \in Msg
BY DEF TypeOK


\* The newest of some sessions is one of them.
LEMMA Newest ==
  ASSUME NEW S \in SUBSET Sessions, S # {}
  PROVE  (CHOOSE t \in S : \A u \in S : u <= t) \in S
<1> DEFINE R == {p \in Nat \X Nat : p[1] < p[2]}
           T == {MaxSess - t : t \in S}
<1>1. IsWellFoundedOn(R, Nat)
  BY NatLessThanWellFounded DEF OpToRel
<1>2. \A t \in S : t \in Nat /\ MaxSess - t \in Nat
  BY Constants DEF Sessions
<1>3. T \subseteq Nat /\ T # {}
  <2>1. PICK t \in S : TRUE
    OBVIOUS
  <2>2. MaxSess - t \in T
    OBVIOUS
  <2> QED
    BY <1>2, <2>2
<1>4. PICK x \in T : \A y \in T : ~(<<y, x>> \in R)
  <2> HIDE DEF R, T
  <2> QED
    BY <1>1, <1>3, WFMin
<1>5. PICK t \in S : x = MaxSess - t
  BY <1>4
<1>6. \A u \in S : u <= t
  <2> SUFFICES ASSUME NEW u \in S PROVE u <= t
    OBVIOUS
  <2>1. ~(MaxSess - u < MaxSess - t)
    BY <1>3, <1>4, <1>5
  <2>2. u \in Nat /\ t \in Nat /\ MaxSess \in Nat
    BY <1>2, Constants
  <2> QED
    BY <2>1, <2>2
<1> QED
  BY <1>6

LEMMA ServerTypes ==
  ASSUME TypeOK, NEW s \in Sessions, Server(s)
  PROVE  TypeOK'
<1> USE DEF tables, clientV, recvV, serverV, fetchV, pairHist, Goto
<1> DEFINE PCs == {"none", "read", "check", "search", "write", "store", "del1", "del2", "over"}
<1>1. CASE Register(s)
  BY <1>1 DEF TypeOK, Register
<1>2. CASE Unregister(s)
  <2>1. listed' \subseteq Sessions
    BY <1>2 DEF Unregister, TypeOK
  <2> QED
    BY <2>1, <1>2 DEF TypeOK, Unregister
<1>3. CASE ReadReq(s)
  <2>1. Head(req[s]) \in Msg /\ Tail(req[s]) \in Seq(Msg)
    BY <1>3, Queue DEF ReadReq, TypeOK
  <2>2. req' \in [Sessions -> Seq(Msg)] /\ job' \in [Sessions -> Msg \cup {NoMsg}]
    BY <2>1, <1>3 DEF ReadReq, TypeOK
  <2>3. \A t \in Sessions : spc'[t] \notin {"none", "read", "over"} => job'[t] # NoMsg
    BY <2>1, <1>3, NoMsgIsNone DEF ReadReq, TypeOK
  <2>4. spc' \in [Sessions -> PCs] /\ \A t \in Sessions : spc'[t] = "write" => spc[t] = "write"
    BY <1>3 DEF ReadReq, TypeOK
  <2> QED
    BY <2>2, <2>3, <2>4, <1>3 DEF TypeOK, ReadReq
<1>4. CASE Check(s)
  <2>1. \E p \in {"read", "search", "del1"} : spc' = [spc EXCEPT ![s] = p]
    BY <1>4 DEF Check
  <2>2. spc[s] = "check" /\ faults' \in 0..MaxFault
    BY <1>4, FaultType DEF Check, TypeOK
  <2> QED
    BY <2>1, <2>2, <1>4 DEF Check, TypeOK
<1>5. CASE Search(s)
  <2> DEFINE same == {t \in listed : user[t] = job[s].des}
  <2>1. /\ spc[s] = "search"
        /\ \/ /\ same # {} /\ spc' = [spc EXCEPT ![s] = "write"]
              /\ target' = [target EXCEPT ![s] =
                              CHOOSE t \in same : \A u \in same : u <= t]
           \/ target' = target /\ \E p \in {"store", "read"} : spc' = [spc EXCEPT ![s] = p]
    BY <1>5 DEF Search
  <2>2. same \in SUBSET Sessions
    BY DEF TypeOK
  <2> HIDE DEF same
  <2>3. same # {} => (CHOOSE t \in same : \A u \in same : u <= t) \in 1..MaxSess
    BY <2>2, Newest DEF Sessions
  <2>4. target' \in [Sessions -> 0..MaxSess]
          /\ \A t \in Sessions : spc'[t] = "write" => target'[t] # 0
    <3>1. \A t \in 1..MaxSess : t \in 0..MaxSess /\ t # 0
      BY Constants
    <3>2. CASE same # {}
      <4> DEFINE x == CHOOSE t \in same : \A u \in same : u <= t
      <4>1. x \in 0..MaxSess /\ x # 0
        BY <3>1, <3>2, <2>3
      <4> HIDE DEF x
      <4>2. \/ target' = [target EXCEPT ![s] = x] /\ spc' = [spc EXCEPT ![s] = "write"]
            \/ target' = target /\ \E p \in {"store", "read"} : spc' = [spc EXCEPT ![s] = p]
        BY <2>1 DEF x
      <4>3. target' \in [Sessions -> 0..MaxSess]
        BY <4>1, <4>2 DEF TypeOK
      <4>4. ASSUME NEW t \in Sessions, spc'[t] = "write" PROVE target'[t] # 0
        <5>1. CASE t = s /\ target' = [target EXCEPT ![s] = x]
          BY <5>1, <4>1 DEF TypeOK
        <5>2. CASE ~(t = s /\ target' = [target EXCEPT ![s] = x])
          BY <5>2, <4>2, <4>4 DEF TypeOK
        <5> QED
          BY <5>1, <5>2
      <4> QED
        BY <4>3, <4>4
    <3>3. CASE same = {}
      <4>1. target' = target /\ \E p \in {"store", "read"} : spc' = [spc EXCEPT ![s] = p]
        BY <2>1, <3>3
      <4> QED
        BY <4>1 DEF TypeOK
    <3> QED
      BY <3>2, <3>3
  <2>5. spc' \in [Sessions -> PCs]
          /\ \A t \in Sessions : spc'[t] \notin {"none", "read", "over"} => job[t] # NoMsg
    <3>1. /\ spc \in [Sessions -> PCs] /\ spc[s] = "search"
          /\ \A t \in Sessions : spc[t] \notin {"none", "read", "over"} => job[t] # NoMsg
          /\ \E p \in {"write", "store", "read"} : spc' = [spc EXCEPT ![s] = p]
      BY <2>1 DEF TypeOK
    <3> QED
      BY <3>1
  <2> QED
    BY <2>4, <2>5, <1>5 DEF TypeOK, Search
<1>6. CASE Write(s)
  <2>1. job[s] \in Msg
    BY <1>6, JobType DEF Write
  <2>2. rbox' \in [Sessions -> Seq(Msg)]
    BY <2>1, <1>6, Queue DEF Write, TypeOK
  <2>3. \A t \in Sessions : rbox[t] # <<>> => rbox'[t] # <<>>
    BY <2>1, <1>6, Queue DEF Write, TypeOK
  <2> QED
    BY <2>2, <2>3, <1>6 DEF TypeOK, Write
<1>7. CASE Store(s)
  <2>1. job[s] \in Msg /\ job[s].id \in MsgIds
    BY <1>7, JobType DEF Store, Msg
  <2>2. /\ message' = message \/ message' = message \cup {job[s]}
        /\ settled' \subseteq settled \cup {job[s].id}
        /\ faults' = faults \/ Fault
    BY <1>7 DEF Store
  <2>3. message' \subseteq Msg /\ settled' \subseteq MsgIds /\ faults' \in 0..MaxFault
    BY <2>1, <2>2, FaultType DEF TypeOK
  <2> QED
    BY <2>3, <1>7 DEF TypeOK, Store
<1>8. CASE Delete1(s) \/ Delete2(s)
  <2>1. job[s] \in Msg
    BY <1>8, JobType DEF Delete1, Delete2
  <2>2. {job[s].src, job[s].des} \in SUBSET Names
    BY <2>1 DEF Msg, Names
  <2>3. /\ friends' \subseteq friends /\ raced' \subseteq raced \cup {{job[s].src, job[s].des}}
        /\ agreed' \subseteq agreed /\ (Fault \/ faults' = faults)
        /\ refused' \subseteq refused \cup {{job[s].src, job[s].des}}
    <3>1. {job[s].des, job[s].src} = {job[s].src, job[s].des}
      OBVIOUS
    <3> QED
      BY <3>1, <1>8 DEF Delete1, Delete2, DeleteRow, Refused
  <2>4. /\ friends' \subseteq Users \X Users /\ raced' \subseteq SUBSET Names
        /\ agreed' \subseteq SUBSET Names /\ refused' \subseteq SUBSET Names
        /\ faults' \in 0..MaxFault
    BY <2>2, <2>3, FaultType DEF TypeOK
  <2>5. spc[s] \in {"del1", "del2"} /\ \E p \in {"del2", "read"} : spc' = [spc EXCEPT ![s] = p]
    BY <1>8 DEF Delete1, Delete2
  <2> QED
    BY <2>4, <2>5, <1>8 DEF TypeOK, Delete1, Delete2
<1>9. CASE ServerDown(s)
  <2>1. faults' \in 0..MaxFault
    BY <1>9, FaultType DEF ServerDown, TypeOK
  <2>2. ASSUME NEW t \in Sessions, spc[t] = "del2" PROVE Pair(job[t]) \in SUBSET Names
    BY <2>2, JobType DEF Pair, Msg, Names
  <2>3. raced' = raced \cup {Pair(job[t]) : t \in {u \in Sessions : spc[u] = "del2"}}
    BY <1>9 DEF ServerDown
  <2>4. raced' \subseteq SUBSET Names
    BY <2>2, <2>3 DEF TypeOK
  <2>5. /\ spc' \in [Sessions -> PCs] /\ listed' \subseteq Sessions
        /\ \A t \in Sessions : spc'[t] \in {"none", "over"}
    BY <1>9 DEF ServerDown
  <2> QED
    BY <2>1, <2>4, <2>5, <1>9 DEF TypeOK, ServerDown
<1> QED
  BY <1>1, <1>2, <1>3, <1>4, <1>5, <1>6, <1>7, <1>8, <1>9 DEF Server

LEMMA StepTypes == TypeOK /\ [Next]_vars => TypeOK'
<1>1. TypeOK /\ UNCHANGED vars => TypeOK'
  BY DEF TypeOK, vars, tables, clientV, recvV, serverV, fetchV, pairHist
<1> QED
  BY <1>1, MainTypes, RecvTypes, ServerTypes DEF Next

-----------------------------------------------------------------------------
(* Messages get to sessions of those they are for.                         *)

LEMMA UserKept == Next => user' = user
BY DEF Next, Main, Recv, Server, Login, Select, Delete, FetchFails, BadInput, Choose, Leave,
       RecvText, Decline, Agree, Insert1, Insert2, Register, Unregister, ReadReq,
       Check, ServerDown, Search, Write, Store, Delete1, Delete2, clientV

\* What a step does to what is written to a session, and to its request.
LEMMA BoxSteps ==
  ASSUME TypeOK, Next, NEW t \in Sessions
  PROVE  \/ rbox'[t] = rbox[t] /\ rpc'[t] = rpc[t]
         \/ rbox'[t] = <<>> /\ rpc'[t] = "read"
         \/ rbox[t] # <<>> /\ rbox'[t] = Tail(rbox[t]) /\ rpc'[t] = "read"
         \/ /\ \E u \in Sessions :
                 spc[u] = "write" /\ target[u] = t /\ rbox'[t] = Append(rbox[t], job[u])
            /\ rpc'[t] = rpc[t]
         \/ /\ rbox'[t] = rbox[t] /\ rpc[t] = "read" /\ rpc'[t] = "ins1"
            /\ Head(rbox[t]).kind = "add" /\ Head(rbox[t]).src # user[t]
         \/ rbox'[t] = rbox[t] /\ rpc[t] = "ins1" /\ rpc'[t] = "ins2"
<1> USE DEF clientV, recvV, serverV
<1>1. PICK s \in Sessions : Main(s) \/ Recv(s) \/ Server(s)
  BY DEF Next
<1>2. CASE Login(s) \/ Select(s) \/ Delete(s) \/ FetchFails(s) \/ BadInput(s) \/ Choose(s)
  BY <1>2 DEF Login, Select, Delete, FetchFails, BadInput, Choose
<1>3. CASE Leave(s)
  BY <1>3 DEF Leave, TypeOK
<1>4. CASE RecvText(s) \/ Decline(s)
  BY <1>4 DEF RecvText, Decline, Received, TypeOK
<1>5. CASE Agree(s) \/ Insert1(s)
  BY <1>5 DEF Agree, Insert1, TypeOK
<1>6. CASE Insert2(s)
  BY <1>6 DEF Insert2, Received, TypeOK
<1>7. CASE Register(s) \/ Unregister(s) \/ ReadReq(s) \/ Check(s) \/ ServerDown(s)
           \/ Search(s) \/ Store(s)
             \/ Delete1(s) \/ Delete2(s)
  BY <1>7 DEF Register, Unregister, ReadReq, Check, ServerDown, Search, Store, Delete1, Delete2
<1>8. CASE Write(s)
  BY <1>8 DEF Write, TypeOK
<1> QED
  BY <1>1, <1>2, <1>3, <1>4, <1>5, <1>6, <1>7, <1>8 DEF Main, Recv, Server

\* What a step does to the job of a thread.
LEMMA JobSteps ==
  ASSUME TypeOK, Next, NEW t \in Sessions
  PROVE  \/ UNCHANGED <<spc[t], job[t], target[t]>>
         \/ spc'[t] \in {"none", "read", "over"}
         \/ spc[t] = "read" /\ spc'[t] = "check" /\ req[t] # <<>> /\ job'[t] = Head(req[t])
         \/ /\ spc[t] = "check" /\ spc'[t] \in {"search", "del1"} /\ job'[t] = job[t]
            /\ spc'[t] = "search" => job[t].kind \in {"one", "add"}
         \/ /\ spc[t] = "search" /\ spc'[t] = "write" /\ job'[t] = job[t]
            /\ target'[t] \in Sessions /\ user[target'[t]] = job[t].des
         \/ spc[t] = "search" /\ spc'[t] = "store" /\ job'[t] = job[t] /\ job[t].kind = "one"
         \/ spc[t] = "del1" /\ spc'[t] = "del2" /\ job'[t] = job[t]
<1> USE DEF clientV, recvV, serverV, Goto
<1>1. PICK s \in Sessions : Main(s) \/ Recv(s) \/ Server(s)
  BY DEF Next
<1>2. CASE Main(s)
  BY <1>2 DEF Main, Login, Select, Delete, FetchFails, BadInput, Choose, Leave
<1>3. CASE Recv(s)
  BY <1>3 DEF Recv, RecvText, Decline, Agree, Insert1, Insert2
<1>4. CASE Register(s) \/ Unregister(s)
  BY <1>4 DEF Register, Unregister, TypeOK
<1>5. CASE ReadReq(s)
  BY <1>5 DEF ReadReq, TypeOK
<1>6. CASE Check(s)
  BY <1>6 DEF Check, TypeOK
<1>7. CASE Search(s)
  <2> DEFINE same == {u \in listed : user[u] = job[s].des}
             x == CHOOSE u \in same : \A v \in same : v <= u
  <2>1. same \in SUBSET Sessions /\ \A u \in same : user[u] = job[s].des
    BY DEF TypeOK
  <2>2. same # {} => x \in same
    <3> HIDE DEF same
    <3> QED
      BY <2>1, Newest
  <2>3. same # {} => x \in Sessions /\ user[x] = job[s].des
    <3> HIDE DEF same, x
    <3> QED
      BY <2>1, <2>2
  <2>4. /\ spc[s] = "search" /\ UNCHANGED job
        /\ \/ same # {} /\ spc' = [spc EXCEPT ![s] = "write"] /\ target' = [target EXCEPT ![s] = x]
           \/ /\ target' = target
              /\ \/ spc' = [spc EXCEPT ![s] = "store"] /\ job[s].kind = "one"
                 \/ spc' = [spc EXCEPT ![s] = "read"]
    BY <1>7 DEF Search
  <2> HIDE DEF same, x
  <2>5. CASE t # s
    BY <2>4, <2>5 DEF TypeOK
  <2>6. CASE t = s
    BY <2>3, <2>4, <2>6 DEF TypeOK
  <2> QED
    BY <2>5, <2>6
<1>8. CASE Write(s) \/ Store(s) \/ Delete2(s)
  BY <1>8 DEF Write, Store, Delete2, TypeOK
<1>9. CASE Delete1(s)
  BY <1>9 DEF Delete1, TypeOK
<1>10. CASE ServerDown(s)
  BY <1>10 DEF ServerDown
<1> QED
  BY <1>1, <1>2, <1>3, <1>4, <1>5, <1>6, <1>7, <1>8, <1>9, <1>10 DEF Server

LEMMA InitRouted == Init => Routed
BY DEF Init, Routed

LEMMA StepRouted == TypeOK /\ Routed /\ [Next]_vars => Routed'
<1> SUFFICES ASSUME TypeOK, Routed, [Next]_vars PROVE Routed'
  OBVIOUS
<1>1. CASE UNCHANGED vars
  BY <1>1 DEF Routed, vars, clientV, recvV, serverV
<1>2. CASE Next
  <2>1. user' = user
    BY <1>2, UserKept
  <2>2. ASSUME NEW t \in Sessions, NEW u \in Sessions, spc[u] = "write", target[u] = t
        PROVE  job[u] \in Msg /\ job[u].des = user[t]
    BY <2>2, JobType DEF Routed
  <2>3. ASSUME NEW t \in Sessions, NEW k \in DOMAIN rbox'[t]
        PROVE  rbox'[t][k].des = user[t]
    <3>1. rbox[t] \in Seq(Msg)
      BY DEF TypeOK
    <3>2. CASE rbox'[t] = rbox[t] \/ rbox'[t] = <<>>
      BY <3>2, <2>3 DEF Routed
    <3>3. CASE rbox[t] # <<>> /\ rbox'[t] = Tail(rbox[t])
      <4>1. k + 1 \in DOMAIN rbox[t] /\ rbox'[t][k] = rbox[t][k + 1]
        BY <3>1, <3>3, <2>3, Queue
      <4> QED
        BY <4>1 DEF Routed
    <3>4. ASSUME NEW u \in Sessions, spc[u] = "write", target[u] = t,
                 rbox'[t] = Append(rbox[t], job[u])
          PROVE  rbox'[t][k].des = user[t]
      <4>1. job[u] \in Msg /\ job[u].des = user[t]
        BY <3>4, <2>2
      <4>2. k \in DOMAIN rbox[t] \/ k = Len(rbox[t]) + 1
        BY <3>1, <3>4, <4>1, <2>3, Queue
      <4>3. \/ rbox'[t][k] = job[u]
            \/ k \in DOMAIN rbox[t] /\ rbox'[t][k] = rbox[t][k]
        BY <3>1, <3>4, <4>1, <4>2, Queue
      <4> QED
        BY <4>1, <4>3 DEF Routed
    <3> QED
      BY <1>2, <3>2, <3>3, <3>4, BoxSteps
  <2>4. ASSUME NEW t \in Sessions, spc'[t] = "write"
        PROVE  target'[t] \in Sessions /\ user[target'[t]] = job'[t].des
    BY <1>2, <2>4, JobSteps DEF Routed
  <2>5. ASSUME NEW t \in Sessions, rpc'[t] # "read"
        PROVE  Head(rbox'[t]).kind = "add" /\ Head(rbox'[t]).src # user[t]
    <3>1. rbox[t] \in Seq(Msg) /\ (rpc[t] # "read" => rbox[t] # <<>>)
      BY DEF TypeOK
    <3>2. CASE rbox'[t] = rbox[t]
      BY <1>2, <2>5, <3>2, BoxSteps DEF Routed
    <3>3. ASSUME rpc[t] # "read", NEW u \in Sessions, spc[u] = "write", target[u] = t,
                 rbox'[t] = Append(rbox[t], job[u])
          PROVE  Head(rbox'[t]) = Head(rbox[t])
      <4>1. job[u] \in Msg
        BY <3>3, <2>2
      <4>2. 1 \in DOMAIN rbox[t] /\ Head(rbox[t]) = rbox[t][1]
        BY <3>1, <3>3, Queue
      <4>3. rbox'[t][1] = rbox[t][1] /\ rbox'[t] \in Seq(Msg) /\ rbox'[t] # <<>>
        BY <3>1, <3>3, <4>1, <4>2, Queue
      <4> QED
        BY <4>2, <4>3, Queue
    <3> QED
      BY <1>2, <2>5, <3>2, <3>3, BoxSteps DEF Routed
  <2> QED
    BY <2>1, <2>3, <2>4, <2>5 DEF Routed
<1> QED
  BY <1>1, <1>2

-----------------------------------------------------------------------------
(* The rows of a pair.                                                     *)

LEMMA FitsBothWays ==
  ASSUME NEW a \in Users, NEW b \in Users
  PROVE  FriendFits(a, b) <=> FriendFits(b, a)
<1>1. NameLen[a] \in Int /\ NameLen[b] \in Int
  BY Constants DEF Names
<1> QED
  BY <1>1 DEF FriendFits, Fits

\* Whose request a session handles, and whose friendship a thread deletes.
LEMMA HalfFacts ==
  ASSUME PairInv, NEW s \in Sessions
  PROVE  /\ rpc[s] # "read" =>
              LET m == Head(rbox[s]) IN
              m.src \in Users /\ user[s] \in Users /\ Pair(m) = {m.src, user[s]}
                /\ m.src # user[s] /\ rbox[s] # <<>>
         /\ spc[s] \in {"del1", "del2"} =>
              job[s].src \in Users /\ Pair(job[s]) = {job[s].src, job[s].des}
<1>1. ASSUME rpc[s] # "read"
      PROVE  LET m == Head(rbox[s]) IN
             m.src \in Users /\ user[s] \in Users /\ Pair(m) = {m.src, user[s]}
               /\ m.src # user[s] /\ rbox[s] # <<>>
  <2>1. rbox[s] # <<>> /\ rbox[s] \in Seq(Msg) /\ user[s] \in Users
    BY <1>1 DEF PairInv, TypeOK
  <2>2. Head(rbox[s]) \in Msg /\ Head(rbox[s]) = rbox[s][1] /\ 1 \in DOMAIN rbox[s]
    BY <2>1, Queue
  <2>3. Head(rbox[s]).des = user[s] /\ Head(rbox[s]).src # user[s]
    BY <1>1, <2>2 DEF PairInv, Routed
  <2> QED
    BY <2>1, <2>2, <2>3 DEF Pair, Msg
<1>2. ASSUME spc[s] \in {"del1", "del2"}
      PROVE  job[s].src \in Users /\ Pair(job[s]) = {job[s].src, job[s].des}
  BY <1>2, JobType DEF PairInv, Pair, Msg
<1> QED
  BY <1>1, <1>2

LEMMA InitPairs == Init => AddHalf /\ DeleteHalf /\ Mutual /\ Agreed
<1> SUFFICES ASSUME Init PROVE Mutual
  BY DEF Init, AddHalf, DeleteHalf, Agreed
<1>1. \A a, b : <<a, b>> \in InitFriends => <<b, a>> \in InitFriends
  <2> SUFFICES ASSUME NEW a, NEW b, <<a, b>> \in InitFriends PROVE <<b, a>> \in InitFriends
    OBVIOUS
  <2> DEFINE r == <<a, b>>
  <2>1. <<r[2], r[1]>> \in InitFriends
    BY Constants
  <2> QED
    BY <2>1
<1> QED
  BY <1>1 DEF Init, Mutual

\* Steps that leave the rows, and what is half done, as they are.
LEMMA PairsKept ==
  ASSUME PairInv, UNCHANGED <<friends, agreed, user>>, Spoilt \subseteq Spoilt',
         \A t \in Sessions :
           /\ rpc'[t] = "ins2" => rpc[t] = "ins2" /\ Head(rbox'[t]) = Head(rbox[t])
           /\ rpc[t] = "ins2" => rpc'[t] = "ins2" \/ Pair(Head(rbox[t])) \in Spoilt'
           /\ spc'[t] = "del2" => spc[t] = "del2" /\ job'[t] = job[t]
           /\ spc[t] = "del2" => spc'[t] = "del2" \/ Pair(job[t]) \in Spoilt'
  PROVE  AddHalf' /\ DeleteHalf' /\ Mutual' /\ Agreed'
<1> USE DEF PairInv
<1>1. AddHalf'
  BY DEF AddHalf, Pair, FriendFits, Fits
<1>2. DeleteHalf'
  BY DEF DeleteHalf, Pair
<1>3. \A p : HalfAdded(p) => HalfAdded(p)' \/ p \in Spoilt'
  BY DEF HalfAdded, Pair
<1>4. \A p : HalfDeleted(p) => HalfDeleted(p)' \/ p \in Spoilt'
  BY DEF HalfDeleted, Pair
<1>5. Mutual'
  <2> SUFFICES ASSUME NEW x \in Users, NEW y \in Users, NEW q, q = {x, y},
                      q \notin Spoilt', ~HalfDeleted(q)', ~(HalfAdded(q)' /\ FriendFits(x, y))
               PROVE  <<x, y>> \in friends' <=> <<y, x>> \in friends'
    BY DEF Mutual, HalfAdded, HalfDeleted, Pair, FriendFits, Fits
  <2>1. q \notin Spoilt /\ ~HalfDeleted(q) /\ ~(HalfAdded(q) /\ FriendFits(x, y))
    BY <1>3, <1>4
  <2> QED
    BY <2>1 DEF Mutual
<1>6. Agreed'
  BY DEF Agreed, FriendFits, Fits
<1> QED
  BY <1>1, <1>2, <1>5, <1>6

\* A statement about a row of a pair, carried out or refused.
LEMMA InsertEffect ==
  ASSUME NEW a, NEW b, InsertRow(a, b)
  PROVE  /\ friends' \in {friends, friends \cup {<<a, b>>}}
         /\ {a, b} \notin Spoilt' =>
              friends' = IF FriendFits(a, b) THEN friends \cup {<<a, b>>} ELSE friends
         /\ Spoilt \subseteq Spoilt' /\ Spoilt' \subseteq Spoilt \cup {{a, b}}
         /\ HalfDeleted({a, b}) => {a, b} \in Spoilt'
BY DEF InsertRow, Refused, Spoilt

LEMMA DeleteEffect ==
  ASSUME NEW a, NEW b, DeleteRow(a, b)
  PROVE  /\ friends' \in {friends, friends \ {<<a, b>>}}
         /\ {a, b} \notin Spoilt' => friends' = friends \ {<<a, b>>}
         /\ Spoilt \subseteq Spoilt' /\ Spoilt' \subseteq Spoilt \cup {{a, b}}
         /\ HalfAdded({a, b}) => {a, b} \in Spoilt'
BY DEF DeleteRow, Refused, Spoilt

LEMMA Insert1Pairs ==
  ASSUME PairInv, NEW s \in Sessions, Insert1(s)
  PROVE  AddHalf' /\ DeleteHalf' /\ Mutual' /\ Agreed'
<1> USE DEF PairInv, clientV, serverV
<1>1. PICK a \in Users, b \in Users, p \in {Pair(Head(rbox[s]))} :
      /\ a = Head(rbox[s]).src /\ b = user[s] /\ p = Pair(Head(rbox[s]))
      /\ a # b /\ p = {a, b} /\ rpc[s] = "ins1"
      /\ UNCHANGED <<user, rbox, spc, job, agreed>> /\ rpc' = [rpc EXCEPT ![s] = "ins2"]
  BY HalfFacts DEF Insert1
<1>2. /\ friends' \in {friends, friends \cup {<<a, b>>}}
      /\ p \notin Spoilt' =>
           friends' = IF FriendFits(a, b) THEN friends \cup {<<a, b>>} ELSE friends
      /\ Spoilt \subseteq Spoilt' /\ Spoilt' \subseteq Spoilt \cup {p}
      /\ HalfDeleted(p) => p \in Spoilt'
  <2>1. InsertRow(a, b)
    BY <1>1 DEF Insert1
  <2>2. p = {a, b}
    BY <1>1
  <2> QED
    BY <2>1, <2>2, InsertEffect
<1>3. rpc'[s] = "ins2" /\ \A t \in Sessions : t # s => rpc'[t] = rpc[t]
  BY <1>1 DEF TypeOK
<1>4. \A q : HalfDeleted(q)' <=> HalfDeleted(q)
  BY <1>1 DEF HalfDeleted, Pair
<1>5. \A q : HalfAdded(q) => HalfAdded(q)'
  BY <1>1, <1>3 DEF HalfAdded, Pair
<1>6. HalfAdded(p)'
  BY <1>1, <1>3 DEF HalfAdded, Pair
<1>7. AddHalf'
  <2> SUFFICES ASSUME NEW t \in Sessions, rpc'[t] = "ins2", Pair(Head(rbox[t])) \notin Spoilt',
                      FriendFits(Head(rbox[t]).src, user[t])
               PROVE  <<Head(rbox[t]).src, user[t]>> \in friends'
    BY <1>1 DEF AddHalf, Pair, FriendFits, Fits
  <2>1. CASE t = s
    BY <2>1, <1>1, <1>2
  <2>2. CASE t # s
    BY <2>2, <1>2, <1>3 DEF AddHalf
  <2> QED
    BY <2>1, <2>2
<1>8. DeleteHalf'
  <2> SUFFICES ASSUME NEW t \in Sessions, spc[t] = "del2", Pair(job[t]) \notin Spoilt'
               PROVE  <<job[t].src, job[t].des>> \notin friends' /\ Pair(job[t]) \notin agreed
    BY <1>1 DEF DeleteHalf, Pair
  <2>1. <<job[t].src, job[t].des>> \notin friends /\ Pair(job[t]) \notin agreed
    BY <1>2 DEF DeleteHalf
  <2>2. Pair(job[t]) # p
    BY <1>2 DEF HalfDeleted
  <2>3. <<job[t].src, job[t].des>> # <<a, b>>
    BY <2>2, <1>1 DEF Pair
  <2> QED
    BY <2>1, <2>3, <1>2
<1>9. Mutual'
  <2> SUFFICES ASSUME NEW x \in Users, NEW y \in Users, NEW q, q = {x, y},
                      q \notin Spoilt', ~HalfDeleted(q), ~(HalfAdded(q)' /\ FriendFits(x, y))
               PROVE  <<x, y>> \in friends' <=> <<y, x>> \in friends'
    BY <1>1, <1>4 DEF Mutual, HalfAdded, HalfDeleted, Pair, FriendFits, Fits
  <2>1. <<x, y>> \in friends <=> <<y, x>> \in friends
    BY <1>2, <1>5 DEF Mutual
  <2>2. CASE {x, y} = p
    <3>1. ~FriendFits(x, y) /\ ((x = a /\ y = b) \/ (x = b /\ y = a))
      BY <2>2, <1>1, <1>6
    <3>2. ~FriendFits(a, b)
      BY <3>1, FitsBothWays
    <3> QED
      BY <3>2, <2>1, <2>2, <1>2
  <2>3. CASE {x, y} # p
    <3>1. <<x, y>> # <<a, b>> /\ <<y, x>> # <<a, b>>
      BY <2>3, <1>1
    <3> QED
      BY <3>1, <2>1, <1>2
  <2> QED
    BY <2>2, <2>3
<1>10. Agreed'
  BY <1>1, <1>2 DEF Agreed, FriendFits, Fits
<1> QED
  BY <1>7, <1>8, <1>9, <1>10

LEMMA Insert2Pairs ==
  ASSUME PairInv, NEW s \in Sessions, Insert2(s)
  PROVE  AddHalf' /\ DeleteHalf' /\ Mutual' /\ Agreed'
<1> USE DEF PairInv, clientV, serverV
<1>1. PICK a \in Users, b \in Users, p \in {Pair(Head(rbox[s]))} :
      /\ a = user[s] /\ b = Head(rbox[s]).src /\ p = Pair(Head(rbox[s]))
      /\ a # b /\ p = {a, b} /\ rpc[s] = "ins2"
      /\ UNCHANGED <<user, spc, job>> /\ rpc' = [rpc EXCEPT ![s] = "read"]
      /\ agreed' = agreed \cup {p}
      /\ \A t \in Sessions : t # s => rbox'[t] = rbox[t]
  <2>1. /\ rpc[s] = "ins2" /\ UNCHANGED <<user, spc, job>>
        /\ rpc' = [rpc EXCEPT ![s] = "read"]
        /\ agreed' = agreed \cup {Pair(Head(rbox[s]))}
        /\ rbox' = [rbox EXCEPT ![s] = Tail(rbox[s])]
    BY DEF Insert2, Received
  <2>2. /\ user[s] \in Users /\ Head(rbox[s]).src \in Users /\ user[s] # Head(rbox[s]).src
        /\ Pair(Head(rbox[s])) = {user[s], Head(rbox[s]).src}
    BY <2>1, HalfFacts
  <2>3. \A t \in Sessions : t # s => rbox'[t] = rbox[t]
    BY <2>1 DEF TypeOK
  <2> QED
    BY <2>1, <2>2, <2>3
<1>2. /\ friends' \in {friends, friends \cup {<<a, b>>}}
      /\ p \notin Spoilt' =>
           friends' = IF FriendFits(a, b) THEN friends \cup {<<a, b>>} ELSE friends
      /\ Spoilt \subseteq Spoilt' /\ Spoilt' \subseteq Spoilt \cup {p}
      /\ HalfDeleted(p) => p \in Spoilt'
  <2>1. InsertRow(a, b)
    BY <1>1 DEF Insert2
  <2>2. p = {a, b}
    BY <1>1
  <2> QED
    BY <2>1, <2>2, InsertEffect
<1>3. rpc'[s] = "read" /\ \A t \in Sessions : t # s => rpc'[t] = rpc[t]
  BY <1>1 DEF TypeOK
<1>4. p \notin Spoilt /\ FriendFits(a, b) => <<b, a>> \in friends
  BY <1>1, FitsBothWays DEF AddHalf
<1>5. \A q : HalfDeleted(q)' <=> HalfDeleted(q)
  BY <1>1 DEF HalfDeleted, Pair
<1>6. \A q : HalfAdded(q) /\ q # p => HalfAdded(q)'
  BY <1>1, <1>3 DEF HalfAdded, Pair
<1>7. AddHalf'
  <2> SUFFICES ASSUME NEW t \in Sessions, t # s, rpc[t] = "ins2",
                      Pair(Head(rbox[t])) \notin Spoilt',
                      FriendFits(Head(rbox[t]).src, user[t])
               PROVE  <<Head(rbox[t]).src, user[t]>> \in friends'
    BY <1>1, <1>3 DEF AddHalf, Pair, FriendFits, Fits
  <2> QED
    BY <1>2 DEF AddHalf
<1>8. DeleteHalf'
  <2> SUFFICES ASSUME NEW t \in Sessions, spc[t] = "del2", Pair(job[t]) \notin Spoilt'
               PROVE  <<job[t].src, job[t].des>> \notin friends' /\ Pair(job[t]) \notin agreed'
    BY <1>1 DEF DeleteHalf, Pair
  <2>1. <<job[t].src, job[t].des>> \notin friends /\ Pair(job[t]) \notin agreed
    BY <1>2 DEF DeleteHalf
  <2>2. Pair(job[t]) # p
    BY <1>2 DEF HalfDeleted
  <2>3. <<job[t].src, job[t].des>> # <<a, b>>
    BY <2>2, <1>1 DEF Pair
  <2> QED
    BY <2>1, <2>2, <2>3, <1>1, <1>2
<1>9. Mutual'
  <2> SUFFICES ASSUME NEW x \in Users, NEW y \in Users, NEW q, q = {x, y},
                      q \notin Spoilt', ~HalfDeleted(q), ~(HalfAdded(q)' /\ FriendFits(x, y))
               PROVE  <<x, y>> \in friends' <=> <<y, x>> \in friends'
    BY <1>1, <1>5 DEF Mutual, HalfAdded, HalfDeleted, Pair, FriendFits, Fits
  <2>1. CASE {x, y} = p
    <3>1. (x = a /\ y = b) \/ (x = b /\ y = a)
      BY <2>1, <1>1
    <3>2. CASE FriendFits(a, b)
      BY <2>1, <3>1, <3>2, <1>2, <1>4
    <3>3. CASE ~FriendFits(a, b)
      <4>1. ~FriendFits(x, y)
        BY <3>1, <3>3, FitsBothWays
      <4>2. <<x, y>> \in friends <=> <<y, x>> \in friends
        BY <4>1, <1>2 DEF Mutual
      <4> QED
        BY <4>2, <2>1, <3>3, <1>2
    <3> QED
      BY <3>2, <3>3
  <2>2. CASE {x, y} # p
    <3>1. <<x, y>> # <<a, b>> /\ <<y, x>> # <<a, b>>
      BY <2>2, <1>1
    <3>2. <<x, y>> \in friends <=> <<y, x>> \in friends
      BY <2>2, <1>2, <1>6 DEF Mutual
    <3> QED
      BY <3>1, <3>2, <1>2
  <2> QED
    BY <2>1, <2>2
<1>10. Agreed'
  <2> SUFFICES ASSUME NEW x \in Users, NEW y \in Users, x # y, FriendFits(x, y),
                      {x, y} \in agreed' \ Spoilt'
               PROVE  <<x, y>> \in friends'
    BY DEF Agreed, FriendFits, Fits
  <2>1. CASE {x, y} = p
    <3>1. (x = a /\ y = b) \/ (x = b /\ y = a)
      BY <2>1, <1>1
    <3>2. FriendFits(a, b) /\ p \notin Spoilt
      BY <2>1, <3>1, <1>2, FitsBothWays, <1>1
    <3> QED
      BY <2>1, <3>1, <3>2, <1>2, <1>4
  <2>2. CASE {x, y} # p
    BY <2>2, <1>1, <1>2 DEF Agreed
  <2> QED
    BY <2>1, <2>2
<1> QED
  BY <1>7, <1>8, <1>9, <1>10

\* The first delete takes the pair out of agreed, and races one half added.
LEMMA Delete1Pairs ==
  ASSUME PairInv, NEW s \in Sessions, Delete1(s)
  PROVE  AddHalf' /\ DeleteHalf' /\ Mutual' /\ Agreed'
<1> USE DEF PairInv, clientV, recvV
<1>1. PICK a, b, p :
      /\ a = job[s].src /\ b = job[s].des /\ p = {a, b} /\ p = Pair(job[s])
      /\ spc[s] = "del1" /\ spc' = [spc EXCEPT ![s] = "del2"]
      /\ UNCHANGED <<user, rbox, rpc, job>> /\ agreed' = agreed \ {p}
      /\ friends' \in {friends, friends \ {<<a, b>>}}
      /\ p \notin Spoilt' => friends' = friends \ {<<a, b>>}
      /\ Spoilt \subseteq Spoilt' /\ Spoilt' \subseteq Spoilt \cup {p}
      /\ HalfAdded(p) => p \in Spoilt'
  <2>1. /\ spc[s] = "del1" /\ spc' = [spc EXCEPT ![s] = "del2"]
        /\ UNCHANGED <<user, rbox, rpc, job>> /\ agreed' = agreed \ {Pair(job[s])}
        /\ DeleteRow(job[s].src, job[s].des)
    BY DEF Delete1, Goto
  <2>2. Pair(job[s]) = {job[s].src, job[s].des}
    BY DEF Pair
  <2> DEFINE a == job[s].src
             b == job[s].des
             p == {a, b}
  <2>3. DeleteRow(a, b)
    BY <2>1
  <2>4. /\ friends' \in {friends, friends \ {<<a, b>>}}
        /\ p \notin Spoilt' => friends' = friends \ {<<a, b>>}
        /\ Spoilt \subseteq Spoilt' /\ Spoilt' \subseteq Spoilt \cup {p}
        /\ HalfAdded(p) => p \in Spoilt'
    <3> HIDE DEF a, b
    <3> QED
      BY <2>3, DeleteEffect
  <2> QED
    BY <2>1, <2>2, <2>4
<1>2. spc'[s] = "del2" /\ \A t \in Sessions : t # s => spc'[t] = spc[t]
  BY <1>1 DEF TypeOK
<1>3. \A q : HalfAdded(q)' <=> HalfAdded(q)
  BY <1>1 DEF HalfAdded, Pair
<1>4. HalfDeleted(p)' /\ \A q : HalfDeleted(q) => HalfDeleted(q)'
  BY <1>1, <1>2 DEF HalfDeleted, Pair
<1>5. AddHalf'
  <2> SUFFICES ASSUME NEW t \in Sessions, rpc[t] = "ins2",
                      Pair(Head(rbox[t])) \notin Spoilt',
                      FriendFits(Head(rbox[t]).src, user[t])
               PROVE  <<Head(rbox[t]).src, user[t]>> \in friends'
    BY <1>1 DEF AddHalf, Pair, FriendFits, Fits
  <2>1. <<Head(rbox[t]).src, user[t]>> \in friends
    BY <1>1 DEF AddHalf
  <2>2. Pair(Head(rbox[t])) # p
    BY <1>1 DEF HalfAdded
  <2>3. Pair(Head(rbox[t])) = {Head(rbox[t]).src, user[t]}
    BY HalfFacts
  <2>4. <<Head(rbox[t]).src, user[t]>> # <<a, b>>
    BY <2>2, <2>3, <1>1
  <2> QED
    BY <2>1, <2>4, <1>1
<1>6. DeleteHalf'
  <2> SUFFICES ASSUME NEW t \in Sessions, spc'[t] = "del2", Pair(job[t]) \notin Spoilt'
               PROVE  <<job[t].src, job[t].des>> \notin friends' /\ Pair(job[t]) \notin agreed'
    BY <1>1 DEF DeleteHalf, Pair
  <2>1. CASE t = s
    BY <2>1, <1>1
  <2>2. CASE t # s
    BY <2>2, <1>1, <1>2 DEF DeleteHalf
  <2> QED
    BY <2>1, <2>2
<1>7. Mutual'
  <2> SUFFICES ASSUME NEW x \in Users, NEW y \in Users, NEW q, q = {x, y},
                      q \notin Spoilt', ~HalfDeleted(q)', ~(HalfAdded(q)' /\ FriendFits(x, y))
               PROVE  <<x, y>> \in friends' <=> <<y, x>> \in friends'
    BY DEF Mutual, HalfAdded, HalfDeleted, Pair, FriendFits, Fits
  <2>1. q # p /\ q \notin Spoilt /\ ~HalfDeleted(q) /\ ~(HalfAdded(q) /\ FriendFits(x, y))
    BY <1>1, <1>3, <1>4
  <2>2. <<x, y>> \in friends <=> <<y, x>> \in friends
    BY <2>1 DEF Mutual
  <2>3. <<x, y>> # <<a, b>> /\ <<y, x>> # <<a, b>>
    BY <2>1, <1>1
  <2> QED
    BY <2>2, <2>3, <1>1
<1>8. Agreed'
  <2> SUFFICES ASSUME NEW x \in Users, NEW y \in Users, x # y, FriendFits(x, y),
                      {x, y} \in agreed' \ Spoilt'
               PROVE  <<x, y>> \in friends'
    BY DEF Agreed, FriendFits, Fits
  <2>1. <<x, y>> \in friends
    BY <1>1 DEF Agreed
  <2>2. {x, y} # p
    BY <1>1
  <2>3. <<x, y>> # <<a, b>>
    BY <2>2, <1>1
  <2> QED
    BY <2>1, <2>3, <1>1
<1> QED
  BY <1>5, <1>6, <1>7, <1>8

\* After the second delete both rows are gone, unless the pair is spoilt.
LEMMA Delete2Pairs ==
  ASSUME PairInv, NEW s \in Sessions, Delete2(s)
  PROVE  AddHalf' /\ DeleteHalf' /\ Mutual' /\ Agreed'
<1> USE DEF PairInv, clientV, recvV
<1>1. PICK a, b, p :
      /\ a = job[s].src /\ b = job[s].des /\ p = {a, b} /\ p = Pair(job[s])
      /\ spc[s] = "del2" /\ spc' = [spc EXCEPT ![s] = "read"]
      /\ UNCHANGED <<user, rbox, rpc, job, agreed>>
      /\ friends' \in {friends, friends \ {<<b, a>>}}
      /\ p \notin Spoilt' => friends' = friends \ {<<b, a>>}
      /\ Spoilt \subseteq Spoilt' /\ Spoilt' \subseteq Spoilt \cup {p}
      /\ HalfAdded(p) => p \in Spoilt'
  <2>1. /\ spc[s] = "del2" /\ spc' = [spc EXCEPT ![s] = "read"]
        /\ UNCHANGED <<user, rbox, rpc, job, agreed>>
        /\ DeleteRow(job[s].des, job[s].src)
    BY DEF Delete2, Goto
  <2>2. /\ Pair(job[s]) = {job[s].src, job[s].des}
        /\ {job[s].src, job[s].des} = {job[s].des, job[s].src}
    BY DEF Pair
  <2> DEFINE a == job[s].src
             b == job[s].des
             p == {a, b}
  <2>3. DeleteRow(b, a)
    BY <2>1
  <2>4. /\ friends' \in {friends, friends \ {<<b, a>>}}
        /\ p \notin Spoilt' => friends' = friends \ {<<b, a>>}
        /\ Spoilt \subseteq Spoilt' /\ Spoilt' \subseteq Spoilt \cup {p}
        /\ HalfAdded(p) => p \in Spoilt'
    <3>1. p = {b, a}
      OBVIOUS
    <3> HIDE DEF a, b, p
    <3> QED
      BY <2>3, <3>1, DeleteEffect
  <2> QED
    BY <2>1, <2>2, <2>4
<1>2. spc'[s] = "read" /\ \A t \in Sessions : t # s => spc'[t] = spc[t]
  BY <1>1 DEF TypeOK
<1>3. \A q : HalfAdded(q)' <=> HalfAdded(q)
  BY <1>1 DEF HalfAdded, Pair
<1>4. \A q : HalfDeleted(q) /\ q # p => HalfDeleted(q)'
  BY <1>1, <1>2 DEF HalfDeleted, Pair
<1>5. p \notin Spoilt => <<a, b>> \notin friends /\ p \notin agreed
  BY <1>1 DEF DeleteHalf
<1>6. AddHalf'
  <2> SUFFICES ASSUME NEW t \in Sessions, rpc[t] = "ins2",
                      Pair(Head(rbox[t])) \notin Spoilt',
                      FriendFits(Head(rbox[t]).src, user[t])
               PROVE  <<Head(rbox[t]).src, user[t]>> \in friends'
    BY <1>1 DEF AddHalf, Pair, FriendFits, Fits
  <2>1. <<Head(rbox[t]).src, user[t]>> \in friends
    BY <1>1 DEF AddHalf
  <2>2. Pair(Head(rbox[t])) # p
    BY <1>1 DEF HalfAdded
  <2>3. Pair(Head(rbox[t])) = {Head(rbox[t]).src, user[t]}
    BY HalfFacts
  <2>4. <<Head(rbox[t]).src, user[t]>> # <<b, a>>
    BY <2>2, <2>3, <1>1
  <2> QED
    BY <2>1, <2>4, <1>1
<1>7. DeleteHalf'
  <2> SUFFICES ASSUME NEW t \in Sessions, spc'[t] = "del2", Pair(job[t]) \notin Spoilt'
               PROVE  <<job[t].src, job[t].des>> \notin friends' /\ Pair(job[t]) \notin agreed'
    BY <1>1 DEF DeleteHalf, Pair
  <2>1. t # s /\ spc[t] = "del2"
    BY <1>2
  <2> QED
    BY <2>1, <1>1 DEF DeleteHalf
<1>8. Mutual'
  <2> SUFFICES ASSUME NEW x \in Users, NEW y \in Users, NEW q, q = {x, y},
                      q \notin Spoilt', ~HalfDeleted(q)', ~(HalfAdded(q)' /\ FriendFits(x, y))
               PROVE  <<x, y>> \in friends' <=> <<y, x>> \in friends'
    BY DEF Mutual, HalfAdded, HalfDeleted, Pair, FriendFits, Fits
  <2>1. CASE q = p
    <3>1. (x = a /\ y = b) \/ (x = b /\ y = a)
      BY <2>1, <1>1
    <3>2. <<a, b>> \notin friends'
      BY <2>1, <1>1, <1>5
    <3>3. <<b, a>> \notin friends'
      BY <2>1, <1>1
    <3> QED
      BY <3>1, <3>2, <3>3
  <2>2. CASE q # p
    <3>1. q \notin Spoilt /\ ~HalfDeleted(q) /\ ~(HalfAdded(q) /\ FriendFits(x, y))
      BY <2>2, <1>1, <1>3, <1>4
    <3>2. <<x, y>> \in friends <=> <<y, x>> \in friends
      BY <3>1 DEF Mutual
    <3>3. <<x, y>> # <<b, a>> /\ <<y, x>> # <<b, a>>
      BY <2>2, <1>1
    <3> QED
      BY <3>2, <3>3, <1>1
  <2> QED
    BY <2>1, <2>2
<1>9. Agreed'
  <2> SUFFICES ASSUME NEW x \in Users, NEW y \in Users, x # y, FriendFits(x, y),
                      {x, y} \in agreed' \ Spoilt'
               PROVE  <<x, y>> \in friends'
    BY DEF Agreed, FriendFits, Fits
  <2>1. <<x, y>> \in friends
    BY <1>1 DEF Agreed
  <2>2. {x, y} # p
    BY <1>1, <1>5
  <2>3. <<x, y>> # <<b, a>>
    BY <2>2, <1>1
  <2> QED
    BY <2>1, <2>3, <1>1
<1> QED
  BY <1>6, <1>7, <1>8, <1>9

\* The request that is half recorded stays at the head, and the friendship that
\* is half deleted stays the job.
LEMMA OtherPairs ==
  ASSUME PairInv, NEW s \in Sessions,
         \/ Main(s) \/ RecvText(s) \/ Decline(s) \/ Agree(s)
         \/ Register(s) \/ Unregister(s) \/ ReadReq(s) \/ Check(s) \/ ServerDown(s) \/ Search(s)
         \/ Write(s) \/ Store(s)
  PROVE  AddHalf' /\ DeleteHalf' /\ Mutual' /\ Agreed'
<1> USE DEF PairInv, tables, clientV, recvV, serverV, pairHist
<1>1. UNCHANGED <<friends, agreed, user>> /\ Spoilt \subseteq Spoilt'
  <2>1. UNCHANGED <<friends, agreed, user>>
    BY DEF Main, Login, Select, Delete, FetchFails, BadInput, Choose, Leave, RecvText, Decline,
           Agree, Register, Unregister, ReadReq, Check, ServerDown, Search, Write, Store
  <2>2. raced \subseteq raced' /\ refused \subseteq refused'
    BY DEF Main, Login, Select, Delete, FetchFails, BadInput, Choose, Leave, RecvText, Decline,
           Agree, Register, Unregister, ReadReq, Check, ServerDown, Search, Write, Store
  <2> QED
    BY <2>1, <2>2 DEF Spoilt
<1>2. ASSUME NEW t \in Sessions
      PROVE  /\ spc'[t] = "del2" => spc[t] = "del2" /\ job'[t] = job[t]
             /\ spc[t] = "del2" => spc'[t] = "del2" \/ Pair(job[t]) \in Spoilt'
  <2>1. CASE ServerDown(s)
    <3>1. spc'[t] \in {"none", "over"}
      BY <2>1 DEF ServerDown
    <3>2. spc[t] = "del2" => Pair(job[t]) \in raced'
      BY <2>1 DEF ServerDown
    <3> QED
      BY <3>1, <3>2 DEF Spoilt
  <2>2. CASE ~ServerDown(s)
    <3>1. \/ Main(s) \/ RecvText(s) \/ Decline(s) \/ Agree(s)
          \/ Register(s) \/ Unregister(s) \/ ReadReq(s) \/ Check(s) \/ Search(s)
          \/ Write(s) \/ Store(s)
      BY <2>2
    <3>2. /\ spc'[t] = "del2" <=> spc[t] = "del2"
          /\ spc[t] = "del2" => job'[t] = job[t]
      BY <3>1 DEF Main, Login, Select, Delete, FetchFails, BadInput, Choose, Leave, RecvText,
             Decline, Agree, Register, Unregister, ReadReq, Check, Search, Write, Store,
             Goto, TypeOK
    <3> QED
      BY <3>2
  <2> QED
    BY <2>1, <2>2
<1>3. ASSUME NEW t \in Sessions
      PROVE  /\ rpc'[t] = "ins2" => rpc[t] = "ins2" /\ Head(rbox'[t]) = Head(rbox[t])
             /\ rpc[t] = "ins2" => rpc'[t] = "ins2" \/ Pair(Head(rbox[t])) \in Spoilt'
  <2>1. CASE Login(s) \/ Select(s) \/ Delete(s) \/ FetchFails(s) \/ BadInput(s) \/ Choose(s)
             \/ Register(s) \/ Unregister(s) \/ ReadReq(s) \/ Check(s) \/ ServerDown(s)
             \/ Search(s) \/ Store(s)
    <3>1. UNCHANGED <<rpc, rbox>>
      BY <2>1 DEF Login, Select, Delete, FetchFails, BadInput, Choose, Register, Unregister,
                  ReadReq, Check, ServerDown, Search, Store
    <3>2. rpc'[t] = rpc[t] /\ rbox'[t] = rbox[t]
      BY <3>1
    <3>3. Head(rbox'[t]) = Head(rbox[t])
      BY <3>2, Zenon
    <3> QED
      BY <3>2, <3>3, Zenon
  <2>2. CASE Leave(s)
    BY <2>2 DEF Leave, TypeOK, Spoilt
  <2>3. CASE RecvText(s) \/ Decline(s)
    BY <2>3 DEF RecvText, Decline, Received, TypeOK
  <2>4. CASE Agree(s)
    BY <2>4 DEF Agree, TypeOK
  <2>5. CASE Write(s)
    <3>1. rpc' = rpc /\ job[s] \in Msg /\ rbox[t] \in Seq(Msg)
             /\ (rpc[t] = "ins2" => rbox[t] # <<>>)
      BY <2>5, JobType DEF Write, TypeOK
    <3>2. rbox'[t] = rbox[t] \/ rbox'[t] = Append(rbox[t], job[s])
      BY <2>5 DEF Write, TypeOK
    <3>3. CASE rbox[t] # <<>> /\ rbox'[t] = Append(rbox[t], job[s])
      <4>1. 1 \in DOMAIN rbox[t] /\ Head(rbox[t]) = rbox[t][1]
        BY <3>1, <3>3, Queue
      <4>2. rbox'[t][1] = rbox[t][1] /\ rbox'[t] \in Seq(Msg) /\ rbox'[t] # <<>>
        BY <3>1, <3>3, <4>1, Queue
      <4>3. Head(rbox'[t]) = rbox'[t][1]
        BY <4>2, Queue
      <4> QED
        BY <3>1, <4>1, <4>2, <4>3
    <3> QED
      BY <3>1, <3>2, <3>3
  <2> QED
    BY <2>1, <2>2, <2>3, <2>4, <2>5 DEF Main
<1> QED
  BY <1>1, <1>2, <1>3, PairsKept

LEMMA InitPairInv == Init => PairInv
BY InitTypes, InitRouted, InitPairs DEF PairInv

LEMMA StepPairInv == PairInv /\ [Next]_vars => PairInv'
<1> SUFFICES ASSUME PairInv, [Next]_vars PROVE PairInv'
  OBVIOUS
<1>1. TypeOK' /\ Routed'
  BY StepTypes, StepRouted DEF PairInv
<1>2. AddHalf' /\ DeleteHalf' /\ Mutual' /\ Agreed'
  <2>1. CASE UNCHANGED vars
    BY <2>1, PairsKept DEF vars, tables, clientV, recvV, serverV, fetchV, pairHist, Spoilt
  <2>2. CASE Next
    <3>1. PICK s \in Sessions : Main(s) \/ Recv(s) \/ Server(s)
      BY <2>2 DEF Next
    <3>2. CASE Insert1(s)
      BY <3>2, Insert1Pairs
    <3>3. CASE Insert2(s)
      BY <3>3, Insert2Pairs
    <3>4. CASE Delete1(s)
      BY <3>4, Delete1Pairs
    <3>5. CASE Delete2(s)
      BY <3>5, Delete2Pairs
    <3> QED
      BY <3>1, <3>2, <3>3, <3>4, <3>5, OtherPairs DEF Recv, Server
  <2> QED
    BY <2>1, <2>2
<1> QED
  BY <1>1, <1>2 DEF PairInv

\* The tables, the sockets and the threads keep to what the code puts in them.
THEOREM MailboxTypes == Spec => []TypeOK
<1>1. TypeOK /\ [Next]_vars => TypeOK'
  BY StepTypes
<1> QED
  BY InitTypes, <1>1, PTL DEF Spec

\* insertFriend2Mysql and deleteFriendFromMysql: but for three ways to leave one
\* row (two parties change the rows of a pair at a time, a process ends between
\* the two statements, the database refuses one of them and only a line on the
\* screen says so), the two rows of a friendship are there or gone together, for
\* every number of users, sessions, messages and refused statements.
THEOREM FriendsStayMutual == Spec => []FriendsMutual
<1>1. PairInv => FriendsMutual
  BY DEF PairInv, Mutual, FriendsMutual
<1> QED
  BY InitPairInv, StepPairInv, <1>1, PTL DEF Spec

\* client_proc.c 32: a request that was agreed to and whose names fit the
\* statements is recorded until one of the two deletes the other, unless the
\* database refused one of its rows, two changed them at a time, or a process
\* ended between the two: no other interleaving of the handlers takes the
\* friendship away.
THEOREM AgreedStayFriends == Spec => []AgreedAreFriends
<1>1. PairInv => AgreedAreFriends
  <2> SUFFICES ASSUME PairInv, NEW a \in Users, NEW b \in Users,
                      a # b, NameLen[a] + NameLen[b] <= 13, {a, b} \in agreed \ Spoilt
               PROVE  <<a, b>> \in friends
    BY DEF AgreedAreFriends
  <2>1. NameLen[a] \in Int /\ NameLen[b] \in Int
    BY Constants DEF Names
  <2>2. FriendFits(a, b)
    BY <2>1 DEF FriendFits, Fits
  <2> QED
    BY <2>2 DEF PairInv, Agreed
<1> QED
  BY InitPairInv, StepPairInv, <1>1, PTL DEF Spec

-----------------------------------------------------------------------------
(* Where the texts are.                                                    *)

\* A step takes no text to a new place (it may shift those in a queue by one).
Shrinks(i) ==
  /\ \A t \in Sessions :
       /\ InReq(t, i)' => InReq(t, i)
       /\ InJob(t, i)' => InJob(t, i)
       /\ \E d \in {0, 1} : \A k \in Nat : InBox(t, k, i)' => InBox(t, k + d, i)
  /\ (i \in Stored)' => i \in Stored

\* The positions of a queue.
LEMMA BoxPositions ==
  ASSUME TypeOK, NEW t \in Sessions
  PROVE  /\ DOMAIN rbox[t] \subseteq Nat /\ Len(rbox[t]) \in Nat
         /\ DOMAIN rbox[t] = 1..Len(rbox[t])
         /\ DOMAIN req[t] = 1..Len(req[t]) /\ Len(req[t]) \in Nat
<1>1. rbox[t] \in Seq(Msg) /\ req[t] \in Seq(Msg)
  BY DEF TypeOK
<1> QED
  BY <1>1, Queue

\* The answer to a request is no text.
LEMMA AnswerPlaces ==
  ASSUME TypeOK, NEW s \in Sessions, NEW i, rbox[s] # <<>>, Head(rbox[s]).kind = "add",
         Answer(s), NEW t \in Sessions
  PROVE  InReq(t, i)' => InReq(t, i)
<1> DEFINE a == [Head(rbox[s]) EXCEPT !.des = Head(rbox[s]).src]
<1>1. a \in Msg /\ a.kind = "add"
  BY RequestFacts
<1>2. req' = [req EXCEPT ![s] = Append(req[s], a)]
  BY DEF Answer
<1> HIDE DEF a
<1>3. CASE t # s
  BY <1>2, <1>3 DEF InReq, TypeOK
<1>4. CASE t = s
  <2>1. req[s] \in Seq(Msg) /\ req'[s] = Append(req[s], a)
    BY <1>2 DEF TypeOK
  <2>2. CASE req[s] = <<>>
    <3>1. req'[s][1] = a
      BY <2>1, <2>2, <1>1
    <3> QED
      BY <3>1, <1>1, <1>4 DEF InReq
  <2>3. CASE req[s] # <<>>
    <3>1. 1 \in DOMAIN req[s]
      BY <2>1, <2>3, Queue
    <3>2. req'[s][1] = req[s][1]
      BY <2>1, <3>1, <1>1, Queue
    <3> QED
      BY <3>2, <2>3, <1>4 DEF InReq
  <2> QED
    BY <2>2, <2>3
<1> QED
  BY <1>3, <1>4

\* A message received leaves the queue.
LEMMA ReceivedPlaces ==
  ASSUME TypeOK, NEW s \in Sessions, NEW i, rbox[s] # <<>>, Received(s), NEW t \in Sessions
  PROVE  \E d \in {0, 1} : \A k \in Nat : InBox(t, k, i)' => InBox(t, k + d, i)
<1>1. CASE t # s
  <2>1. rbox'[t] = rbox[t]
    BY <1>1 DEF Received, TypeOK
  <2>2. \A k \in Nat : InBox(t, k, i)' => InBox(t, k + 0, i)
    BY <2>1 DEF InBox
  <2> QED
    BY <2>2
<1>2. CASE t = s
  <2>1. rbox[s] \in Seq(Msg) /\ rbox'[s] = Tail(rbox[s])
    BY DEF Received, TypeOK
  <2>2. \A k \in DOMAIN rbox'[s] : k + 1 \in DOMAIN rbox[s] /\ rbox'[s][k] = rbox[s][k + 1]
    BY <2>1, Queue
  <2>3. \A k \in Nat : InBox(t, k, i)' => InBox(t, k + 1, i)
    BY <2>2, <1>2 DEF InBox
  <2> QED
    BY <2>3
<1> QED
  BY <1>1, <1>2

LEMMA QuietPlaces ==
  ASSUME TypeOK, Routed, NEW s \in Sessions, NEW i,
         \/ Login(s) \/ Select(s) \/ Delete(s) \/ FetchFails(s) \/ BadInput(s) \/ Leave(s)
         \/ Recv(s)
         \/ Register(s) \/ Unregister(s) \/ Check(s) \/ ServerDown(s) \/ Search(s)
         \/ Delete1(s) \/ Delete2(s)
  PROVE  Shrinks(i) /\ sent' = sent /\ message' \subseteq message /\ settled' \subseteq settled
<1> USE DEF tables, clientV, recvV, serverV, fetchV, pairHist
<1>1. sent' = sent /\ message' \subseteq message /\ settled' \subseteq settled
  BY DEF Login, Select, Delete, FetchFails, BadInput, Leave, Recv, RecvText, Decline, Agree,
         Insert1,
         Insert2, Register, Unregister, Check, ServerDown, Search, Delete1, Delete2
<1>2. (i \in Stored)' => i \in Stored
  BY <1>1 DEF Stored
<1>3. ASSUME NEW t \in Sessions PROVE InReq(t, i)' => InReq(t, i)
  <2>1. CASE req' = req
    BY <2>1 DEF InReq
  <2>2. CASE Decline(s)
    BY <2>2, AnswerPlaces DEF Decline
  <2>3. CASE Insert2(s)
    <3>1. rbox[s] # <<>> /\ Head(rbox[s]).kind = "add" /\ Answer(s)
      BY <2>3 DEF Insert2, Routed, TypeOK
    <3> QED
      BY <3>1, AnswerPlaces
  <2>4. req' = req \/ Decline(s) \/ Insert2(s)
    BY DEF Login, Select, Delete, FetchFails, BadInput, Leave, Recv, RecvText, Agree, Insert1,
           Register, Unregister, Check, ServerDown, Search, Delete1, Delete2
  <2> QED
    BY <2>1, <2>2, <2>3, <2>4
<1>4. ASSUME NEW t \in Sessions PROVE InJob(t, i)' => InJob(t, i)
  <2>1. CASE spc' = spc /\ job' = job
    BY <2>1 DEF InJob
  <2>2. CASE Register(s) \/ Unregister(s) \/ Check(s) \/ ServerDown(s) \/ Search(s)
             \/ Delete1(s) \/ Delete2(s)
    BY <2>2 DEF Register, Unregister, Check, ServerDown, Search, Delete1, Delete2, Goto, InJob,
                TypeOK
  <2> QED
    BY <2>1, <2>2 DEF Login, Select, Delete, FetchFails, BadInput, Leave, Recv, RecvText,
                      Decline, Agree,
                      Insert1, Insert2
<1>5. ASSUME NEW t \in Sessions
      PROVE  \E d \in {0, 1} : \A k \in Nat : InBox(t, k, i)' => InBox(t, k + d, i)
  <2>1. CASE rbox' = rbox
    <3>1. \A k \in Nat : InBox(t, k, i)' => InBox(t, k + 0, i)
      BY <2>1 DEF InBox
    <3> QED
      BY <3>1
  <2>2. CASE rbox[s] # <<>> /\ Received(s)
    BY <2>2, ReceivedPlaces
  <2>3. CASE Leave(s)
    <3>1. rbox'[t] = <<>> \/ rbox'[t] = rbox[t]
      BY <2>3 DEF Leave, TypeOK
    <3>2. \A k \in Nat : InBox(t, k, i)' => InBox(t, k + 0, i)
      BY <3>1 DEF InBox
    <3> QED
      BY <3>2
  <2>4. rbox' = rbox \/ (rbox[s] # <<>> /\ Received(s)) \/ Leave(s)
    BY DEF Login, Select, Delete, FetchFails, BadInput, Recv, RecvText, Decline, Agree, Insert1,
           Insert2,
           Register, Unregister, Check, ServerDown, Search, Delete1, Delete2, TypeOK
  <2> QED
    BY <2>1, <2>2, <2>3, <2>4
<1> QED
  BY <1>1, <1>2, <1>3, <1>4, <1>5 DEF Shrinks

LEMMA ShrinksAlone ==
  ASSUME TypeOK, TypeOK', NEW i, AloneAt(i), Shrinks(i)
  PROVE  AloneAt(i)' /\ (OnItsWay(i)' => OnItsWay(i))
<1>1. \A t \in Sessions : DOMAIN rbox[t] \subseteq Nat
  BY BoxPositions
<1>2. \A t \in Sessions : DOMAIN rbox'[t] \subseteq Nat
  <2> SUFFICES ASSUME NEW t \in Sessions PROVE DOMAIN rbox'[t] \subseteq Nat
    OBVIOUS
  <2>1. rbox'[t] \in Seq(Msg)
    BY DEF TypeOK
  <2> QED
    BY <2>1, Queue
<1>3. \A t \in Sessions : \A k \in Nat : InBox(t, k, i) => k \in DOMAIN rbox[t]
  BY DEF InBox
<1>4. ASSUME NEW s \in Sessions, NEW k \in DOMAIN rbox'[s], InBox(s, k, i)'
      PROVE  \E l \in DOMAIN rbox[s] : InBox(s, l, i)
  <2>1. k \in Nat /\ \A d \in {0, 1} : k + d \in Nat
    BY <1>2
  <2>2. PICK d \in {0, 1} : InBox(s, k + d, i)
    BY <2>1, <1>4 DEF Shrinks
  <2> QED
    BY <2>1, <2>2, <1>3
<1>5. ASSUME NEW s \in Sessions, NEW t \in Sessions
      PROVE  /\ InReq(s, i)' => (InReq(t, i)' => s = t) /\ ~InJob(t, i)' /\ ~(i \in Stored)'
             /\ InJob(s, i)' => (InJob(t, i)' => s = t) /\ ~(i \in Stored)'
  BY DEF AloneAt, Shrinks
<1>6. ASSUME NEW s \in Sessions, NEW t \in Sessions, NEW k \in DOMAIN rbox'[s], InBox(s, k, i)'
      PROVE  /\ ~InReq(t, i)' /\ ~InJob(t, i)' /\ ~(i \in Stored)'
             /\ \A l \in DOMAIN rbox'[t] : InBox(t, l, i)' => s = t /\ k = l
  <2>1. PICK m \in DOMAIN rbox[s] : InBox(s, m, i)
    BY <1>4, <1>6
  <2>2. ~InReq(t, i)' /\ ~InJob(t, i)' /\ ~(i \in Stored)'
    BY <2>1 DEF AloneAt, Shrinks
  <2>3. ASSUME NEW l \in DOMAIN rbox'[t], InBox(t, l, i)' PROVE s = t /\ k = l
    <3>1. PICK n \in DOMAIN rbox[t] : InBox(t, n, i)
      BY <1>4, <2>3
    <3>2. s = t
      BY <2>1, <3>1 DEF AloneAt
    <3>3. PICK d \in {0, 1} : \A j \in Nat : InBox(s, j, i)' => InBox(s, j + d, i)
      BY DEF Shrinks
    <3>4. k \in Nat /\ l \in Nat /\ k + d \in Nat /\ l + d \in Nat
      BY <1>2
    <3>5. InBox(s, k + d, i) /\ InBox(s, l + d, i)
      BY <3>2, <3>3, <3>4, <1>6, <2>3
    <3>6. k + d = l + d
      BY <3>4, <3>5, <1>3 DEF AloneAt
    <3> QED
      BY <3>2, <3>4, <3>6
  <2> QED
    BY <2>2, <2>3
<1>7. AloneAt(i)'
  BY <1>5, <1>6 DEF AloneAt
<1>8. OnItsWay(i)' => OnItsWay(i)
  BY <1>4 DEF OnItsWay, Shrinks
<1> QED
  BY <1>7, <1>8

\* The four steps that take a text from one place to another.
LEMMA ChoosePlaces ==
  ASSUME TextInv, TypeOK', NEW s \in Sessions, Choose(s), NEW i \in MsgIds
  PROVE  AloneAt(i)' /\ (OnItsWay(i)' => OnItsWay(i) \/ i = sent + 1)
<1> USE DEF TextInv, recvV, serverV, tables
<1>1. PICK m :
        m.id = sent + 1 /\ req' = [req EXCEPT ![s] = <<m>>] /\ req[s] = <<>>
        /\ UNCHANGED <<message, rbox, spc, job>>
  <2>1. PICK k \in Kinds, d \in Names, n \in WordLens :
          req' = [req EXCEPT ![s] = <<[id |-> sent + 1, kind |-> k,
                                       src |-> user[s], des |-> d, len |-> n]>>]
    BY DEF Choose
  <2> DEFINE m == [id |-> sent + 1, kind |-> k, src |-> user[s], des |-> d, len |-> n]
  <2>2. m.id = sent + 1
    OBVIOUS
  <2> HIDE DEF m
  <2>3. req' = [req EXCEPT ![s] = <<m>>] /\ req[s] = <<>>
        /\ UNCHANGED <<message, rbox, spc, job>>
    BY <2>1 DEF Choose, m
  <2> QED
    BY <2>2, <2>3
<1>2. \A t \in Sessions : InReq(t, i)' => InReq(t, i) \/ (t = s /\ i = sent + 1)
  BY <1>1 DEF InReq, TypeOK
<1>3. \A t \in Sessions : InJob(t, i)' <=> InJob(t, i)
  BY <1>1 DEF InJob
<1>4. \A t \in Sessions, k \in Nat : InBox(t, k, i)' => InBox(t, k + 0, i)
  BY <1>1 DEF InBox
<1>5. (i \in Stored)' <=> i \in Stored
  BY <1>1 DEF Stored
<1>6. CASE i # sent + 1
  <2>1. Shrinks(i)
    BY <1>2, <1>3, <1>4, <1>5, <1>6 DEF Shrinks
  <2> QED
    BY <2>1, ShrinksAlone DEF Alone
<1>7. CASE i = sent + 1
  <2>1. ~(i <= sent)
    BY <1>7 DEF TypeOK
  <2>2. ~OnItsWay(i) /\ i \notin Stored
    BY <2>1 DEF NotYetShown
  <2>3. \A t \in Sessions :
          /\ InReq(t, i)' => t = s
          /\ ~InJob(t, i)'
          /\ \A k \in DOMAIN rbox'[t] : ~InBox(t, k, i)'
    BY <1>1, <1>2, <1>3, <2>2 DEF OnItsWay, InBox
  <2>4. AloneAt(i)'
    BY <2>2, <2>3, <1>5 DEF AloneAt
  <2> QED
    BY <2>4, <1>7
<1> QED
  BY <1>6, <1>7

LEMMA ReadReqPlaces ==
  ASSUME TextInv, TypeOK', NEW s \in Sessions, ReadReq(s), NEW i \in MsgIds
  PROVE  AloneAt(i)' /\ (OnItsWay(i)' => OnItsWay(i))
<1> USE DEF TextInv, recvV, tables
<1>1. /\ req[s] \in Seq(Msg) /\ req[s] # <<>> /\ spc[s] = "read"
      /\ req' = [req EXCEPT ![s] = Tail(req[s])]
      /\ job' = [job EXCEPT ![s] = Head(req[s])] /\ spc' = [spc EXCEPT ![s] = "check"]
      /\ UNCHANGED <<message, rbox>>
  BY DEF ReadReq, Goto, TypeOK
<1>2. /\ Head(req[s]) = req[s][1] /\ Head(req[s]) \in Msg
      /\ \A k \in DOMAIN Tail(req[s]) : k + 1 \in DOMAIN req[s] /\ Tail(req[s])[k] = req[s][k + 1]
      /\ Tail(req[s]) # <<>> => 1 \in DOMAIN Tail(req[s])
  BY <1>1, Queue
<1>3. ~InReq(s, i)'
  <2> SUFFICES ASSUME Tail(req[s]) # <<>> PROVE Tail(req[s])[1].kind # "one"
    BY <1>1 DEF InReq, TypeOK
  <2>1. Tail(req[s])[1] = req[s][2] /\ 2 \in DOMAIN req[s]
    BY <1>2
  <2> QED
    BY <2>1 DEF TextFirst
<1>4. \A t \in Sessions : InReq(t, i)' => t # s /\ InReq(t, i)
  BY <1>1, <1>3 DEF InReq, TypeOK
<1>5. \A t \in Sessions : InJob(t, i)' => IF t = s THEN InReq(s, i) ELSE InJob(t, i)
  BY <1>1, <1>2 DEF InReq, InJob, TypeOK
<1>6. \A t \in Sessions, k \in Nat : InBox(t, k, i)' => InBox(t, k + 0, i)
  BY <1>1 DEF InBox
<1>7. (i \in Stored)' <=> i \in Stored
  BY <1>1 DEF Stored
<1>8. CASE ~InReq(s, i)
  <2>1. Shrinks(i)
    BY <1>4, <1>5, <1>6, <1>7, <1>8 DEF Shrinks
  <2> QED
    BY <2>1, ShrinksAlone DEF Alone
<1>9. CASE InReq(s, i)
  <2>1. \A t \in Sessions :
          /\ ~InReq(t, i)'
          /\ InJob(t, i)' => t = s
          /\ \A k \in DOMAIN rbox[t] : ~InBox(t, k, i)
    BY <1>4, <1>5, <1>9 DEF Alone, AloneAt
  <2>2. \A t \in Sessions : \A k \in DOMAIN rbox'[t] : ~InBox(t, k, i)'
    BY <1>1, <2>1 DEF InBox
  <2>3. ~(i \in Stored)'
    BY <1>7, <1>9 DEF Alone, AloneAt
  <2>4. AloneAt(i)'
    BY <2>1, <2>2, <2>3 DEF AloneAt
  <2>5. OnItsWay(i)
    BY <1>9 DEF OnItsWay
  <2> QED
    BY <2>4, <2>5
<1> QED
  BY <1>8, <1>9

LEMMA WritePlaces ==
  ASSUME TextInv, TypeOK', NEW s \in Sessions, Write(s), NEW i \in MsgIds
  PROVE  AloneAt(i)' /\ (OnItsWay(i)' => OnItsWay(i))
<1> USE DEF TextInv, tables
<1>1. /\ spc[s] = "write" /\ spc' = [spc EXCEPT ![s] = "read"] /\ job[s] \in Msg
      /\ UNCHANGED <<message, req, job>>
  BY JobType DEF Write, Goto
<1>2. target[s] \in Sessions
  BY <1>1 DEF Routed
<1>3. PICK u \in Sessions : u = target[s]
  BY <1>2
<1>4. \A t \in Sessions :
        \/ rbox'[t] = rbox[t]
        \/ t = u /\ rbox'[t] = Append(rbox[t], job[s])
  BY <1>3 DEF Write, TypeOK
<1>5. ASSUME NEW t \in Sessions, NEW k \in Nat, InBox(t, k, i)'
      PROVE  InBox(t, k, i) \/ (t = u /\ k = Len(rbox[t]) + 1 /\ InJob(s, i))
  <2>1. CASE rbox'[t] = rbox[t]
    BY <2>1, <1>5 DEF InBox
  <2>2. CASE t = u /\ rbox'[t] = Append(rbox[t], job[s])
    <3>1. rbox[t] \in Seq(Msg)
      BY DEF TypeOK
    <3>2. k \in DOMAIN rbox[t] \/ k = Len(rbox[t]) + 1
      BY <2>2, <3>1, <1>1, <1>5, Queue DEF InBox
    <3>3. CASE k \in DOMAIN rbox[t]
      <4>1. rbox'[t][k] = rbox[t][k]
        BY <2>2, <3>1, <3>3, <1>1, Queue
      <4> QED
        BY <4>1, <3>3, <1>5 DEF InBox
    <3>4. CASE k = Len(rbox[t]) + 1
      <4>1. rbox'[t][k] = job[s]
        BY <2>2, <3>1, <3>4, <1>1, Queue
      <4> QED
        BY <4>1, <3>4, <2>2, <1>1, <1>5 DEF InBox, InJob
    <3> QED
      BY <3>2, <3>3, <3>4
  <2> QED
    BY <2>1, <2>2, <1>4
<1>6. \A t \in Sessions : (InReq(t, i)' <=> InReq(t, i)) /\ (InJob(t, i)' => t # s /\ InJob(t, i))
  BY <1>1 DEF InReq, InJob, TypeOK
<1>7. (i \in Stored)' <=> i \in Stored
  BY <1>1 DEF Stored
<1>8. CASE ~InJob(s, i)
  <2>1. \A t \in Sessions, k \in Nat : InBox(t, k, i)' => InBox(t, k + 0, i)
    BY <1>5, <1>8
  <2>2. Shrinks(i)
    BY <1>6, <1>7, <2>1 DEF Shrinks
  <2> QED
    BY <2>2, ShrinksAlone DEF Alone
<1>9. CASE InJob(s, i)
  <2>1. ~(i \in Stored)' /\ \A t \in Sessions : ~InReq(t, i)' /\ ~InJob(t, i)'
    BY <1>6, <1>7, <1>9 DEF Alone, AloneAt
  <2>2. \A t \in Sessions : \A k \in DOMAIN rbox[t] : ~InBox(t, k, i)
    BY <1>9 DEF Alone, AloneAt
  <2>3. ASSUME NEW t \in Sessions, NEW k \in DOMAIN rbox'[t], InBox(t, k, i)'
        PROVE  t = u /\ k = Len(rbox[u]) + 1
    <3>1. k \in Nat
      <4>1. rbox'[t] \in Seq(Msg)
        BY DEF TypeOK
      <4>2. DOMAIN rbox'[t] = 1..Len(rbox'[t]) /\ Len(rbox'[t]) \in Nat
        BY <4>1, Queue
      <4> QED
        BY <4>2
    <3>2. ~InBox(t, k, i)
      BY <2>2 DEF InBox
    <3> QED
      BY <1>5, <2>3, <3>1, <3>2
  <2>4. AloneAt(i)'
    BY <2>1, <2>3 DEF AloneAt
  <2>5. OnItsWay(i)
    BY <1>9 DEF OnItsWay
  <2> QED
    BY <2>4, <2>5
<1> QED
  BY <1>8, <1>9

LEMMA StorePlaces ==
  ASSUME TextInv, TypeOK', NEW s \in Sessions, Store(s), NEW i \in MsgIds
  PROVE  AloneAt(i)' /\ (OnItsWay(i)' => OnItsWay(i))
<1> USE DEF TextInv, recvV
<1>1. /\ spc[s] = "store" /\ spc' = [spc EXCEPT ![s] = "read"] /\ job[s].kind = "one"
      /\ message' \subseteq message \cup {job[s]} /\ UNCHANGED <<req, rbox, job>>
  BY DEF Store, Goto, OnlyTexts
<1>2. \A t \in Sessions : (InReq(t, i)' <=> InReq(t, i)) /\ (InJob(t, i)' => t # s /\ InJob(t, i))
  BY <1>1 DEF InReq, InJob, TypeOK
<1>3. \A t \in Sessions, k \in Nat : InBox(t, k, i)' => InBox(t, k + 0, i)
  BY <1>1 DEF InBox
<1>4. (i \in Stored)' => i \in Stored \/ InJob(s, i)
  BY <1>1 DEF Stored, InJob
<1>5. CASE ~InJob(s, i)
  <2>1. Shrinks(i)
    BY <1>2, <1>3, <1>4, <1>5 DEF Shrinks
  <2> QED
    BY <2>1, ShrinksAlone DEF Alone
<1>6. CASE InJob(s, i)
  <2>1. \A t \in Sessions : ~InReq(t, i)' /\ ~InJob(t, i)'
    BY <1>2, <1>6 DEF Alone, AloneAt
  <2>2. \A t \in Sessions : \A k \in DOMAIN rbox[t] : ~InBox(t, k, i)
    BY <1>6 DEF Alone, AloneAt
  <2>3. \A t \in Sessions : \A k \in DOMAIN rbox'[t] : ~InBox(t, k, i)'
    BY <1>1, <2>2 DEF InBox
  <2>4. AloneAt(i)'
    BY <2>1, <2>3 DEF AloneAt
  <2>5. OnItsWay(i)
    BY <1>6 DEF OnItsWay
  <2> QED
    BY <2>4, <2>5
<1> QED
  BY <1>5, <1>6

LEMMA StepPlaces ==
  ASSUME TextInv, TypeOK', Next, NEW i \in MsgIds
  PROVE  AloneAt(i)' /\ (OnItsWay(i)' => OnItsWay(i) \/ (i = sent + 1 /\ sent' = sent + 1))
<1>1. PICK s \in Sessions : Main(s) \/ Recv(s) \/ Server(s)
  BY DEF Next
<1>2. CASE Choose(s)
  <2>1. sent' = sent + 1
    BY <1>2 DEF Choose
  <2> QED
    BY <2>1, <1>2, ChoosePlaces
<1>3. CASE ReadReq(s) \/ Write(s) \/ Store(s)
  BY <1>3, ReadReqPlaces, WritePlaces, StorePlaces
<1>4. CASE \/ Login(s) \/ Select(s) \/ Delete(s) \/ FetchFails(s) \/ BadInput(s) \/ Leave(s)
           \/ Recv(s)
           \/ Register(s) \/ Unregister(s) \/ Check(s) \/ ServerDown(s) \/ Search(s)
           \/ Delete1(s) \/ Delete2(s)
  <2>1. Shrinks(i)
    BY <1>4, QuietPlaces DEF TextInv
  <2> QED
    BY <2>1, ShrinksAlone DEF TextInv, Alone
<1> QED
  BY <1>1, <1>2, <1>3, <1>4 DEF Main, Server

-----------------------------------------------------------------------------
(* What is shown, stored and deleted.                                      *)

LEMMA ShownSteps ==
  ASSUME TypeOK, Next, NEW t \in Sessions, NEW i \in MsgIds
  PROVE  \/ shown'[t][i] = shown[t][i]
         \/ /\ shown'[t][i] = shown[t][i] + 1
            /\ \/ Select(t) /\ \E m \in message : m.id = i /\ m.des = user[t]
               \/ RecvText(t) /\ InBox(t, 1, i)
<1>1. PICK s \in Sessions : Main(s) \/ Recv(s) \/ Server(s)
  BY DEF Next
<1>2. ASSUME NEW ids, shown' = [shown EXCEPT ![s] = Show(s, ids)]
      PROVE  \/ shown'[t][i] = shown[t][i]
             \/ t = s /\ i \in ids /\ shown'[t][i] = shown[t][i] + 1
  BY <1>2 DEF Show, TypeOK
<1>3. CASE shown' = shown
  BY <1>3
<1>4. CASE Select(s)
  <2>1. shown' = [shown EXCEPT ![s] = Show(s, {m.id : m \in {r \in message : r.des = user[s]}})]
    BY <1>4 DEF Select
  <2>2. CASE t = s /\ i \in {m.id : m \in {r \in message : r.des = user[s]}}
    <3>1. \E m \in message : m.id = i /\ m.des = user[t]
      BY <2>2
    <3> QED
      BY <3>1, <2>1, <2>2, <1>2, <1>4
  <2> QED
    BY <2>1, <2>2, <1>2
<1>5. CASE RecvText(s) /\ shown' # shown
  <2>1. /\ rbox[s] # <<>> /\ Head(rbox[s]).kind = "one"
        /\ shown' = [shown EXCEPT ![s] = Show(s, {Head(rbox[s]).id})]
    BY <1>5 DEF RecvText
  <2>2. 1 \in DOMAIN rbox[s] /\ Head(rbox[s]) = rbox[s][1]
    BY <2>1, Queue DEF TypeOK
  <2>3. InBox(s, 1, Head(rbox[s]).id)
    BY <2>1, <2>2 DEF InBox
  <2>4. \/ shown'[t][i] = shown[t][i]
        \/ t = s /\ i \in {Head(rbox[s]).id} /\ shown'[t][i] = shown[t][i] + 1
    BY <2>1, <1>2
  <2>5. i \in {Head(rbox[s]).id} => i = Head(rbox[s]).id
    OBVIOUS
  <2> QED
    BY <2>3, <2>4, <2>5, <1>5
<1>6. shown' = shown \/ Select(s) \/ RecvText(s)
  BY <1>1 DEF fetchV, Main, Recv, Server, Login, Delete, FetchFails, BadInput, Choose, Leave,
              Decline, Agree,
              Insert1, Insert2, Register, Unregister, ReadReq, Check, ServerDown, Search, Write,
              Store,
              Delete1, Delete2
<1> QED
  BY <1>3, <1>4, <1>5, <1>6

LEMMA RowSteps ==
  ASSUME TypeOK, OnlyTexts, Next
  PROVE  /\ \A m \in message' : m \notin message =>
              \E s \in Sessions : Store(s) /\ m = job[s] /\ InJob(s, m.id)
         /\ \A m \in message : m \notin message' =>
              \E s \in Sessions : cpc[s] = "delete" /\ user[s] = m.des
<1> USE DEF tables
<1>1. PICK s \in Sessions : Main(s) \/ Recv(s) \/ Server(s)
  BY DEF Next
<1>2. CASE message' = message
  BY <1>2
<1>3. CASE Delete(s)
  BY <1>3 DEF Delete
<1>4. CASE Store(s)
  <2>1. /\ spc[s] = "store" /\ job[s].kind = "one"
        /\ message \subseteq message' /\ message' \subseteq message \cup {job[s]}
    BY <1>4 DEF Store, OnlyTexts
  <2>2. InJob(s, job[s].id)
    BY <2>1 DEF InJob
  <2> QED
    BY <2>1, <2>2, <1>4
<1>5. message' = message \/ Delete(s) \/ Store(s)
  BY <1>1 DEF Main, Recv, Server, Login, Select, FetchFails, BadInput, Choose, Leave, RecvText,
              Decline,
              Agree, Insert1, Insert2, Register, Unregister, ReadReq, Check, ServerDown, Search,
              Write,
              Delete1, Delete2
<1> QED
  BY <1>2, <1>3, <1>4, <1>5

LEMMA MainSteps ==
  ASSUME TypeOK, Next, NEW t \in Sessions
  PROVE  /\ cpc[t] \in {"delete", "gone"} =>
              cpc'[t] \in {"delete", "gone"} \/ Delete(t) \/ t \in unfetched'
         /\ cpc'[t] = "delete" =>
              \/ cpc[t] = "delete" \/ Select(t)
              \/ settled' = settled \ {m.id : m \in {r \in message : r.des = user[t]}}
<1> USE DEF clientV, fetchV
<1>1. PICK s \in Sessions : Main(s) \/ Recv(s) \/ Server(s)
  BY DEF Next
<1>2. CASE Main(s)
  <2>1. CASE Select(s) \/ Delete(s)
    <3>1. CASE t = s /\ Select(s)
      BY <3>1 DEF Select, TypeOK
    <3>2. CASE t = s /\ Delete(s)
      <4>1. Delete(t)
        BY <3>2
      <4>2. cpc'[t] = "menu"
        BY <3>2 DEF Delete, TypeOK
      <4> QED
        BY <4>1, <4>2
    <3>3. CASE t # s
      BY <2>1, <3>3 DEF Select, Delete, TypeOK
    <3> QED
      BY <2>1, <3>1, <3>2, <3>3
  <2>2. CASE Login(s) \/ BadInput(s) \/ Choose(s) \/ Leave(s)
    <3>1. \/ cpc' = cpc \/ cpc' = [cpc EXCEPT ![s] = "gone"]
          \/ cpc[s] \in {"off", "menu"} /\ cpc' = [cpc EXCEPT ![s] = "select"]
      BY <2>2 DEF Login, BadInput, Choose, Leave
    <3> QED
      BY <3>1 DEF TypeOK
  <2>3. CASE FetchFails(s)
    <3>1. CASE t # s
      BY <2>3, <3>1 DEF FetchFails, TypeOK
    <3>2. CASE t = s /\ cpc' = [cpc EXCEPT ![s] = "menu"]
      BY <2>3, <3>2 DEF FetchFails, TypeOK
    <3>3. CASE t = s /\ cpc[s] = "select" /\ cpc' = [cpc EXCEPT ![s] = "delete"]
      BY <2>3, <3>3 DEF FetchFails, TypeOK
    <3> QED
      BY <2>3, <3>1, <3>2, <3>3 DEF FetchFails
  <2> QED
    BY <1>2, <2>1, <2>2, <2>3 DEF Main
<1>3. CASE Recv(s) \/ Server(s)
  BY <1>3 DEF Recv, Server, RecvText, Decline, Agree, Insert1, Insert2, Register,
              Unregister, ReadReq, Check, ServerDown, Search, Write, Store, Delete1, Delete2
<1> QED
  BY <1>1, <1>2, <1>3

LEMMA UnfetchedKept == Next => unfetched \subseteq unfetched'
BY DEF Next, Main, Recv, Server, Login, Select, Delete, FetchFails, BadInput, Choose, Leave,
       RecvText, Decline, Agree, Insert1, Insert2, Register, Unregister, ReadReq, Check,
       ServerDown, Search, Write, Store, Delete1, Delete2, fetchV

\* A row is not on its way, and a text on its way was not shown.
LEMMA Apart ==
  ASSUME TextInv, NEW i \in MsgIds, OnItsWay(i)
  PROVE  i \notin Stored /\ i <= sent /\ \A t \in Sessions : shown[t][i] = 0
<1>1. i \notin Stored
  BY DEF TextInv, Alone, AloneAt, OnItsWay
<1> QED
  BY <1>1 DEF TextInv, NotYetShown

\* A text a session receives has no other place.
LEMMA ReceivedText ==
  ASSUME TextInv, NEW s \in Sessions, RecvText(s), NEW i \in MsgIds, InBox(s, 1, i)
  PROVE  OnItsWay(i) /\ ~OnItsWay(i)'
<1> USE DEF TextInv
<1>1. /\ rbox[s] \in Seq(Msg) /\ rbox[s] # <<>> /\ rbox' = [rbox EXCEPT ![s] = Tail(rbox[s])]
      /\ UNCHANGED <<req, spc, job>> /\ 1 \in DOMAIN rbox[s]
  BY DEF RecvText, Received, serverV, InBox, TypeOK
<1>2. \A t \in Sessions : ~InReq(t, i) /\ ~InJob(t, i)
  BY <1>1 DEF Alone, AloneAt
<1>3. \A t \in Sessions : \A l \in DOMAIN rbox[t] : InBox(t, l, i) => t = s /\ l = 1
  BY <1>1 DEF Alone, AloneAt
<1>4. ASSUME NEW t \in Sessions, NEW k \in DOMAIN rbox'[t], InBox(t, k, i)' PROVE FALSE
  <2>1. CASE t # s
    <3>1. rbox'[t] = rbox[t]
      BY <1>1, <2>1 DEF TypeOK
    <3> QED
      BY <3>1, <2>1, <1>3, <1>4 DEF InBox
  <2>2. CASE t = s
    <3>1. rbox'[s] = Tail(rbox[s])
      BY <1>1 DEF TypeOK
    <3>2. k \in DOMAIN Tail(rbox[s])
      BY <3>1, <2>2
    <3>3. k + 1 \in DOMAIN rbox[s] /\ rbox'[s][k] = rbox[s][k + 1] /\ k \in 1..(Len(rbox[s]) - 1)
      BY <3>1, <3>2, <1>1, <1>4, Queue
    <3>4. InBox(s, k + 1, i)
      BY <3>3, <2>2, <1>4 DEF InBox
    <3>5. k + 1 = 1
      BY <3>3, <3>4, <1>3
    <3>6. Len(rbox[s]) \in Nat
      BY <1>1, Queue
    <3> QED
      BY <3>3, <3>5, <3>6
  <2> QED
    BY <2>1, <2>2
<1>5. ~OnItsWay(i)'
  BY <1>1, <1>2, <1>4 DEF OnItsWay, InReq, InJob
<1>6. OnItsWay(i)
  BY <1>1 DEF OnItsWay
<1> QED
  BY <1>5, <1>6

LEMMA StepFirst == TextInv /\ Next => TextFirst' /\ OnlyTexts'
<1> SUFFICES ASSUME TextInv, Next PROVE TextFirst' /\ OnlyTexts'
  OBVIOUS
<1> USE DEF TextInv
<1>1. OnlyTexts'
  <2> SUFFICES ASSUME NEW t \in Sessions, spc'[t] = "store" PROVE job'[t].kind = "one"
    BY DEF OnlyTexts
  <2> QED
    BY JobSteps DEF OnlyTexts
<1>2. PICK s \in Sessions : Main(s) \/ Recv(s) \/ Server(s)
  BY DEF Next
<1>3. req[s] \in Seq(Msg) /\ DOMAIN req[s] = 1..Len(req[s]) /\ Len(req[s]) \in Nat
  BY BoxPositions DEF TypeOK
<1>4. ASSUME NEW q, req' = [req EXCEPT ![s] = q],
             \A k \in DOMAIN q : q[k].kind # "add" => k = 1
      PROVE  TextFirst'
  <2>1. req'[s] = q /\ \A t \in Sessions : t # s => req'[t] = req[t]
    BY <1>4 DEF TypeOK
  <2>2. ASSUME NEW t \in Sessions, NEW k \in DOMAIN req'[t], req'[t][k].kind # "add"
        PROVE  k = 1
    <3>1. CASE t = s
      BY <3>1, <2>1, <2>2, <1>4
    <3>2. CASE t # s
      BY <3>2, <2>1, <2>2 DEF TextFirst
    <3> QED
      BY <3>1, <3>2
  <2> QED
    BY <2>2 DEF TextFirst
<1>5. CASE req' = req
  BY <1>1, <1>5 DEF TextFirst
<1>6. CASE Choose(s)
  <2>1. PICK m : req' = [req EXCEPT ![s] = <<m>>]
    BY <1>6 DEF Choose
  <2> DEFINE q == <<m>>
  <2>2. \A k \in DOMAIN q : k = 1
    OBVIOUS
  <2>3. req' = [req EXCEPT ![s] = q]
    BY <2>1
  <2> HIDE DEF q
  <2> QED
    BY <2>2, <2>3, <1>1, <1>4
<1>7. CASE Answer(s) /\ rbox[s] # <<>> /\ Head(rbox[s]).kind = "add"
  <2> DEFINE a == [Head(rbox[s]) EXCEPT !.des = Head(rbox[s]).src]
  <2>1. a \in Msg /\ a.kind = "add"
    BY <1>7, RequestFacts
  <2>2. req' = [req EXCEPT ![s] = Append(req[s], a)]
    BY <1>7 DEF Answer
  <2> HIDE DEF a
  <2>3. /\ DOMAIN Append(req[s], a) = 1..(Len(req[s]) + 1)
        /\ \A k \in DOMAIN req[s] : Append(req[s], a)[k] = req[s][k]
        /\ Append(req[s], a)[Len(req[s]) + 1] = a
    BY <2>1, <1>3, Queue
  <2>4. ASSUME NEW k \in DOMAIN Append(req[s], a), Append(req[s], a)[k].kind # "add"
        PROVE  k = 1
    <3>1. k \in DOMAIN req[s]
      BY <2>1, <2>3, <2>4, <1>3
    <3> QED
      BY <3>1, <2>3, <2>4 DEF TextFirst
  <2> DEFINE q == Append(req[s], a)
  <2>5. req' = [req EXCEPT ![s] = q] /\ \A k \in DOMAIN q : q[k].kind # "add" => k = 1
    BY <2>2, <2>4
  <2> HIDE DEF q
  <2> QED
    BY <2>5, <1>1, <1>4
<1>8. CASE ReadReq(s)
  <2>1. req' = [req EXCEPT ![s] = Tail(req[s])] /\ req[s] # <<>>
    BY <1>8 DEF ReadReq
  <2>2. \A k \in DOMAIN Tail(req[s]) : k + 1 \in DOMAIN req[s] /\ Tail(req[s])[k] = req[s][k + 1]
    BY <2>1, <1>3, Queue
  <2>3. DOMAIN Tail(req[s]) = 1..(Len(req[s]) - 1)
    BY <2>1, <1>3, Queue
  <2>4. \A k \in DOMAIN Tail(req[s]) : k + 1 # 1
    BY <2>3, <1>3
  <2>5. \A k \in DOMAIN Tail(req[s]) : Tail(req[s])[k].kind # "add" => k = 1
    BY <2>2, <2>4 DEF TextFirst
  <2> DEFINE q == Tail(req[s])
  <2>6. req' = [req EXCEPT ![s] = q] /\ \A k \in DOMAIN q : q[k].kind # "add" => k = 1
    BY <2>1, <2>5
  <2> HIDE DEF q
  <2> QED
    BY <2>6, <1>1, <1>4
<1>9. CASE Recv(s)
  <2>1. req' = req \/ Decline(s) \/ Insert2(s)
    BY <1>9 DEF Recv, RecvText, Agree, Insert1
  <2>2. CASE Decline(s)
    BY <2>2, <1>7 DEF Decline
  <2>3. CASE Insert2(s)
    BY <2>3, <1>7 DEF Insert2, Routed, TypeOK
  <2> QED
    BY <2>1, <2>2, <2>3, <1>5
<1>10. CASE Main(s) \/ Server(s)
  <2>1. req' = req \/ Choose(s) \/ ReadReq(s)
    BY <1>10 DEF Main, Server, Login, Select, Delete, FetchFails, BadInput, Leave, Register,
                 Unregister,
                 Check, ServerDown, Search, Write, Store, Delete1, Delete2
  <2> QED
    BY <2>1, <1>5, <1>6, <1>8
<1> QED
  BY <1>1, <1>2, <1>9, <1>10

LEMMA MsgIdType ==
  ASSUME TypeOK, NEW m \in message PROVE m.id \in MsgIds /\ m.id \in Stored
BY DEF TypeOK, Msg, Stored

\* What is added to the table comes from a thread's hands.
LEMMA NewRow ==
  ASSUME TextInv, TypeOK', Next, NEW m \in message', m \notin message
  PROVE  /\ m.id \in MsgIds /\ OnItsWay(m.id) /\ m.id \notin Stored
         /\ \A t \in Sessions : shown[t][m.id] = 0
         /\ \E s \in Sessions : Store(s) /\ m = job[s] /\ InJob(s, m.id)
<1>1. PICK s \in Sessions : Store(s) /\ m = job[s] /\ InJob(s, m.id)
  BY RowSteps DEF TextInv
<1>2. m.id \in MsgIds
  BY DEF TypeOK, Msg
<1>3. OnItsWay(m.id)
  BY <1>1 DEF OnItsWay
<1> QED
  BY <1>1, <1>2, <1>3, Apart

LEMMA StepShown == TextInv /\ TypeOK' /\ Next => OneRow' /\ NotYetShown' /\ ShownRows' /\ Once'
<1> SUFFICES ASSUME TextInv, TypeOK', Next
             PROVE  OneRow' /\ NotYetShown' /\ ShownRows' /\ Once'
  OBVIOUS
<1>0. TypeOK /\ user' = user
  BY UserKept DEF TextInv
<1>1. OneRow'
  <2> SUFFICES ASSUME NEW m \in message', NEW n \in message', m.id = n.id PROVE m = n
    BY DEF OneRow
  <2>1. CASE m \in message /\ n \in message
    BY <2>1 DEF TextInv, OneRow
  <2>2. CASE m \notin message /\ n \notin message
    <3>1. m.id \in MsgIds /\ \E s \in Sessions : m = job[s] /\ InJob(s, m.id)
      BY <2>2, NewRow
    <3>2. \E s \in Sessions : n = job[s] /\ InJob(s, m.id)
      BY <2>2, NewRow
    <3> QED
      BY <3>1, <3>2 DEF TextInv, Alone, AloneAt
  <2>3. CASE m \in message /\ n \notin message
    BY <2>3, <1>0, NewRow, MsgIdType
  <2>4. CASE m \notin message /\ n \in message
    BY <2>4, <1>0, NewRow, MsgIdType
  <2> QED
    BY <2>1, <2>2, <2>3, <2>4
<1>2. ASSUME NEW i \in MsgIds, NEW t \in Sessions, OnItsWay(i) \/ i \notin Stored,
             OnItsWay(i)'
      PROVE  shown'[t][i] = shown[t][i]
  <2>1. ~(\E m \in message : m.id = i)
    BY <1>2, Apart DEF Stored
  <2>2. ~(RecvText(t) /\ InBox(t, 1, i))
    BY <1>2, ReceivedText
  <2> QED
    BY <1>0, <2>1, <2>2, ShownSteps
<1>3. sent \in Nat /\ sent' \in Nat /\ sent <= sent'
  <2>1. sent' = sent \/ sent' = sent + 1
    BY DEF Next, Main, Recv, Server, Login, Select, Delete, FetchFails, BadInput, Choose, Leave,
           RecvText, Decline, Agree, Insert1, Insert2, Register, Unregister, ReadReq,
           Check, ServerDown, Search, Write, Store, Delete1, Delete2, clientV
  <2> QED
    BY <1>0, <2>1, Constants DEF TypeOK
<1>4. ASSUME NEW i \in MsgIds, OnItsWay(i)'
      PROVE  i <= sent' /\ \A t \in Sessions : shown'[t][i] = 0
  <2>1. CASE OnItsWay(i)
    BY <2>1, <1>2, <1>3, <1>4, Apart DEF MsgIds
  <2>2. CASE ~OnItsWay(i)
    <3>1. i = sent + 1 /\ sent' = sent + 1
      BY <2>2, <1>4, StepPlaces
    <3>2. ~(i <= sent)
      BY <3>1, <1>3
    <3>3. i \notin Stored /\ ~Displayed(i)
      BY <3>2 DEF TextInv, NotYetShown
    <3>4. \A t \in Sessions : shown[t][i] = 0
      <4> SUFFICES ASSUME NEW t \in Sessions PROVE shown[t][i] = 0
        OBVIOUS
      <4>1. shown[t][i] \in 0..2 /\ ~(shown[t][i] > 0)
        BY <3>3, <1>0 DEF Displayed, TypeOK
      <4> QED
        BY <4>1
    <3>5. i <= sent'
      BY <3>1, <1>3
    <3> QED
      BY <3>3, <3>4, <3>5, <1>2, <1>4
  <2> QED
    BY <2>1, <2>2
<1>5. ASSUME NEW i \in MsgIds, (i \in Stored)' \/ Displayed(i)'
      PROVE  i <= sent'
  <2>1. i \in Stored \/ Displayed(i) \/ OnItsWay(i)
    <3>1. CASE (i \in Stored)'
      <4>1. PICK m \in message' : m.id = i
        BY <3>1 DEF Stored
      <4> QED
        BY <4>1, NewRow DEF Stored
    <3>2. CASE Displayed(i)'
      <4>1. PICK t \in Sessions : shown'[t][i] > 0
        BY <3>2 DEF Displayed
      <4>2. CASE shown'[t][i] = shown[t][i]
        BY <4>1, <4>2 DEF Displayed
      <4>3. CASE \E m \in message : m.id = i
        BY <4>3 DEF Stored
      <4>4. CASE RecvText(t) /\ InBox(t, 1, i)
        BY <4>4, ReceivedText
      <4> QED
        BY <4>2, <4>3, <4>4, <1>0, ShownSteps
    <3> QED
      BY <1>5, <3>1, <3>2
  <2>2. i <= sent
    BY <2>1 DEF TextInv, NotYetShown
  <2> QED
    BY <2>2, <1>3 DEF MsgIds
<1>6. NotYetShown'
  BY <1>4, <1>5 DEF NotYetShown
<1>7. ASSUME NEW m \in message', NEW s \in Sessions, shown'[s][m.id] > 0
      PROVE  m.des = user[s] /\ (cpc'[s] \in {"delete", "gone"} \/ s \in unfetched')
  <2>1. CASE m \notin message
    <3>1. /\ m.id \in MsgIds /\ shown[s][m.id] = 0
          /\ \E t \in Sessions : Store(t)
      BY <2>1, NewRow
    <3>2. shown' = shown
      BY <3>1 DEF Store, fetchV
    <3> QED
      BY <3>1, <3>2, <1>7
  <2>2. CASE m \in message
    <3>1. m.id \in MsgIds /\ m.id \in Stored
      BY <2>2, <1>0, MsgIdType
    <3>2. CASE shown'[s][m.id] = shown[s][m.id]
      <4>1. m.des = user[s] /\ (cpc[s] \in {"delete", "gone"} \/ s \in unfetched)
        BY <2>2, <3>2, <1>7 DEF TextInv, ShownRows
      <4>2. m.des = user[s] => ~Delete(s)
        BY <1>7 DEF Delete
      <4> QED
        BY <4>1, <4>2, <1>0, MainSteps, UnfetchedKept
    <3>3. CASE Select(s) /\ \E n \in message : n.id = m.id /\ n.des = user[s]
      <4>1. m.des = user[s]
        BY <3>3, <2>2 DEF TextInv, OneRow
      <4>2. cpc'[s] = "delete"
        BY <3>3, <1>0 DEF Select, TypeOK
      <4> QED
        BY <4>1, <4>2
    <3>4. CASE RecvText(s) /\ InBox(s, 1, m.id)
      BY <3>1, <3>4, ReceivedText, Apart
    <3> QED
      BY <3>1, <3>2, <3>3, <3>4, <1>0, ShownSteps
  <2> QED
    BY <2>1, <2>2
<1>8. ShownRows'
  BY <1>0, <1>7 DEF ShownRows
<1>9. ASSUME NEW s \in Sessions \ unfetched', NEW i \in MsgIds PROVE shown'[s][i] <= 1
  <2>0. s \notin unfetched
    BY <1>0, <1>9, UnfetchedKept
  <2>1. shown[s][i] <= 1 /\ shown[s][i] \in 0..2
    BY <1>0, <2>0 DEF TextInv, Once, TypeOK
  <2>2. CASE Select(s) /\ \E n \in message : n.id = i /\ n.des = user[s]
    <3>1. ~(shown[s][i] > 0)
      BY <2>0, <2>2 DEF Select, TextInv, ShownRows
    <3> QED
      BY <2>1, <3>1, <1>0, ShownSteps
  <2>3. CASE RecvText(s) /\ InBox(s, 1, i)
    <3>1. shown[s][i] = 0
      BY <2>3, ReceivedText, Apart
    <3> QED
      BY <2>1, <3>1, <1>0, ShownSteps
  <2> QED
    BY <2>1, <2>2, <2>3, <1>0, ShownSteps
<1>10. Once'
  BY <1>9 DEF Once
<1> QED
  BY <1>1, <1>6, <1>8, <1>10

LEMMA StepSafe == TextInv /\ TypeOK' /\ Next => Safe'
<1> SUFFICES ASSUME TextInv, TypeOK', Next, NEW i \in settled'
             PROVE  Displayed(i)' \/ \E m \in message' : m.id = i /\ ~Clearing(m.des)'
  BY DEF Safe, Clearing
<1>0. TypeOK /\ user' = user /\ i \in MsgIds
  BY UserKept DEF TextInv, TypeOK
<1>1. CASE i \notin settled
  <2>1. PICK s \in Sessions : Store(s)
    BY <1>1 DEF Next, Main, Recv, Server, Login, Select, Delete, FetchFails, BadInput, Choose,
                Leave,
           RecvText, Decline, Agree, Insert1, Insert2, Register, Unregister, ReadReq,
           Check, ServerDown, Search, Write, Delete1, Delete2
  <2>2. /\ message' = message \cup {job[s]} /\ ~Clearing(job[s].des) /\ job[s].id = i
        /\ UNCHANGED <<cpc, user>>
    BY <2>1, <1>1 DEF Store, clientV
  <2>3. \A n : ~Clearing(n) => ~Clearing(n)'
    BY <2>2 DEF Clearing
  <2> QED
    BY <2>2, <2>3
<1>2. CASE i \in settled /\ Displayed(i)
  <2>1. PICK t \in Sessions : shown[t][i] > 0
    BY <1>2 DEF Displayed
  <2>2. shown[t][i] \in 0..2
    BY <1>0 DEF TypeOK
  <2>3. shown'[t][i] > 0
    BY <2>1, <2>2, <1>0, ShownSteps
  <2> QED
    BY <2>3 DEF Displayed
<1>3. CASE i \in settled /\ ~Displayed(i)
  <2>1. PICK m \in message : m.id = i /\ ~Clearing(m.des)
    BY <1>3 DEF TextInv, Safe
  <2>2. m \in message'
    BY <2>1, <1>0, RowSteps DEF Clearing, TextInv
  <2>3. ASSUME Clearing(m.des)' PROVE Displayed(i)'
    <3>1. PICK s \in Sessions : cpc'[s] = "delete" /\ user[s] = m.des
      BY <2>3, <1>0 DEF Clearing
    <3>2. i \in {r.id : r \in {q \in message : q.des = user[s]}}
      BY <3>1, <2>1
    <3>3. Select(s)
      BY <3>1, <3>2, <2>1, <1>0, MainSteps DEF Clearing
    <3>4. shown'[s] = Show(s, {r.id : r \in {q \in message : q.des = user[s]}})
      BY <3>3, <1>0 DEF Select, TypeOK
    <3> DEFINE ids == {r.id : r \in {q \in message : q.des = user[s]}}
    <3> HIDE DEF ids
    <3>5. shown'[s][i] = IF i \in ids /\ shown[s][i] < 2 THEN shown[s][i] + 1 ELSE shown[s][i]
      BY <3>4, <1>0 DEF Show, ids
    <3>6. i \in ids /\ shown[s][i] \in 0..2
      BY <3>2, <1>0 DEF ids, TypeOK
    <3>7. shown'[s][i] > 0
      BY <3>5, <3>6
    <3> QED
      BY <3>7 DEF Displayed
  <2> QED
    BY <2>1, <2>2, <2>3
<1> QED
  BY <1>1, <1>2, <1>3

LEMMA InitTextInv == Init => TextInv
<1> SUFFICES ASSUME Init PROVE TextInv
  OBVIOUS
<1>1. TypeOK /\ Routed
  BY InitTypes, InitRouted
<1>2. \A t \in Sessions : req[t] = <<>> /\ rbox[t] = <<>> /\ spc[t] = "none"
  BY DEF Init
<1>3. message = {} /\ settled = {} /\ \A t \in Sessions, i \in MsgIds : shown[t][i] = 0
  BY DEF Init
<1>4. TextFirst /\ OnlyTexts
  BY <1>2 DEF TextFirst, OnlyTexts
<1>5. Stored = {} /\ \A i \in MsgIds : ~Displayed(i)
  BY <1>3 DEF Stored, Displayed
<1>6. \A t \in Sessions, i \in MsgIds :
        ~InReq(t, i) /\ ~InJob(t, i) /\ \A k \in DOMAIN rbox[t] : ~InBox(t, k, i)
  BY <1>2 DEF InReq, InJob, InBox
<1>7. Alone /\ NotYetShown
  BY <1>5, <1>6 DEF Alone, AloneAt, NotYetShown, OnItsWay
<1>8. OneRow /\ ShownRows /\ Once /\ Safe
  BY <1>3 DEF OneRow, ShownRows, Once, Safe
<1> QED
  BY <1>1, <1>4, <1>7, <1>8 DEF TextInv

LEMMA StepTextInv == TextInv /\ [Next]_vars => TextInv'
<1> SUFFICES ASSUME TextInv, [Next]_vars PROVE TextInv'
  OBVIOUS
<1>1. CASE UNCHANGED vars
  <2> USE <1>1 DEF vars, tables, clientV, recvV, serverV, fetchV, pairHist
  <2>1. TypeOK' /\ Routed'
    BY StepTypes, StepRouted DEF TextInv
  <2>2. (TextFirst /\ OnlyTexts /\ OneRow /\ ShownRows /\ Once)'
    BY DEF TextInv, TextFirst, OnlyTexts, OneRow, ShownRows, Once
  <2>3. (Alone /\ NotYetShown)'
    BY DEF TextInv, Alone, AloneAt, NotYetShown, OnItsWay, InReq, InJob, InBox, Stored, Displayed
  <2>4. Safe'
    BY DEF TextInv, Safe, Displayed, Clearing
  <2> QED
    BY <2>1, <2>2, <2>3, <2>4 DEF TextInv
<1>2. CASE Next
  <2>1. TypeOK' /\ Routed'
    BY StepTypes, StepRouted DEF TextInv
  <2>2. Alone'
    BY <1>2, <2>1, StepPlaces DEF Alone
  <2> QED
    BY <1>2, <2>1, <2>2, StepFirst, StepShown, StepSafe DEF TextInv
<1> QED
  BY <1>1, <1>2

\* getUserMsgFromMysql and dispatchClientRequest: a text stored while no client
\* of its receiver is between reading its texts and deleting them, nor read by
\* one that the rows do not reach, is in the table until it was shown, and no
\* session whose fetches do not fail shows a text twice.
THEOREM SettledMailIsKept == Spec => []SettledMailKept
<1>1. TextInv => SettledMailKept
  BY DEF TextInv, Safe, Once, SettledMailKept, Stored
<1> QED
  BY InitTextInv, StepTextInv, <1>1, PTL DEF Spec
=============================================================================
