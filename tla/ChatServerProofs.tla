-------------------------- MODULE ChatServerProofs --------------------------
(***************************************************************************)
(* Proofs about ChatServer, for every number of connections, descriptors   *)
(* and messages.                                                           *)
(***************************************************************************)
EXTENDS ChatServer, SequenceTheorems, TLAPS

\* A connection is being set up whenever the accept loop is not waiting, and a
\* thread in a handler has a message: what the types of the rest depend on.
Handling == {"handle", "send", "reply", "store", "walk"}

TypeInv ==
  /\ TypeOK
  /\ apc # "wait" => accepted \in Conns
  /\ \A w \in Conns : wpc[w] \in Handling => job[w] \in Msg

LEMMA ConnFacts ==
  /\ 0 \in ConnOr0 /\ 0 \in 0..MaxFd
  /\ \A c \in Conns : c \in ConnOr0 /\ c \in Nat
  /\ \A f \in Fds : f \in 0..MaxFd
  /\ MaxConn \in Nat /\ MaxFd \in Nat /\ MaxMsg \in Nat
BY ChatConstants DEF Conns, ConnOr0, Fds

LEMMA TypeInvInit == Init => TypeInv
<1> SUFFICES ASSUME Init PROVE TypeInv
  OBVIOUS
<1>1. <<>> \in Seq(Msg)
  OBVIOUS
<1>2. TypeOK
  BY <1>1, ConnFacts DEF Init, TypeOK, AcceptPc, WorkerPc
<1>3. QED
  BY <1>2 DEF Init, TypeInv, Handling

\* write() adds the message to a client's history, marks a peer as reset or
\* ends the process, and leaves everything well typed.
LEMMA WriteType ==
  ASSUME TypeOK, NEW f \in 0..MaxFd, NEW m \in Msg, WriteTo(f, m)
  PROVE  /\ srv' \in {"up", "down"}
         /\ peer' \in [ConnOr0 -> {"none", "open", "fin", "rst"}]
         /\ rcv' \in [ConnOr0 -> Seq(Msg)]
<1>1. sock[f] \in ConnOr0
  BY DEF TypeOK
<1>2. Append(rcv[sock[f]], m) \in Seq(Msg)
  BY <1>1 DEF TypeOK
<1>3. CASE sock[f] # 0 /\ peer[sock[f]] = "open"
           /\ rcv' = [rcv EXCEPT ![sock[f]] = Append(@, m)]
           /\ UNCHANGED <<srv, peer>>
  BY <1>1, <1>2, <1>3 DEF TypeOK
<1>4. CASE sock[f] # 0 /\ peer[sock[f]] = "fin"
           /\ peer' = [peer EXCEPT ![sock[f]] = "rst"]
           /\ UNCHANGED <<srv, rcv>>
  BY <1>1, <1>4 DEF TypeOK
<1>5. CASE srv' \in {"up", "down"} /\ UNCHANGED <<peer, rcv>>
  BY <1>5 DEF TypeOK
<1>6. CASE UNCHANGED <<srv, peer, rcv>>
  BY <1>6 DEF TypeOK
<1>7. QED
  BY <1>3, <1>4, <1>5, <1>6 DEF WriteTo

\* What a list pointer of a thread leads to are nodes of known connections.
LEMMA PointerTypes ==
  ASSUME TypeOK, NEW c \in ConnOr0
  PROVE  Seen(c) \subseteq ConnOr0 /\ NextNodes(c) \subseteq ConnOr0
<1> USE ConnFacts DEF TypeOK
<1>1. accepted \in Nat /\ accepted <= MaxConn
  OBVIOUS
<1>3. Inserted \subseteq ConnOr0
  <2>1. Inserted = 1..(accepted - 1) \/ Inserted = 1..accepted
    BY DEF Inserted
  <2>2. 1..(accepted - 1) \subseteq ConnOr0 /\ 1..accepted \subseteq ConnOr0
    <3>1. \A d \in 1..accepted : d \in 0..MaxConn
      BY <1>1
    <3>2. \A d \in 1..(accepted - 1) : d \in 0..MaxConn
      BY <1>1
    <3>3. QED
      BY <3>1, <3>2 DEF ConnOr0
  <2>3. QED
    BY <2>1, <2>2
<1>4. Seen(c) \subseteq ConnOr0
  BY <1>3 DEF Seen
<1>5. 0..(c - 1) \subseteq ConnOr0
  BY DEF ConnOr0
<1>6. NextNodes(c) \subseteq ConnOr0
  BY <1>5 DEF NextNodes
<1>7. QED
  BY <1>4, <1>6

LEMMA TypeInvNext == TypeInv /\ [Next]_vars => TypeInv'
<1> SUFFICES ASSUME TypeInv, [Next]_vars PROVE TypeInv'
  OBVIOUS
<1> USE ConnFacts DEF TypeInv, TypeOK, Handling, AcceptPc, WorkerPc,
        accVars, slotVars, netVars, regVars, workVars, Up, At, Goto
<1>1. CASE Accept
  <2>1. accepted + 1 \in Conns /\ accepted + 1 \in ConnOr0
    BY <1>1 DEF Accept, Conns, ConnOr0
  <2>2. PICK f \in Fds : /\ sock' = [sock EXCEPT ![f] = accepted + 1]
                         /\ num' = [num EXCEPT ![accepted + 1] = f]
    BY <1>1 DEF Accept, FreeFds
  <2>3. sock' \in [0..MaxFd -> ConnOr0]
    BY <2>1, <2>2
  <2>4. num' \in [ConnOr0 -> 0..MaxFd]
    BY <2>1, <2>2
  <2>5. peer' \in [ConnOr0 -> {"none", "open", "fin", "rst"}]
    BY <1>1, <2>1 DEF Accept
  <2>6. /\ accepted' = accepted + 1 /\ apc' = "name"
        /\ UNCHANGED <<srv, who, slotVars, inbox, sent, online, workVars, rcv,
                       stored>>
    BY <1>1 DEF Accept
  <2>7. accepted' \in 0..MaxConn
    BY <2>1, <2>6 DEF Conns
  <2>8. QED
    BY <2>1, <2>3, <2>4, <2>5, <2>6, <2>7
<1>2. CASE AcceptFails
  BY <1>2 DEF AcceptFails
<1>3. CASE ReadName
  <2>1. accepted \in ConnOr0
    BY DEF ConnOr0
  <2>2. who' \in [ConnOr0 -> Names \cup {NoName}]
    <3>1. CASE who' = who
      BY <3>1
    <3>2. ASSUME NEW n \in Names, who' = [who EXCEPT ![accepted] = n]
          PROVE  who' \in [ConnOr0 -> Names \cup {NoName}]
      BY <2>1, <3>2
    <3>3. QED
      BY <1>3, <3>1, <3>2 DEF ReadName
  <2>3. /\ apc' = "insert" /\ apc # "wait"
        /\ UNCHANGED <<srv, accepted, slotVars, netVars, regVars, workVars, rcv,
                       stored>>
    BY <1>3 DEF ReadName
  <2>4. QED
    BY <2>2, <2>3
<1>4. CASE InsertNode
  BY <1>4 DEF InsertNode
<1>5. CASE FillName
  BY <1>5 DEF FillName
<1>6. CASE FillFd
  BY <1>6 DEF FillFd
<1>7. CASE Spawn
  BY <1>7 DEF Spawn
<1>8. ASSUME NEW c \in Conns, ClientSend(c) PROVE TypeInv'
  <2>1. PICK k \in Kinds, d \in Names :
          inbox' = [inbox EXCEPT ![c] = Append(@, [id |-> sent + 1,
                      kind |-> k, from |-> c, des |-> d])]
    BY <1>8 DEF ClientSend
  <2>2. [id |-> sent + 1, kind |-> k, from |-> c, des |-> d] \in Msg
    BY <1>8, ChatConstants DEF ClientSend, Msg
  <2>3. inbox' \in [ConnOr0 -> Seq(Msg)]
    BY <2>1, <2>2
  <2>4. sent' \in 0..MaxMsg
    BY <1>8 DEF ClientSend
  <2>5. UNCHANGED <<srv, accVars, peer, regVars, workVars, rcv, stored>>
    BY <1>8 DEF ClientSend
  <2>6. QED
    BY <2>3, <2>4, <2>5
<1>9. ASSUME NEW c \in Conns, ClientLeave(c) PROVE TypeInv'
  <2>1. peer' \in [ConnOr0 -> {"none", "open", "fin", "rst"}]
    BY <1>9 DEF ClientLeave
  <2>2. UNCHANGED <<srv, accVars, inbox, sent, regVars, workVars, rcv, stored>>
    BY <1>9 DEF ClientLeave
  <2>3. QED
    BY <2>1, <2>2
<1>10. ASSUME NEW c \in Conns, CopyName(c) PROVE TypeInv'
  BY <1>10 DEF CopyName
<1>11. ASSUME NEW c \in Conns, CopyFd(c) PROVE TypeInv'
  BY <1>11 DEF CopyFd
<1>12. ASSUME NEW c \in Conns, ReadMsg(c) PROVE TypeInv'
  <2>1. Owner(c) \in ConnOr0 /\ inbox[Owner(c)] \in Seq(Msg)
    BY DEF Owner
  <2>2. /\ Head(inbox[Owner(c)]) \in Msg
        /\ Tail(inbox[Owner(c)]) \in Seq(Msg)
    BY <1>12, <2>1, HeadTailProperties DEF ReadMsg
  <2>3. inbox' \in [ConnOr0 -> Seq(Msg)]
    BY <1>12, <2>1, <2>2 DEF ReadMsg
  <2>4. /\ job' \in [Conns -> Msg \cup {NoMsg}] /\ wpc' \in [Conns -> WorkerPc]
        /\ \A w \in Conns : wpc'[w] \in Handling => job'[w] \in Msg
    BY <1>12, <2>2 DEF ReadMsg
  <2>5. QED
    BY <1>12, <2>3, <2>4 DEF ReadMsg
<1>13. ASSUME NEW c \in Conns, ReadEof(c) PROVE TypeInv'
  BY <1>13 DEF ReadEof, Owner, Found, Return
<1>14. ASSUME NEW c \in Conns, ReadFails(c) PROVE TypeInv'
  BY <1>14 DEF ReadFails, Owner, Found, Return
<1>15. ASSUME NEW c \in Conns, CloseFd(c) PROVE TypeInv'
  BY <1>15 DEF CloseFd, Owner, Found, Return
<1>16. ASSUME NEW c \in Conns, DelNode(c) PROVE TypeInv'
  BY <1>16 DEF DelNode, Owner, Found, Return
<1>17. ASSUME NEW c \in Conns, Lookup(c) PROVE TypeInv'
  <2>1. job[c] \in Msg
    BY <1>17 DEF Lookup
  <2>2. UNCHANGED <<srv, accVars, netVars, regVars, nm, wfd, rcv, stored>>
    BY <1>17 DEF Lookup
  <2>3. CASE Return(c)
    BY <2>1, <2>2, <2>3 DEF Return
  <2>4. CASE /\ \/ wpc' = [wpc EXCEPT ![c] = "reply"]
                \/ wpc' = [wpc EXCEPT ![c] = "store"]
             /\ UNCHANGED <<job, cur>>
    BY <2>1, <2>2, <2>4
  <2>5. ASSUME NEW d \in online, cur' = [cur EXCEPT ![c] = d],
               wpc' = [wpc EXCEPT ![c] = "send"], job' = job
        PROVE  TypeInv'
    <3>1. cur' \in [Conns -> ConnOr0]
      BY <2>5
    <3>2. QED
      BY <2>1, <2>2, <2>5, <3>1
  <2>6. QED
    BY <1>17, <2>3, <2>4, <2>5 DEF Lookup
<1>18. ASSUME NEW c \in Conns, Send(c) PROVE TypeInv'
  <2>1. PICK k \in Seen(cur[c]) : WriteTo(num[k], job[c])
    BY <1>18 DEF Send
  <2>2. num[k] \in 0..MaxFd
    BY <2>1, PointerTypes
  <2>3. job[c] \in Msg
    BY <1>18 DEF Send
  <2>4. srv' \in {"up", "down"} /\ rcv' \in [ConnOr0 -> Seq(Msg)]
        /\ peer' \in [ConnOr0 -> {"none", "open", "fin", "rst"}]
    BY <2>1, <2>2, <2>3, WriteType
  <2>5. QED
    BY <1>18, <2>4 DEF Send, Return
<1>19. ASSUME NEW c \in Conns, Reply(c) PROVE TypeInv'
  <2>1. num[wfd[c]] \in 0..MaxFd /\ job[c] \in Msg
    BY <1>19 DEF Reply
  <2>2. [job[c] EXCEPT !.kind = "reply"] \in Msg
    BY <2>1 DEF Msg
  <2>3. srv' \in {"up", "down"} /\ rcv' \in [ConnOr0 -> Seq(Msg)]
        /\ peer' \in [ConnOr0 -> {"none", "open", "fin", "rst"}]
    BY <1>19, <2>1, <2>2, WriteType DEF Reply
  <2>4. QED
    BY <1>19, <2>3 DEF Reply, Return
<1>20. ASSUME NEW c \in Conns, Store(c) PROVE TypeInv'
  <2>1. job[c].id \in 1..MaxMsg
    BY <1>20 DEF Store, Msg
  <2>2. QED
    BY <1>20, <2>1 DEF Store, Return
<1>21. ASSUME NEW c \in Conns, StartWalk(c) PROVE TypeInv'
  <2>1. cur' \in [Conns -> ConnOr0]
    BY <1>21 DEF StartWalk
  <2>2. /\ wpc[c] = "handle" /\ wpc' = [wpc EXCEPT ![c] = "walk"]
        /\ UNCHANGED <<srv, accVars, netVars, regVars, nm, wfd, job, rcv, stored>>
    BY <1>21 DEF StartWalk
  <2>3. QED
    BY <2>1, <2>2
<1>22. ASSUME NEW c \in Conns, WalkNode(c) PROVE TypeInv'
  <2>1. PICK k \in Seen(cur[c]) :
          \/ WriteTo(num[k], job[c])
          \/ UNCHANGED <<srv, peer, rcv>>
    BY <1>22 DEF WalkNode
  <2>2. num[k] \in 0..MaxFd /\ job[c] \in Msg
    BY <1>22, <2>1, PointerTypes DEF WalkNode
  <2>3. srv' \in {"up", "down"} /\ rcv' \in [ConnOr0 -> Seq(Msg)]
        /\ peer' \in [ConnOr0 -> {"none", "open", "fin", "rst"}]
    BY <2>1, <2>2, WriteType
  <2>4. NextNodes(cur[c]) \subseteq ConnOr0
    BY PointerTypes
  <2>5. cur' \in [Conns -> ConnOr0]
    BY <1>22, <2>4 DEF WalkNode
  <2>6. QED
    BY <1>22, <2>3, <2>5 DEF WalkNode
<1>23. ASSUME NEW c \in Conns, EndWalk(c) PROVE TypeInv'
  BY <1>23 DEF EndWalk, Return
<1>24. CASE UNCHANGED vars
  BY <1>24 DEF vars
<1>25. QED
  BY <1>1, <1>2, <1>3, <1>4, <1>5, <1>6, <1>7, <1>8, <1>9, <1>10, <1>11,
     <1>12, <1>13, <1>14, <1>15, <1>16, <1>17, <1>18, <1>19, <1>20, <1>21,
     <1>22, <1>23, <1>24 DEF Next, AcceptLoop, Client, Worker, Handler

\* Every reachable state is well typed: in particular every descriptor number,
\* list node and message a thread works with is one the server has seen.
THEOREM ChatTypes == Spec => []TypeOK
<1>1. Spec => []TypeInv
  BY TypeInvInit, TypeInvNext, PTL DEF Spec
<1>2. TypeInv => TypeOK
  BY DEF TypeInv
<1>3. QED
  BY <1>1, <1>2, PTL

-----------------------------------------------------------------------------
(* The hand-over of a client to its thread through the record on the stack  *)
(* of the accept loop.                                                      *)

\* A thread exists for every connection the loop is done with.
SpawnInv ==
  \A w \in Conns : wpc[w] # "none" =>
    /\ w <= accepted
    /\ apc # "wait" => w < accepted

\* What the record can hold at each point of the loop: the values of the
\* current connection or of the one before it, or what a failed accept left.
SlotInv ==
  /\ apc = "wait" => slotName \in {0, accepted} /\ slotFd \in {0, accepted}
  /\ apc \in {"name", "insert", "slotname"} =>
       slotName \in {0, accepted - 1} /\ slotFd \in {0, accepted - 1}
  /\ apc = "slotfd" => slotName = accepted /\ slotFd \in {0, accepted - 1}
  /\ apc = "spawn" => slotName = accepted /\ slotFd = accepted

HandoffInv == TypeInv /\ SpawnInv /\ SlotInv /\ HandoffOrder

LEMMA HandoffInit == Init => HandoffInv
<1> SUFFICES ASSUME Init PROVE HandoffInv
  OBVIOUS
<1>1. TypeInv
  BY TypeInvInit
<1>2. SpawnInv /\ SlotInv /\ HandoffOrder
  BY DEF Init, SpawnInv, SlotInv, HandoffOrder, HasName, HasFd
<1>3. QED
  BY <1>1, <1>2 DEF HandoffInv

\* Steps outside the hand-over leave the record, the threads' copies and the
\* accept loop alone, and start no thread.
Elsewhere ==
  /\ UNCHANGED <<apc, accepted, slotName, slotFd, nm, wfd>>
  /\ \A w \in Conns : /\ wpc'[w] # "none" => wpc[w] # "none"
                      /\ HasName(w)' => HasName(w)
                      /\ HasFd(w)' => HasFd(w)

LEMMA ElsewhereSteps ==
  ASSUME TypeInv, NEW c \in Conns,
         \/ Client(c) \/ ReadMsg(c) \/ ReadEof(c) \/ ReadFails(c)
         \/ CloseFd(c) \/ DelNode(c) \/ Handler(c)
  PROVE  Elsewhere
<1> USE DEF TypeInv, TypeOK, Elsewhere, HasName, HasFd, accVars, workVars, At,
        Goto
<1>1. CASE Client(c)
  BY <1>1 DEF Client, ClientSend, ClientLeave
<1>2. CASE ReadMsg(c) \/ ReadEof(c) \/ ReadFails(c)
  BY <1>2 DEF ReadMsg, ReadEof, ReadFails
<1>3. CASE CloseFd(c) \/ DelNode(c)
  BY <1>3 DEF CloseFd, DelNode
<1>4. CASE Lookup(c)
  BY <1>4 DEF Lookup, Return
<1>5. CASE Send(c) \/ Store(c) \/ Reply(c)
  BY <1>5 DEF Send, Store, Reply, Return
<1>6. CASE StartWalk(c) \/ WalkNode(c) \/ EndWalk(c)
  BY <1>6 DEF StartWalk, WalkNode, EndWalk, Return
<1>7. QED
  BY <1>1, <1>2, <1>3, <1>4, <1>5, <1>6 DEF Handler

LEMMA HandoffNext == HandoffInv /\ [Next]_vars => HandoffInv'
<1> SUFFICES ASSUME HandoffInv, [Next]_vars PROVE HandoffInv'
  OBVIOUS
<1>1. TypeInv /\ TypeInv'
  BY TypeInvNext DEF HandoffInv
<1> USE ConnFacts DEF SpawnInv, SlotInv, HandoffOrder, HasName, HasFd
<1>2. TypeInv /\ TypeOK /\ SpawnInv /\ SlotInv /\ HandoffOrder
  BY DEF HandoffInv, TypeInv
<1>3. accepted \in Nat /\ slotName \in Nat /\ slotFd \in Nat
  BY <1>2 DEF TypeOK, ConnOr0
<1>4. \A w \in Conns : nm[w] \in Nat /\ wfd[w] \in Nat
  BY <1>2 DEF TypeOK, ConnOr0
<1>5. CASE Accept
  <2>1. /\ accepted' = accepted + 1 /\ apc = "wait" /\ apc' = "name"
        /\ UNCHANGED <<slotName, slotFd, wpc, nm, wfd>>
    BY <1>5 DEF Accept, slotVars, workVars
  <2>2. QED
    BY <1>1, <1>2, <1>3, <1>4, <2>1 DEF HandoffInv
<1>6. CASE AcceptFails
  BY <1>1, <1>2, <1>3, <1>6 DEF AcceptFails, workVars, HandoffInv
<1>7. CASE ReadName \/ InsertNode
  BY <1>1, <1>2, <1>3, <1>7
     DEF ReadName, InsertNode, slotVars, workVars, HandoffInv
<1>8. CASE FillName \/ FillFd
  BY <1>1, <1>2, <1>3, <1>8 DEF FillName, FillFd, workVars, HandoffInv
<1>9. CASE Spawn
  <2>1. /\ apc = "spawn" /\ apc' = "wait"
        /\ wpc' = [wpc EXCEPT ![accepted] = "start"]
        /\ UNCHANGED <<accepted, slotName, slotFd, nm, wfd>>
    BY <1>9 DEF Spawn, slotVars
  <2>2. QED
    BY <1>1, <1>2, <1>3, <2>1 DEF HandoffInv, TypeOK
<1>10. ASSUME NEW c \in Conns, CopyName(c) PROVE HandoffInv'
  <2>1. /\ wpc[c] = "start" /\ wpc' = [wpc EXCEPT ![c] = "named"]
        /\ nm' = [nm EXCEPT ![c] = slotName]
        /\ UNCHANGED <<apc, accepted, slotName, slotFd, wfd>>
    BY <1>10 DEF CopyName, At, Goto, accVars
  <2>2. slotName = 0 \/ slotName \in c..accepted
    BY <1>2, <1>3, <2>1 DEF TypeOK, AcceptPc
  <2>3. QED
    BY <1>1, <1>2, <1>3, <2>1, <2>2 DEF HandoffInv, TypeOK
<1>11. ASSUME NEW c \in Conns, CopyFd(c) PROVE HandoffInv'
  <2>1. /\ wpc[c] = "named" /\ wpc' = [wpc EXCEPT ![c] = "read"]
        /\ wfd' = [wfd EXCEPT ![c] = slotFd]
        /\ UNCHANGED <<apc, accepted, slotName, slotFd, nm>>
    BY <1>11 DEF CopyFd, At, Goto, accVars
  <2>2. slotFd = 0 \/ slotFd \in c..accepted
    BY <1>2, <1>3, <2>1 DEF TypeOK, AcceptPc
  <2>3. slotFd # 0 => nm[c] <= slotFd + 1
    <3>1. nm[c] <= accepted
      BY <1>2, <1>3, <1>4, <2>1
    <3>2. slotFd = 0 \/ slotFd = accepted \/ slotFd = accepted - 1
      BY <1>2 DEF TypeOK, AcceptPc
    <3>3. QED
      BY <1>3, <1>4, <3>1, <3>2
  <2>4. QED
    BY <1>1, <1>2, <1>3, <2>1, <2>2, <2>3 DEF HandoffInv, TypeOK
<1>12. CASE Elsewhere
  BY <1>1, <1>2, <1>12 DEF Elsewhere, HandoffInv
<1>13. CASE UNCHANGED vars
  BY <1>1, <1>2, <1>13 DEF vars, accVars, workVars, HandoffInv
<1>14. QED
  BY <1>1, <1>5, <1>6, <1>7, <1>8, <1>9, <1>10, <1>11, <1>12, <1>13,
     ElsewhereSteps DEF Next, AcceptLoop, Worker

\* However a thread's start is delayed, what it reads from the shared record
\* is never of a client older than its own, and the descriptor is at most one
\* client behind the name: for any number of connections and any failures of
\* accept() (acceptClientConnect, procClientRequest).
THEOREM ChatHandoff == Spec => []HandoffOrder
<1>1. Spec => []HandoffInv
  BY HandoffInit, HandoffNext, PTL DEF Spec
<1>2. HandoffInv => HandoffOrder
  BY DEF HandoffInv
<1>3. QED
  BY <1>1, <1>2, PTL

-----------------------------------------------------------------------------
(* Who closes which descriptor.                                             *)

\* Every accepted connection has a number, and a number that is open belongs
\* to the connection that was accepted under it.
TableInv ==
  /\ \A c \in 1..accepted : num[c] \in Fds
  /\ \A f \in Fds : sock[f] # 0 => sock[f] \in 1..accepted
                                   /\ num[sock[f]] = f

OwnInv == TypeInv /\ SpawnInv /\ TableInv /\ FdOwnership

LEMMA OwnInit == Init => OwnInv
<1> SUFFICES ASSUME Init PROVE OwnInv
  OBVIOUS
<1>1. TypeInv
  BY TypeInvInit
<1>2. SpawnInv /\ TableInv /\ FdOwnership
  BY DEF Init, SpawnInv, TableInv, FdOwnership, Fds
<1>3. QED
  BY <1>1, <1>2 DEF OwnInv

\* A thread's copies are made once: where the hand-over was lost it stays so.
LEMMA CleanBefore ==
  ASSUME TypeInv, SpawnInv, [Next]_vars, Clean'
  PROVE  Clean
<1> USE DEF TypeInv, TypeOK, HasName, HasFd, accVars, workVars, At, Goto
<1> DEFINE Kept == \A w \in Conns :
             /\ HasName(w) => HasName(w)' /\ nm'[w] = nm[w]
             /\ HasFd(w) => HasFd(w)' /\ wfd'[w] = wfd[w]
<1>1. SUFFICES Kept
  BY DEF Clean
<1>2. CASE Accept \/ AcceptFails \/ ReadName \/ InsertNode
  BY <1>2 DEF Accept, AcceptFails, ReadName, InsertNode
<1>3. CASE FillName \/ FillFd
  BY <1>3 DEF FillName, FillFd
<1>4. CASE Spawn
  <2>1. /\ wpc' = [wpc EXCEPT ![accepted] = "start"]
        /\ UNCHANGED <<nm, wfd>>
    BY <1>4 DEF Spawn
  <2>2. \A w \in Conns : w # accepted => wpc'[w] = wpc[w]
    BY <2>1
  <2>3. accepted \in Conns => wpc[accepted] = "none"
    BY <1>4 DEF Spawn, SpawnInv
  <2>4. QED
    BY <2>1, <2>2, <2>3
<1>5. ASSUME NEW c \in Conns, CopyName(c) PROVE Kept
  BY <1>5 DEF CopyName
<1>6. ASSUME NEW c \in Conns, CopyFd(c) PROVE Kept
  BY <1>6 DEF CopyFd
<1>7. ASSUME NEW c \in Conns, Client(c) PROVE Kept
  BY <1>7 DEF Client, ClientSend, ClientLeave
<1>8. ASSUME NEW c \in Conns, ReadMsg(c) \/ ReadEof(c) \/ ReadFails(c)
      PROVE  Kept
  BY <1>8 DEF ReadMsg, ReadEof, ReadFails
<1>9. ASSUME NEW c \in Conns, CloseFd(c) \/ DelNode(c) PROVE Kept
  BY <1>9 DEF CloseFd, DelNode
<1>10. ASSUME NEW c \in Conns, Lookup(c) PROVE Kept
  BY <1>10 DEF Lookup, Return
<1>11. ASSUME NEW c \in Conns, Send(c) \/ Store(c) \/ Reply(c) PROVE Kept
  BY <1>11 DEF Send, Store, Reply, Return
<1>12. ASSUME NEW c \in Conns, StartWalk(c) \/ WalkNode(c) \/ EndWalk(c)
       PROVE  Kept
  BY <1>12 DEF StartWalk, WalkNode, EndWalk, Return
<1>13. CASE UNCHANGED vars
  BY <1>13 DEF vars
<1>14. QED
  BY <1>2, <1>3, <1>4, <1>5, <1>6, <1>7, <1>8, <1>9, <1>10, <1>11, <1>12,
     <1>13 DEF Next, AcceptLoop, Worker, Handler

\* All other steps leave the descriptor table alone, and no thread returns
\* from closing its descriptor.
TableKept ==
  /\ UNCHANGED <<accepted, num, sock>>
  /\ \A w \in Conns : wpc[w] \in {"unlist", "done"} =>
                        wpc'[w] \in {"unlist", "done"}

LEMMA TableSteps ==
  ASSUME TypeInv, SpawnInv, [Next]_vars, ~Accept,
         \A w \in Conns : ~CloseFd(w)
  PROVE  TableKept
<1> USE DEF TypeInv, TypeOK, TableKept, accVars, regVars, workVars, At, Goto
<1>1. CASE AcceptFails \/ ReadName \/ InsertNode
  BY <1>1 DEF AcceptFails, ReadName, InsertNode
<1>2. CASE FillName \/ FillFd
  BY <1>2 DEF FillName, FillFd
<1>3. CASE Spawn
  <2>1. /\ wpc' = [wpc EXCEPT ![accepted] = "start"]
        /\ UNCHANGED <<accepted, num, sock>>
    BY <1>3 DEF Spawn
  <2>2. \A w \in Conns : w # accepted => wpc'[w] = wpc[w]
    BY <2>1
  <2>3. accepted \in Conns => wpc[accepted] = "none"
    BY <1>3 DEF Spawn, SpawnInv
  <2>4. QED
    BY <2>1, <2>2, <2>3
<1>4. ASSUME NEW c \in Conns, CopyName(c) \/ CopyFd(c) PROVE TableKept
  BY <1>4 DEF CopyName, CopyFd
<1>5. ASSUME NEW c \in Conns, Client(c) PROVE TableKept
  BY <1>5 DEF Client, ClientSend, ClientLeave
<1>6. ASSUME NEW c \in Conns, ReadMsg(c) \/ ReadEof(c) \/ ReadFails(c)
      PROVE  TableKept
  BY <1>6 DEF ReadMsg, ReadEof, ReadFails
<1>7. ASSUME NEW c \in Conns, DelNode(c) PROVE TableKept
  BY <1>7 DEF DelNode
<1>8. ASSUME NEW c \in Conns, Lookup(c) PROVE TableKept
  BY <1>8 DEF Lookup, Return
<1>9. ASSUME NEW c \in Conns, Send(c) \/ Store(c) \/ Reply(c) PROVE TableKept
  BY <1>9 DEF Send, Store, Reply, Return
<1>10. ASSUME NEW c \in Conns, StartWalk(c) \/ WalkNode(c) \/ EndWalk(c)
       PROVE  TableKept
  BY <1>10 DEF StartWalk, WalkNode, EndWalk, Return
<1>11. CASE UNCHANGED vars
  BY <1>11 DEF vars
<1>12. QED
  BY <1>1, <1>2, <1>3, <1>4, <1>5, <1>6, <1>7, <1>8, <1>9, <1>10, <1>11
     DEF Next, AcceptLoop, Worker, Handler

LEMMA OwnNext == OwnInv /\ SpawnInv' /\ [Next]_vars => OwnInv'
<1> SUFFICES ASSUME OwnInv, SpawnInv', [Next]_vars PROVE OwnInv'
  OBVIOUS
<1>1. TypeInv /\ TypeInv' /\ SpawnInv /\ TableInv /\ FdOwnership
  BY TypeInvNext DEF OwnInv
<1>2. Clean' => Clean
  BY <1>1, CleanBefore
<1>3. accepted \in Nat /\ accepted <= MaxConn /\ 1..accepted \subseteq Conns
  BY <1>1, ConnFacts DEF TypeInv, TypeOK, Conns
<1>4. CASE Accept
  <2>1. PICK f \in Fds : /\ sock[f] = 0
                         /\ sock' = [sock EXCEPT ![f] = accepted + 1]
                         /\ num' = [num EXCEPT ![accepted + 1] = f]
    BY <1>4 DEF Accept, FreeFds
  <2>2. accepted' = accepted + 1 /\ wpc' = wpc /\ accepted + 1 \in ConnOr0
    BY <1>3, <1>4, ConnFacts DEF Accept, workVars, ConnOr0
  <2>3. f \in 0..MaxFd /\ accepted + 1 # 0
    BY <1>3, ConnFacts
  <2>4. /\ \A c \in 1..accepted : num'[c] = num[c]
        /\ num'[accepted + 1] = f /\ sock'[f] = accepted + 1
        /\ \A g \in Fds : g # f => sock'[g] = sock[g]
    BY <1>1, <1>3, <2>1, <2>2, <2>3, ConnFacts DEF TypeInv, TypeOK, ConnOr0
  <2>5. TableInv'
    BY <1>1, <1>3, <2>2, <2>4 DEF TableInv
  <2>6. FdOwnership'
    <3>1. SUFFICES ASSUME Clean', NEW c \in 1..(accepted + 1),
                          wpc[c] \notin {"unlist", "done"}
                   PROVE  sock'[num'[c]] = c
      BY <2>2 DEF FdOwnership
    <3>2. CASE c = accepted + 1
      BY <2>4, <3>2
    <3>3. CASE c \in 1..accepted
      <4>1. sock[num[c]] = c /\ num[c] \in Fds
        BY <1>1, <1>2, <3>1, <3>3 DEF FdOwnership, TableInv
      <4>2. num[c] # f
        BY <1>3, <2>1, <3>3, <4>1
      <4>3. QED
        BY <2>4, <3>3, <4>1, <4>2
    <3>4. QED
      BY <1>3, <3>1, <3>2, <3>3
  <2>7. QED
    BY <1>1, <2>5, <2>6 DEF OwnInv
<1>5. ASSUME NEW w \in Conns, CloseFd(w) PROVE OwnInv'
  <2>1. /\ sock' = [sock EXCEPT ![num[wfd[w]]] = 0]
        /\ wpc[w] = "close" /\ wpc' = [wpc EXCEPT ![w] = "unlist"]
        /\ UNCHANGED <<accepted, num, nm, wfd>>
    BY <1>5 DEF CloseFd, At, Goto, accVars
  <2>2. TableInv'
    BY <1>1, <2>1, ConnFacts DEF TableInv, TypeInv, TypeOK
  <2>3. FdOwnership'
    <3>1. SUFFICES ASSUME Clean', NEW c \in 1..accepted,
                          wpc'[c] \notin {"unlist", "done"}
                   PROVE  sock'[num[c]] = c
      BY <2>1 DEF FdOwnership
    <3>2. c # w /\ wpc[c] \notin {"unlist", "done"} /\ c \in Conns
      BY <1>1, <1>3, <2>1, <3>1 DEF TypeInv, TypeOK
    <3>3. wfd[w] = w /\ w \in 1..accepted
      BY <1>1, <1>2, <1>3, <2>1, <3>1, ConnFacts
         DEF Clean, HasFd, SpawnInv, Conns
    <3>4. sock[num[c]] = c /\ sock[num[w]] = w
      BY <1>1, <1>2, <2>1, <3>1, <3>2, <3>3 DEF FdOwnership
    <3>5. num[c] # num[w] /\ num[c] \in 0..MaxFd
      BY <1>1, <3>1, <3>2, <3>4, ConnFacts DEF TableInv
    <3>6. QED
      BY <1>1, <2>1, <3>3, <3>4, <3>5 DEF TypeInv, TypeOK
  <2>4. QED
    BY <1>1, <2>2, <2>3 DEF OwnInv
<1>6. CASE TableKept
  <2>1. TableInv'
    BY <1>1, <1>6 DEF TableInv, TableKept
  <2>2. FdOwnership'
    BY <1>1, <1>2, <1>3, <1>6 DEF FdOwnership, TableKept
  <2>3. QED
    BY <1>1, <2>1, <2>2 DEF OwnInv
<1>7. QED
  BY <1>1, <1>4, <1>5, <1>6, TableSteps

\* With no lost hand-over, a descriptor number is closed under a connection by
\* its own thread only, however numbers are reused (accept 69, close 118-122).
THEOREM ChatFdOwnership == Spec => []FdOwnership
<1>1. Spec => []HandoffInv
  BY HandoffInit, HandoffNext, PTL DEF Spec
<1>2. HandoffInv => SpawnInv
  BY DEF HandoffInv
<1>3. Spec => []OwnInv
  BY <1>1, <1>2, OwnInit, OwnNext, PTL DEF Spec
<1>4. OwnInv => FdOwnership
  BY DEF OwnInv
<1>5. QED
  BY <1>3, <1>4, PTL

-----------------------------------------------------------------------------
(* What becomes of a message: it waits in the inbox of its sender, is       *)
(* handled by one thread, and ends as received, stored or dropped.          *)

Waiting(c, k, i) == k \in DOMAIN inbox[c] /\ inbox[c][k].id = i
Handled(w, i)    == wpc[w] \in Handling /\ job[w].id = i
Got(c, a, i)     == a \in DOMAIN rcv[c] /\ rcv[c][a].id = i

ForOne == {"one", "file", "add"}

\* A thread keeps its message while it goes on with it, or is done with it.
KeepsJob(w) ==
  wpc'[w] \in Handling =>
    /\ wpc[w] \in Handling /\ job'[w] = job[w]
    /\ wpc[w] = "walk" => wpc'[w] = "walk"
    /\ \/ wpc'[w] = wpc[w]
       \/ wpc'[w] = "walk" /\ job[w].kind = "all"
       \/ wpc'[w] \in {"send", "reply", "store"} /\ job[w].kind \in ForOne

Returns(w) == wpc' = [wpc EXCEPT ![w] = "read"]
              /\ job' = [job EXCEPT ![w] = NoMsg]

\* The six ways a step moves messages.
Quiet == /\ UNCHANGED <<inbox, sent, rcv, stored>>
         /\ \A w \in Conns : KeepsJob(w)

Arrives(c) ==
  /\ \E k \in Kinds, d \in Names :
       inbox' = [inbox EXCEPT ![c] =
                   Append(@, [id |-> sent + 1, kind |-> k, from |-> c,
                              des |-> d])]
  /\ sent < MaxMsg /\ sent' = sent + 1
  /\ UNCHANGED <<rcv, stored, wpc, job>>

Reads(w) ==
  /\ wpc[w] = "read" /\ Owner(w) \in Conns /\ inbox[Owner(w)] # <<>>
  /\ inbox' = [inbox EXCEPT ![Owner(w)] = Tail(@)]
  /\ \/ UNCHANGED <<wpc, job>>
     \/ /\ wpc' = [wpc EXCEPT ![w] = "handle"]
        /\ job' = [job EXCEPT ![w] = Head(inbox[Owner(w)])]
  /\ UNCHANGED <<sent, rcv, stored>>

\* A message or an answer is written to an open connection k.
Gives(k, m) == rcv' = [rcv EXCEPT ![k] = Append(@, m)]

Sends(w, k) ==
  /\ wpc[w] = "send" /\ Gives(k, job[w]) /\ Returns(w)
  /\ \E x \in Seen(cur[w]) : sock[num[x]] = k
  /\ UNCHANGED <<inbox, sent, stored>>

Replies(w, k) ==
  /\ wpc[w] = "reply" /\ Gives(k, [job[w] EXCEPT !.kind = "reply"])
  /\ Returns(w) /\ k = Owner(w)
  /\ UNCHANGED <<inbox, sent, stored>>

Walks(w, k) ==
  /\ wpc[w] = "walk" /\ Gives(k, job[w])
  /\ UNCHANGED <<inbox, sent, stored, wpc, job>>

Stores(w) ==
  /\ wpc[w] = "store" /\ stored' = stored \cup {job[w].id} /\ Returns(w)
  /\ UNCHANGED <<inbox, sent, rcv>>

Moves ==
  \/ Quiet
  \/ \E c \in Conns : Arrives(c) \/ Reads(c) \/ Stores(c)
  \/ \E w, k \in Conns : Sends(w, k) \/ Replies(w, k) \/ Walks(w, k)

\* A write gives the message to the connection open under the number, or to
\* nobody.
LEMMA WriteGives ==
  ASSUME TypeOK, NEW f \in 0..MaxFd, NEW m, WriteTo(f, m)
  PROVE  rcv' = rcv \/ (sock[f] \in Conns /\ Gives(sock[f], m))
<1>1. sock[f] \in ConnOr0
  BY DEF TypeOK
<1>2. sock[f] # 0 => sock[f] \in Conns
  BY <1>1, ChatConstants DEF ConnOr0, Conns
<1>3. QED
  BY <1>2 DEF WriteTo, Gives

LEMMA MoveSteps ==
  ASSUME TypeInv, [Next]_vars
  PROVE  Moves
<1> USE DEF accVars, slotVars, netVars, regVars, workVars, At, Goto
<1>t. TypeOK /\ wpc \in [Conns -> WorkerPc] /\ job \in [Conns -> Msg \cup {NoMsg}]
  BY DEF TypeInv, TypeOK
<1>1. CASE Accept \/ AcceptFails \/ ReadName \/ InsertNode \/ FillName \/ FillFd
  <2>1. UNCHANGED <<inbox, sent, rcv, stored, wpc, job>>
    BY <1>1 DEF Accept, AcceptFails, ReadName, InsertNode, FillName, FillFd
  <2>2. QED
    BY <2>1 DEF Moves, Quiet, KeepsJob
<1>2. CASE Spawn
  <2>1. UNCHANGED <<inbox, sent, rcv, stored, job>>
        /\ wpc' = [wpc EXCEPT ![accepted] = "start"]
    BY <1>2 DEF Spawn
  <2>2. \A w \in Conns : wpc'[w] \in Handling => wpc'[w] = wpc[w]
    BY <1>t, <2>1 DEF Handling
  <2>3. QED
    BY <2>1, <2>2 DEF Moves, Quiet, KeepsJob
<1>3. ASSUME NEW c \in Conns, ClientSend(c) PROVE Moves
  <2>1. Arrives(c)
    BY <1>3 DEF ClientSend, Arrives
  <2>2. QED
    BY <2>1 DEF Moves
<1>4. ASSUME NEW c \in Conns, ClientLeave(c) PROVE Moves
  <2>1. UNCHANGED <<inbox, sent, rcv, stored, wpc, job>>
    BY <1>4 DEF ClientLeave
  <2>2. QED
    BY <2>1 DEF Moves, Quiet, KeepsJob
<1>5. ASSUME NEW w \in Conns,
             CopyName(w) \/ CopyFd(w) \/ ReadEof(w) \/ ReadFails(w)
             \/ CloseFd(w) \/ DelNode(w)
      PROVE  Moves
  <2>1. UNCHANGED <<inbox, sent, rcv, stored, job>>
    BY <1>5 DEF CopyName, CopyFd, ReadEof, ReadFails, CloseFd, DelNode
  <2>2. \A v \in Conns : wpc'[v] \in Handling => wpc'[v] = wpc[v]
    BY <1>5, <1>t
       DEF CopyName, CopyFd, ReadEof, ReadFails, CloseFd, DelNode, Handling
  <2>3. QED
    BY <2>1, <2>2 DEF Moves, Quiet, KeepsJob
<1>6. ASSUME NEW w \in Conns, ReadMsg(w) PROVE Moves
  <2>1. Owner(w) \in Conns
    <3>1. Owner(w) \in ConnOr0
      BY <1>t DEF TypeOK, Owner
    <3>2. Owner(w) # 0
      BY <1>6 DEF ReadMsg
    <3>3. QED
      BY <3>1, <3>2, ChatConstants DEF ConnOr0, Conns
  <2>2. Reads(w)
    BY <1>6, <2>1 DEF ReadMsg, Reads
  <2>3. QED
    BY <2>2 DEF Moves
<1>7. ASSUME NEW w \in Conns, Lookup(w) PROVE Moves
  <2>1. UNCHANGED <<inbox, sent, rcv, stored>> /\ wpc[w] = "handle"
        /\ job[w].kind \in ForOne
    BY <1>7 DEF Lookup, ForOne
  <2>2. \/ Return(w)
        \/ /\ job' = job
           /\ \/ wpc' = [wpc EXCEPT ![w] = "reply"]
              \/ wpc' = [wpc EXCEPT ![w] = "store"]
              \/ wpc' = [wpc EXCEPT ![w] = "send"]
    BY <1>7 DEF Lookup
  <2>3. ASSUME NEW v \in Conns PROVE KeepsJob(v)
    <3>1. CASE v = w
      BY <1>t, <2>1, <2>2, <3>1 DEF KeepsJob, Handling, Return
    <3>2. CASE v # w
      BY <1>t, <2>1, <2>2, <3>2 DEF KeepsJob, Handling, Return
    <3>3. QED
      BY <3>1, <3>2
  <2>4. QED
    BY <2>1, <2>3 DEF Moves, Quiet
<1>8. ASSUME NEW w \in Conns, StartWalk(w) \/ EndWalk(w) PROVE Moves
  <2>1. UNCHANGED <<inbox, sent, rcv, stored>>
    BY <1>8 DEF StartWalk, EndWalk
  <2>2. ASSUME NEW v \in Conns PROVE KeepsJob(v)
    <3>1. CASE v = w
      BY <1>8, <1>t, <3>1 DEF KeepsJob, Handling, Return, StartWalk, EndWalk
    <3>2. CASE v # w
      BY <1>8, <1>t, <3>2 DEF KeepsJob, Handling, Return, StartWalk, EndWalk
    <3>3. QED
      BY <3>1, <3>2
  <2>3. QED
    BY <2>1, <2>2 DEF Moves, Quiet
<1>9. ASSUME NEW w \in Conns, Returns(w), UNCHANGED <<inbox, sent, rcv, stored>>
      PROVE  Moves
  <2>1. \A v \in Conns : wpc'[v] \in Handling => wpc'[v] = wpc[v]
                                                 /\ job'[v] = job[v]
    BY <1>9, <1>t DEF Handling, Returns
  <2>2. QED
    BY <1>9, <2>1 DEF Moves, Quiet, KeepsJob
<1>10. ASSUME NEW w \in Conns, Send(w) PROVE Moves
  <2>1. PICK x \in Seen(cur[w]) : WriteTo(num[x], job[w])
    BY <1>10 DEF Send
  <2>2. num[x] \in 0..MaxFd
    BY <1>t, <2>1, PointerTypes DEF TypeOK
  <2>3. rcv' = rcv \/ (sock[num[x]] \in Conns /\ Gives(sock[num[x]], job[w]))
    BY <1>t, <2>1, <2>2, WriteGives
  <2>4. Returns(w) /\ wpc[w] = "send" /\ UNCHANGED <<inbox, sent, stored>>
    BY <1>10 DEF Send, Return, Returns
  <2>5. CASE rcv' = rcv
    BY <1>9, <2>4, <2>5
  <2>6. CASE sock[num[x]] \in Conns /\ Gives(sock[num[x]], job[w])
    <3>1. Sends(w, sock[num[x]])
      BY <2>1, <2>4, <2>6 DEF Sends
    <3>2. QED
      BY <2>6, <3>1 DEF Moves
  <2>7. QED
    BY <2>3, <2>5, <2>6
<1>11. ASSUME NEW w \in Conns, Reply(w) PROVE Moves
  <2>1. /\ WriteTo(num[wfd[w]], [job[w] EXCEPT !.kind = "reply"])
        /\ num[wfd[w]] \in 0..MaxFd
    BY <1>11, <1>t DEF Reply, TypeOK
  <2>2. rcv' = rcv \/ (Owner(w) \in Conns
                       /\ Gives(Owner(w), [job[w] EXCEPT !.kind = "reply"]))
    BY <1>t, <2>1, WriteGives DEF Owner
  <2>3. Returns(w) /\ wpc[w] = "reply" /\ UNCHANGED <<inbox, sent, stored>>
    BY <1>11 DEF Reply, Return, Returns
  <2>4. CASE rcv' = rcv
    BY <1>9, <2>3, <2>4
  <2>5. CASE Owner(w) \in Conns
             /\ Gives(Owner(w), [job[w] EXCEPT !.kind = "reply"])
    <3>1. Replies(w, Owner(w))
      BY <2>3, <2>5 DEF Replies
    <3>2. QED
      BY <2>5, <3>1 DEF Moves
  <2>6. QED
    BY <2>2, <2>4, <2>5
<1>12. ASSUME NEW w \in Conns, Store(w) PROVE Moves
  <2>1. Stores(w)
    BY <1>12 DEF Store, Return, Stores, Returns
  <2>2. QED
    BY <2>1 DEF Moves
<1>13. ASSUME NEW w \in Conns, WalkNode(w) PROVE Moves
  <2>1. PICK x \in Seen(cur[w]) : WriteTo(num[x], job[w]) \/ rcv' = rcv
    BY <1>13 DEF WalkNode
  <2>2. num[x] \in 0..MaxFd
    BY <1>t, <2>1, PointerTypes DEF TypeOK
  <2>3. rcv' = rcv \/ (sock[num[x]] \in Conns /\ Gives(sock[num[x]], job[w]))
    BY <1>t, <2>1, <2>2, WriteGives
  <2>4. wpc[w] = "walk" /\ UNCHANGED <<inbox, sent, stored, wpc, job>>
    BY <1>13 DEF WalkNode
  <2>5. CASE rcv' = rcv
    BY <2>4, <2>5 DEF Moves, Quiet, KeepsJob
  <2>6. CASE sock[num[x]] \in Conns /\ Gives(sock[num[x]], job[w])
    <3>1. Walks(w, sock[num[x]])
      BY <2>4, <2>6 DEF Walks
    <3>2. QED
      BY <2>6, <3>1 DEF Moves
  <2>7. QED
    BY <2>3, <2>5, <2>6
<1>14. CASE UNCHANGED vars
  <2>1. UNCHANGED <<inbox, sent, rcv, stored, wpc, job>>
    BY <1>14 DEF vars
  <2>2. QED
    BY <2>1 DEF Moves, Quiet, KeepsJob
<1>15. QED
  BY <1>1, <1>2, <1>3, <1>4, <1>5, <1>6, <1>7, <1>8, <1>10, <1>11, <1>12,
     <1>13, <1>14 DEF Next, AcceptLoop, Client, Worker, Handler

-----------------------------------------------------------------------------
(* One outcome for a message, whatever the races.                           *)

\* Where message i may be at once: waiting it is nowhere else; handled it is
\* with one thread, and already received only if it is for all; received it is
\* not stored, and twice only if it is for all.
WaitingAlone(i) ==
  \A c, d \in Conns : \A k \in DOMAIN inbox[c] : Waiting(c, k, i) =>
    /\ ~Handled(d, i) /\ i \notin stored
    /\ \A l \in DOMAIN inbox[d] : Waiting(d, l, i) => c = d /\ k = l
    /\ \A b \in DOMAIN rcv[d] : ~Got(d, b, i)

HandledAlone(i) ==
  \A c, d \in Conns : Handled(c, i) =>
    /\ Handled(d, i) => c = d
    /\ i \notin stored
    /\ \A b \in DOMAIN rcv[d] :
         Got(d, b, i) => wpc[c] = "walk" /\ rcv[d][b].kind = "all"

GotAlone(i) ==
  \A c, d \in Conns : \A a \in DOMAIN rcv[c] : Got(c, a, i) =>
    /\ i \notin stored
    /\ \A b \in DOMAIN rcv[d] :
         Got(d, b, i) /\ rcv[c][a].kind # "all" => c = d /\ a = b

FateAt(i) == WaitingAlone(i) /\ HandledAlone(i) /\ GotAlone(i)

Fate == \A i \in 1..MaxMsg : FateAt(i)

Known(i) ==
  \/ i \in stored
  \/ \E c \in Conns :
       \/ Handled(c, i)
       \/ \E k \in DOMAIN inbox[c] : Waiting(c, k, i)
       \/ \E a \in DOMAIN rcv[c] : Got(c, a, i)

\* Messages are numbered as they are sent.
Numbered == \A i \in 1..MaxMsg : Known(i) => i <= sent

\* What a thread does with a message depends on its kind.
JobKinds ==
  \A w \in Conns :
    /\ wpc[w] = "walk" => job[w].kind = "all"
    /\ wpc[w] \in {"send", "reply", "store"} => job[w].kind \in ForOne

\* Nothing happened to message i but that some of its places are gone.
Fewer(i) ==
  /\ i \in stored' => i \in stored
  /\ \A c \in Conns :
       /\ \/ \A k \in DOMAIN inbox'[c] :
                Waiting(c, k, i)' => Waiting(c, k, i)
          \/ \A k \in DOMAIN inbox'[c] :
                Waiting(c, k, i)' => Waiting(c, k + 1, i) /\ k \in Nat
       /\ Handled(c, i)' => /\ Handled(c, i)
                            /\ wpc[c] = "walk" => wpc'[c] = "walk"
       /\ \A a \in DOMAIN rcv'[c] :
            Got(c, a, i)' => Got(c, a, i) /\ rcv'[c][a] = rcv[c][a]

LEMMA FateFewer ==
  ASSUME NEW i, FateAt(i), Fewer(i)
  PROVE  FateAt(i)'
<1> USE DEF FateAt
<1>g. \A e \in Conns : \A b \in DOMAIN rcv'[e] :
        Got(e, b, i)' => /\ b \in DOMAIN rcv[e] /\ Got(e, b, i)
                         /\ rcv'[e][b] = rcv[e][b]
  BY DEF Fewer, Got
<1>h. \A e \in Conns : Handled(e, i)' =>
        Handled(e, i) /\ (wpc[e] = "walk" => wpc'[e] = "walk")
  BY DEF Fewer
<1>w. \A e \in Conns : \A k \in DOMAIN inbox'[e] :
        Waiting(e, k, i)' => \E l \in DOMAIN inbox[e] : Waiting(e, l, i)
  BY DEF Fewer, Waiting
<1>s. i \in stored' => i \in stored
  BY DEF Fewer
<1>1. WaitingAlone(i)'
  <2> SUFFICES ASSUME NEW c \in Conns, NEW d \in Conns,
                      NEW k \in DOMAIN inbox'[c], Waiting(c, k, i)'
      PROVE  /\ ~Handled(d, i)' /\ i \notin stored'
             /\ \A l \in DOMAIN inbox'[d] : Waiting(d, l, i)' => c = d /\ k = l
             /\ \A b \in DOMAIN rcv'[d] : ~Got(d, b, i)'
    BY DEF WaitingAlone
  <2>1. PICK r \in DOMAIN inbox[c] : Waiting(c, r, i)
    BY <1>w
  <2>2. /\ ~Handled(d, i)' /\ i \notin stored'
        /\ \A b \in DOMAIN rcv'[d] : ~Got(d, b, i)'
    <3>1. ~Handled(d, i)' /\ i \notin stored'
      BY <2>1, <1>h, <1>s DEF WaitingAlone
    <3>2. \A b \in DOMAIN rcv'[d] : ~Got(d, b, i)'
      BY <2>1, <1>g DEF WaitingAlone
    <3>3. QED
      BY <3>1, <3>2
  <2>3. ASSUME NEW l \in DOMAIN inbox'[d], Waiting(d, l, i)'
        PROVE  c = d /\ k = l
    <3>1. \A m \in DOMAIN inbox[c], n \in DOMAIN inbox[d] :
            Waiting(c, m, i) /\ Waiting(d, n, i) => c = d /\ m = n
      BY DEF WaitingAlone
    <3>2. c = d
      BY <2>3, <1>w, <3>1
    <3>3. \A m, n : Waiting(c, m, i) /\ Waiting(c, n, i) => m = n
      BY <3>1, <3>2 DEF Waiting
    <3>4. CASE Waiting(c, k, i) /\ Waiting(c, l, i)
      BY <3>2, <3>3, <3>4
    <3>5. CASE /\ Waiting(c, k + 1, i) /\ Waiting(c, l + 1, i)
               /\ k \in Nat /\ l \in Nat
      <4>1. k + 1 = l + 1
        BY <3>3, <3>5
      <4>2. QED
        BY <3>2, <3>5, <4>1
    <3>6. QED
      BY <2>3, <3>2, <3>4, <3>5 DEF Fewer
  <2>4. QED
    BY <2>2, <2>3
<1>2. HandledAlone(i)'
  <2> SUFFICES ASSUME NEW c \in Conns, NEW d \in Conns, Handled(c, i)'
      PROVE  /\ Handled(d, i)' => c = d
             /\ i \notin stored'
             /\ \A b \in DOMAIN rcv'[d] : Got(d, b, i)' =>
                  wpc'[c] = "walk" /\ rcv'[d][b].kind = "all"
    BY DEF HandledAlone
  <2>1. /\ Handled(d, i)' => c = d
        /\ i \notin stored'
    BY <1>h, <1>s DEF HandledAlone
  <2>2. ASSUME NEW b \in DOMAIN rcv'[d], Got(d, b, i)'
        PROVE  wpc'[c] = "walk" /\ rcv'[d][b].kind = "all"
    BY <1>g, <1>h, <2>2 DEF HandledAlone
  <2>3. QED
    BY <2>1, <2>2
<1>3. GotAlone(i)'
  BY <1>g, <1>s DEF GotAlone
<1>4. QED
  BY <1>1, <1>2, <1>3

\* The places of message i after each kind of step.
LEMMA QuietFewer ==
  ASSUME Quiet, NEW i
  PROVE  Fewer(i)
BY DEF Quiet, KeepsJob, Fewer, Waiting, Handled, Got

LEMMA ArrivesPlaces ==
  ASSUME TypeInv, NEW e \in Conns, Arrives(e), NEW i \in 1..MaxMsg
  PROVE  /\ i # sent + 1 => Fewer(i)
         /\ \A c \in Conns :
              /\ Handled(c, i)' <=> Handled(c, i)
              /\ \A a : Got(c, a, i)' <=> Got(c, a, i)
              /\ c # e => \A k : Waiting(c, k, i)' <=> Waiting(c, k, i)
         /\ \A k : Waiting(e, k, i)' <=>
              Waiting(e, k, i) \/ (k = Len(inbox[e]) + 1 /\ i = sent + 1)
<1>1. PICK knd \in Kinds, d \in Names :
       inbox' = [inbox EXCEPT ![e] =
                   Append(@, [id |-> sent + 1, kind |-> knd, from |-> e,
                              des |-> d])]
  BY DEF Arrives
<1>2. UNCHANGED <<rcv, stored, wpc, job>>
  BY DEF Arrives
<1>3. inbox[e] \in Seq(Msg) /\ e \in ConnOr0 /\ inbox \in [ConnOr0 -> Seq(Msg)]
  BY ConnFacts DEF TypeInv, TypeOK
<1>4. \A c \in Conns : c # e => inbox'[c] = inbox[c]
  BY <1>1, <1>3, ConnFacts
<1>5. PICK m : /\ m.id = sent + 1 /\ inbox'[e] = Append(inbox[e], m)
  BY <1>1, <1>3
<1>6. \A k : Waiting(e, k, i)' <=>
              Waiting(e, k, i) \/ (k = Len(inbox[e]) + 1 /\ i = sent + 1)
  <2>1. DOMAIN inbox'[e] = 1..(Len(inbox[e]) + 1)
        /\ DOMAIN inbox[e] = 1..Len(inbox[e]) /\ Len(inbox[e]) \in Nat
    BY <1>3, <1>5
  <2>2. \A k \in 1..(Len(inbox[e]) + 1) :
          inbox'[e][k] = IF k \in 1..Len(inbox[e]) THEN inbox[e][k] ELSE m
    BY <1>3, <1>5
  <2>3. QED
    BY <1>5, <2>1, <2>2 DEF Waiting
<1>7. \A c \in Conns :
        /\ Handled(c, i)' <=> Handled(c, i)
        /\ \A a : Got(c, a, i)' <=> Got(c, a, i)
        /\ c # e => \A k : Waiting(c, k, i)' <=> Waiting(c, k, i)
  BY <1>2, <1>4 DEF Waiting, Handled, Got
<1>8. i # sent + 1 => Fewer(i)
  BY <1>2, <1>6, <1>7 DEF Fewer
<1>9. QED
  BY <1>6, <1>7, <1>8

LEMMA ReadsPlaces ==
  ASSUME TypeInv, NEW w \in Conns, Reads(w)
  PROVE  /\ \A c \in Conns : c # Owner(w) => inbox'[c] = inbox[c]
         /\ inbox'[Owner(w)] = Tail(inbox[Owner(w)])
         /\ DOMAIN inbox[Owner(w)] = 1..Len(inbox[Owner(w)])
         /\ DOMAIN inbox'[Owner(w)] = 1..(Len(inbox[Owner(w)]) - 1)
         /\ Len(inbox[Owner(w)]) \in Nat \ {0}
         /\ \A k \in DOMAIN inbox'[Owner(w)] :
              k \in Nat /\ inbox'[Owner(w)][k] = inbox[Owner(w)][k + 1]
         /\ Head(inbox[Owner(w)]) = inbox[Owner(w)][1]
         /\ Head(inbox[Owner(w)]) \in Msg
<1>1. Owner(w) \in ConnOr0 /\ inbox[Owner(w)] \in Seq(Msg)
      /\ inbox[Owner(w)] # <<>> /\ inbox \in [ConnOr0 -> Seq(Msg)]
  BY ConnFacts DEF TypeInv, TypeOK, Reads
<1>2. inbox' = [inbox EXCEPT ![Owner(w)] = Tail(@)]
  BY DEF Reads
<1> DEFINE q == inbox[Owner(w)]
<1>3. /\ inbox'[Owner(w)] = Tail(q)
      /\ \A c \in Conns : c # Owner(w) => inbox'[c] = inbox[c]
  BY <1>1, <1>2, ConnFacts
<1>4. q \in Seq(Msg) /\ q # <<>>
  BY <1>1
<1> HIDE DEF q
<1>5. /\ DOMAIN q = 1..Len(q) /\ Len(q) \in Nat \ {0}
      /\ DOMAIN Tail(q) = 1..(Len(q) - 1)
      /\ Head(q) = q[1] /\ Head(q) \in Msg
      /\ \A k \in 1..(Len(q) - 1) : k \in Nat /\ Tail(q)[k] = q[k + 1]
  BY <1>4
<1>6. QED
  BY <1>3, <1>5 DEF q

LEMMA GivesPlaces ==
  ASSUME TypeInv, NEW k \in Conns, NEW m, Gives(k, m)
  PROVE  \A c \in Conns :
           /\ DOMAIN rcv[c] = 1..Len(rcv[c]) /\ Len(rcv[c]) \in Nat
           /\ \A a \in DOMAIN rcv'[c] :
                \/ a \in DOMAIN rcv[c] /\ rcv'[c][a] = rcv[c][a]
                \/ c = k /\ a = Len(rcv[k]) + 1 /\ rcv'[c][a] = m
<1>1. /\ rcv \in [ConnOr0 -> Seq(Msg)] /\ k \in ConnOr0
      /\ rcv' = [rcv EXCEPT ![k] = Append(@, m)]
  BY ConnFacts DEF TypeInv, TypeOK, Gives
<1>2. \A c \in Conns : rcv[c] \in Seq(Msg)
  BY <1>1, ConnFacts
<1>3. \A c \in Conns : c # k => rcv'[c] = rcv[c]
  BY <1>1, ConnFacts
<1>4. rcv'[k] = Append(rcv[k], m)
  BY <1>1
<1>5. \A a \in DOMAIN rcv'[k] :
        \/ a \in DOMAIN rcv[k] /\ rcv'[k][a] = rcv[k][a]
        \/ a = Len(rcv[k]) + 1 /\ rcv'[k][a] = m
  BY <1>2, <1>4
<1>6. QED
  BY <1>2, <1>3, <1>5

\* What the three writes and the store have in common: the message comes from
\* the thread's job, and the thread is done with it unless it walks the list.
LEMMA JobLeaves ==
  ASSUME TypeInv, NEW w \in Conns, Returns(w)
  PROVE  \A v \in Conns : wpc'[v] \in Handling =>
           v # w /\ wpc'[v] = wpc[v] /\ job'[v] = job[v]
BY DEF TypeInv, TypeOK, Returns, Handling

LEMMA FateArrives ==
  ASSUME TypeInv, Fate, Numbered, NEW e \in Conns, Arrives(e),
         NEW i \in 1..MaxMsg
  PROVE  FateAt(i)'
<1>1. CASE i # sent + 1
  BY <1>1, ArrivesPlaces, FateFewer DEF Fate
<1>2. CASE i = sent + 1
  <2>1. ~Known(i)
    BY <1>2 DEF Numbered, TypeInv, TypeOK
  <2>2. /\ i \notin stored /\ stored' = stored
        /\ \A c \in Conns : /\ ~Handled(c, i)
                             /\ \A k : ~Waiting(c, k, i)
                             /\ \A a : ~Got(c, a, i)
    BY <2>1 DEF Known, Waiting, Got, Arrives
  <2>3. /\ i \notin stored'
        /\ \A c \in Conns : /\ ~Handled(c, i)'
                             /\ \A a : ~Got(c, a, i)'
                             /\ \A k : Waiting(c, k, i)' =>
                                  c = e /\ k = Len(inbox[e]) + 1
    BY <2>2, ArrivesPlaces
  <2>4. QED
    BY <2>3 DEF FateAt, WaitingAlone, HandledAlone, GotAlone
<1>3. QED
  BY <1>1, <1>2

LEMMA FateReads ==
  ASSUME TypeInv, Fate, NEW w \in Conns, Reads(w), NEW i \in 1..MaxMsg
  PROVE  FateAt(i)'
<1>o. PICK o \in Conns : o = Owner(w)
  BY DEF Reads
<1>q. /\ \A c \in Conns : c # o => inbox'[c] = inbox[c]
      /\ DOMAIN inbox[o] = 1..Len(inbox[o])
      /\ DOMAIN inbox'[o] = 1..(Len(inbox[o]) - 1)
      /\ Len(inbox[o]) \in Nat \ {0}
      /\ \A k \in DOMAIN inbox'[o] :
            k \in Nat /\ inbox'[o][k] = inbox[o][k + 1]
      /\ Head(inbox[o]) = inbox[o][1]
  BY <1>o, ReadsPlaces
<1>1. /\ \A c \in Conns : c # o => \A k : Waiting(c, k, i)' => Waiting(c, k, i)
      /\ \A k : Waiting(o, k, i)' => Waiting(o, k + 1, i) /\ k \in Nat
      /\ Waiting(o, 1, Head(inbox[o]).id)
      /\ \A k : Waiting(o, k, i)' => k + 1 # 1
  BY <1>q DEF Waiting
<1>2. UNCHANGED <<rcv, stored>>
  BY DEF Reads
<1>3. CASE UNCHANGED <<wpc, job>>
  <2>1. Fewer(i)
    BY <1>1, <1>2, <1>3 DEF Fewer, Handled, Got
  <2>2. QED
    BY <2>1, FateFewer DEF Fate
<1>4. CASE /\ wpc' = [wpc EXCEPT ![w] = "handle"]
           /\ job' = [job EXCEPT ![w] = Head(inbox[o])]
  <2>1. /\ \A v \in Conns : v # w => wpc'[v] = wpc[v] /\ job'[v] = job[v]
        /\ wpc'[w] = "handle" /\ job'[w] = Head(inbox[o])
        /\ wpc[w] = "read"
    BY <1>4 DEF TypeInv, TypeOK, Reads
  <2>2. CASE i # Head(inbox[o]).id
    <3>1. \A v \in Conns : Handled(v, i)' => v # w
      BY <2>1, <2>2 DEF Handled
    <3>2. \A v \in Conns : Handled(v, i)' => Handled(v, i) /\ wpc'[v] = wpc[v]
      BY <2>1, <3>1 DEF Handled
    <3>3. Fewer(i)
      BY <1>1, <1>2, <3>2 DEF Fewer, Got
    <3>4. QED
      BY <3>3, FateFewer DEF Fate
  <2>3. CASE i = Head(inbox[o]).id
    <3>1. Waiting(o, 1, i) /\ FateAt(i) /\ 1 \in DOMAIN inbox[o]
      BY <1>1, <2>3 DEF Fate, Waiting
    <3>2. /\ i \notin stored
          /\ \A d \in Conns :
               /\ ~Handled(d, i) /\ \A b : ~Got(d, b, i)
               /\ \A l : Waiting(d, l, i) => d = o /\ l = 1
      BY <1>o, <3>1 DEF FateAt, WaitingAlone, Waiting, Got
    <3>3. \A d \in Conns : \A l : ~Waiting(d, l, i)'
      <4>1. SUFFICES ASSUME NEW d \in Conns, NEW l, Waiting(d, l, i)'
                     PROVE  FALSE
        OBVIOUS
      <4>2. CASE d # o
        BY <1>1, <3>2, <4>1, <4>2
      <4>3. CASE d = o
        BY <1>1, <1>o, <3>2, <4>1, <4>3
      <4>4. QED
        BY <4>2, <4>3
    <3>4. \A d \in Conns : Handled(d, i)' => d = w
      BY <2>1, <3>2 DEF Handled
    <3>5. i \notin stored' /\ \A d \in Conns : \A b : ~Got(d, b, i)'
      BY <1>2, <3>2 DEF Got
    <3>6. QED
      BY <3>3, <3>4, <3>5 DEF FateAt, WaitingAlone, HandledAlone, GotAlone
  <2>4. QED
    BY <2>2, <2>3
<1>5. QED
  BY <1>o, <1>3, <1>4 DEF Reads

\* The thread of w hands its message m over for good.
LEMMA FateGives ==
  ASSUME TypeInv, Fate, NEW w \in Conns, NEW k \in Conns, NEW m, Gives(k, m),
         m.id = job[w].id, wpc[w] \in {"send", "reply"}, Returns(w),
         UNCHANGED <<inbox, stored>>, NEW i \in 1..MaxMsg
  PROVE  FateAt(i)'
<1>1. \A v \in Conns : Handled(v, i)' =>
         v # w /\ Handled(v, i) /\ wpc'[v] = wpc[v]
  BY JobLeaves DEF Handled
<1>2. \A c \in Conns : \A a : Got(c, a, i)' =>
        \/ Got(c, a, i) /\ rcv'[c][a] = rcv[c][a]
        \/ c = k /\ a = Len(rcv[k]) + 1 /\ i = m.id
  BY GivesPlaces DEF Got
<1>3. \A c \in Conns : \A l : Waiting(c, l, i)' <=> Waiting(c, l, i)
  BY DEF Waiting
<1>4. CASE i # m.id
  <2>1. Fewer(i)
    BY <1>1, <1>2, <1>3, <1>4 DEF Fewer
  <2>2. QED
    BY <2>1, FateFewer DEF Fate
<1>5. CASE i = m.id
  <2>1. Handled(w, i) /\ FateAt(i) /\ wpc[w] # "walk"
    BY <1>5 DEF Handled, Handling, Fate
  <2>2. \A c \in Conns : \A b : ~Got(c, b, i)
    BY <2>1 DEF FateAt, HandledAlone, Got
  <2>3. \A c \in Conns : \A l : ~Waiting(c, l, i)
    BY <2>1 DEF FateAt, WaitingAlone, Waiting
  <2>4. \A c \in Conns : ~Handled(c, i)'
    BY <1>1, <2>1 DEF FateAt, HandledAlone
  <2>5. i \notin stored'
    BY <2>1 DEF FateAt, HandledAlone
  <2>6. \A c \in Conns : \A a : Got(c, a, i)' => c = k /\ a = Len(rcv[k]) + 1
    BY <1>2, <2>2
  <2>7. QED
    BY <1>3, <2>3, <2>4, <2>5, <2>6
       DEF FateAt, WaitingAlone, HandledAlone, GotAlone
<1>6. QED
  BY <1>4, <1>5

LEMMA FateWalks ==
  ASSUME TypeInv, JobKinds, Fate, NEW w \in Conns, NEW k \in Conns, Walks(w, k),
         NEW i \in 1..MaxMsg
  PROVE  FateAt(i)'
<1>1. \A v \in Conns : (Handled(v, i)' <=> Handled(v, i)) /\ wpc'[v] = wpc[v]
  BY DEF Handled, Walks
<1>2. \A c \in Conns : \A a : Got(c, a, i)' =>
        \/ Got(c, a, i) /\ rcv'[c][a] = rcv[c][a]
        \/ i = job[w].id /\ rcv'[c][a] = job[w]
  BY GivesPlaces DEF Got, Walks
<1>3. /\ \A c \in Conns : \A l : Waiting(c, l, i)' <=> Waiting(c, l, i)
      /\ stored' = stored
  BY DEF Waiting, Walks
<1>4. CASE i # job[w].id
  <2>1. Fewer(i)
    BY <1>1, <1>2, <1>3, <1>4 DEF Fewer
  <2>2. QED
    BY <2>1, FateFewer DEF Fate
<1>5. CASE i = job[w].id
  <2>1. Handled(w, i) /\ FateAt(i) /\ job[w].kind = "all" /\ wpc[w] = "walk"
    BY <1>5 DEF Handled, Handling, Fate, Walks, JobKinds
  <2>2. \A c \in Conns : \A a : Got(c, a, i)' => rcv'[c][a].kind = "all"
    BY <1>2, <2>1 DEF FateAt, HandledAlone, Got
  <2>3. \A c \in Conns : \A l : ~Waiting(c, l, i)'
    BY <1>3, <2>1 DEF FateAt, WaitingAlone, Waiting
  <2>4. \A c \in Conns : Handled(c, i)' => c = w
    BY <1>1, <2>1 DEF FateAt, HandledAlone
  <2>5. i \notin stored'
    BY <1>3, <2>1 DEF FateAt, HandledAlone
  <2>6. wpc'[w] = "walk"
    BY <1>1, <2>1
  <2>7. QED
    BY <2>2, <2>3, <2>4, <2>5, <2>6
       DEF FateAt, WaitingAlone, HandledAlone, GotAlone
<1>6. QED
  BY <1>4, <1>5

LEMMA FateStores ==
  ASSUME TypeInv, Fate, NEW w \in Conns, Stores(w), NEW i \in 1..MaxMsg
  PROVE  FateAt(i)'
<1>1. /\ wpc[w] = "store" /\ stored' = stored \cup {job[w].id} /\ Returns(w)
      /\ UNCHANGED <<inbox, rcv>>
  BY DEF Stores
<1>2. \A v \in Conns : Handled(v, i)' =>
         v # w /\ Handled(v, i) /\ wpc'[v] = wpc[v]
  BY <1>1, JobLeaves DEF Handled
<1>3. \A c \in Conns : \A l : (Waiting(c, l, i)' <=> Waiting(c, l, i))
                             /\ (Got(c, l, i)' <=> Got(c, l, i))
  BY <1>1 DEF Waiting, Got
<1>4. CASE i # job[w].id
  <2>1. Fewer(i)
    BY <1>1, <1>2, <1>3, <1>4 DEF Fewer, Got
  <2>2. QED
    BY <2>1, FateFewer DEF Fate
<1>5. CASE i = job[w].id
  <2>1. Handled(w, i) /\ FateAt(i) /\ wpc[w] # "walk"
    BY <1>1, <1>5 DEF Handled, Handling, Fate
  <2>2. \A c \in Conns : \A b : ~Got(c, b, i)'
    BY <1>3, <2>1 DEF FateAt, HandledAlone, Got
  <2>3. \A c \in Conns : \A l : ~Waiting(c, l, i)'
    BY <1>3, <2>1 DEF FateAt, WaitingAlone, Waiting
  <2>4. \A c \in Conns : ~Handled(c, i)'
    BY <1>2, <2>1 DEF FateAt, HandledAlone
  <2>5. QED
    BY <2>2, <2>3, <2>4 DEF FateAt, WaitingAlone, HandledAlone, GotAlone
<1>6. QED
  BY <1>4, <1>5

LEMMA FateNext ==
  ASSUME TypeInv, JobKinds, Fate, Numbered, Moves
  PROVE  Fate'
<1> SUFFICES ASSUME NEW i \in 1..MaxMsg PROVE FateAt(i)'
  BY DEF Fate
<1>1. CASE Quiet
  BY <1>1, QuietFewer, FateFewer DEF Fate
<1>2. ASSUME NEW w \in Conns, NEW k \in Conns, Sends(w, k) PROVE FateAt(i)'
  BY <1>2, FateGives DEF Sends
<1>3. ASSUME NEW w \in Conns, NEW k \in Conns, Replies(w, k) PROVE FateAt(i)'
  <2> DEFINE m == [job[w] EXCEPT !.kind = "reply"]
  <2>1. /\ Gives(k, m) /\ wpc[w] = "reply" /\ Returns(w)
        /\ UNCHANGED <<inbox, stored>>
    BY <1>3 DEF Replies
  <2>2. job[w] \in Msg
    BY <2>1 DEF TypeInv, Handling
  <2>3. m.id = job[w].id
    BY <2>2 DEF Msg
  <2> HIDE DEF m
  <2>4. QED
    BY <2>1, <2>3, FateGives
<1>4. QED
  BY <1>1, <1>2, <1>3, FateArrives, FateReads, FateWalks, FateStores DEF Moves

LEMMA KindsNext ==
  ASSUME TypeInv, JobKinds, Moves
  PROVE  JobKinds'
<1> USE DEF TypeInv, TypeOK
<1>1. CASE Quiet
  BY <1>1 DEF Quiet, KeepsJob, JobKinds, Handling
<1>2. CASE UNCHANGED <<wpc, job>>
  BY <1>2 DEF JobKinds
<1>3. ASSUME NEW w \in Conns, Returns(w) PROVE JobKinds'
  BY <1>3, JobLeaves DEF JobKinds, Handling
<1>4. ASSUME NEW w \in Conns, Reads(w) PROVE JobKinds'
  <2>1. CASE /\ wpc' = [wpc EXCEPT ![w] = "handle"]
             /\ job' = [job EXCEPT ![w] = Head(inbox[Owner(w)])]
    BY <2>1 DEF JobKinds
  <2>2. QED
    BY <1>2, <1>4, <2>1 DEF Reads
<1>5. QED
  BY <1>1, <1>2, <1>3, <1>4 DEF Moves, Arrives, Stores, Sends, Replies, Walks

LEMMA NumberedNext ==
  ASSUME TypeInv, Numbered, Moves
  PROVE  Numbered'
<1>1. sent \in Nat /\ (sent' = sent \/ sent' = sent + 1)
  <2>1. sent \in Nat
    BY DEF TypeInv, TypeOK
  <2>2. sent' = sent \/ sent' = sent + 1
    <3>1. CASE Quiet
      BY <3>1 DEF Quiet
    <3>2. ASSUME NEW c \in Conns, Arrives(c) \/ Reads(c) \/ Stores(c)
          PROVE  sent' = sent \/ sent' = sent + 1
      BY <3>2 DEF Arrives, Reads, Stores
    <3>3. ASSUME NEW w \in Conns, NEW k \in Conns,
                 Sends(w, k) \/ Replies(w, k) \/ Walks(w, k)
          PROVE  sent' = sent
      BY <3>3 DEF Sends, Replies, Walks
    <3>4. QED
      BY <3>1, <3>2, <3>3 DEF Moves
  <2>3. QED
    BY <2>1, <2>2
<1>2. SUFFICES ASSUME NEW i \in 1..MaxMsg, Known(i)'
               PROVE  Known(i) \/ (i = sent + 1 /\ sent' = sent + 1)
  BY <1>1 DEF Numbered
<1>k. \A c \in Conns : Handled(c, i) => Known(i)
  BY DEF Known
<1>w. \A c \in Conns : \A k : Waiting(c, k, i) => Known(i)
  BY DEF Known, Waiting
<1>g. \A c \in Conns : \A a : Got(c, a, i) => Known(i)
  BY DEF Known, Got
<1>s. i \in stored => Known(i)
  BY DEF Known
<1>p. \/ i \in stored'
      \/ \E c \in Conns : \/ Handled(c, i)'
                         \/ \E k : Waiting(c, k, i)'
                         \/ \E a : Got(c, a, i)'
  BY <1>2 DEF Known
<1>3. CASE Quiet
  BY <1>3, <1>k, <1>w, <1>g, <1>s, <1>p
     DEF Quiet, KeepsJob, Handled, Waiting, Got
<1>4. ASSUME NEW e \in Conns, Arrives(e) PROVE i = sent + 1 \/ Known(i)
  <2>1. stored' = stored
    BY <1>4 DEF Arrives
  <2>2. QED
    BY <1>4, <1>k, <1>w, <1>g, <1>s, <1>p, <2>1, ArrivesPlaces
<1>5. ASSUME NEW w \in Conns, Reads(w) PROVE Known(i)
  <2>1. PICK o \in Conns : o = Owner(w)
    BY <1>5 DEF Reads
  <2>2. /\ \A c \in Conns : c # o => inbox'[c] = inbox[c]
        /\ DOMAIN inbox[o] = 1..Len(inbox[o])
        /\ DOMAIN inbox'[o] = 1..(Len(inbox[o]) - 1)
        /\ Len(inbox[o]) \in Nat \ {0}
        /\ \A k \in DOMAIN inbox'[o] : inbox'[o][k] = inbox[o][k + 1]
        /\ Head(inbox[o]) = inbox[o][1]
    BY <1>5, <2>1, ReadsPlaces
  <2>3. \A c \in Conns : \A k :
          Waiting(c, k, i)' => Waiting(c, k, i) \/ Waiting(c, k + 1, i)
    BY <2>2 DEF Waiting
  <2>4. UNCHANGED <<rcv, stored>>
    BY <1>5 DEF Reads
  <2>5. \A c \in Conns : Handled(c, i)' => Handled(c, i) \/ Waiting(o, 1, i)
    <3>1. CASE UNCHANGED <<wpc, job>>
      BY <3>1 DEF Handled
    <3>2. CASE /\ wpc' = [wpc EXCEPT ![w] = "handle"]
               /\ job' = [job EXCEPT ![w] = Head(inbox[o])]
      <4>1. \A v \in Conns : v # w => wpc'[v] = wpc[v] /\ job'[v] = job[v]
        BY <3>2 DEF TypeInv, TypeOK
      <4>2. job'[w] = inbox[o][1]
        BY <2>2, <3>2 DEF TypeInv, TypeOK
      <4>3. 1 \in DOMAIN inbox[o]
        BY <2>2
      <4>4. QED
        BY <4>1, <4>2, <4>3 DEF Handled, Waiting
    <3>3. QED
      BY <1>5, <2>1, <3>1, <3>2 DEF Reads
  <2>6. QED
    BY <1>k, <1>w, <1>g, <1>s, <1>p, <2>3, <2>4, <2>5 DEF Got
<1>6. ASSUME NEW w \in Conns, NEW k \in Conns, NEW m, Gives(k, m),
             m.id = job[w].id, wpc[w] \in Handling,
             \A v \in Conns : wpc'[v] \in Handling =>
                wpc'[v] = wpc[v] /\ job'[v] = job[v],
             UNCHANGED <<inbox, stored>>
      PROVE  Known(i)
  <2>1. \A v \in Conns : Handled(v, i)' => Handled(v, i)
    BY <1>6 DEF Handled
  <2>2. \A c \in Conns : \A a : Got(c, a, i)' => Got(c, a, i) \/ Handled(w, i)
    BY <1>6, GivesPlaces DEF Got, Handled
  <2>3. \A c \in Conns : \A l : Waiting(c, l, i)' => Waiting(c, l, i)
    BY <1>6 DEF Waiting
  <2>4. QED
    BY <1>6, <1>k, <1>w, <1>g, <1>s, <1>p, <2>1, <2>2, <2>3
<1>7. ASSUME NEW w \in Conns, NEW k \in Conns,
             Sends(w, k) \/ Replies(w, k) \/ Walks(w, k)
      PROVE  Known(i)
  <2>1. /\ wpc[w] \in Handling /\ UNCHANGED <<inbox, stored>>
        /\ Returns(w) \/ UNCHANGED <<wpc, job>>
    BY <1>7 DEF Sends, Replies, Walks, Handling
  <2>2. \A v \in Conns : wpc'[v] \in Handling =>
                wpc'[v] = wpc[v] /\ job'[v] = job[v]
    BY <2>1, JobLeaves
  <2>3. \E m : Gives(k, m) /\ m.id = job[w].id
    <3>1. [job[w] EXCEPT !.kind = "reply"].id = job[w].id
      BY <2>1 DEF TypeInv, Msg
    <3>2. QED
      BY <1>7, <3>1 DEF Sends, Replies, Walks
  <2>4. QED
    BY <1>6, <2>1, <2>2, <2>3
<1>8. ASSUME NEW w \in Conns, Stores(w) PROVE Known(i)
  <2>1. /\ wpc[w] = "store" /\ stored' = stored \cup {job[w].id}
        /\ UNCHANGED <<inbox, rcv>>
    BY <1>8 DEF Stores
  <2>2. \A v \in Conns : Handled(v, i)' => Handled(v, i)
    BY <1>8, JobLeaves DEF Stores, Handled
  <2>3. i \in stored' => i \in stored \/ Handled(w, i)
    BY <2>1 DEF Handled, Handling
  <2>4. QED
    BY <1>k, <1>w, <1>g, <1>s, <1>p, <2>1, <2>2, <2>3 DEF Waiting, Got
<1>9. QED
  BY <1>3, <1>4, <1>5, <1>7, <1>8 DEF Moves, Arrives

FateInv == TypeInv /\ JobKinds /\ Numbered /\ Fate

LEMMA FateInit == Init => FateInv
<1> SUFFICES ASSUME Init PROVE FateInv
  OBVIOUS
<1>1. /\ \A c \in Conns : inbox[c] = <<>> /\ rcv[c] = <<>> /\ wpc[c] = "none"
      /\ stored = {}
  BY ConnFacts DEF Init
<1>2. \A i : stored = {} /\ \A c \in Conns : /\ ~Handled(c, i)
                                           /\ \A k : ~Waiting(c, k, i)
                                           /\ \A a : ~Got(c, a, i)
  BY <1>1 DEF Handled, Handling, Waiting, Got
<1>3. Numbered /\ Fate /\ JobKinds
  BY <1>1, <1>2 DEF Numbered, Known, Fate, FateAt, WaitingAlone, HandledAlone,
                    GotAlone, JobKinds
<1>4. QED
  BY <1>3, TypeInvInit DEF FateInv

LEMMA FateInvNext == FateInv /\ [Next]_vars => FateInv'
<1> SUFFICES ASSUME FateInv, [Next]_vars PROVE FateInv'
  OBVIOUS
<1>1. TypeInv /\ TypeInv' /\ Moves
  BY TypeInvNext, MoveSteps DEF FateInv
<1>2. JobKinds' /\ Numbered' /\ Fate'
  BY <1>1, KindsNext, NumberedNext, FateNext DEF FateInv
<1>3. QED
  BY <1>1, <1>2 DEF FateInv

\* A message for one user is written to one client, once, or stored, never
\* both: for any number of clients, and also where threads took over the wrong
\* record and read one inbox together (procSendMsg2One, 72-98).
THEOREM ChatOneFate == Spec => []OneFate
<1>1. FateInv => OneFate
  <2> SUFFICES ASSUME FateInv PROVE OneFate
    OBVIOUS
  <2>1. \A k \in Conns : \A a \in DOMAIN rcv[k] : rcv[k][a].id \in 1..MaxMsg
    <3>1. \A k \in Conns : rcv[k] \in Seq(Msg)
      BY ConnFacts DEF FateInv, TypeInv, TypeOK
    <3>2. \A k \in Conns : \A a \in DOMAIN rcv[k] : rcv[k][a] \in Msg
      BY <3>1
    <3>3. QED
      BY <3>2 DEF Msg
  <2>2. \A k \in Conns : \A a \in DOMAIN rcv[k] :
          GotAlone(rcv[k][a].id) /\ Got(k, a, rcv[k][a].id)
    BY <2>1 DEF FateInv, Fate, FateAt, Got
  <2>3. QED
    BY <2>2 DEF OneFate, GotAlone, Got
<1>2. QED
  BY <1>1, FateInit, FateInvNext, PTL DEF Spec

-----------------------------------------------------------------------------
(* Who gets the answers, and in which order a client's messages arrive.     *)

\* An inbox holds what its client sent, in the order of sending.
InOrder ==
  \A c \in Conns :
    /\ \A k \in DOMAIN inbox[c] : inbox[c][k].from = c
    /\ \A k, l \in DOMAIN inbox[c] : k < l => inbox[c][k].id < inbox[c][l].id

\* A thread handles messages of its own client, the oldest not handled yet.
OwnJobs ==
  Clean => \A w \in Conns : wpc[w] \in Handling =>
    /\ job[w].from = w
    /\ \A k \in DOMAIN inbox[w] : job[w].id < inbox[w][k].id

\* What was received of a client is older than what is still to be handled.
GotBefore ==
  Clean => \A c, w \in Conns : \A a \in DOMAIN rcv[c] : rcv[c][a].from = w =>
    /\ wpc[w] \in Handling => rcv[c][a].id <= job[w].id
    /\ \A k \in DOMAIN inbox[w] : rcv[c][a].id < inbox[w][k].id

Ordered == InOrder /\ OwnJobs /\ GotBefore /\ ReplyToSender /\ SenderOrder

\* Every message anywhere has a number given out before.
LEMMA IdsSent ==
  ASSUME TypeInv, Numbered
  PROVE  /\ sent \in Nat
         /\ \A c \in Conns :
              /\ \A k \in DOMAIN inbox[c] :
                   inbox[c][k].id \in Nat /\ inbox[c][k].id <= sent
              /\ \A a \in DOMAIN rcv[c] :
                   rcv[c][a].id \in Nat /\ rcv[c][a].id <= sent
              /\ wpc[c] \in Handling =>
                   job[c].id \in Nat /\ job[c].id <= sent
<1>1. sent \in Nat
  BY DEF TypeInv, TypeOK
<1>2. ASSUME NEW c \in Conns, NEW k \in DOMAIN inbox[c]
      PROVE  inbox[c][k].id \in Nat /\ inbox[c][k].id <= sent
  <2>1. inbox[c] \in Seq(Msg)
    BY ConnFacts DEF TypeInv, TypeOK
  <2>2. inbox[c][k].id \in 1..MaxMsg
    <3>1. inbox[c][k] \in Msg
      BY <1>2, <2>1
    <3>2. QED
      BY <3>1 DEF Msg
  <2>3. Known(inbox[c][k].id)
    BY <1>2 DEF Known, Waiting
  <2>4. QED
    BY <2>2, <2>3 DEF Numbered
<1>3. ASSUME NEW c \in Conns, NEW a \in DOMAIN rcv[c]
      PROVE  rcv[c][a].id \in Nat /\ rcv[c][a].id <= sent
  <2>1. rcv[c] \in Seq(Msg)
    BY ConnFacts DEF TypeInv, TypeOK
  <2>2. rcv[c][a].id \in 1..MaxMsg
    <3>1. rcv[c][a] \in Msg
      BY <1>3, <2>1
    <3>2. QED
      BY <3>1 DEF Msg
  <2>3. Known(rcv[c][a].id)
    BY <1>3 DEF Known, Got
  <2>4. QED
    BY <2>2, <2>3 DEF Numbered
<1>4. ASSUME NEW c \in Conns, wpc[c] \in Handling
      PROVE  job[c].id \in Nat /\ job[c].id <= sent
  <2>1. job[c].id \in 1..MaxMsg
    BY <1>4 DEF TypeInv, Msg
  <2>2. Known(job[c].id)
    BY <1>4 DEF Known, Handled
  <2>3. QED
    BY <2>1, <2>2 DEF Numbered
<1>5. QED
  BY <1>1, <1>2, <1>3, <1>4

\* A thread that did not lose its record works on its own connection, from its
\* first read until it closes the descriptor.
LEMMA OwnConnection ==
  ASSUME OwnInv, Clean, NEW w \in Conns,
         wpc[w] \in Handling \cup {"read", "close"}
  PROVE  Owner(w) = w
<1>1. wfd[w] = w /\ wpc[w] \notin {"none", "unlist", "done"}
  BY DEF Clean, HasFd, Handling
<1>2. w \in 1..accepted
  BY <1>1, ConnFacts DEF OwnInv, SpawnInv, Conns, TypeInv, TypeOK
<1>3. QED
  BY <1>1, <1>2 DEF OwnInv, FdOwnership, Owner

LEMMA InOrderNext ==
  ASSUME TypeInv, Numbered, InOrder, Moves
  PROVE  InOrder'
<1>1. CASE UNCHANGED inbox
  BY <1>1 DEF InOrder
<1>2. ASSUME NEW e \in Conns, Arrives(e) PROVE InOrder'
  <2>1. PICK m : /\ m.id = sent + 1 /\ m.from = e
                 /\ inbox' = [inbox EXCEPT ![e] = Append(@, m)]
    BY <1>2 DEF Arrives
  <2>2. inbox[e] \in Seq(Msg) /\ e \in ConnOr0 /\ inbox \in [ConnOr0 -> Seq(Msg)]
    BY ConnFacts DEF TypeInv, TypeOK
  <2>3. /\ \A c \in Conns : c # e => inbox'[c] = inbox[c]
        /\ inbox'[e] = Append(inbox[e], m)
    BY <2>1, <2>2, ConnFacts
  <2>4. /\ DOMAIN inbox'[e] = 1..(Len(inbox[e]) + 1)
        /\ DOMAIN inbox[e] = 1..Len(inbox[e]) /\ Len(inbox[e]) \in Nat
        /\ \A k \in 1..(Len(inbox[e]) + 1) : inbox'[e][k] =
             IF k \in 1..Len(inbox[e]) THEN inbox[e][k] ELSE m
    BY <2>2, <2>3
  <2>5. \A k \in DOMAIN inbox'[e] : inbox'[e][k].from = e
    BY <2>1, <2>4 DEF InOrder
  <2>6. ASSUME NEW k \in DOMAIN inbox'[e], NEW l \in DOMAIN inbox'[e], k < l
        PROVE  inbox'[e][k].id < inbox'[e][l].id
    <3>1. k \in DOMAIN inbox[e] /\ inbox'[e][k] = inbox[e][k]
      BY <2>4, <2>6
    <3>2. CASE l \in DOMAIN inbox[e]
      BY <2>4, <2>6, <3>1, <3>2 DEF InOrder
    <3>3. CASE l \notin DOMAIN inbox[e]
      <4>1. inbox'[e][l].id = sent + 1
        BY <2>1, <2>4, <3>3
      <4>2. inbox[e][k].id \in Nat /\ inbox[e][k].id <= sent /\ sent \in Nat
        BY <3>1, IdsSent
      <4>3. QED
        BY <3>1, <4>1, <4>2
    <3>4. QED
      BY <3>2, <3>3
  <2>7. QED
    BY <2>3, <2>5, <2>6 DEF InOrder
<1>3. ASSUME NEW w \in Conns, Reads(w) PROVE InOrder'
  <2>1. PICK o \in Conns : o = Owner(w)
    BY <1>3 DEF Reads
  <2>2. /\ \A c \in Conns : c # o => inbox'[c] = inbox[c]
        /\ DOMAIN inbox[o] = 1..Len(inbox[o])
        /\ DOMAIN inbox'[o] = 1..(Len(inbox[o]) - 1)
        /\ Len(inbox[o]) \in Nat \ {0}
        /\ \A k \in DOMAIN inbox'[o] : inbox'[o][k] = inbox[o][k + 1]
    BY <1>3, <2>1, ReadsPlaces
  <2>3. \A k \in DOMAIN inbox'[o] : inbox'[o][k].from = o
    BY <2>2 DEF InOrder
  <2>4. ASSUME NEW k \in DOMAIN inbox'[o], NEW l \in DOMAIN inbox'[o], k < l
        PROVE  inbox'[o][k].id < inbox'[o][l].id
    <3>1. k + 1 \in DOMAIN inbox[o] /\ l + 1 \in DOMAIN inbox[o] /\ k + 1 < l + 1
      BY <2>2, <2>4
    <3>2. QED
      BY <2>2, <3>1 DEF InOrder
  <2>5. QED
    BY <2>2, <2>3, <2>4 DEF InOrder
<1>4. QED
  BY <1>1, <1>2, <1>3 DEF Moves, Quiet, Stores, Sends, Replies, Walks

\* Where nothing is received, and no thread takes a message on, the messages
\* still to be handled must keep their order only.
LEMMA OrderedArrives ==
  ASSUME TypeInv, Numbered, OwnJobs, GotBefore, ReplyToSender, SenderOrder,
         Clean' => Clean, NEW e \in Conns, Arrives(e)
  PROVE  OwnJobs' /\ GotBefore' /\ ReplyToSender' /\ SenderOrder'
<1>1. PICK m : m.id = sent + 1 /\ inbox' = [inbox EXCEPT ![e] = Append(@, m)]
  BY DEF Arrives
<1>2. inbox[e] \in Seq(Msg) /\ e \in ConnOr0 /\ inbox \in [ConnOr0 -> Seq(Msg)]
  BY ConnFacts DEF TypeInv, TypeOK
<1>3. /\ \A c \in Conns : c # e => inbox'[c] = inbox[c]
      /\ inbox'[e] = Append(inbox[e], m)
  BY <1>1, <1>2, ConnFacts
<1>4. \A k \in DOMAIN inbox'[e] :
        \/ k \in DOMAIN inbox[e] /\ inbox'[e][k] = inbox[e][k]
        \/ inbox'[e][k].id = sent + 1
  BY <1>1, <1>2, <1>3
<1>5. \A c \in Conns : \A k \in DOMAIN inbox'[c] :
        \/ k \in DOMAIN inbox[c] /\ inbox'[c][k] = inbox[c][k]
        \/ inbox'[c][k].id = sent + 1
  BY <1>3, <1>4
<1>6. UNCHANGED <<rcv, wpc, job>>
  BY DEF Arrives
<1>7. OwnJobs'
  <2> SUFFICES ASSUME Clean, NEW w \in Conns, wpc[w] \in Handling,
                      NEW k \in DOMAIN inbox'[w]
               PROVE  job[w].from = w /\ job[w].id < inbox'[w][k].id
    BY <1>6 DEF OwnJobs
  <2>1. job[w].id \in Nat /\ job[w].id <= sent /\ sent \in Nat
    BY IdsSent
  <2>2. QED
    BY <1>5, <2>1 DEF OwnJobs
<1>8. GotBefore'
  <2> SUFFICES ASSUME Clean, NEW c \in Conns, NEW w \in Conns,
                      NEW a \in DOMAIN rcv[c], rcv[c][a].from = w
               PROVE  /\ wpc[w] \in Handling => rcv[c][a].id <= job[w].id
                      /\ \A k \in DOMAIN inbox'[w] :
                           rcv[c][a].id < inbox'[w][k].id
    BY <1>6 DEF GotBefore
  <2>1. rcv[c][a].id \in Nat /\ rcv[c][a].id <= sent /\ sent \in Nat
    BY IdsSent
  <2>2. QED
    BY <1>5, <2>1 DEF GotBefore
<1>9. ReplyToSender' /\ SenderOrder'
  BY <1>6 DEF ReplyToSender, SenderOrder
<1>10. QED
  BY <1>7, <1>8, <1>9

LEMMA OrderedReads ==
  ASSUME OwnInv, InOrder, OwnJobs, GotBefore, ReplyToSender, SenderOrder,
         Clean' => Clean, NEW w \in Conns, Reads(w)
  PROVE  OwnJobs' /\ GotBefore' /\ ReplyToSender' /\ SenderOrder'
<1>t. TypeInv /\ wpc \in [Conns -> WorkerPc] /\ wpc[w] = "read" /\ UNCHANGED rcv
  BY DEF OwnInv, TypeInv, TypeOK, Reads
<1>1. ReplyToSender' /\ SenderOrder'
  BY <1>t DEF ReplyToSender, SenderOrder
<1>2. ASSUME Clean
      PROVE  /\ \A v \in Conns : \A k \in DOMAIN inbox'[v] : \E l \in DOMAIN inbox[v] :
                  inbox'[v][k] = inbox[v][l] /\ (v = w => inbox[w][1].id < inbox[w][l].id)
             /\ \A v \in Conns : wpc'[v] \in Handling =>
                  \/ wpc[v] \in Handling /\ job'[v] = job[v] /\ v # w
                  \/ v = w /\ job'[w] = inbox[w][1]
             /\ 1 \in DOMAIN inbox[w]
  <2>1. Owner(w) = w
    BY <1>2, <1>t, OwnConnection
  <2>2. /\ \A c \in Conns : c # w => inbox'[c] = inbox[c]
        /\ DOMAIN inbox[w] = 1..Len(inbox[w])
        /\ DOMAIN inbox'[w] = 1..(Len(inbox[w]) - 1)
        /\ Len(inbox[w]) \in Nat \ {0}
        /\ \A k \in DOMAIN inbox'[w] : inbox'[w][k] = inbox[w][k + 1]
        /\ Head(inbox[w]) = inbox[w][1]
    BY <1>t, <2>1, ReadsPlaces
  <2>3. 1 \in DOMAIN inbox[w]
    BY <2>2
  <2>4. \A k \in DOMAIN inbox'[w] :
          k + 1 \in DOMAIN inbox[w] /\ inbox[w][1].id < inbox[w][k + 1].id
    <3>1. \A k \in DOMAIN inbox'[w] : k + 1 \in DOMAIN inbox[w] /\ 1 < k + 1
      BY <2>2
    <3>2. QED
      BY <2>3, <3>1 DEF InOrder
  <2>5. ASSUME NEW v \in Conns, wpc'[v] \in Handling
        PROVE  \/ wpc[v] \in Handling /\ job'[v] = job[v] /\ v # w
               \/ v = w /\ job'[w] = inbox[w][1]
    <3>1. CASE UNCHANGED <<wpc, job>>
      BY <1>t, <2>5, <3>1 DEF Handling
    <3>2. CASE /\ wpc' = [wpc EXCEPT ![w] = "handle"]
               /\ job' = [job EXCEPT ![w] = Head(inbox[w])]
      <4>1. v # w => wpc'[v] = wpc[v] /\ job'[v] = job[v]
        BY <1>t, <3>2 DEF TypeInv, TypeOK
      <4>2. job'[w] = inbox[w][1]
        BY <1>t, <2>2, <3>2 DEF TypeInv, TypeOK
      <4>3. QED
        BY <2>5, <4>1, <4>2
    <3>3. QED
      BY <2>1, <3>1, <3>2 DEF Reads
  <2>6. ASSUME NEW v \in Conns, NEW k \in DOMAIN inbox'[v]
        PROVE  \E l \in DOMAIN inbox[v] : inbox'[v][k] = inbox[v][l]
                  /\ (v = w => inbox[w][1].id < inbox[w][l].id)
    <3>1. CASE v = w
      BY <2>2, <2>4, <2>6, <3>1
    <3>2. CASE v # w
      BY <2>2, <2>6, <3>2
    <3>3. QED
      BY <3>1, <3>2
  <2>7. QED
    BY <2>3, <2>5, <2>6
<1>3. OwnJobs'
  <2> SUFFICES ASSUME Clean, NEW v \in Conns, wpc'[v] \in Handling
               PROVE  /\ job'[v].from = v
                      /\ \A k \in DOMAIN inbox'[v] : job'[v].id < inbox'[v][k].id
    BY DEF OwnJobs
  <2>1. CASE wpc[v] \in Handling /\ job'[v] = job[v] /\ v # w
    BY <1>2, <2>1 DEF OwnJobs
  <2>2. CASE v = w /\ job'[w] = inbox[w][1]
    BY <1>2, <2>2 DEF InOrder
  <2>3. QED
    BY <1>2, <2>1, <2>2
<1>4. GotBefore'
  <2> SUFFICES ASSUME Clean, NEW c \in Conns, NEW v \in Conns,
                      NEW a \in DOMAIN rcv[c], rcv[c][a].from = v
               PROVE  /\ wpc'[v] \in Handling => rcv[c][a].id <= job'[v].id
                      /\ \A k \in DOMAIN inbox'[v] :
                           rcv[c][a].id < inbox'[v][k].id
    BY <1>t DEF GotBefore
  <2>1. \A k \in DOMAIN inbox'[v] : rcv[c][a].id < inbox'[v][k].id
    BY <1>2 DEF GotBefore
  <2>2. ASSUME wpc'[v] \in Handling PROVE rcv[c][a].id <= job'[v].id
    <3>1. CASE wpc[v] \in Handling /\ job'[v] = job[v] /\ v # w
      BY <3>1 DEF GotBefore
    <3>2. CASE v = w /\ job'[w] = inbox[w][1]
      <4>1. rcv[c][a].id < inbox[w][1].id
        BY <1>2, <3>2 DEF GotBefore
      <4>2. rcv[c][a].id \in Int /\ inbox[w][1].id \in Int
        <5>1. rcv[c] \in Seq(Msg) /\ inbox[w] \in Seq(Msg)
          BY <1>t, ConnFacts DEF TypeInv, TypeOK
        <5>2. rcv[c][a] \in Msg /\ inbox[w][1] \in Msg
          BY <1>2, <5>1
        <5>3. QED
          BY <5>2, ConnFacts DEF Msg
      <4>3. QED
        BY <3>2, <4>1, <4>2
    <3>3. QED
      BY <1>2, <2>2, <3>1, <3>2
  <2>3. QED
    BY <2>1, <2>2
<1>5. QED
  BY <1>1, <1>3, <1>4

\* Nothing is received, no message waits that did not wait before, and no
\* thread takes one up.
LEMMA OrderedQuiet ==
  ASSUME OwnJobs, GotBefore, ReplyToSender, SenderOrder, Clean' => Clean,
         UNCHANGED <<inbox, rcv>>,
         \A v \in Conns : wpc'[v] \in Handling =>
           wpc[v] \in Handling /\ job'[v] = job[v]
  PROVE  OwnJobs' /\ GotBefore' /\ ReplyToSender' /\ SenderOrder'
<1>1. OwnJobs'
  BY DEF OwnJobs
<1>2. GotBefore'
  BY DEF GotBefore
<1>3. ReplyToSender' /\ SenderOrder'
  BY DEF ReplyToSender, SenderOrder
<1>4. QED
  BY <1>1, <1>2, <1>3

\* The thread of w gives its message, or the answer to it, to client k.
LEMMA OrderedGives ==
  ASSUME TypeInv, OwnJobs, GotBefore, ReplyToSender, SenderOrder,
         Clean' => Clean, UNCHANGED inbox,
         \A v \in Conns : wpc'[v] \in Handling =>
           wpc[v] \in Handling /\ job'[v] = job[v],
         NEW w \in Conns, NEW k \in Conns, NEW m, Gives(k, m),
         wpc[w] \in Handling, m.id = job[w].id, m.from = job[w].from,
         Clean /\ m.kind = "reply" => k = w
  PROVE  OwnJobs' /\ GotBefore' /\ ReplyToSender' /\ SenderOrder'
<1>1. OwnJobs'
  BY DEF OwnJobs
<1>2. \A c \in Conns :
        /\ DOMAIN rcv[c] = 1..Len(rcv[c]) /\ Len(rcv[c]) \in Nat
        /\ \A a \in DOMAIN rcv'[c] :
             \/ a \in DOMAIN rcv[c] /\ rcv'[c][a] = rcv[c][a]
             \/ c = k /\ a = Len(rcv[k]) + 1 /\ rcv'[c][a] = m
  BY GivesPlaces
<1>3. Clean => m.from = w
  BY DEF OwnJobs
<1>i. job[w].id \in Int
  BY ConnFacts DEF TypeInv, Msg
<1>4. GotBefore'
  <2> SUFFICES ASSUME Clean, NEW c \in Conns, NEW v \in Conns,
                      NEW a \in DOMAIN rcv'[c], rcv'[c][a].from = v
               PROVE  /\ wpc'[v] \in Handling => rcv'[c][a].id <= job'[v].id
                      /\ \A l \in DOMAIN inbox[v] :
                           rcv'[c][a].id < inbox[v][l].id
    BY DEF GotBefore
  <2>1. CASE a \in DOMAIN rcv[c] /\ rcv'[c][a] = rcv[c][a]
    BY <2>1 DEF GotBefore
  <2>2. CASE rcv'[c][a] = m
    <3>1. v = w
      BY <1>3, <2>2
    <3>2. \A l \in DOMAIN inbox[v] : rcv'[c][a].id < inbox[v][l].id
      BY <2>2, <3>1 DEF OwnJobs
    <3>3. wpc'[v] \in Handling => rcv'[c][a].id <= job'[v].id
      BY <1>i, <2>2, <3>1
    <3>4. QED
      BY <3>2, <3>3
  <2>3. QED
    BY <1>2, <2>1, <2>2
<1>5. ReplyToSender'
  <2> SUFFICES ASSUME Clean, NEW c \in Conns, NEW a \in DOMAIN rcv'[c],
                      rcv'[c][a].kind = "reply"
               PROVE  rcv'[c][a].from = c
    BY DEF ReplyToSender
  <2>1. CASE a \in DOMAIN rcv[c] /\ rcv'[c][a] = rcv[c][a]
    BY <2>1 DEF ReplyToSender
  <2>2. CASE c = k /\ rcv'[c][a] = m
    BY <1>3, <2>2
  <2>3. QED
    BY <1>2, <2>1, <2>2
<1>6. SenderOrder'
  <2> SUFFICES ASSUME Clean, NEW c \in Conns, NEW i \in DOMAIN rcv'[c],
                      NEW j \in DOMAIN rcv'[c], i < j,
                      rcv'[c][i].from = rcv'[c][j].from
               PROVE  rcv'[c][i].id <= rcv'[c][j].id
    BY DEF SenderOrder
  <2>1. CASE j \in DOMAIN rcv[c] /\ rcv'[c][j] = rcv[c][j]
    <3>1. i \in DOMAIN rcv[c] /\ rcv'[c][i] = rcv[c][i]
      BY <1>2, <2>1
    <3>2. QED
      BY <2>1, <3>1 DEF SenderOrder
  <2>2. CASE c = k /\ j = Len(rcv[k]) + 1 /\ rcv'[c][j] = m
    <3>1. i \in DOMAIN rcv[c] /\ rcv'[c][i] = rcv[c][i]
      BY <1>2, <2>2
    <3>2. rcv[c][i].from = w
      BY <1>3, <2>2, <3>1
    <3>3. QED
      BY <2>2, <3>1, <3>2 DEF GotBefore
  <2>3. QED
    BY <1>2, <2>1, <2>2
<1>7. QED
  BY <1>1, <1>4, <1>5, <1>6

LEMMA OrderedNext ==
  ASSUME FateInv, OwnInv, Ordered, [Next]_vars
  PROVE  Ordered'
<1>1. TypeInv /\ Moves /\ (Clean' => Clean) /\ JobKinds /\ Numbered
  BY MoveSteps, CleanBefore DEF FateInv, OwnInv
<1>2. InOrder'
  BY <1>1, InOrderNext DEF Ordered
<1>3. OwnJobs' /\ GotBefore' /\ ReplyToSender' /\ SenderOrder'
  <2> DEFINE Goal == OwnJobs' /\ GotBefore' /\ ReplyToSender' /\ SenderOrder'
  <2>o. InOrder /\ OwnJobs /\ GotBefore /\ ReplyToSender /\ SenderOrder
    BY DEF Ordered
  <2>j. \A w \in Conns : wpc[w] \in Handling => job[w] \in Msg
    BY <1>1 DEF TypeInv
  <2>1. CASE Quiet
    <3>1. \A v \in Conns : wpc'[v] \in Handling =>
            wpc[v] \in Handling /\ job'[v] = job[v]
      BY <2>1 DEF Quiet, KeepsJob
    <3>2. QED
      BY <1>1, <2>o, <2>1, <3>1, OrderedQuiet DEF Quiet
  <2>2. ASSUME NEW w \in Conns, Stores(w) PROVE Goal
    <3>1. Returns(w) /\ UNCHANGED <<inbox, rcv>>
      BY <2>2 DEF Stores
    <3>2. \A v \in Conns : wpc'[v] \in Handling =>
            wpc[v] \in Handling /\ job'[v] = job[v]
      BY <1>1, <3>1, JobLeaves
    <3>3. QED
      BY <1>1, <2>o, <3>1, <3>2, OrderedQuiet
  <2>3. ASSUME NEW w \in Conns, NEW k \in Conns, Sends(w, k) \/ Walks(w, k)
        PROVE  Goal
    <3>1. /\ Gives(k, job[w]) /\ wpc[w] \in {"send", "walk"}
          /\ Returns(w) \/ UNCHANGED <<wpc, job>>
          /\ UNCHANGED inbox
      BY <2>3 DEF Sends, Walks
    <3>2. \A v \in Conns : wpc'[v] \in Handling =>
            wpc[v] \in Handling /\ job'[v] = job[v]
      <4>1. CASE Returns(w)
        BY <1>1, <4>1, JobLeaves
      <4>2. CASE UNCHANGED <<wpc, job>>
        BY <4>2
      <4>3. QED
        BY <3>1, <4>1, <4>2
    <3>3. job[w].kind # "reply" /\ wpc[w] \in Handling
      BY <1>1, <3>1 DEF JobKinds, ForOne, Handling
    <3>4. QED
      BY <1>1, <2>o, <3>1, <3>2, <3>3, OrderedGives
  <2>4. ASSUME NEW w \in Conns, NEW k \in Conns, Replies(w, k)
        PROVE  Goal
    <3> DEFINE m == [job[w] EXCEPT !.kind = "reply"]
    <3>1. /\ Gives(k, m) /\ wpc[w] = "reply" /\ Returns(w) /\ UNCHANGED inbox
          /\ k = Owner(w)
      BY <2>4 DEF Replies
    <3>2. \A v \in Conns : wpc'[v] \in Handling =>
            wpc[v] \in Handling /\ job'[v] = job[v]
      BY <1>1, <3>1, JobLeaves
    <3>3. wpc[w] \in Handling
      BY <3>1 DEF Handling
    <3>4. m.id = job[w].id /\ m.from = job[w].from
      BY <2>j, <3>3 DEF Msg
    <3>5. Clean => k = w
      BY <3>1, <3>3, OwnConnection
    <3> HIDE DEF m
    <3>6. QED
      BY <1>1, <2>o, <3>1, <3>2, <3>3, <3>4, <3>5, OrderedGives
  <2>5. QED
    BY <1>1, <2>o, <2>1, <2>2, <2>3, <2>4, OrderedArrives, OrderedReads
       DEF Moves
<1>4. QED
  BY <1>2, <1>3 DEF Ordered

DeliveryInv == FateInv /\ OwnInv /\ Ordered

LEMMA DeliveryInit == Init => DeliveryInv
<1> SUFFICES ASSUME Init PROVE DeliveryInv
  OBVIOUS
<1>1. \A c \in Conns : inbox[c] = <<>> /\ rcv[c] = <<>> /\ wpc[c] = "none"
  BY ConnFacts DEF Init
<1>2. Ordered
  BY <1>1 DEF Ordered, InOrder, OwnJobs, GotBefore, ReplyToSender, SenderOrder,
              Handling
<1>3. QED
  BY <1>2, FateInit, OwnInit DEF DeliveryInv

LEMMA DeliveryNext == DeliveryInv /\ SpawnInv' /\ [Next]_vars => DeliveryInv'
BY FateInvNext, OwnNext, OrderedNext DEF DeliveryInv

\* With no lost hand-over, an answer goes to the client whose message it
\* answers, however descriptor numbers are reused (the srcFd writes of
\* server_proc.c).
THEOREM ChatReplies == Spec => []ReplyToSender
<1>1. Spec => []HandoffInv
  BY HandoffInit, HandoffNext, PTL DEF Spec
<1>2. HandoffInv => SpawnInv
  BY DEF HandoffInv
<1>3. Spec => []DeliveryInv
  BY <1>1, <1>2, DeliveryInit, DeliveryNext, PTL DEF Spec
<1>4. DeliveryInv => ReplyToSender
  BY DEF DeliveryInv, Ordered
<1>5. QED
  BY <1>3, <1>4, PTL

\* With no lost hand-over, what a client gets from one other client comes in
\* the order it was sent, for any number of clients, walks and write failures.
THEOREM ChatSenderOrder == Spec => []SenderOrder
<1>1. Spec => []HandoffInv
  BY HandoffInit, HandoffNext, PTL DEF Spec
<1>2. HandoffInv => SpawnInv
  BY DEF HandoffInv
<1>3. Spec => []DeliveryInv
  BY <1>1, <1>2, DeliveryInit, DeliveryNext, PTL DEF Spec
<1>4. DeliveryInv => SenderOrder
  BY DEF DeliveryInv, Ordered
<1>5. QED
  BY <1>3, <1>4, PTL

-----------------------------------------------------------------------------
(* To whom a message for one user is written.                               *)

\* A connection has no name until the accept loop has read it.
NamedOnce ==
  \A c \in Conns :
    c > accepted \/ (c = accepted /\ apc = "name") => who[c] = NoName

\* The listed connections were inserted; one that is not listed any more was
\* deleted by a thread of its name (delNode goes by name).
ListInv ==
  /\ online \subseteq Inserted
  /\ Clean => \A c \in Inserted : c \notin online =>
       \E d \in Conns : who[d] = who[c] /\ wpc[d] = "done"

\* The node a thread is about to write to was found under the receiver's name.
SendTo ==
  \A w \in Conns : wpc[w] = "send" =>
    cur[w] \in Inserted /\ who[cur[w]] = job[w].des

RosterInv == NamedOnce /\ ListInv /\ SendTo /\ ToReceiver

LEMMA RosterInit == Init => RosterInv
<1> SUFFICES ASSUME Init PROVE RosterInv
  OBVIOUS
<1>1. \A c \in Conns : /\ who[c] = NoName /\ rcv[c] = <<>> /\ wpc[c] = "none"
  BY ConnFacts DEF Init
<1>2. online = {} /\ Inserted = {}
  BY DEF Init, Inserted
<1>3. QED
  BY <1>1, <1>2 DEF RosterInv, NamedOnce, ListInv, SendTo, ToReceiver

\* Who has been inserted, in terms of the accept loop's place.
LEMMA InsertedFacts ==
  ASSUME TypeInv
  PROVE  /\ accepted \in Nat /\ accepted <= MaxConn
         /\ \A c : c \in Inserted <=>
              /\ c \in Conns /\ c <= accepted
              /\ apc \in {"name", "insert"} => c < accepted
<1>1. accepted \in Nat /\ accepted <= MaxConn
  BY ConnFacts DEF TypeInv, TypeOK
<1>2. \A c : c \in 1..accepted <=> c \in Conns /\ c <= accepted
  BY <1>1, ConnFacts DEF Conns
<1>3. \A c : c \in 1..(accepted - 1) <=>
              c \in Conns /\ c <= accepted /\ c < accepted
  BY <1>1, ConnFacts DEF Conns
<1>4. QED
  BY <1>1, <1>2, <1>3 DEF Inserted

\* What the clients and the threads leave alone.
LEMMA ThreadSteps ==
  ASSUME TypeInv, NEW c \in Conns, Client(c) \/ Worker(c)
  PROVE  /\ UNCHANGED <<apc, accepted, who>>
         /\ (online' = online \/ DelNode(c))
         /\ \A w \in Conns :
              /\ wpc[w] = "done" => wpc'[w] = "done"
              /\ wpc'[w] = "send" =>
                   \/ wpc[w] = "send" /\ cur'[w] = cur[w] /\ job'[w] = job[w]
                   \/ w = c /\ Lookup(c)
<1> DEFINE Goal == /\ UNCHANGED <<apc, accepted, who>>
         /\ (online' = online \/ DelNode(c))
         /\ \A w \in Conns :
              /\ wpc[w] = "done" => wpc'[w] = "done"
              /\ wpc'[w] = "send" =>
                   \/ wpc[w] = "send" /\ cur'[w] = cur[w] /\ job'[w] = job[w]
                   \/ w = c /\ Lookup(c)
<1> USE DEF accVars, slotVars, netVars, regVars, workVars, At, Goto
<1>t. /\ wpc \in [Conns -> WorkerPc] /\ job \in [Conns -> Msg \cup {NoMsg}]
      /\ cur \in [Conns -> ConnOr0]
  BY DEF TypeInv, TypeOK
<1>1. CASE Client(c)
  BY <1>1 DEF Client, ClientSend, ClientLeave
<1>2. CASE CopyName(c) \/ CopyFd(c) \/ ReadEof(c) \/ ReadFails(c)
  BY <1>2, <1>t DEF CopyName, CopyFd, ReadEof, ReadFails
<1>3. CASE ReadMsg(c)
  <2>1. /\ UNCHANGED <<apc, accepted, who, online, cur>> /\ wpc[c] = "read"
        /\ \/ UNCHANGED <<wpc, job>>
           \/ \E m : /\ wpc' = [wpc EXCEPT ![c] = "handle"]
                     /\ job' = [job EXCEPT ![c] = m]
    BY <1>3 DEF ReadMsg
  <2>2. QED
    BY <2>1, <1>t
<1>4. CASE CloseFd(c) \/ DelNode(c)
  BY <1>4, <1>t DEF CloseFd, DelNode
<1>5. CASE Lookup(c)
  <2>1. /\ UNCHANGED <<apc, accepted, who, online>> /\ wpc[c] = "handle"
    BY <1>5 DEF Lookup
  <2>2. \A w \in Conns : w # c =>
           wpc'[w] = wpc[w] /\ cur'[w] = cur[w] /\ job'[w] = job[w]
    <3>1. CASE Return(c)
      BY <3>1, <1>t DEF Return
    <3>2. CASE UNCHANGED <<job, cur>> /\ \E pc : wpc' = [wpc EXCEPT ![c] = pc]
      BY <3>2, <1>t
    <3>3. CASE /\ UNCHANGED job /\ \E pc : wpc' = [wpc EXCEPT ![c] = pc]
               /\ \E d \in online : cur' = [cur EXCEPT ![c] = d]
      BY <3>3, <1>t
    <3>4. QED
      BY <1>5, <3>1, <3>2, <3>3 DEF Lookup
  <2>3. QED
    BY <1>5, <2>1, <2>2
<1>6. CASE Send(c) \/ Store(c) \/ Reply(c)
  <2>1. /\ UNCHANGED <<apc, accepted, who, online>> /\ Return(c)
        /\ wpc[c] # "done"
    BY <1>6 DEF Send, Store, Reply
  <2>2. QED
    BY <2>1, <1>t DEF Return
<1>7. CASE StartWalk(c)
  <2>1. /\ UNCHANGED <<apc, accepted, who, online, job>>
        /\ wpc[c] = "handle" /\ wpc' = [wpc EXCEPT ![c] = "walk"]
        /\ \E d : cur' = [cur EXCEPT ![c] = d]
    BY <1>7 DEF StartWalk
  <2>2. QED
    BY <2>1, <1>t
<1>8. CASE WalkNode(c)
  <2>1. /\ UNCHANGED <<apc, accepted, who, online, job, wpc>>
        /\ wpc[c] = "walk"
        /\ \E d : cur' = [cur EXCEPT ![c] = d]
    BY <1>8 DEF WalkNode
  <2>2. QED
    BY <2>1, <1>t
<1>9. CASE EndWalk(c)
  <2>1. /\ UNCHANGED <<apc, accepted, who, online>> /\ Return(c)
        /\ wpc[c] = "walk"
    BY <1>9 DEF EndWalk
  <2>2. QED
    BY <2>1, <1>t DEF Return
<1>10. QED
  BY <1>1, <1>2, <1>3, <1>4, <1>5, <1>6, <1>7, <1>8, <1>9 DEF Worker, Handler

\* A step leaves the list's threads alone: those that ended stay, none starts
\* to send.
Idle ==
  \A w \in Conns :
    /\ wpc[w] = "done" => wpc'[w] = "done"
    /\ wpc'[w] = "send" =>
         wpc[w] = "send" /\ cur'[w] = cur[w] /\ job'[w] = job[w]

LEMMA IdleKeeps ==
  ASSUME Idle, ListInv, SendTo, Clean' => Clean, UNCHANGED <<who, online>>,
         Inserted' = Inserted
  PROVE  ListInv' /\ SendTo'
<1>1. ListInv'
  BY DEF ListInv, Idle
<1>2. SendTo'
  BY DEF SendTo, Idle
<1>3. QED
  BY <1>1, <1>2

LEMMA ListNext ==
  ASSUME TypeInv, TypeInv', SpawnInv, NamedOnce, ListInv, SendTo,
         Clean' => Clean, [Next]_vars
  PROVE  NamedOnce' /\ ListInv' /\ SendTo'
<1> USE DEF accVars, slotVars, netVars, regVars, workVars
<1> DEFINE Goal == NamedOnce' /\ ListInv' /\ SendTo'
<1>i. /\ accepted \in Nat /\ accepted <= MaxConn
      /\ \A c : c \in Inserted <=>
           /\ c \in Conns /\ c <= accepted
           /\ apc \in {"name", "insert"} => c < accepted
  BY InsertedFacts
<1>j. \A c : c \in Inserted' <=>
           /\ c \in Conns /\ c <= accepted'
           /\ apc' \in {"name", "insert"} => c < accepted'
  <2>1. ASSUME TypeInv
        PROVE  \A c : c \in Inserted <=>
                 /\ c \in Conns /\ c <= accepted
                 /\ apc \in {"name", "insert"} => c < accepted
    BY InsertedFacts
  <2>2. accepted' \in Nat /\ accepted' <= MaxConn
    BY ConnFacts DEF TypeInv, TypeOK
  <2>3. \A c : c \in 1..accepted' <=> c \in Conns /\ c <= accepted'
    BY <2>2, ConnFacts DEF Conns
  <2>4. \A c : c \in 1..(accepted' - 1) <=>
                c \in Conns /\ c <= accepted' /\ c < accepted'
    BY <2>2, ConnFacts DEF Conns
  <2>5. QED
    BY <2>2, <2>3, <2>4 DEF Inserted
<1>t. wpc \in [Conns -> WorkerPc]
  BY DEF TypeInv, TypeOK
<1>n. \A c \in Conns : c \in Nat
  BY ConnFacts
<1>1. CASE Accept
  <2>1. /\ apc = "wait" /\ apc' = "name" /\ accepted' = accepted + 1
        /\ UNCHANGED <<who, online, workVars>>
    BY <1>1 DEF Accept
  <2>2. \A c : c \in Inserted' <=> c \in Inserted
    BY <1>i, <1>j, <1>n, <2>1
  <2>3. NamedOnce'
    BY <1>i, <1>n, <2>1 DEF NamedOnce
  <2>4. Idle /\ Inserted' = Inserted
    <3>1. Inserted' = Inserted
      BY <2>2, <1>i, <1>j, <2>1 DEF Inserted
    <3>2. QED
      BY <2>1, <3>1 DEF Idle
  <2>5. QED
    BY <2>1, <2>3, <2>4, IdleKeeps
<1>2. CASE ReadName
  <2>1. /\ apc = "name" /\ apc' = "insert"
        /\ UNCHANGED <<accepted, online, workVars>>
        /\ \A c \in Conns : c # accepted => who'[c] = who[c]
    <3>1. who \in [ConnOr0 -> Names \cup {NoName}]
      BY DEF TypeInv, TypeOK
    <3>2. who' = who \/ \E n : who' = [who EXCEPT ![accepted] = n]
      BY <1>2 DEF ReadName
    <3>3. \A c \in Conns : c # accepted => who'[c] = who[c]
      BY <3>1, <3>2, ConnFacts
    <3>4. QED
      BY <1>2, <3>3 DEF ReadName
  <2>2. Inserted' = Inserted /\ \A c \in Inserted : c # accepted /\ c \in Conns
    <3>1. \A c \in Inserted : c # accepted /\ c \in Conns
      BY <1>i, <1>n, <2>1
    <3>2. QED
      BY <2>1, <3>1 DEF Inserted
  <2>3. NamedOnce'
    BY <1>i, <1>n, <2>1 DEF NamedOnce
  <2>4. ListInv'
    <3>1. SUFFICES ASSUME Clean, NEW c \in Inserted, c \notin online
                   PROVE  \E d \in Conns : who'[d] = who'[c] /\ wpc[d] = "done"
      BY <2>1, <2>2 DEF ListInv
    <3>2. PICK d \in Conns : who[d] = who[c] /\ wpc[d] = "done"
      BY <3>1 DEF ListInv
    <3>3. d # accepted
      BY <1>i, <1>n, <2>1, <3>2 DEF SpawnInv
    <3>4. QED
      BY <2>1, <2>2, <3>1, <3>2, <3>3
  <2>5. SendTo'
    BY <2>1, <2>2 DEF SendTo
  <2>6. QED
    BY <2>3, <2>4, <2>5
<1>3. CASE InsertNode
  <2>1. /\ apc = "insert" /\ apc' = "slotname" /\ accepted \in Conns
        /\ online' = online \cup {accepted}
        /\ UNCHANGED <<accepted, who, workVars>>
    BY <1>3 DEF InsertNode, TypeInv
  <2>2. \A c : c \in Inserted' <=> c \in Inserted \/ c = accepted
    <3>1. \A c \in Conns : c <= accepted <=> c < accepted \/ c = accepted
      BY <1>i, <1>n
    <3>2. \A c : c \in Inserted' <=> c \in Conns /\ c <= accepted
      BY <1>j, <2>1
    <3>3. \A c : c \in Inserted <=> c \in Conns /\ c <= accepted /\ c < accepted
      BY <1>i, <2>1
    <3>4. QED
      BY <2>1, <3>1, <3>2, <3>3
  <2>3. NamedOnce'
    BY <2>1 DEF NamedOnce
  <2>4. ListInv' /\ SendTo'
    BY <2>1, <2>2 DEF ListInv, SendTo
  <2>5. QED
    BY <2>3, <2>4
<1>4. CASE AcceptFails \/ FillName \/ FillFd \/ Spawn
  <2>1. /\ UNCHANGED <<accepted, who, online, cur, job>>
        /\ apc \notin {"name", "insert"} /\ apc' \notin {"name", "insert"}
    BY <1>4 DEF AcceptFails, FillName, FillFd, Spawn
  <2>2. Inserted' = Inserted
    BY <2>1 DEF Inserted
  <2>3. Idle
    <3>1. CASE wpc' = wpc
      BY <2>1, <3>1 DEF Idle
    <3>2. CASE Spawn
      <4>1. wpc' = [wpc EXCEPT ![accepted] = "start"] /\ apc = "spawn"
        BY <3>2 DEF Spawn
      <4>2. accepted \in Conns => wpc[accepted] = "none"
        BY <1>i, <4>1 DEF SpawnInv
      <4>3. QED
        BY <1>t, <2>1, <4>1, <4>2 DEF Idle
    <3>3. QED
      BY <1>4, <3>1, <3>2 DEF AcceptFails, FillName, FillFd
  <2>4. NamedOnce'
    BY <2>1 DEF NamedOnce
  <2>5. QED
    BY <2>1, <2>2, <2>3, <2>4, IdleKeeps
<1>5. ASSUME NEW c \in Conns, Client(c) \/ Worker(c) PROVE Goal
  <2>1. /\ UNCHANGED <<apc, accepted, who>> /\ Inserted' = Inserted
        /\ online' = online \/ DelNode(c)
        /\ \A w \in Conns :
              /\ wpc[w] = "done" => wpc'[w] = "done"
              /\ wpc'[w] = "send" =>
                   \/ wpc[w] = "send" /\ cur'[w] = cur[w] /\ job'[w] = job[w]
                   \/ w = c /\ Lookup(c)
    BY <1>5, ThreadSteps DEF Inserted
  <2>2. NamedOnce'
    BY <2>1 DEF NamedOnce
  <2>3. SendTo'
    <3>1. SUFFICES ASSUME NEW w \in Conns, wpc'[w] = "send"
                   PROVE  cur'[w] \in Inserted /\ who[cur'[w]] = job'[w].des
      BY <2>1 DEF SendTo
    <3>2. CASE wpc[w] = "send" /\ cur'[w] = cur[w] /\ job'[w] = job[w]
      BY <3>2 DEF SendTo
    <3>3. CASE w = c /\ Lookup(c)
      <4>1. cur \in [Conns -> ConnOr0] /\ wpc' \in [Conns -> WorkerPc]
        BY DEF TypeInv, TypeOK
      <4>2. PICK d \in online : /\ who[d] = job[w].des /\ job' = job
                               /\ cur' = [cur EXCEPT ![w] = d]
        <5>1. \/ wpc' = [wpc EXCEPT ![w] = "reply"]
              \/ wpc' = [wpc EXCEPT ![w] = "store"]
              \/ wpc' = [wpc EXCEPT ![w] = "read"]
              \/ \E d \in online : /\ who[d] = job[w].des /\ job' = job
                                   /\ cur' = [cur EXCEPT ![w] = d]
          BY <3>3 DEF Lookup, Found, Return, Goto
        <5>2. QED
          BY <1>t, <3>1, <5>1
      <4>3. cur'[w] = d
        BY <4>1, <4>2
      <4>4. QED
        BY <4>2, <4>3 DEF ListInv
    <3>4. QED
      BY <2>1, <3>1, <3>2, <3>3
  <2>4. ListInv'
    <3>1. CASE online' = online
      BY <2>1, <3>1 DEF ListInv
    <3>2. CASE DelNode(c)
      <4>1. PICK e \in ConnOr0 :
              /\ online' = online \ {e} \/ online' = online
              /\ online' # online => who[e] = who[nm[c]]
        <5>1. \/ online' = online
              \/ \E e \in online : who[e] = who[nm[c]] /\ online' = online \ {e}
          BY <3>2 DEF DelNode, Found
        <5>2. online \subseteq ConnOr0 /\ 0 \in ConnOr0
          BY ConnFacts DEF TypeInv, TypeOK
        <5>3. QED
          BY <5>1, <5>2
      <4>2. wpc'[c] = "done" /\ (Clean => nm[c] = c)
        BY <1>t, <3>2 DEF DelNode, At, Goto, Clean, HasName
      <4>3. CASE online' = online
        BY <2>1, <4>3 DEF ListInv
      <4>4. CASE online' = online \ {e} /\ who[e] = who[nm[c]]
        <5>1. online' \subseteq Inserted
          BY <4>4 DEF ListInv
        <5>2. ASSUME Clean, NEW d \in Inserted, d \notin online'
              PROVE  \E b \in Conns : who[b] = who[d] /\ wpc'[b] = "done"
          <6>1. CASE d \notin online
            BY <2>1, <5>2, <6>1 DEF ListInv
          <6>2. CASE d \in online
            <7>1. d = e /\ who[c] = who[e]
              BY <4>2, <4>4, <5>2, <6>2
            <7>2. QED
              BY <4>2, <7>1
          <6>3. QED
            BY <6>1, <6>2
        <5>3. QED
          BY <2>1, <5>1, <5>2 DEF ListInv
      <4>5. QED
        BY <4>1, <4>3, <4>4
    <3>3. QED
      BY <2>1, <3>1, <3>2
  <2>5. QED
    BY <2>2, <2>3, <2>4
<1>6. CASE UNCHANGED vars
  <2>1. UNCHANGED <<apc, accepted, who, online, wpc, cur, job>>
    BY <1>6 DEF vars
  <2>2. Inserted' = Inserted /\ Idle /\ NamedOnce'
    BY <2>1 DEF Inserted, Idle, NamedOnce
  <2>3. QED
    BY <2>1, <2>2, IdleKeeps
<1>7. QED
  BY <1>1, <1>2, <1>3, <1>4, <1>5, <1>6 DEF Next, AcceptLoop

\* Names once read, and threads that have closed their descriptor, stay.
LEMMA NamesStay ==
  ASSUME TypeInv, SpawnInv, NamedOnce, [Next]_vars
  PROVE  \A c \in Conns :
           /\ who[c] # NoName => who'[c] = who[c]
           /\ wpc[c] \in {"unlist", "done"} => wpc'[c] \in {"unlist", "done"}
<1>1. \A c \in Conns : wpc[c] \in {"unlist", "done"} =>
                         wpc'[c] \in {"unlist", "done"}
  <2>1. CASE Accept
    BY <2>1 DEF Accept, workVars
  <2>2. ASSUME NEW w \in Conns, CloseFd(w)
        PROVE  \A c \in Conns : wpc[c] \in {"unlist", "done"} =>
                                wpc'[c] \in {"unlist", "done"}
    BY <2>2 DEF CloseFd, At, Goto, TypeInv, TypeOK
  <2>3. QED
    BY <2>1, <2>2, TableSteps DEF TableKept
<1>2. CASE ReadName
  <2>1. who \in [ConnOr0 -> Names \cup {NoName}] /\ accepted \in Conns
        /\ apc = "name"
    BY <1>2 DEF TypeInv, TypeOK, ReadName
  <2>2. who' = who \/ \E n : who' = [who EXCEPT ![accepted] = n]
    BY <1>2 DEF ReadName
  <2>3. \A c \in Conns : c # accepted => who'[c] = who[c]
    BY <2>1, <2>2, ConnFacts
  <2>4. who[accepted] = NoName
    BY <2>1 DEF NamedOnce
  <2>5. QED
    BY <1>1, <2>3, <2>4
<1>3. CASE who' = who
  BY <1>1, <1>3
<1>4. ASSUME NEW c \in Conns, Client(c) \/ Worker(c) PROVE who' = who
  BY <1>4, ThreadSteps
<1>5. CASE Accept \/ AcceptFails \/ InsertNode \/ FillName \/ FillFd \/ Spawn
  BY <1>3, <1>5 DEF Accept, AcceptFails, InsertNode, FillName, FillFd, Spawn
<1>6. CASE UNCHANGED vars
  BY <1>3, <1>6 DEF vars, accVars
<1>7. QED
  BY <1>2, <1>3, <1>4, <1>5, <1>6 DEF Next, AcceptLoop

\* Writing to the node found leads astray only where a client of that name
\* has closed its descriptor.
LEMMA SendsAstray ==
  ASSUME OwnInv, ListInv, SendTo, Clean, NEW w \in Conns, NEW k \in Conns,
         Sends(w, k), who[k] # job[w].des
  PROVE  \E c \in Conns : who[c] = job[w].des /\ wpc[c] \in {"unlist", "done"}
<1>1. PICK x \in Seen(cur[w]) : sock[num[x]] = k
  BY DEF Sends
<1>2. cur[w] \in Inserted /\ who[cur[w]] = job[w].des
  BY DEF Sends, SendTo
<1>3. cur[w] \in Conns /\ cur[w] \in 1..accepted
  BY <1>2, InsertedFacts, ConnFacts DEF OwnInv, Conns
<1>4. CASE cur[w] \in online
  <2>1. x = cur[w]
    BY <1>1, <1>4 DEF Seen
  <2>2. sock[num[cur[w]]] # cur[w]
    BY <1>1, <1>2, <2>1
  <2>3. wpc[cur[w]] \in {"unlist", "done"}
    BY <1>3, <2>2 DEF OwnInv, FdOwnership
  <2>4. QED
    BY <1>2, <1>3, <2>3
<1>5. CASE cur[w] \notin online
  BY <1>2, <1>5 DEF ListInv
<1>6. QED
  BY <1>4, <1>5

LEMMA ToReceiverNext ==
  ASSUME OwnInv, JobKinds, NamedOnce, ListInv, SendTo, ToReceiver, [Next]_vars
  PROVE  ToReceiver'
<1>1. TypeInv /\ SpawnInv /\ Moves /\ (Clean' => Clean)
  BY MoveSteps, CleanBefore DEF OwnInv
<1>2. \A c \in Conns :
        /\ who[c] # NoName => who'[c] = who[c]
        /\ wpc[c] \in {"unlist", "done"} => wpc'[c] \in {"unlist", "done"}
  BY <1>1, NamesStay
<1> DEFINE Closed(n) == \E c \in Conns : who[c] = n /\ wpc[c] \in {"unlist", "done"}
           Later(n) == \E c \in Conns : who'[c] = n /\ wpc'[c] \in {"unlist", "done"}
<1>3. ASSUME NEW n \in Names, Closed(n) PROVE Later(n)
  BY <1>2, <1>3, ChatConstants
<1>4. ASSUME NEW n \in Names, NEW k \in Conns, who'[k] # n PROVE who[k] # n
  BY <1>2, <1>4, ChatConstants
<1>5. SUFFICES ASSUME Clean, NEW k \in Conns, NEW a \in DOMAIN rcv'[k],
                      rcv'[k][a].kind \in {"one", "file"},
                      who'[k] # rcv'[k][a].des
               PROVE  Later(rcv'[k][a].des)
  BY <1>1 DEF ToReceiver
<1> HIDE DEF Closed, Later
<1>6. CASE a \in DOMAIN rcv[k] /\ rcv'[k][a] = rcv[k][a]
  <2>1. rcv[k][a].des \in Names
    <3>1. rcv[k] \in Seq(Msg)
      BY <1>1, ConnFacts DEF TypeInv, TypeOK
    <3>2. rcv[k][a] \in Msg
      BY <1>6, <3>1
    <3>3. QED
      BY <3>2 DEF Msg
  <2>2. who[k] # rcv[k][a].des
    BY <1>4, <1>5, <1>6, <2>1
  <2>3. Closed(rcv[k][a].des)
    BY <1>5, <1>6, <2>2 DEF ToReceiver, Closed
  <2>4. QED
    BY <1>3, <1>6, <2>1, <2>3
<1>7. CASE rcv' = rcv
  BY <1>5, <1>6, <1>7
<1>8. ASSUME NEW w \in Conns, NEW e \in Conns, Sends(w, e)
      PROVE  Later(rcv'[k][a].des)
  <2>1. Gives(e, job[w]) /\ wpc[w] = "send"
    BY <1>8 DEF Sends
  <2>2. \/ a \in DOMAIN rcv[k] /\ rcv'[k][a] = rcv[k][a]
        \/ k = e /\ rcv'[k][a] = job[w]
    BY <1>1, <1>5, <2>1, GivesPlaces
  <2>3. CASE k = e /\ rcv'[k][a] = job[w]
    <3>1. job[w].des \in Names
      BY <1>1, <2>1 DEF TypeInv, Handling, Msg
    <3>2. who[k] # job[w].des
      BY <1>4, <1>5, <2>3, <3>1
    <3>3. Closed(job[w].des)
      BY <1>5, <1>8, <2>3, <3>2, SendsAstray DEF Closed
    <3>4. QED
      BY <1>3, <2>3, <3>1, <3>3
  <2>4. QED
    BY <1>6, <2>2, <2>3
<1>9. ASSUME NEW w \in Conns, NEW e \in Conns, Replies(w, e) \/ Walks(w, e)
      PROVE  Later(rcv'[k][a].des)
  <2>1. PICK m : Gives(e, m) /\ m.kind \notin {"one", "file"}
    <3>1. CASE Replies(w, e)
      <4>1. job[w] \in Msg /\ Gives(e, [job[w] EXCEPT !.kind = "reply"])
        BY <1>1, <3>1 DEF Replies, TypeInv, Handling
      <4>2. [job[w] EXCEPT !.kind = "reply"].kind = "reply"
        BY <4>1 DEF Msg
      <4>3. QED
        BY <4>1, <4>2
    <3>2. CASE Walks(w, e)
      BY <3>2 DEF Walks, JobKinds
    <3>3. QED
      BY <1>9, <3>1, <3>2
  <2>2. \/ a \in DOMAIN rcv[k] /\ rcv'[k][a] = rcv[k][a]
        \/ rcv'[k][a] = m
    BY <1>1, <1>5, <2>1, GivesPlaces
  <2>3. QED
    BY <1>5, <1>6, <2>1, <2>2
<1>10. QED
  BY <1>1, <1>7, <1>8, <1>9 DEF Moves, Quiet, Arrives, Reads, Stores

RosterAll == DeliveryInv /\ RosterInv

LEMMA RosterNext == RosterAll /\ SpawnInv' /\ [Next]_vars => RosterAll'
<1> SUFFICES ASSUME RosterAll, SpawnInv', [Next]_vars PROVE RosterAll'
  OBVIOUS
<1>1. /\ DeliveryInv' /\ TypeInv /\ TypeInv' /\ SpawnInv /\ OwnInv /\ JobKinds
      /\ (Clean' => Clean)
  BY DeliveryNext, TypeInvNext, CleanBefore
     DEF RosterAll, DeliveryInv, OwnInv, FateInv
<1>2. NamedOnce' /\ ListInv' /\ SendTo'
  BY <1>1, ListNext DEF RosterAll, RosterInv
<1>3. ToReceiver'
  BY <1>1, ToReceiverNext DEF RosterAll, RosterInv
<1>4. QED
  BY <1>1, <1>2, <1>3 DEF RosterAll, RosterInv

\* With no lost hand-over, a text or file for one user reaches another client
\* only where a client of that user has closed its descriptor: the number, or
\* the freed node's memory, may be another's by then (procSendFile2One 145).
THEOREM ChatToReceiver == Spec => []ToReceiver
<1>1. Spec => []HandoffInv
  BY HandoffInit, HandoffNext, PTL DEF Spec
<1>2. HandoffInv => SpawnInv
  BY DEF HandoffInv
<1>3. Init => RosterAll
  BY DeliveryInit, RosterInit DEF RosterAll
<1>4. Spec => []RosterAll
  BY <1>1, <1>2, <1>3, RosterNext, PTL DEF Spec
<1>5. RosterAll => ToReceiver
  BY DEF RosterAll, RosterInv
<1>6. QED
  BY <1>4, <1>5, PTL
=============================================================================
