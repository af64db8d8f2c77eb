----------------------------- MODULE ChatServer -----------------------------
(***************************************************************************)
(* The chat server process: the accept loop of server_daemon.c, the        *)
(* per-client threads of threadPool.c (procClientRequest) and the message  *)
(* handlers of server_proc.c, sharing the descriptor table, the global     *)
(* list of logged-in users and one USER_INFO_S on the accept loop's stack. *)
(*                                                                         *)
(* Connections are numbered 1, 2, ... in the order accept() returns them.  *)
(* The two values each connection brings, the name its client sent and the *)
(* descriptor number accept() chose, are who[c] and num[c]; a copy of one  *)
(* of them (in the stack record, in a thread) is represented by the number *)
(* of the connection it came from, and 0 is a value of no connection.      *)
(* A list node is represented by the connection it was inserted for.       *)
(* insertNode, delNode and a search are one step each here; module         *)
(* UserList has them at the granularity of their pointer accesses.         *)
(***************************************************************************)
EXTENDS Integers, Sequences, FiniteSets

CONSTANTS MaxConn,   \* bound on the connections accepted in a behaviour
          MaxTry,    \* bound on the clients that try to connect
          MaxFd,     \* descriptors the process may have open for clients
          MaxMsg,    \* bound on the messages the clients send
          Names,     \* user names
          NoName,    \* the empty name, of a client that closed too early
          Friends,   \* rows <<srcName, desName>> of table friends
          Kinds      \* kinds of message the clients send in this instance

AllKinds == {"one", "all", "file", "add", "exit"}

ASSUME ChatConstants ==
  /\ MaxConn \in Nat \ {0}
  /\ MaxFd \in Nat \ {0}
  /\ MaxTry \in Nat
  /\ MaxMsg \in Nat
  /\ NoName \notin Names
  /\ Friends \subseteq Names \X Names
  /\ Kinds \subseteq AllKinds

Conns   == 1..MaxConn
ConnOr0 == 0..MaxConn
Fds     == 1..MaxFd
Msg     == [id : 1..MaxMsg, kind : AllKinds \cup {"reply"},
            from : Conns, des : Names]

VARIABLES srv,    \* whether the process runs
          apc,       \* where the accept loop is
          accepted,  \* connections accepted so far, the last one is current
          who,       \* who[c]: the name read from connection c
          num,       \* num[c]: the descriptor number accept() returned for c
          sock,      \* sock[f]: the connection open under number f, or 0
          peer,      \* what TCP knows of the client's end of c
          inbox,     \* messages of c's client not yet read by the server
          sent,      \* messages sent by all clients so far
          online,    \* connections with a node in g_pList
          slotName,  \* stUserInfo.name, on the accept loop's stack
          slotFd,    \* stUserInfo.fd
          wpc,       \* where the thread created for c is
          nm,        \* clientName of that thread
          wfd,       \* cFd of that thread
          job,       \* the message that thread is handling
          cur,       \* its pointer into the list (0 is NULL)
          rcv,       \* history: what the server wrote to c's client
          stored     \* rows inserted in table message

slotVars == <<slotName, slotFd>>
accVars  == <<apc, accepted, who, slotName, slotFd>>
netVars  == <<peer, inbox, sent>>
regVars  == <<num, sock, online>>
workVars == <<wpc, nm, wfd, job, cur>>
vars == <<srv, accVars, netVars, regVars, workVars, rcv, stored>>

NoMsg == [id |-> 0]

AcceptPc == {"wait", "name", "insert", "slotname", "slotfd", "spawn"}
WorkerPc == {"none", "start", "named", "read", "handle", "send", "reply",
             "store", "walk", "close", "unlist", "done"}

Init ==
  /\ srv = "up" /\ apc = "wait" /\ accepted = 0
  /\ who = [c \in ConnOr0 |-> NoName]
  /\ num = [c \in ConnOr0 |-> 0]
  /\ sock = [f \in 0..MaxFd |-> 0]
  /\ peer = [c \in ConnOr0 |-> "none"]
  /\ inbox = [c \in ConnOr0 |-> <<>>]
  /\ sent = 0
  /\ online = {}
  /\ slotName = 0 /\ slotFd = 0
  /\ wpc = [c \in Conns |-> "none"]
  /\ nm = [c \in Conns |-> 0]
  /\ wfd = [c \in Conns |-> 0]
  /\ job = [c \in Conns |-> NoMsg]
  /\ cur = [c \in Conns |-> 0]
  /\ rcv = [c \in ConnOr0 |-> <<>>]
  /\ stored = {}

-----------------------------------------------------------------------------
(* The accept loop: acceptClientConnect, called by procEpollResponse.       *)

Up == srv = "up"

FreeFds == {f \in Fds : sock[f] = 0}

\* accept() succeeds: a new connection under the lowest free number.
Accept ==
  /\ Up /\ apc = "wait" /\ accepted < MaxConn
  /\ \E f \in FreeFds :
       /\ \A g \in FreeFds : f <= g
       /\ sock' = [sock EXCEPT ![f] = accepted + 1]
       /\ num' = [num EXCEPT ![accepted + 1] = f]
  /\ accepted' = accepted + 1
  /\ peer' = [peer EXCEPT ![accepted + 1] = "open"]
  /\ apc' = "name"
  /\ UNCHANGED <<srv, who, slotVars, inbox, sent, online, workVars, rcv,
                 stored>>

\* Mutant: the result of a failed accept(), -1, is put in the record.
AcceptFails_Minus1 ==
  /\ Up /\ apc = "wait" /\ accepted < MaxTry /\ FreeFds = {}
  /\ slotName' = slotName /\ slotFd' = 0 - 1
  /\ UNCHANGED <<srv, apc, accepted, who, netVars, regVars, workVars, rcv,
                 stored>>

\* The threads that still have to copy the shared record.
Copying(pcs) == {w \in Conns : wpc[w] \in pcs}

\* accept() fails (no descriptor left) with a client waiting. Both perror()
\* calls run on the stack the returned frame of acceptClientConnect was on,
\* so the record can be overwritten before a thread copies it.
AcceptFails ==
  /\ Up /\ apc = "wait" /\ accepted < MaxTry
  /\ FreeFds = {}
  /\ slotName' \in {slotName} \cup {0 : w \in Copying({"start"})}
  /\ slotFd' \in {slotFd} \cup {0 : w \in Copying({"start", "named"})}
  /\ UNCHANGED <<srv, apc, accepted, who, netVars, regVars, workVars, rcv,
                 stored>>

\* The blocking read of the user name, on the accept loop's thread. A client
\* that is gone yields the empty name.
ReadName ==
  /\ Up /\ apc = "name"
  /\ \/ /\ peer[accepted] = "open"
        /\ \E n \in Names : who' = [who EXCEPT ![accepted] = n]
     \/ peer[accepted] # "open" /\ who' = who
  /\ apc' = "insert"
  /\ UNCHANGED <<srv, accepted, slotVars, netVars, regVars, workVars, rcv,
                 stored>>

\* insertNode(g_pList, clientName, cFd): a new node at the head.
InsertNode ==
  /\ Up /\ apc = "insert"
  /\ online' = online \cup {accepted}
  /\ apc' = "slotname"
  /\ UNCHANGED <<srv, accepted, who, slotVars, netVars, num, sock, workVars,
                 rcv, stored>>

\* Mutant: the thread is created before the record is filled.
FillName_SpawnFirst ==
  /\ Up /\ apc = "slotname"
  /\ wpc' = [wpc EXCEPT ![accepted] = "start"]
  /\ apc' = "slotfd"
  /\ UNCHANGED <<srv, accepted, who, slotVars, netVars, regVars, nm, wfd, job,
                 cur, rcv, stored>>

\* strcpy(stUserInfo.name, clientName)
FillName ==
  /\ Up /\ apc = "slotname"
  /\ slotName' = accepted
  /\ apc' = "slotfd"
  /\ UNCHANGED <<srv, accepted, who, slotFd, netVars, regVars, workVars, rcv,
                 stored>>

\* stUserInfo.fd = cFd
FillFd ==
  /\ Up /\ apc = "slotfd"
  /\ slotFd' = accepted
  /\ apc' = "spawn"
  /\ UNCHANGED <<srv, accepted, who, slotName, netVars, regVars, workVars,
                 rcv, stored>>

\* pthread_create(&pid, NULL, procClientRequest, &stUserInfo) and detach; the
\* loop goes on without waiting for the thread to read the record.
Spawn ==
  /\ Up /\ apc = "spawn"
  /\ wpc' = [wpc EXCEPT ![accepted] = "start"]
  /\ apc' = "wait"
  /\ UNCHANGED <<srv, accepted, who, slotVars, netVars, regVars, nm, wfd, job,
                 cur, rcv, stored>>

AcceptLoop == Accept \/ AcceptFails \/ ReadName \/ InsertNode \/ FillName
              \/ FillFd \/ Spawn

-----------------------------------------------------------------------------
(* The clients: whoever is connected and named may send and may leave.      *)

ClientSend(c) ==
  /\ Up /\ c <= accepted /\ peer[c] = "open" /\ sock[num[c]] = c
  /\ who[c] \in Names /\ sent < MaxMsg
  /\ \E k \in Kinds, d \in Names :
       inbox' = [inbox EXCEPT ![c] =
                   Append(@, [id |-> sent + 1, kind |-> k, from |-> c,
                              des |-> d])]
  /\ sent' = sent + 1
  /\ UNCHANGED <<srv, accVars, peer, regVars, workVars, rcv, stored>>

\* The client process ends: an orderly close, or a reset (it had unread data).
ClientLeave(c) ==
  /\ Up /\ c <= accepted /\ peer[c] = "open"
  /\ \E e \in {"fin", "rst"} : peer' = [peer EXCEPT ![c] = e]
  /\ UNCHANGED <<srv, accVars, inbox, sent, regVars, workVars, rcv, stored>>

Client(c) == ClientSend(c) \/ ClientLeave(c)

-----------------------------------------------------------------------------
(* The thread of connection w: procClientRequest.                           *)

At(w, pc)   == Up /\ wpc[w] = pc
Goto(w, pc) == wpc' = [wpc EXCEPT ![w] = pc]

\* The connection that thread w's descriptor number denotes at this moment.
Owner(w) == sock[num[wfd[w]]]

\* strcpy(clientName, pstUserInfo->name)
CopyName(w) ==
  /\ At(w, "start") /\ Goto(w, "named")
  /\ nm' = [nm EXCEPT ![w] = slotName]
  /\ UNCHANGED <<srv, accVars, netVars, regVars, wfd, job, cur, rcv, stored>>

\* int cFd = pstUserInfo->fd
CopyFd(w) ==
  /\ At(w, "named") /\ Goto(w, "read")
  /\ wfd' = [wfd EXCEPT ![w] = slotFd]
  /\ UNCHANGED <<srv, accVars, netVars, regVars, nm, job, cur, rcv, stored>>

\* Mutant: what was read last is handled first.
ReadMsg_LastFirst(w) ==
  /\ At(w, "read") /\ Owner(w) # 0
  /\ LET q == inbox[Owner(w)] IN
       /\ q # <<>> /\ Goto(w, "handle")
       /\ job' = [job EXCEPT ![w] = q[Len(q)]]
       /\ inbox' = [inbox EXCEPT ![Owner(w)] = SubSeq(q, 1, Len(q) - 1)]
  /\ UNCHANGED <<srv, accVars, peer, sent, regVars, nm, wfd, cur, rcv,
                 stored>>

\* read() returns a message; "exit" is skipped, the rest is dispatched.
ReadMsg(w) ==
  /\ At(w, "read") /\ Owner(w) # 0
  /\ inbox[Owner(w)] # <<>>
  /\ LET m == Head(inbox[Owner(w)]) IN
       \/ m.kind = "exit" /\ UNCHANGED <<wpc, job>>
       \/ /\ m.kind # "exit" /\ Goto(w, "handle")
          /\ job' = [job EXCEPT ![w] = m]
  /\ inbox' = [inbox EXCEPT ![Owner(w)] = Tail(@)]
  /\ UNCHANGED <<srv, accVars, peer, sent, regVars, nm, wfd, cur, rcv,
                 stored>>

\* Mutant: a peer that is gone ends the loop before its data is read.
ReadEof_DataLeft(w) ==
  /\ At(w, "read") /\ Owner(w) # 0
  /\ peer[Owner(w)] \in {"fin", "rst"}
  /\ Goto(w, "close")
  /\ UNCHANGED <<srv, accVars, netVars, regVars, nm, wfd, job, cur, rcv,
                 stored>>

\* Mutant: the loop goes on after a read of 0 bytes.
ReadEof_Continue(w) ==
  /\ At(w, "read") /\ Owner(w) # 0
  /\ inbox[Owner(w)] = <<>> /\ peer[Owner(w)] \in {"fin", "rst"}
  /\ Goto(w, "read")
  /\ UNCHANGED <<srv, accVars, netVars, regVars, nm, wfd, job, cur, rcv,
                 stored>>

\* read() returns 0: the peer is gone and everything it sent was read.
ReadEof(w) ==
  /\ At(w, "read") /\ Owner(w) # 0
  /\ inbox[Owner(w)] = <<>> /\ peer[Owner(w)] \in {"fin", "rst"}
  /\ Goto(w, "close")
  /\ UNCHANGED <<srv, accVars, netVars, regVars, nm, wfd, job, cur, rcv,
                 stored>>

\* read() fails, on a closed number or a reset connection: handle_error()
\* ends the whole process.
ReadFails(w) ==
  /\ At(w, "read")
  /\ \/ Owner(w) = 0
     \/ inbox[Owner(w)] = <<>> /\ peer[Owner(w)] = "rst"
  /\ srv' = "down"
  /\ UNCHANGED <<accVars, netVars, regVars, workVars, rcv, stored>>

\* close(cFd): whatever connection the number denotes now.
CloseFd(w) ==
  /\ At(w, "close") /\ Goto(w, "unlist")
  /\ sock' = [sock EXCEPT ![num[wfd[w]]] = 0]
  /\ UNCHANGED <<srv, accVars, netVars, num, online, nm, wfd, job, cur, rcv,
                 stored>>

\* Mutant: the result of strcmp is not looked at.
Found_Head(c, n) == c \in online /\ \A d \in online : d <= c

\* c's node is the one a search for name n finds: the newest of that name.
Found(c, n) ==
  /\ c \in online /\ who[c] = n
  /\ \A d \in online : who[d] = n => d <= c
Listed(n) == \E c \in online : who[c] = n

\* Mutant: the descriptor is closed a second time on the way out.
DelNode_CloseAgain(w) ==
  /\ At(w, "unlist") /\ Goto(w, "done")
  /\ \E c \in online : Found(c, who[nm[w]]) /\ online' = online \ {c}
  /\ sock' = [sock EXCEPT ![num[wfd[w]]] = 0]
  /\ UNCHANGED <<srv, accVars, netVars, num, nm, wfd, job, cur, rcv, stored>>

\* delNode(g_pList, clientName), then the thread ends.
DelNode(w) ==
  /\ At(w, "unlist") /\ Goto(w, "done")
  /\ LET n == who[nm[w]] IN
       \/ \E c \in online : Found(c, n) /\ online' = online \ {c}
       \/ ~Listed(n) /\ online' = online
  /\ UNCHANGED <<srv, accVars, netVars, num, sock, nm, wfd, job, cur, rcv,
                 stored>>

-----------------------------------------------------------------------------
(* The handlers of server_proc.c, on thread w with message job[w].          *)

\* write(f, m): lost on a closed number, delivered to an open peer; the
\* first write to a peer that left is answered by a reset, and a later one
\* fails, with SIGPIPE (nothing handles it) unless the error was pending.
WriteTo(f, m) ==
  LET k == sock[f] IN
  \/ k = 0 /\ UNCHANGED <<srv, peer, rcv>>
  \/ /\ k # 0 /\ peer[k] = "open"
     /\ rcv' = [rcv EXCEPT ![k] = Append(@, m)]
     /\ UNCHANGED <<srv, peer>>
  \/ /\ k # 0 /\ peer[k] = "fin"
     /\ peer' = [peer EXCEPT ![k] = "rst"]
     /\ UNCHANGED <<srv, rcv>>
  \/ /\ k # 0 /\ peer[k] = "rst"
     /\ srv' \in {"up", "down"}
     /\ UNCHANGED <<peer, rcv>>

\* The connections whose node has been inserted.
Inserted == 1..(IF apc \in {"name", "insert"} THEN accepted - 1 ELSE accepted)

\* The nodes whose contents a pointer to c's node may show: its own while it
\* is listed; once it is freed, its own still or those of a newer node that
\* malloc() placed there.
Seen(c) == IF c \in online THEN {c} ELSE {d \in Inserted : c <= d}

IsFriend(m, n) == <<who[m.from], n>> \in Friends

\* The handler returns: its locals are gone, the buffer is cleared (99).
Return(w) ==
  /\ Goto(w, "read")
  /\ job' = [job EXCEPT ![w] = NoMsg]
  /\ cur' = [cur EXCEPT ![w] = 0]

\* procSendMsg2One, procSendFile2One, procAddFriendMsg up to the search: the
\* target node if there is one, else what is done without it.
Lookup(w) ==
  /\ At(w, "handle") /\ job[w].kind \in {"one", "file", "add"}
  /\ LET m == job[w]
         refused == m.kind = "one" /\ ~IsFriend(m, m.des)
         offline == ~refused /\ ~Listed(m.des)
     IN \/ /\ refused \/ (offline /\ m.kind = "file")
           /\ Goto(w, "reply") /\ UNCHANGED <<job, cur>>
        \/ /\ offline /\ m.kind = "one"
           /\ Goto(w, "store") /\ UNCHANGED <<job, cur>>
        \/ offline /\ m.kind = "add" /\ Return(w)
        \/ /\ ~refused /\ Goto(w, "send") /\ UNCHANGED job
           /\ \E c \in online :
                Found(c, m.des) /\ cur' = [cur EXCEPT ![w] = c]
  /\ UNCHANGED <<srv, accVars, netVars, regVars, nm, wfd, rcv, stored>>

\* Mutant: no else between storing the message and writing it.
Send_AlsoStores(w) ==
  /\ At(w, "send") /\ Return(w)
  /\ \E k \in Seen(cur[w]) : WriteTo(num[k], job[w])
  /\ stored' = stored \cup {job[w].id}
  /\ UNCHANGED <<accVars, inbox, sent, regVars, nm, wfd>>

\* write(pDestNode->sfd, ...)
Send(w) ==
  /\ At(w, "send") /\ Return(w)
  /\ \E k \in Seen(cur[w]) : WriteTo(num[k], job[w])
  /\ UNCHANGED <<accVars, inbox, sent, regVars, nm, wfd, stored>>

\* insertUserMsg2Mysql
Store(w) ==
  /\ At(w, "store") /\ Return(w)
  /\ stored' = stored \cup {job[w].id}
  /\ UNCHANGED <<srv, accVars, netVars, regVars, nm, wfd, rcv>>

\* Mutant: the answer goes to the descriptor in the shared record.
Reply_SlotFd(w) ==
  /\ At(w, "reply") /\ Return(w)
  /\ WriteTo(num[slotFd], [job[w] EXCEPT !.kind = "reply"])
  /\ UNCHANGED <<accVars, inbox, sent, regVars, nm, wfd, stored>>

\* write(srcFd, ...): the answer to the sender.
Reply(w) ==
  /\ At(w, "reply") /\ Return(w)
  /\ WriteTo(num[wfd[w]], [job[w] EXCEPT !.kind = "reply"])
  /\ UNCHANGED <<accVars, inbox, sent, regVars, nm, wfd, stored>>

\* The node after c in the list, 0 at the end; a freed node points to any node
\* older than itself or to NULL.
NextNodes(c) ==
  IF c \in online
  THEN {d \in online : d < c /\ \A e \in online : e < c => e <= d}
       \cup (IF \E e \in online : e < c THEN {} ELSE {0})
  ELSE 0..(c - 1)

\* procSendMsg2All: g_pList->next, then one node at a time.
StartWalk(w) ==
  /\ At(w, "handle") /\ job[w].kind = "all" /\ Goto(w, "walk")
  /\ cur' \in {[cur EXCEPT ![w] = c] :
                 c \in {d \in online : \A e \in online : e <= d}
                       \cup (IF online = {} THEN {0} ELSE {})}
  /\ UNCHANGED <<srv, accVars, netVars, regVars, nm, wfd, job, rcv, stored>>

WalkNode(w) ==
  /\ At(w, "walk") /\ cur[w] # 0
  /\ \E k \in Seen(cur[w]) :
       /\ IF IsFriend(job[w], who[k])
          THEN WriteTo(num[k], job[w])
          ELSE UNCHANGED <<srv, peer, rcv>>
       /\ \E d \in NextNodes(cur[w]) : cur' = [cur EXCEPT ![w] = d]
  /\ UNCHANGED <<accVars, inbox, sent, regVars, wpc, nm, wfd, job, stored>>

EndWalk(w) ==
  /\ At(w, "walk") /\ cur[w] = 0 /\ Return(w)
  /\ UNCHANGED <<srv, accVars, netVars, regVars, nm, wfd, rcv, stored>>

Handler(w) == Lookup(w) \/ Send(w) \/ Store(w) \/ Reply(w)
              \/ StartWalk(w) \/ WalkNode(w) \/ EndWalk(w)
Worker(w) == CopyName(w) \/ CopyFd(w) \/ ReadMsg(w) \/ ReadEof(w)
             \/ ReadFails(w) \/ CloseFd(w) \/ DelNode(w) \/ Handler(w)

Next == AcceptLoop \/ \E c \in Conns : Client(c) \/ Worker(c)

Spec == Init /\ [][Next]_vars

\* Every thread of the server is scheduled again and again. Nothing is asked
\* of the clients: one that stays silent in ReadName blocks the accept loop.
Fairness == \A c \in Conns : WF_vars(Worker(c))
FairSpec == Spec /\ Fairness
-----------------------------------------------------------------------------
(* Properties.                                                              *)

TypeOK ==
  /\ srv \in {"up", "down"} /\ apc \in AcceptPc /\ accepted \in 0..MaxConn
  /\ who \in [ConnOr0 -> Names \cup {NoName}]
  /\ num \in [ConnOr0 -> 0..MaxFd]
  /\ sock \in [0..MaxFd -> ConnOr0]
  /\ peer \in [ConnOr0 -> {"none", "open", "fin", "rst"}]
  /\ inbox \in [ConnOr0 -> Seq(Msg)]
  /\ sent \in 0..MaxMsg
  /\ online \subseteq Conns
  /\ slotName \in ConnOr0 /\ slotFd \in ConnOr0
  /\ wpc \in [Conns -> WorkerPc]
  /\ nm \in [Conns -> ConnOr0] /\ wfd \in [Conns -> ConnOr0]
  /\ job \in [Conns -> Msg \cup {NoMsg}]
  /\ cur \in [Conns -> ConnOr0]
  /\ rcv \in [ConnOr0 -> Seq(Msg)]
  /\ stored \subseteq 1..MaxMsg

HasName(w) == wpc[w] \notin {"none", "start"}
HasFd(w)   == wpc[w] \notin {"none", "start", "named"}

\* The threads so far copied the record before the loop reused it. Once false
\* it stays false: it separates what the hand-over race alone breaks.
Clean == \A w \in Conns : /\ HasName(w) => nm[w] = w
                          /\ HasFd(w) => wfd[w] = w

\* However late a thread reads the shared record, it never gets a name or a
\* descriptor of a client older than its own, nor a descriptor more than one
\* client older than the name (acceptClientConnect 84-88, procClientRequest
\* 93-94).
HandoffOrder ==
  \A w \in Conns :
    /\ HasName(w) => nm[w] = 0 \/ nm[w] \in w..accepted
    /\ HasFd(w) => wfd[w] = 0 \/ wfd[w] \in w..accepted
    /\ HasFd(w) /\ wfd[w] # 0 => nm[w] <= wfd[w] + 1

\* With no lost hand-over, a connection keeps its descriptor until its own
\* thread closes it, although numbers are reused at once (69, 118-122).
FdOwnership ==
  Clean => \A c \in 1..accepted :
             wpc[c] \notin {"unlist", "done"} => sock[num[c]] = c

\* With no lost hand-over, an answer (not a friend, receiver not online) goes
\* to the client whose message it answers (the srcFd writes of server_proc.c).
ReplyToSender ==
  Clean => \A k \in Conns : \A i \in DOMAIN rcv[k] :
             rcv[k][i].kind = "reply" => rcv[k][i].from = k

\* With no lost hand-over, what a client gets from one connection comes in the
\* order it was sent (one thread per connection, read one by one).
SenderOrder ==
  Clean => \A k \in Conns : \A i, j \in DOMAIN rcv[k] :
             i < j /\ rcv[k][i].from = rcv[k][j].from
               => rcv[k][i].id <= rcv[k][j].id

\* A message for one user has one outcome: it is written to one client, once,
\* or stored, never both, whatever the races (procSendMsg2One, 72-98).
OneFate ==
  /\ \A k, l \in Conns : \A i \in DOMAIN rcv[k], j \in DOMAIN rcv[l] :
       rcv[k][i].id = rcv[l][j].id /\ rcv[k][i].kind # "all"
         => k = l /\ i = j
  /\ \A k \in Conns : \A i \in DOMAIN rcv[k] : rcv[k][i].id \notin stored

\* Once a client with a thread has left, its thread ends, and takes a node of
\* that name out of the list (read of 0 bytes, close, delNode: 116-128).
LeaverForgotten ==
  \A c \in Conns :
    wpc[c] # "none" /\ peer[c] \in {"fin", "rst"}
      ~> wpc[c] = "done" \/ srv = "down" \/ ~Clean

\* What a client with a thread has sent is read (the loop 97-141).
InboxRead ==
  \A c \in Conns :
    wpc[c] # "none" /\ inbox[c] # <<>>
      ~> inbox[c] = <<>> \/ srv = "down" \/ ~Clean

\* A file or text for one user is written to another client only if a client
\* of that user was already closed: the number of its descriptor, or the memory
\* of its node, was given away between searchName and write (procSendFile2One
\* 145: it is forwarded to the receiver; procClientRequest 120-124).
ToReceiver ==
  Clean => \A k \in Conns : \A i \in DOMAIN rcv[k] :
    LET m == rcv[k][i] IN
      m.kind \in {"one", "file"} /\ who[k] # m.des
        => \E c \in Conns : who[c] = m.des /\ wpc[c] \in {"unlist", "done"}
=============================================================================
