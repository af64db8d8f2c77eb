------------------------------ MODULE FramedTcp ------------------------------
(***************************************************************************)
(* Messages on a TCP connection (freec++ _public.cpp): TcpWrite sends a    *)
(* header of HeadLen bytes that says how long the message is, and then the *)
(* message; TcpRead receives a header and as many bytes as it says. send() *)
(* and recv() move any number of bytes, so each is called in a loop        *)
(* (Writen, Readn). The writers are threads of one process that take a     *)
(* mutex around TcpWrite and exit when it fails (demo23.cpp); the reader   *)
(* is another process, which may read again after a timeout.               *)
(*                                                                         *)
(* A byte is represented by the message it belongs to and its position in  *)
(* the frame. What is read as a header but is not one says any length.     *)
(***************************************************************************)
EXTENDS Integers, Sequences

CONSTANTS Writers,  \* sending threads
          HeadLen,  \* TCPHEADLEN
          BufLen,   \* TCPBUFLEN
          Lens,     \* lengths of the messages sent in this instance
          MaxMsg    \* bound on the messages sent

Nobody == "nobody"

ASSUME FramedConstants ==
  /\ Nobody \notin Writers
  /\ HeadLen \in Nat \ {0} /\ BufLen \in Nat /\ MaxMsg \in Nat
  /\ BufLen < 10^HeadLen
  /\ Lens \subseteq Nat

Byte == [msg : 1..MaxMsg, pos : 0..(HeadLen + BufLen - 1)]

VARIABLES mutex,    \* the thread that holds it, or nobody
          frames,   \* lengths of the messages TcpWrite began to send
          wpc,      \* where thread w is
          cur,      \* the message it sends
          idx,      \* the bytes of its frame it has sent
          conn,     \* state of the connection, as the reader's side knows it
          wire,     \* bytes sent and not yet received
          rpc,      \* where the reader is
          buf,      \* what Readn has received so far
          buflen,   \* the length in the header
          bTimeOut, \* m_bTimeOut
          got       \* what TcpRead has returned

writeV == <<mutex, frames, wpc, cur, idx>>
readV  == <<rpc, buf, buflen, bTimeOut, got>>
vars   == <<writeV, conn, wire, readV>>

Init ==
  /\ mutex = Nobody /\ frames = <<>>
  /\ wpc = [w \in Writers |-> "idle"]
  /\ cur = [w \in Writers |-> 0] /\ idx = [w \in Writers |-> 0]
  /\ conn = "up" /\ wire = <<>>
  /\ rpc = "idle" /\ buf = <<>> /\ buflen = 0 /\ bTimeOut = FALSE
  /\ got = <<>>

\* The bytes i..j-1 of the frame of message m.
Bytes(m, i, j) == [k \in 1..(j - i) |-> [msg |-> m, pos |-> i + k - 1]]
FrameLen(m)    == HeadLen + frames[m]
Text(m)        == Bytes(m, HeadLen, FrameLen(m))

-----------------------------------------------------------------------------
(* The threads that send: send_main, TcpWrite, Writen.                      *)

Goto(w, pc) == wpc' = [wpc EXCEPT ![w] = pc]

\* Mutant: no mutex.
Lock_Not(w) ==
  /\ wpc[w] = "idle" /\ Goto(w, "start")
  /\ UNCHANGED <<mutex, frames, cur, idx, conn, wire, readV>>

Lock(w) ==
  /\ wpc[w] = "idle" /\ Goto(w, "start")
  /\ mutex = Nobody /\ mutex' = w
  /\ UNCHANGED <<frames, cur, idx, conn, wire, readV>>

\* exit(-1): the process ends, and with it the connection.
Exit(w) ==
  /\ wpc' = [v \in Writers |-> "gone"]
  /\ conn' = IF conn = "up" THEN "closed" ELSE conn
  /\ UNCHANGED <<mutex, frames, cur, idx, wire, readV>>

Begin(w, n) ==
  /\ Goto(w, "send")
  /\ frames' = Append(frames, n)
  /\ cur' = [cur EXCEPT ![w] = Len(frames) + 1]
  /\ idx' = [idx EXCEPT ![w] = 0]
  /\ UNCHANGED <<mutex, conn, wire, readV>>

\* A message that is too long is refused, another one is framed.
Start(w) ==
  /\ wpc[w] = "start" /\ Len(frames) < MaxMsg
  /\ \E n \in Lens : \/ n <= BufLen /\ Begin(w, n)
                     \/ n > BufLen /\ Exit(w)

Left(w) == FrameLen(cur[w]) - idx[w]

\* send() takes some of the bytes that are left.
Send(w) ==
  /\ wpc[w] = "send" /\ conn = "up"
  /\ \E k \in 1..Left(w) :
       /\ wire' = wire \o Bytes(cur[w], idx[w], idx[w] + k)
       /\ idx' = [idx EXCEPT ![w] = @ + k]
  /\ UNCHANGED <<mutex, frames, wpc, cur, conn, readV>>

SendFails(w) ==
  /\ wpc[w] = "send" /\ Left(w) > 0 /\ conn = "reset" /\ Exit(w)

Unlock(w) ==
  /\ wpc[w] = "send" /\ Left(w) = 0 /\ Goto(w, "idle")
  /\ mutex' = Nobody
  /\ UNCHANGED <<frames, cur, idx, conn, wire, readV>>

Writer(w) == Lock(w) \/ Start(w) \/ Send(w) \/ SendFails(w) \/ Unlock(w)

-----------------------------------------------------------------------------
(* The connection is reset, and what is on its way dropped; or it falls     *)
(* silent, with some of it lost, which neither side is told.                *)

Break ==
  /\ conn = "up" /\ conn' \in {"reset", "silent"}
  /\ \E k \in 0..Len(wire) : wire' = SubSeq(wire, 1, k)
  /\ UNCHANGED <<writeV, readV>>

-----------------------------------------------------------------------------
(* The reader: CTcpClient::Read with a timeout, TcpRead, Readn.             *)

\* select() says there is something to read, or the end of it.
Select ==
  /\ rpc = "idle" /\ (wire # <<>> \/ conn \in {"closed", "reset"})
  /\ rpc' = "head" /\ buf' = <<>> /\ buflen' = 0 /\ bTimeOut' = FALSE
  /\ UNCHANGED <<writeV, conn, wire, got>>

\* Nothing came in time: FALSE is returned; the caller ends or reads again.
SelectTimeOut ==
  /\ rpc = "idle" /\ wire = <<>> /\ conn \in {"up", "silent"}
  /\ rpc' \in {"idle", "gone"} /\ bTimeOut' = TRUE
  /\ UNCHANGED <<writeV, conn, wire, buf, buflen, got>>

\* The bytes that nLeft still asks for.
Want == (IF rpc = "head" THEN HeadLen ELSE buflen) - Len(buf)

Receive(k) ==
  /\ buf' = buf \o SubSeq(wire, 1, k)
  /\ wire' = SubSeq(wire, k + 1, Len(wire))
  /\ UNCHANGED <<writeV, conn, rpc, buflen, bTimeOut, got>>

\* Mutant: recv() is asked for more than is left.
Recv_More ==
  /\ rpc \in {"head", "body"} /\ Want > 0
  /\ \E k \in 1..Len(wire) : k <= Want + 1 /\ Receive(k)

\* recv() returns some of what has arrived.
Recv ==
  /\ rpc \in {"head", "body"}
  /\ \E k \in 1..Len(wire) : k <= Want /\ Receive(k)

\* recv() returns 0 or -1.
RecvFails ==
  /\ rpc \in {"head", "body"} /\ Want > 0
  /\ wire = <<>> /\ conn \in {"closed", "reset"}
  /\ rpc' = "gone"
  /\ UNCHANGED <<writeV, conn, wire, buf, buflen, bTimeOut, got>>

\* What atoi() finds in the buffer.
Says(b) ==
  IF \E m \in DOMAIN frames : b = Bytes(m, 0, HeadLen)
  THEN {frames[b[1].msg]} ELSE 0..(BufLen + 1)

\* Mutant: an empty message is taken for none.
HeadRead_NoEmpty ==
  /\ rpc = "head" /\ Want <= 0
  /\ buflen' \in Says(buf)
  /\ rpc' = IF buflen' > BufLen THEN "gone"
            ELSE IF buflen' = 0 THEN "idle" ELSE "body"
  /\ buf' = <<>>
  /\ UNCHANGED <<writeV, conn, wire, bTimeOut, got>>

HeadRead ==
  /\ rpc = "head" /\ Want <= 0
  /\ buflen' \in Says(buf)
  /\ rpc' = IF buflen' > BufLen THEN "gone" ELSE "body"
  /\ buf' = <<>>
  /\ UNCHANGED <<writeV, conn, wire, bTimeOut, got>>

BodyRead ==
  /\ rpc = "body" /\ Want <= 0
  /\ got' = Append(got, buf)
  /\ rpc' = "idle" /\ buf' = <<>> /\ buflen' = 0
  /\ UNCHANGED <<writeV, conn, wire, bTimeOut>>

Reader == Select \/ Recv \/ RecvFails \/ HeadRead \/ BodyRead

Next == (\E w \in Writers : Writer(w)) \/ Break \/ Reader \/ SelectTimeOut

Spec == Init /\ [][Next]_vars

\* The threads that send and the reader are scheduled again and again.
FairSpec == Spec /\ WF_vars(Reader) /\ \A w \in Writers : WF_vars(Writer(w))

-----------------------------------------------------------------------------
(* Properties.                                                              *)

TypeOK ==
  /\ mutex \in Writers \cup {Nobody}
  /\ frames \in Seq(0..BufLen) /\ Len(frames) <= MaxMsg
  /\ wpc \in [Writers -> {"idle", "start", "send", "gone"}]
  /\ cur \in [Writers -> 0..MaxMsg] /\ idx \in [Writers -> Nat]
  /\ conn \in {"up", "closed", "reset", "silent"}
  /\ wire \in Seq(Byte) /\ buf \in Seq(Byte)
  /\ rpc \in {"idle", "head", "body", "gone"}
  /\ buflen \in 0..(BufLen + 1) /\ bTimeOut \in BOOLEAN
  /\ got \in Seq(Seq(Byte))

\* The byte the reader expects is the one it gets next, however the bytes
\* were cut into pieces: it never loses the boundary between two messages
\* (Readn 1884-1900, TcpRead 1834-1840; the mutex of demo23 84-92).
ReadAligned ==
  /\ TypeOK
  /\ wire # <<>> /\ (rpc = "idle" \/ (rpc # "gone" /\ Want > 0)) =>
       Head(wire) = [msg |-> Len(got) + 1,
                     pos |-> (IF rpc = "body" THEN HeadLen ELSE 0) + Len(buf)]

\* The connection carries the messages of all threads as a channel does
\* (module Channel), also when it breaks in the middle of a frame.
Sent == [m \in DOMAIN frames |-> Text(m)]
C == INSTANCE Channel WITH
       Messages <- {Bytes(m, HeadLen, HeadLen + n) : m \in 1..MaxMsg, n \in Lens},
       put <- Sent
ImplementsChannel == C!ChannelSpec

\* While the connection works and the reader goes on, every message whose
\* frame was begun is read (Writen and Readn leave nothing behind).
Delivered ==
  \A m \in 1..MaxMsg :
    m \in DOMAIN frames ~> m \in DOMAIN got \/ conn # "up" \/ rpc = "gone"
=============================================================================
