----------------------------- MODULE ChatFraming -----------------------------
(***************************************************************************)
(* Messages and files of the chat as bytes on its TCP connections.         *)
(*                                                                         *)
(* A message is a head and a body of MAX_WORD_LEN bytes, in a structure    *)
(* that is one byte longer. Most of the program writes the structure, some *)
(* of it head and body only; the server reads as much as a structure, the  *)
(* client as much as head and body, and neither looks at how much it got   *)
(* or where a message begins. What a read returns is all there is, up to   *)
(* its size, so it depends on timing whether messages are told apart.      *)
(*                                                                         *)
(* A file is sent in messages of one body each (doSendFile), forwarded one *)
(* by one (procSendFile2One) and appended by the receiver, which counts    *)
(* them to know the last one (doRecvFile).                                 *)
(*                                                                         *)
(* A connection is a queue of bytes that what is written enters at once    *)
(* and whole (server and clients talk over 127.0.0.1). The head of a       *)
(* message counts as one byte. The list of users, threads and the database *)
(* are in modules ChatServer, UserList and Mailbox.                        *)
(***************************************************************************)
EXTENDS Integers, Sequences, FiniteSets

CONSTANTS Clients,   \* names of users
          Friends,   \* pairs of users that are friends
          Files,     \* names of files
          Size,      \* the size of each file
          Images,    \* the files whose name holds png or jpg
          Nuls,      \* the places <<f, p>> where a file holds a byte 0
          Exits,     \* text files whose last piece is the word exit
          NoAccess,  \* pairs <<c, f>>: c cannot open a file of this name
          Word,      \* MAX_WORD_LEN
          Kinds,     \* kinds of message sent in this instance
          MaxSend    \* bound on the texts and files sent

AllKinds == {"one", "all", "file"}

ASSUME FramingConstants ==
  /\ Word \in Nat \ {0} /\ MaxSend \in Nat
  /\ Size \in [Files -> Nat]
  /\ Friends \subseteq Clients \X Clients
  /\ Images \subseteq Files /\ Exits \subseteq Files \ Images
  /\ NoAccess \subseteq Clients \X Files
  /\ Kinds \subseteq AllKinds
  /\ \A x \in Nuls : x[1] \in Files /\ x[2] \in 1..Size[x[1]]

NoFile == "none"
Ids    == 1..MaxSend
Msg == [id : Ids, kind : AllKinds \cup {"refused"}, src : Clients,
        des : Clients, file : Files \cup {NoFile}, from : Nat]

Start  == 1
Body  == 2..(Word + 1)
Last == Word + 2   \* the last byte of the structure
Byte  == [msg : Msg, at : {Start, Last} \cup Body]

VARIABLES up,       \* up[c]: bytes client c wrote and the server has not read
          down,     \* down[c]: bytes the server wrote to client c
          online,   \* clients in the server's list
          put,      \* put[c]: the file c is sending, from the next byte on
          packets,  \* packets[c]: filePacketNum of the receive thread of c
          disk,     \* disk[c][f]: what c received under this name
          seen,     \* seen[c]: the texts c showed
          srv,      \* "up" or "down": the server process
          sent,     \* texts and files sent so far
          \* history
          joined,   \* a read returned bytes of two messages
          mixed,    \* receivers whose files were not sent one at a time, whole
          puts,     \* puts[c][f]: how often f was sent to c
          due,      \* due[c]: the texts the server wrote to c
          grouped,  \* clients that sent a text to all
          padded    \* clients the server wrote a structure to

wires    == <<up, down>>
clientV  == <<put, packets, disk, seen>>
history  == <<joined, mixed, puts, due, grouped, padded>>
vars == <<wires, clientV, online, srv, sent, history>>

NoPut == [file |-> NoFile]

Init ==
  /\ up = [c \in Clients |-> <<>>] /\ down = [c \in Clients |-> <<>>]
  /\ online \in SUBSET Clients
  /\ put = [c \in Clients |-> NoPut]
  /\ packets = [c \in Clients |-> 0]
  /\ disk = [c \in Clients |-> [f \in Files |-> <<>>]]
  /\ seen = [c \in Clients |-> <<>>]
  /\ srv = "up" /\ sent = 0
  /\ joined = FALSE /\ mixed = {}
  /\ puts = [c \in Clients |-> [f \in Files |-> 0]]
  /\ due = [c \in Clients |-> {}]
  /\ grouped = {} /\ padded = {}

-----------------------------------------------------------------------------
(* Bytes.                                                                   *)

Bytes(m, n) == [i \in 1..n |-> [msg |-> m, at |-> i]]
Structure(m)   == Bytes(m, Last)      \* sizeof(MSG_DATA_S)
HeadAndBody(m) == Bytes(m, Last - 1)  \* sizeof(MSG_HEAD_S) + MAX_WORD_LEN

\* What read() returns of s if it is asked for n bytes, and what it leaves.
Got(s, n)  == SubSeq(s, 1, IF Len(s) < n THEN Len(s) ELSE n)
Left(s, n) == SubSeq(s, n + 1, Len(s))

Joined(buf) == \E i \in DOMAIN buf : buf[i].msg # buf[1].msg

\* A byte of a file, as it can be told from others: those that are 0 cannot.
Zero == <<>>
FileByte(f, p) == IF p > Size[f] \/ <<f, p>> \in Nuls THEN Zero ELSE <<f, p>>

\* The body of a message with a piece of a file: the piece and zeros.
Piece(m) == [i \in 1..Word |-> FileByte(m.file, m.from + i)]

\* strlen() of a body.
StrLen(b) == CHOOSE n \in 0..Word :
               /\ \A i \in 1..n : b[i] # Zero
               /\ n < Word => b[n + 1] = Zero

-----------------------------------------------------------------------------
(* The client's main thread.                                                *)

\* A user logs in: the server has a node for it.
Login(c) ==
  /\ c \notin online /\ online' = online \cup {c}
  /\ UNCHANGED <<wires, clientV, srv, sent, history>>

\* Mutant: pieces of files are written without the last byte too.
ClientWrites_Short(m) == HeadAndBody(m)

\* What the client writes of a message: sendMsg2All leaves out a byte.
ClientWrites(m) == IF m.kind = "all" THEN HeadAndBody(m) ELSE Structure(m)

\* sendMsg2One, sendMsg2All
SendText(c) ==
  /\ c \in online /\ put[c] = NoPut /\ sent < MaxSend
  /\ \E k \in Kinds \ {"file"}, d \in Clients :
       LET m == [id |-> sent + 1, kind |-> k, src |-> c, des |-> d,
                 file |-> NoFile, from |-> 0]
       IN /\ IF k = "all" THEN d = c ELSE d # c
          /\ up' = [up EXCEPT ![c] = @ \o ClientWrites(m)]
          /\ grouped' = IF k = "all" THEN grouped \cup {c} ELSE grouped
  /\ sent' = sent + 1
  /\ UNCHANGED <<down, clientV, online, srv, joined, mixed, puts, due, padded>>

\* The pieces of files for d in s.
PiecesFor(d, s) ==
  {b.msg : b \in {s[i] : i \in {j \in DOMAIN s : s[j].at = Start
                                  /\ s[j].msg.kind = "file" /\ s[j].msg.des = d}}}

\* A piece of a file for d is under way from another client than c.
Arriving(d, c) ==
  \/ \E b \in Clients \ {c} : \/ put[b] # NoPut /\ put[b].des = d
                              \/ PiecesFor(d, up[b]) # {}
  \/ \E m \in PiecesFor(d, down[d]) : m.src # c

\* sendFile2One, the command put: another user's name and a file.
Put(c) ==
  /\ "file" \in Kinds
  /\ c \in online /\ put[c] = NoPut /\ sent < MaxSend
  /\ \E d \in Clients \ {c}, f \in Files :
       /\ Size[f] > 0   \* an empty file sends nothing
       /\ put' = [put EXCEPT ![c] = [file |-> f, id |-> sent + 1, des |-> d,
                                     from |-> 0]]
       /\ puts' = [puts EXCEPT ![d][f] = @ + 1]
       /\ mixed' = IF Arriving(d, c) THEN mixed \cup {d} ELSE mixed
  /\ sent' = sent + 1
  /\ UNCHANGED <<wires, packets, disk, seen, online, srv, joined, due, grouped,
                 padded>>

PieceOf(c) == [id |-> put[c].id, kind |-> "file", src |-> c,
               des |-> put[c].des, file |-> put[c].file, from |-> put[c].from]

\* The next piece, or the end of the file.
Advance(c) ==
  LET p == put[c]
  IN put' = [put EXCEPT ![c] = IF p.from + Word >= Size[p.file] THEN NoPut
                               ELSE [p EXCEPT !.from = p.from + Word]]

\* An iteration of the loop of doSendFile.
SendPiece(c) ==
  /\ put[c] # NoPut
  /\ up' = [up EXCEPT ![c] = @ \o ClientWrites(PieceOf(c))]
  /\ Advance(c)
  /\ UNCHANGED <<down, packets, disk, seen, online, srv, sent, history>>

-----------------------------------------------------------------------------
(* The server's thread for c.                                               *)

\* The server writes to some clients; those in whole get a structure.
ServerWrites(to, whole, m) ==
  /\ down' = [d \in Clients |->
                IF d \notin to THEN down[d]
                ELSE down[d] \o (IF whole THEN Structure(m) ELSE HeadAndBody(m))]
  /\ padded' = IF whole THEN padded \cup to ELSE padded
  /\ due' = [d \in Clients |->
               IF d \in to /\ m.kind # "file" THEN due[d] \cup {m.id} ELSE due[d]]

\* Mutant: texts are forwarded as they were read, the whole structure.
ProcSendMsg2One_Whole(m) ==
  IF <<m.src, m.des>> \notin Friends
    THEN ServerWrites({m.src}, TRUE, [m EXCEPT !.kind = "refused"])
    ELSE /\ down' = IF m.des \in online
                      THEN [down EXCEPT ![m.des] = @ \o Structure(m)]
                      ELSE down
         /\ due' = IF m.des \in online
                     THEN [due EXCEPT ![m.des] = @ \cup {m.id}] ELSE due
         /\ UNCHANGED padded

\* To who is no friend's friend the text is refused; for a user who is not
\* online it is stored.
ProcSendMsg2One(m) ==
  IF <<m.src, m.des>> \notin Friends
    THEN ServerWrites({m.src}, TRUE, [m EXCEPT !.kind = "refused"])
    ELSE ServerWrites({m.des} \cap online, FALSE, m)

ProcSendMsg2All(m) ==
  ServerWrites({d \in online : <<m.src, d>> \in Friends}, FALSE, m)

\* A piece for a user who is not online goes back to its sender.
ProcSendFile2One(m) ==
  IF m.des \in online THEN ServerWrites({m.des}, TRUE, m)
                      ELSE ServerWrites({m.src}, FALSE, m)

\* The body is the word exit: the message is dropped.
SaysExit(m) ==
  m.kind = "file" /\ m.file \in Exits /\ m.from + Word >= Size[m.file]

Dropped(m) == m.kind = "file" /\ (SaysExit(m) \/ m.des \notin online)

Handle(m) ==
  /\ \/ SaysExit(m) /\ UNCHANGED <<down, due, padded>>
     \/ ~SaysExit(m) /\ m.kind = "one"  /\ ProcSendMsg2One(m)
     \/ ~SaysExit(m) /\ m.kind = "all"  /\ ProcSendMsg2All(m)
     \/ ~SaysExit(m) /\ m.kind = "file" /\ ProcSendFile2One(m)
  /\ mixed' = IF Dropped(m) THEN mixed \cup {m.des} ELSE mixed

\* read() and what is done with the structure. What begins in the middle of a
\* message has no type: the table of functions is read out of its bounds,
\* unless the bytes taken for the type are 0 (that function does nothing).
ServerReads(c) ==
  /\ srv = "up" /\ up[c] # <<>>
  /\ LET buf == Got(up[c], Last)
     IN /\ up' = [up EXCEPT ![c] = Left(@, Last)]
        /\ joined' = (joined \/ Joined(buf))
        /\ \/ /\ buf[1].at = Start
              /\ Handle(buf[1].msg) /\ UNCHANGED srv
           \/ /\ buf[1].at # Start
              /\ srv' \in {"up", "down"}
              /\ UNCHANGED <<down, due, padded, mixed>>
  /\ UNCHANGED <<clientV, online, sent, puts, grouped>>

-----------------------------------------------------------------------------
(* The receive thread of client c.                                          *)

IsLast(m, n) == Size[m.file] <= (n + 1) * Word

\* Mutant: the file is opened for writing from its beginning.
Append_Truncate(s, b) == b

Appended(s, b) == s \o b

\* Of the last piece of a text what is before the first 0 is written, and all
\* of the body otherwise.
Written(m, n) ==
  LET b == Piece(m)
  IN IF IsLast(m, n) /\ m.file \notin Images THEN SubSeq(b, 1, StrLen(b)) ELSE b

\* A piece that came back is not written.
DoRecvFile(c, m) ==
  /\ UNCHANGED seen
  /\ IF m.src = c \/ <<c, m.file>> \in NoAccess THEN UNCHANGED <<disk, packets>>
     ELSE /\ disk' = [disk EXCEPT ![c][m.file] =
                        Appended(@, Written(m, packets[c]))]
          /\ packets' = [packets EXCEPT ![c] = IF IsLast(m, @) THEN 0 ELSE @ + 1]

ShowText(c, m) ==
  /\ seen' = [seen EXCEPT ![c] = Append(@, m)]
  /\ UNCHANGED <<disk, packets>>

\* clientProcRecvMsg; what begins in the middle of a message is shown as a
\* text that is none.
ClientReads(c) ==
  /\ down[c] # <<>>
  /\ LET buf == Got(down[c], Last - 1)
     IN /\ down' = [down EXCEPT ![c] = Left(@, Last - 1)]
        /\ joined' = (joined \/ Joined(buf))
        /\ \/ buf[1].at = Start /\ buf[1].msg.kind = "file"
              /\ DoRecvFile(c, buf[1].msg)
           \/ buf[1].at = Start /\ buf[1].msg.kind # "file"
              /\ ShowText(c, buf[1].msg)
           \/ buf[1].at # Start /\ UNCHANGED <<seen, disk, packets>>
  /\ UNCHANGED <<up, online, put, srv, sent, mixed, puts, due, grouped, padded>>

Next == \E c \in Clients :
          \/ Login(c) \/ SendText(c) \/ Put(c) \/ SendPiece(c)
          \/ ServerReads(c) \/ ClientReads(c)

Spec == Init /\ [][Next]_vars

-----------------------------------------------------------------------------
(* Properties.                                                              *)

\* Pieces a file has beyond the first.
MorePieces(f) == (Size[f] - 1) \div Word

TypeOK ==
  /\ \A c \in Clients : \A i \in DOMAIN up[c] : up[c][i] \in Byte
  /\ \A c \in Clients : \A i \in DOMAIN down[c] : down[c][i] \in Byte
  /\ online \subseteq Clients /\ srv \in {"up", "down"} /\ sent \in 0..MaxSend
  /\ \A c \in Clients : put[c] = NoPut \/ put[c].from \in 0..(Size[put[c].file] - 1)
  /\ \A c \in Clients : packets[c] = 0 \/ \E f \in Files : packets[c] <= MorePieces(f)
  /\ \A c \in Clients : seen[c] \in Seq(Msg)
  /\ joined \in BOOLEAN /\ mixed \subseteq Clients
  /\ grouped \subseteq Clients /\ padded \subseteq Clients

\* What a receiver gets of a file: an image is filled up with zeros to a whole
\* number of bodies, a text ends at the first 0 of its last piece.
Expected(f) ==
  LET full == MorePieces(f) * Word
      last == [i \in 1..Word |-> FileByte(f, full + i)]
  IN [i \in 1..full |-> FileByte(f, i)]
       \o (IF f \in Images THEN last ELSE SubSeq(last, 1, StrLen(last)))

\* Nothing of a file for d is under way.
Quiet(d) ==
  /\ \A c \in Clients : /\ put[c] = NoPut \/ put[c].des # d
                        /\ PiecesFor(d, up[c]) = {}
  /\ PiecesFor(d, down[d]) = {}

\* Whatever the reads return and however many send to a user at a time: of a
\* file sent once no byte arrives twice, or before one that it follows.
BytesInOrder ==
  \A d \in Clients, f \in Files : puts[d][f] <= 1 =>
    \A i, j \in DOMAIN disk[d][f] :
      /\ i < j /\ disk[d][f][i] # Zero /\ disk[d][f][j] # Zero
      => disk[d][f][i][2] < disk[d][f][j][2]

\* As long as every read returned bytes of one message only: files that were
\* sent to a user one client at a time, and whole, are there when nothing is
\* under way, each as often as it was sent, and the count of the last file has
\* ended (doSendFile, procSendFile2One, doRecvFile). BytesInOrder holds always.
FilesExact ==
  /\ BytesInOrder
  /\ ~joined => \A d \in Clients \ mixed : Quiet(d) =>
    /\ packets[d] = 0
    /\ \A f \in Files : <<d, f>> \notin NoAccess =>
         LET e == Expected(f)
             b == disk[d][f]
         IN /\ Len(b) = puts[d][f] * Len(e)
            /\ \A i \in DOMAIN b : b[i] = e[((i - 1) % Len(e)) + 1]

\* Only who sent a text to all can be misunderstood by the server, and only
\* who got a piece of a file or a refusal can misunderstand the server: on
\* other connections every read begins where a message does, however late it
\* is. Only the former can end the server.
Aligned ==
  /\ TypeOK
  /\ \A c \in Clients \ grouped : up[c] # <<>> => up[c][1].at = Start
  /\ \A c \in Clients \ padded : down[c] # <<>> => down[c][1].at = Start
  /\ srv = "down" => grouped # {}

\* Texts of one sender are shown in order, each once. All that are written to
\* a client are shown once it has read everything, if it never got more than
\* it reads at once, or if no read returned bytes of two messages.
TextsKept ==
  \A c \in Clients :
    /\ \A i, j \in DOMAIN seen[c] :
         i < j /\ seen[c][i].src = seen[c][j].src => seen[c][i].id < seen[c][j].id
    /\ ~joined \/ c \notin padded =>
         due[c] = {seen[c][i].id : i \in DOMAIN seen[c]}
                    \cup {down[c][i].msg.id : i \in
                            {j \in DOMAIN down[c] : down[c][j].at = Start
                                         /\ down[c][j].msg.kind # "file"}}
=============================================================================
