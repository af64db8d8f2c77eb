------------------------- MODULE ChatFramingProofs -------------------------
(***************************************************************************)
(* Proofs about ChatFraming, for any users, files and sizes of a body:     *)
(* which connections keep the boundaries between messages, the order of    *)
(* texts and of the pieces of a file on their way, what is lost, and that  *)
(* files sent one at a time arrive whole.                                  *)
(***************************************************************************)
EXTENDS ChatFraming, TLAPS, SequenceTheorems, WellFoundedInduction,
        FiniteSetTheorems

-----------------------------------------------------------------------------
(* The inductive invariant.                                                 *)

Texts  == {"one", "all", "refused"}
IsText(m)  == m.kind # "file"
IsPiece(m, f, d) == m.kind = "file" /\ m.file = f /\ m.des = d

Puts == [file : Files, id : Ids, des : Clients, from : Nat]
Cell(f) == {Zero} \cup {<<f, q>> : q \in Nat}

TypeInv ==
  /\ up \in [Clients -> Seq(Byte)] /\ down \in [Clients -> Seq(Byte)]
  /\ online \subseteq Clients /\ srv \in {"up", "down"} /\ sent \in 0..MaxSend
  /\ put \in [Clients -> {NoPut} \cup Puts]
  /\ \A c \in Clients : put[c] # NoPut => put[c].from < Size[put[c].file]
  /\ packets \in [Clients -> Nat]
  /\ \A c \in Clients : packets[c] # 0 => \E f \in Files : packets[c] * Word < Size[f]
  /\ DOMAIN disk = Clients
  /\ \A c \in Clients : DOMAIN disk[c] = Files
                        /\ \A f \in Files : disk[c][f] \in Seq(Cell(f))
  /\ seen \in [Clients -> Seq(Msg)]
  /\ joined \in BOOLEAN /\ mixed \subseteq Clients
  /\ puts \in [Clients -> [Files -> Nat]]
  /\ due \in [Clients -> SUBSET Ids]
  /\ grouped \subseteq Clients /\ padded \subseteq Clients

\* A stream of whole messages of w bytes each.
Frames(s, w) ==
  \A i \in DOMAIN s : /\ s[i].at \in 1..w
                      /\ \A o \in 1..w : /\ i - s[i].at + o \in DOMAIN s
                                         /\ s[i - s[i].at + o] = [msg |-> s[i].msg, at |-> o]

FrameInv ==
  /\ \A c \in Clients \ grouped : Frames(up[c], Last)
  /\ \A c \in Clients \ padded : Frames(down[c], Last - 1)
  /\ srv = "down" => grouped # {}

Msgs(s)  == {s[i].msg : i \in DOMAIN s}
Shown(c) == {seen[c][i] : i \in DOMAIN seen[c]}

\* A client writes in its own name; a file goes to its receiver or comes back.
OriginInv ==
  /\ \A c \in Clients : \A m \in Msgs(up[c]) :
       m.src = c /\ m.id <= sent /\ (~IsText(m) => m.file \in Files)
  /\ \A c \in Clients : \A m \in Msgs(down[c]) :
       m.id <= sent /\ (~IsText(m) => m.file \in Files /\ c \in {m.src, m.des})
  /\ \A c \in Clients : \A m \in Shown(c) : IsText(m) /\ m.id <= sent
  /\ \A c \in Clients : put[c] # NoPut => put[c].id <= sent

\* A piece, or what is to be sent of a file, comes after piece m: it is of a file
\* sent later, or further on in the same one.
Precedes(m, k) == m.id < k.id \/ (m.id = k.id /\ m.from + Word <= k.from)

\* Message k, if it is of the same sender, comes after m: texts in the order
\* they were sent, pieces of files too, and those of a file that is sent once to
\* a user.
Before(pt, m, k) ==
  m.src = k.src =>
    /\ IsText(m) /\ IsText(k) => m.id < k.id
    /\ ~IsText(m) /\ ~IsText(k) => Precedes(m, k)
    /\ ~IsText(m) /\ ~IsText(k) /\ m.file = k.file /\ m.des = k.des
         /\ pt[m.des][m.file] <= 1 => m.from + Word <= k.from

Ordered(pt, s) ==
  \A j \in DOMAIN s : s[j].at = Start => \A i \in 1..(j - 1) : Before(pt, s[i].msg, s[j].msg)

Ahead(pt, M, s) ==
  \A m \in M, j \in DOMAIN s : s[j].at = Start => Before(pt, m, s[j].msg)

OrderInv ==
  /\ \A c \in Clients : Ordered(puts, up[c]) /\ Ordered(puts, down[c])
  /\ \A c \in Clients : Ahead(puts, Shown(c), down[c])
  /\ \A c, d \in Clients : Ahead(puts, Shown(d) \cup Msgs(down[d]), up[c])
  /\ \A c \in Clients : \A i, j \in DOMAIN seen[c] :
       i < j => Before(puts, seen[c][i], seen[c][j])

\* The texts that begin in a stream.
Begun(s) == {s[i].msg.id : i \in {j \in DOMAIN s : s[j].at = Start /\ IsText(s[j].msg)}}

DueInv ==
  \A c \in Clients : ~joined \/ c \notin padded =>
    due[c] = {m.id : m \in Shown(c)} \cup Begun(down[c])

\* All that is on a connection.
Under == UNION {Msgs(up[e]) \cup Msgs(down[e]) : e \in Clients}

\* Client c has a piece of file f for d under way, or another to send.
Sends(c, f, d) ==
  \/ put[c] # NoPut /\ put[c].file = f /\ put[c].des = d
  \/ \E m \in Under : m.src = c /\ IsPiece(m, f, d)

SoleInv ==
  \A d \in Clients, f \in Files :
    /\ puts[d][f] = 0 => disk[d][f] = <<>> /\ \A c \in Clients : ~Sends(c, f, d)
    /\ puts[d][f] = 1 => \A b, c \in Clients : Sends(b, f, d) /\ Sends(c, f, d) => b = c

\* What is to come of a file is behind what is under way of its sender, and of
\* a file that is sent once behind what is under way of anyone.
PutInv ==
  \A c \in Clients : put[c] # NoPut =>
    /\ \A m \in Under : m.src = c /\ ~IsText(m) => Precedes(m, put[c])
    /\ puts[put[c].des][put[c].file] = 1 =>
         \A m \in Under : IsPiece(m, put[c].file, put[c].des) => m.from + Word <= put[c].from

\* The bytes on the disk rise, and what is to come is behind them.
Rising(b) ==
  \A i, j \in DOMAIN b : i < j /\ b[i] # Zero /\ b[j] # Zero => b[i][2] < b[j][2]
Within(b, n) == \A i \in DOMAIN b : b[i] # Zero => b[i][2] <= n

\* The messages that begin in streams that can reach d.
StartMsgs(s) == {s[j].msg : j \in {i \in DOMAIN s : s[i].at = Start}}
Starts(d) == StartMsgs(down[d]) \cup UNION {StartMsgs(up[c]) : c \in Clients}

DiskInv ==
  \A d \in Clients, f \in Files : puts[d][f] = 1 =>
    /\ Rising(disk[d][f])
    /\ \A c \in Clients : put[c] # NoPut /\ put[c].file = f /\ put[c].des = d =>
         Within(disk[d][f], put[c].from)
    /\ \A m \in Starts(d) : IsPiece(m, f, d) => Within(disk[d][f], m.from)

-----------------------------------------------------------------------------
(* Streams of bytes that grow by a message, or lose what was read.          *)

LEMMA Constants ==
  /\ Word \in Nat /\ Word >= 1 /\ MaxSend \in Nat /\ Size \in [Files -> Nat]
  /\ Start = 1 /\ Last = Word + 2 /\ Last \in Nat /\ Last >= 3
  /\ Last - 1 \in Nat /\ Last - 1 >= 2 /\ {Start, Last} \cup Body = 1..Last
BY FramingConstants DEF Start, Last, Body

\* t is s and n bytes of message m.
Appends(s, t, m, n) ==
  /\ t \in Seq(Byte) /\ Len(t) = Len(s) + n
  /\ \A i \in 1..Len(s) : t[i] = s[i]
  /\ \A o \in 1..n : t[Len(s) + o] = [msg |-> m, at |-> o]

\* t is what n bytes read from s leave.
Drops(s, t, n) ==
  /\ t \in Seq(Byte) /\ Len(t) = (IF Len(s) < n THEN 0 ELSE Len(s) - n)
  /\ \A i \in 1..Len(t) : t[i] = s[n + i]

LEMMA BytesSeq ==
  ASSUME NEW m \in Msg, NEW n \in 1..Last
  PROVE  /\ Bytes(m, n) \in Seq(Byte) /\ Len(Bytes(m, n)) = n
         /\ \A o \in 1..n : Bytes(m, n)[o] = [msg |-> m, at |-> o]
<1>1. \A o \in 1..n : [msg |-> m, at |-> o] \in Byte
  BY Constants DEF Byte
<1>2. n \in Nat
  BY Constants
<1>3. Bytes(m, n) \in [1..n -> Byte]
  BY <1>1 DEF Bytes
<1>4. QED
  BY <1>2, <1>3, SeqDef DEF Bytes

LEMMA BytesAppend ==
  ASSUME NEW s \in Seq(Byte), NEW m \in Msg, NEW n \in 1..Last
  PROVE  Appends(s, s \o Bytes(m, n), m, n)
<1> DEFINE b == Bytes(m, n)
<1>1. b \in Seq(Byte) /\ Len(b) = n /\ \A o \in 1..n : b[o] = [msg |-> m, at |-> o]
  BY BytesSeq
<1>2. n \in Nat /\ Len(s) \in Nat
  BY Constants
<1> HIDE DEF b
<1>3. /\ s \o b \in Seq(Byte) /\ Len(s \o b) = Len(s) + Len(b)
      /\ \A i \in 1..(Len(s) + Len(b)) :
           (s \o b)[i] = IF i <= Len(s) THEN s[i] ELSE b[i - Len(s)]
  BY <1>1, ConcatProperties
<1>4. \A i \in 1..Len(s) : (s \o b)[i] = s[i]
  BY <1>1, <1>2, <1>3
<1>5. ASSUME NEW o \in 1..n PROVE (s \o b)[Len(s) + o] = [msg |-> m, at |-> o]
  <2>1. Len(s) + o \in 1..(Len(s) + Len(b)) /\ ~(Len(s) + o <= Len(s))
        /\ (Len(s) + o) - Len(s) = o
    BY <1>1, <1>2
  <2>2. QED
    BY <1>1, <1>3, <2>1
<1>6. QED
  BY <1>1, <1>3, <1>4, <1>5 DEF Appends, b

LEMMA LeftDrops ==
  ASSUME NEW s \in Seq(Byte), NEW n \in Nat
  PROVE  Drops(s, Left(s, n), n)
<1> DEFINE l == Len(s)
<1>1. l \in Nat /\ n + 1 \in Int /\ l \in Int
  BY LenProperties
<1>2. \A q \in (n + 1)..l : s[q] \in Byte
  BY <1>1, ElementOfSeq
<1>3. /\ Left(s, n) \in Seq(Byte)
      /\ Len(Left(s, n)) = IF n + 1 <= l THEN l - (n + 1) + 1 ELSE 0
      /\ \A i \in 1..(l - (n + 1) + 1) : Left(s, n)[i] = s[n + 1 + i - 1]
  BY <1>1, <1>2, SubSeqProperties DEF Left
<1> HIDE DEF l
<1>4. Len(Left(s, n)) = IF l < n THEN 0 ELSE l - n
  BY <1>1, <1>3
<1>5. ASSUME NEW i \in 1..Len(Left(s, n)) PROVE Left(s, n)[i] = s[n + i]
  <2>1. i \in 1..(l - (n + 1) + 1) /\ n + 1 + i - 1 = n + i
    BY <1>1, <1>4
  <2>2. QED
    BY <1>3, <2>1
<1>6. QED
  BY <1>3, <1>4, <1>5 DEF Drops, l

\* What a read returns.
LEMMA GotBytes ==
  ASSUME NEW s \in Seq(Byte), s # <<>>, NEW n \in Nat, n >= 1
  PROVE  /\ DOMAIN Got(s, n) = {i \in DOMAIN s : i <= n} /\ 1 \in DOMAIN Got(s, n)
         /\ \A i \in DOMAIN Got(s, n) : Got(s, n)[i] = s[i]
<1> DEFINE l == Len(s)
           k == IF l < n THEN l ELSE n
<1>1. l \in Nat /\ l # 0 /\ DOMAIN s = 1..l
  BY LenProperties, EmptySeq
<1>2. k \in Int /\ k \in Nat /\ 1 <= k /\ k <= l /\ k <= n
  BY <1>1
<1>3. \A q \in 1..k : s[q] \in Byte
  BY <1>1, <1>2, ElementOfSeq
<1>4. Got(s, n) = SubSeq(s, 1, k)
  BY DEF Got
<1>5. \A i \in 1..l : i <= n <=> i <= k
  BY <1>1
<1> HIDE DEF l, k
<1>6. /\ Got(s, n) \in Seq(Byte) /\ Len(Got(s, n)) = IF 1 <= k THEN k - 1 + 1 ELSE 0
      /\ \A i \in 1..(k - 1 + 1) : Got(s, n)[i] = s[1 + i - 1]
  BY <1>2, <1>3, <1>4, SubSeqProperties
<1>7. DOMAIN Got(s, n) = 1..k
  BY <1>2, <1>6
<1>8. \A i \in 1..k : Got(s, n)[i] = s[i]
  <2> SUFFICES ASSUME NEW i \in 1..k PROVE Got(s, n)[i] = s[i]
    OBVIOUS
  <2>1. i \in 1..(k - 1 + 1) /\ 1 + i - 1 = i
    BY <1>2
  <2>2. QED
    BY <1>6, <2>1
<1>9. QED
  BY <1>1, <1>2, <1>5, <1>7, <1>8

\* The bytes of a longer or a shorter stream.
LEMMA AppendsBytes ==
  ASSUME NEW s \in Seq(Byte), NEW t, NEW m, NEW n \in 1..Last, Appends(s, t, m, n)
  PROVE  /\ \A i \in DOMAIN s : i \in DOMAIN t /\ t[i] = s[i] /\ i < Len(s) + 1
         /\ \A o \in 1..n : /\ Len(s) + o \in DOMAIN t
                            /\ t[Len(s) + o] = [msg |-> m, at |-> o]
         /\ \A j \in DOMAIN t : \/ j \in DOMAIN s /\ t[j] = s[j]
                                \/ \E o \in 1..n : j = Len(s) + o /\ t[j].at = o
                                                   /\ t[j].msg = m
         /\ DOMAIN s = 1..Len(s) /\ Len(s) \in Nat /\ n \in Nat
<1>1. n \in Nat /\ Len(s) \in Nat /\ DOMAIN s = 1..Len(s)
      /\ Len(t) = Len(s) + n /\ DOMAIN t = 1..Len(t)
  BY Constants, LenProperties DEF Appends
<1>2. \A i \in DOMAIN s : i \in DOMAIN t /\ t[i] = s[i] /\ i < Len(s) + 1
  BY <1>1 DEF Appends
<1>3. \A o \in 1..n : /\ Len(s) + o \in DOMAIN t
                      /\ t[Len(s) + o] = [msg |-> m, at |-> o]
  BY <1>1 DEF Appends
<1>4. ASSUME NEW j \in DOMAIN t, j \notin DOMAIN s
      PROVE  \E o \in 1..n : j = Len(s) + o /\ t[j].at = o /\ t[j].msg = m
  <2>1. j - Len(s) \in 1..n /\ j = Len(s) + (j - Len(s))
    BY <1>1, <1>4
  <2>2. PICK o \in 1..n : j = Len(s) + o
    BY <2>1
  <2>3. t[j] = [msg |-> m, at |-> o]
    BY <1>3, <2>2
  <2>4. QED
    BY <2>2, <2>3
<1>5. QED
  BY <1>1, <1>2, <1>3, <1>4

LEMMA DropsBytes ==
  ASSUME NEW s \in Seq(Byte), NEW t, NEW n \in Nat, Drops(s, t, n)
  PROVE  /\ \A j \in DOMAIN t : n + j \in DOMAIN s /\ t[j] = s[n + j]
         /\ \A i \in DOMAIN s : i > n => i - n \in DOMAIN t /\ t[i - n] = s[i]
         /\ DOMAIN s = 1..Len(s) /\ Len(s) \in Nat
         /\ DOMAIN t = 1..Len(t) /\ Len(t) \in Nat
<1>1. /\ Len(s) \in Nat /\ DOMAIN s = 1..Len(s) /\ DOMAIN t = 1..Len(t)
      /\ Len(t) = (IF Len(s) < n THEN 0 ELSE Len(s) - n) /\ Len(t) \in Nat
  BY LenProperties DEF Drops
<1>2. \A k, l \in Nat : l = (IF k < n THEN 0 ELSE k - n) =>
        /\ \A j \in 1..l : n + j \in 1..k
        /\ \A i \in 1..k : i > n => i - n \in 1..l /\ n + (i - n) = i
  OBVIOUS
<1>3. /\ \A j \in 1..Len(t) : n + j \in 1..Len(s)
      /\ \A i \in 1..Len(s) : i > n => i - n \in 1..Len(t) /\ n + (i - n) = i
  BY <1>1, <1>2
<1>4. \A j \in DOMAIN t : n + j \in DOMAIN s /\ t[j] = s[n + j]
  BY <1>1, <1>3 DEF Drops
<1>5. ASSUME NEW i \in DOMAIN s, i > n PROVE i - n \in DOMAIN t /\ t[i - n] = s[i]
  BY <1>1, <1>3, <1>4, <1>5
<1>6. QED
  BY <1>1, <1>4, <1>5

-----------------------------------------------------------------------------
(* Streams of whole messages.                                               *)

LEMMA FramesEmpty == \A w : Frames(<<>>, w)
<1>1. DOMAIN <<>> = {}
  OBVIOUS
<1>2. QED
  BY <1>1 DEF Frames

LEMMA FramesAppend ==
  ASSUME NEW s \in Seq(Byte), NEW t, NEW m, NEW w \in 1..Last,
         Frames(s, w), Appends(s, t, m, w)
  PROVE  Frames(t, w)
<1>1. /\ \A i \in DOMAIN s : i \in DOMAIN t /\ t[i] = s[i]
      /\ \A o \in 1..w : Len(s) + o \in DOMAIN t /\ t[Len(s) + o] = [msg |-> m, at |-> o]
      /\ \A j \in DOMAIN t : \/ j \in DOMAIN s
                             \/ \E o \in 1..w : j = Len(s) + o /\ t[j].at = o
                                                /\ t[j].msg = m
      /\ Len(s) \in Nat /\ w \in Nat
  BY AppendsBytes
<1>2. ASSUME NEW i \in DOMAIN s
      PROVE  /\ t[i].at \in 1..w
             /\ \A o \in 1..w : /\ i - t[i].at + o \in DOMAIN t
                                /\ t[i - t[i].at + o] = [msg |-> t[i].msg, at |-> o]
  <2>1. t[i] = s[i]
    BY <1>1
  <2>2. /\ s[i].at \in 1..w
        /\ \A o \in 1..w : /\ i - s[i].at + o \in DOMAIN s
                           /\ s[i - s[i].at + o] = [msg |-> s[i].msg, at |-> o]
    BY DEF Frames
  <2>3. \A o \in 1..w : /\ i - s[i].at + o \in DOMAIN t
                        /\ t[i - s[i].at + o] = s[i - s[i].at + o]
    BY <1>1, <2>2
  <2>4. QED
    BY <2>1, <2>2, <2>3
<1>3. ASSUME NEW q \in 1..w, NEW i, i = Len(s) + q, t[i].at = q, t[i].msg = m
      PROVE  /\ t[i].at \in 1..w
             /\ \A o \in 1..w : /\ i - t[i].at + o \in DOMAIN t
                                /\ t[i - t[i].at + o] = [msg |-> t[i].msg, at |-> o]
  <2>1. i - q = Len(s)
    BY <1>1, <1>3
  <2>2. QED
    BY <1>1, <1>3, <2>1
<1>4. QED
  BY <1>1, <1>2, <1>3 DEF Frames

\* The first message is there as a whole.
LEMMA FramesFirst ==
  ASSUME NEW s \in Seq(Byte), s # <<>>, NEW w \in 1..Last, Frames(s, w)
  PROVE  /\ 1 \in DOMAIN s /\ s[1].at = Start
         /\ \A o \in 1..w : o \in DOMAIN s /\ s[o] = [msg |-> s[1].msg, at |-> o]
<1>1. Len(s) \in Nat /\ DOMAIN s = 1..Len(s) /\ 1 \in DOMAIN s /\ w \in Nat /\ 1 \in 1..w
  BY EmptySeq, LenProperties, Constants
<1>2. /\ s[1].at \in 1..w
      /\ \A o \in 1..w : /\ 1 - s[1].at + o \in DOMAIN s
                         /\ s[1 - s[1].at + o] = [msg |-> s[1].msg, at |-> o]
  BY <1>1 DEF Frames
<1>3. s[1].at = 1
  <2> DEFINE a == s[1].at
  <2>1. a \in 1..w /\ \A o \in 1..w : 1 - a + o \in 1..Len(s)
    BY <1>1, <1>2
  <2> HIDE DEF a
  <2>2. 1 - a + 1 \in 1..Len(s)
    BY <1>1, <2>1
  <2>4. a = 1
    BY <1>1, <2>1, <2>2
  <2>3. QED
    BY <2>4 DEF a
<1>4. ASSUME NEW o \in 1..w
      PROVE  o \in DOMAIN s /\ s[o] = [msg |-> s[1].msg, at |-> o]
  <2>1. 1 - s[1].at + o = o
    BY <1>1, <1>3
  <2>2. QED
    BY <1>2, <2>1
<1>5. QED
  BY <1>1, <1>3, <1>4 DEF Start

LEMMA FramesDrop ==
  ASSUME NEW s \in Seq(Byte), NEW t, NEW w \in 1..Last, Frames(s, w), Drops(s, t, w)
  PROVE  Frames(t, w)
<1>1. /\ \A j \in DOMAIN t : w + j \in DOMAIN s /\ t[j] = s[w + j]
      /\ \A i \in DOMAIN s : i > w => i - w \in DOMAIN t /\ t[i - w] = s[i]
      /\ DOMAIN s = 1..Len(s) /\ Len(s) \in Nat /\ w \in Nat /\ 1 <= w
      /\ DOMAIN t = 1..Len(t) /\ Len(t) \in Nat
  BY DropsBytes, Constants
<1> SUFFICES ASSUME NEW j \in DOMAIN t
             PROVE  /\ t[j].at \in 1..w
                    /\ \A o \in 1..w :
                         /\ j - t[j].at + o \in DOMAIN t
                         /\ t[j - t[j].at + o] = [msg |-> t[j].msg, at |-> o]
  BY DEF Frames
<1> DEFINE i == w + j
           a == s[i].at
<1>2. i \in DOMAIN s /\ t[j] = s[i] /\ i > w /\ i \in Nat /\ j \in Nat
  BY <1>1
<1>3. /\ a \in 1..w
      /\ \A o \in 1..w : /\ i - a + o \in DOMAIN s
                         /\ s[i - a + o] = [msg |-> s[i].msg, at |-> o]
  BY <1>2 DEF Frames
<1>4. \A o \in 1..w : o \in DOMAIN s /\ s[o].at = o
  <2>1. s # <<>>
    BY <1>2
  <2>2. \A o \in 1..w : o \in DOMAIN s /\ s[o] = [msg |-> s[1].msg, at |-> o]
    BY <2>1, FramesFirst
  <2>3. TAKE o \in 1..w
  <2>4. o \in DOMAIN s /\ s[o] = [msg |-> s[1].msg, at |-> o]
    BY <2>2
  <2>5. QED
    BY <2>4
<1> HIDE DEF i, a
<1>8. i = w + j
  BY DEF i
<1>9. s[i].at = a
  BY DEF a
<1>5. i - a >= w
  <2>6. 1 \in 1..w
    BY <1>1
  <2>5. i - a + 1 \in DOMAIN s /\ s[i - a + 1] = [msg |-> s[i].msg, at |-> 1]
    BY <1>3, <2>6
  <2>1. i - a + 1 \in 1..Len(s) /\ s[i - a + 1].at = 1
    BY <1>1, <2>5
  <2>2. CASE i - a + 1 \in 1..w
    <3>1. i - a + 1 = 1
      BY <1>4, <2>1, <2>2
    <3>2. QED
      BY <1>1, <1>2, <1>3, <3>1
  <2>3. CASE i - a + 1 \notin 1..w
    BY <1>1, <1>2, <1>3, <2>1, <2>3
  <2>4. QED
    BY <2>2, <2>3
<1>6. ASSUME NEW o \in 1..w
      PROVE  /\ j - a + o \in DOMAIN t
             /\ t[j - a + o] = [msg |-> s[i].msg, at |-> o]
  <2>3. /\ i - a + o \in DOMAIN s
        /\ s[i - a + o] = [msg |-> s[i].msg, at |-> o]
    BY <1>3
  <2>1. i - a + o > w /\ (i - a + o) - w = j - a + o
    BY <1>1, <1>2, <1>3, <1>5, <1>8
  <2>2. (i - a + o) - w \in DOMAIN t /\ t[(i - a + o) - w] = s[i - a + o]
    BY <1>1, <2>1, <2>3
  <2>4. QED
    BY <2>1, <2>2, <2>3
<1>7. QED
  BY <1>2, <1>3, <1>6, <1>9

-----------------------------------------------------------------------------
(* What comes before what.                                                  *)

LEMMA AppendsMsgs ==
  ASSUME NEW s \in Seq(Byte), NEW t, NEW m, NEW n \in 1..Last, Appends(s, t, m, n)
  PROVE  Msgs(t) = Msgs(s) \cup {m}
<1>1. /\ \A i \in DOMAIN s : i \in DOMAIN t /\ t[i] = s[i]
      /\ \A o \in 1..n : Len(s) + o \in DOMAIN t /\ t[Len(s) + o] = [msg |-> m, at |-> o]
      /\ \A j \in DOMAIN t : \/ j \in DOMAIN s
                             \/ \E o \in 1..n : j = Len(s) + o /\ t[j].at = o
                                                /\ t[j].msg = m
      /\ n \in Nat /\ 1 <= n
  BY AppendsBytes, Constants
<1>2. m \in Msgs(t)
  <2>1. 1 \in 1..n
    BY <1>1
  <2>2. Len(s) + 1 \in DOMAIN t /\ t[Len(s) + 1] = [msg |-> m, at |-> 1]
    BY <1>1, <2>1
  <2>3. QED
    BY <2>2 DEF Msgs
<1>3. Msgs(s) \subseteq Msgs(t)
  BY <1>1 DEF Msgs
<1>4. Msgs(t) \subseteq Msgs(s) \cup {m}
  BY <1>1 DEF Msgs
<1>5. QED
  BY <1>2, <1>3, <1>4

LEMMA DropsMsgs ==
  ASSUME NEW s \in Seq(Byte), NEW t, NEW n \in Nat, Drops(s, t, n)
  PROVE  Msgs(t) \subseteq Msgs(s)
BY DropsBytes DEF Msgs

LEMMA OrderedAppend ==
  ASSUME NEW pt, NEW s \in Seq(Byte), NEW t, NEW m, NEW n \in 1..Last,
         Ordered(pt, s), Appends(s, t, m, n),
         \A k \in Msgs(s) : Before(pt, k, m)
  PROVE  Ordered(pt, t)
<1>1. /\ \A i \in DOMAIN s : i \in DOMAIN t /\ t[i] = s[i]
      /\ \A o \in 1..n : Len(s) + o \in DOMAIN t /\ t[Len(s) + o] = [msg |-> m, at |-> o]
      /\ \A j \in DOMAIN t : \/ j \in DOMAIN s
                             \/ \E o \in 1..n : j = Len(s) + o /\ t[j].at = o
                                                /\ t[j].msg = m
      /\ Len(s) \in Nat /\ DOMAIN s = 1..Len(s) /\ n \in Nat /\ 1 <= n
  BY AppendsBytes, Constants
<1>2. ASSUME NEW j \in DOMAIN t, t[j].at = Start, NEW i \in 1..(j - 1)
      PROVE  Before(pt, t[i].msg, t[j].msg)
  <2>1. CASE j \in DOMAIN s
    <3>1. i \in DOMAIN s
      BY <1>1, <2>1
    <3>2. QED
      BY <1>1, <1>2, <2>1, <3>1 DEF Ordered
  <2>2. CASE j \notin DOMAIN s
    <3>1. PICK o \in 1..n : j = Len(s) + o /\ t[j].at = o /\ t[j].msg = m
      BY <1>1, <2>2
    <3>2. i \in DOMAIN s
      BY <1>1, <1>2, <3>1, Constants
    <3>3. QED
      BY <1>1, <3>1, <3>2 DEF Msgs
  <2>3. QED
    BY <2>1, <2>2
<1>3. QED
  BY <1>2 DEF Ordered

LEMMA AheadAppend ==
  ASSUME NEW pt, NEW s \in Seq(Byte), NEW t, NEW m, NEW n \in 1..Last, NEW M,
         Ahead(pt, M, s), Appends(s, t, m, n), \A k \in M : Before(pt, k, m)
  PROVE  Ahead(pt, M, t)
<1>1. \A j \in DOMAIN t : \/ j \in DOMAIN s /\ t[j] = s[j]
                          \/ t[j].msg = m
  BY AppendsBytes
<1>2. QED
  BY <1>1 DEF Ahead

LEMMA OrderedDrop ==
  ASSUME NEW pt, NEW s \in Seq(Byte), NEW t, NEW n \in Nat, n >= 1,
         Ordered(pt, s), Drops(s, t, n)
  PROVE  Ordered(pt, t) /\ Ahead(pt, {s[1].msg}, t)
<1>1. /\ \A j \in DOMAIN t : n + j \in DOMAIN s /\ t[j] = s[n + j]
      /\ DOMAIN s = 1..Len(s) /\ Len(s) \in Nat
      /\ DOMAIN t = 1..Len(t) /\ Len(t) \in Nat
  BY DropsBytes
<1>2. ASSUME NEW j \in DOMAIN t, t[j].at = Start
      PROVE  /\ \A i \in 1..(j - 1) : Before(pt, t[i].msg, t[j].msg)
             /\ Before(pt, s[1].msg, t[j].msg)
  <2>1. n + j \in DOMAIN s /\ t[j] = s[n + j]
    BY <1>1
  <2>2. \A i \in 1..((n + j) - 1) : Before(pt, s[i].msg, s[n + j].msg)
    BY <1>2, <2>1 DEF Ordered
  <2>3. 1 \in 1..((n + j) - 1) /\ \A i \in 1..(j - 1) : /\ n + i \in 1..((n + j) - 1)
                                                        /\ i \in DOMAIN t
    BY <1>1
  <2>4. QED
    BY <1>1, <2>1, <2>2, <2>3
<1>3. QED
  BY <1>2 DEF Ordered, Ahead

LEMMA AheadDrop ==
  ASSUME NEW pt, NEW s \in Seq(Byte), NEW t, NEW n \in Nat, NEW M,
         Ahead(pt, M, s), Drops(s, t, n)
  PROVE  Ahead(pt, M, t)
BY DropsBytes DEF Ahead

-----------------------------------------------------------------------------
(* What the actions do to the streams.                                      *)

\* A client writes a message, w bytes of it.
Writes(c, m, w) ==
  /\ m \in Msg /\ w \in 1..Last /\ m.src = c
  /\ up' \in [Clients -> Seq(Byte)]
  /\ Appends(up[c], up'[c], m, w)
  /\ \A e \in Clients \ {c} : up'[e] = up[e]

LEMMA WritesBytes ==
  ASSUME up \in [Clients -> Seq(Byte)], NEW c \in Clients, NEW m \in Msg,
         NEW w \in 1..Last, m.src = c, up' = [up EXCEPT ![c] = @ \o Bytes(m, w)]
  PROVE  Writes(c, m, w)
<1>1. Appends(up[c], up[c] \o Bytes(m, w), m, w)
  BY BytesAppend
<1>2. up[c] \o Bytes(m, w) \in Seq(Byte)
  BY <1>1 DEF Appends
<1>3. QED
  BY <1>1, <1>2 DEF Writes

\* A text of a client.
TextOf(c, m, w) ==
  /\ m.id = sent + 1 /\ m.kind \notin {"file", "refused"}
  /\ \/ w = Last /\ grouped' = grouped
     \/ grouped' = grouped \cup {c}

LEMMA SendTextWrites ==
  ASSUME TypeInv, NEW c \in Clients, SendText(c)
  PROVE  \E m, w : Writes(c, m, w) /\ TextOf(c, m, w)
<1>1. PICK k \in Kinds \ {"file"}, d \in Clients :
        LET m == [id |-> sent + 1, kind |-> k, src |-> c, des |-> d,
                  file |-> NoFile, from |-> 0]
        IN /\ up' = [up EXCEPT ![c] = @ \o ClientWrites(m)]
           /\ grouped' = IF k = "all" THEN grouped \cup {c} ELSE grouped
  BY DEF SendText
<1> DEFINE m == [id |-> sent + 1, kind |-> k, src |-> c, des |-> d,
                 file |-> NoFile, from |-> 0]
           w == IF k = "all" THEN Last - 1 ELSE Last
<1>2. sent + 1 \in Ids
  BY Constants DEF TypeInv, SendText, Ids
<1>3. k \in AllKinds /\ k \notin {"file", "refused"}
  BY <1>1, FramingConstants DEF AllKinds
<1>4. m \in Msg
  BY <1>2, <1>3 DEF Msg
<1>5. w \in 1..Last
  BY Constants
<1>6. up' = [up EXCEPT ![c] = @ \o Bytes(m, w)]
  BY <1>1 DEF ClientWrites, HeadAndBody, Structure
<1>7. Writes(c, m, w)
  BY <1>4, <1>5, <1>6, WritesBytes DEF TypeInv
<1>8. TextOf(c, m, w)
  BY <1>1, <1>3 DEF TextOf
<1>9. QED
  BY <1>7, <1>8

LEMMA SendPieceWrites ==
  ASSUME TypeInv, NEW c \in Clients, SendPiece(c)
  PROVE  /\ Writes(c, PieceOf(c), Last)
         /\ put[c] \in Puts /\ put[c].from < Size[put[c].file]
         /\ put' \in [Clients -> {NoPut} \cup Puts]
         /\ \A e \in Clients \ {c} : put'[e] = put[e]
         /\ put'[c] # NoPut =>
              /\ put'[c].from = put[c].from + Word
              /\ put'[c].from < Size[put'[c].file]
              /\ put'[c].id = put[c].id /\ put'[c].des = put[c].des
              /\ put'[c].file = put[c].file
<1> DEFINE p == put[c]
<1>1. p \in Puts /\ p.from < Size[p.file]
  BY DEF TypeInv, SendPiece
<1>2. PieceOf(c) \in Msg /\ PieceOf(c).src = c /\ PieceOf(c).kind # "all"
  BY <1>1 DEF PieceOf, Msg, Puts, AllKinds
<1>3. up' = [up EXCEPT ![c] = @ \o Bytes(PieceOf(c), Last)]
  BY <1>2 DEF SendPiece, ClientWrites, Structure
<1>4. Writes(c, PieceOf(c), Last)
  BY <1>2, <1>3, WritesBytes, Constants DEF TypeInv
<1>5. put' = [put EXCEPT ![c] = IF p.from + Word >= Size[p.file] THEN NoPut
                                ELSE [p EXCEPT !.from = p.from + Word]]
  BY DEF SendPiece, Advance
<1>6. p.from + Word \in Nat /\ Size[p.file] \in Nat
  BY <1>1, Constants DEF Puts
<1>7. [p EXCEPT !.from = p.from + Word] \in Puts
  BY <1>1, <1>6 DEF Puts
<1>8. put \in [Clients -> {NoPut} \cup Puts]
  BY DEF TypeInv
<1>9. put' \in [Clients -> {NoPut} \cup Puts] /\ \A e \in Clients \ {c} : put'[e] = put[e]
  BY <1>5, <1>7, <1>8
<1>10. ASSUME put'[c] # NoPut
       PROVE  put'[c] = [p EXCEPT !.from = p.from + Word] /\ p.from + Word < Size[p.file]
  BY <1>5, <1>6, <1>8, <1>10
<1>11. QED
  BY <1>1, <1>4, <1>9, <1>10 DEF Puts

\* The same message, but for its head.
Alike(k, m) ==
  /\ k.id = m.id /\ k.src = m.src /\ k.des = m.des
  /\ k.file = m.file /\ k.from = m.from /\ (IsText(k) <=> IsText(m))

\* Of message m the server makes k and writes w bytes of it to some clients.
Forwards(m, to, k, w) ==
  /\ to \subseteq Clients /\ k \in Msg /\ Alike(k, m) /\ w \in {Last, Last - 1}
  /\ IsText(k) \/ to \subseteq {k.src, k.des}
  /\ down' \in [Clients -> Seq(Byte)]
  /\ \A d \in to : Appends(down[d], down'[d], k, w)
  /\ \A d \in Clients \ to : down'[d] = down[d]
  /\ due' \in [Clients -> SUBSET Ids]
  /\ \A d \in Clients : due'[d] = IF d \in to /\ IsText(k) THEN due[d] \cup {k.id}
                                                           ELSE due[d]
  /\ padded' = IF w = Last THEN padded \cup to ELSE padded

LEMMA ServerWritesForwards ==
  ASSUME TypeInv, NEW m, NEW to \in SUBSET Clients, NEW k \in Msg, Alike(k, m),
         NEW whole \in BOOLEAN, IsText(k) \/ to \subseteq {k.src, k.des},
         ServerWrites(to, whole, k)
  PROVE  Forwards(m, to, k, IF whole THEN Last ELSE Last - 1)
<1> DEFINE w == IF whole THEN Last ELSE Last - 1
<1>1. w \in {Last, Last - 1} /\ w \in 1..Last /\ (whole <=> w = Last)
  BY Constants
<1>2. down' = [d \in Clients |-> IF d \notin to THEN down[d] ELSE down[d] \o Bytes(k, w)]
  BY DEF ServerWrites, Structure, HeadAndBody
<1>3. \A d \in Clients : Appends(down[d], down[d] \o Bytes(k, w), k, w)
  BY <1>1, BytesAppend DEF TypeInv
<1> HIDE DEF w
<1>4. \A d \in Clients : down[d] \in Seq(Byte) /\ down[d] \o Bytes(k, w) \in Seq(Byte)
  BY <1>3 DEF Appends, TypeInv
<1>5. /\ down' \in [Clients -> Seq(Byte)]
      /\ \A d \in to : Appends(down[d], down'[d], k, w)
      /\ \A d \in Clients \ to : down'[d] = down[d]
  BY <1>2, <1>3, <1>4
<1>6. due' = [d \in Clients |-> IF d \in to /\ k.kind # "file" THEN due[d] \cup {k.id}
                                                              ELSE due[d]]
  BY DEF ServerWrites
<1>7. /\ due' \in [Clients -> SUBSET Ids]
      /\ \A d \in Clients : due'[d] = IF d \in to /\ IsText(k) THEN due[d] \cup {k.id}
                                                               ELSE due[d]
  BY <1>6 DEF TypeInv, Msg, IsText
<1>8. padded' = IF w = Last THEN padded \cup to ELSE padded
  BY <1>1 DEF ServerWrites
<1>9. QED
  BY <1>1, <1>5, <1>7, <1>8 DEF Forwards, w

LEMMA HandleForwards ==
  ASSUME TypeInv, NEW m \in Msg, Handle(m)
  PROVE  \E to, k, w : Forwards(m, to, k, w)
<1>1. Alike(m, m)
  BY DEF Alike
<1>2. CASE SaysExit(m) /\ UNCHANGED <<down, due, padded>>
  <2>1. Forwards(m, {}, m, Last)
    BY <1>1, <1>2 DEF Forwards, TypeInv
  <2>2. QED
    BY <2>1
<1>3. CASE m.kind = "one" /\ ProcSendMsg2One(m)
  <2>1. CASE <<m.src, m.des>> \notin Friends
    <3> DEFINE k == [m EXCEPT !.kind = "refused"]
    <3>1. k \in Msg /\ Alike(k, m) /\ IsText(k) /\ {m.src} \in SUBSET Clients
      BY <1>3 DEF Msg, Alike, IsText, AllKinds
    <3>2. ServerWrites({m.src}, TRUE, k)
      BY <1>3, <2>1 DEF ProcSendMsg2One
    <3> HIDE DEF k
    <3>3. Forwards(m, {m.src}, k, Last)
      BY <3>1, <3>2, ServerWritesForwards
    <3>4. QED
      BY <3>3
  <2>2. CASE <<m.src, m.des>> \in Friends
    <3>1. ServerWrites({m.des} \cap online, FALSE, m)
      BY <1>3, <2>2 DEF ProcSendMsg2One
    <3>2. {m.des} \cap online \in SUBSET Clients /\ IsText(m)
      BY <1>3 DEF TypeInv, IsText
    <3>3. Forwards(m, {m.des} \cap online, m, Last - 1)
      BY <1>1, <3>1, <3>2, ServerWritesForwards
    <3>4. QED
      BY <3>3
  <2>3. QED
    BY <2>1, <2>2
<1>4. CASE m.kind = "all" /\ ProcSendMsg2All(m)
  <2> DEFINE to == {d \in online : <<m.src, d>> \in Friends}
  <2>1. ServerWrites(to, FALSE, m) /\ to \in SUBSET Clients /\ IsText(m)
    BY <1>4 DEF ProcSendMsg2All, TypeInv, IsText
  <2>2. Forwards(m, to, m, Last - 1)
    BY <1>1, <2>1, ServerWritesForwards
  <2>3. QED
    BY <2>2
<1>5. CASE m.kind = "file" /\ ProcSendFile2One(m)
  <2>1. {m.des} \in SUBSET Clients /\ {m.src} \in SUBSET Clients
    BY DEF Msg
  <2>2. CASE m.des \in online
    <3>1. ServerWrites({m.des}, TRUE, m)
      BY <1>5, <2>2 DEF ProcSendFile2One
    <3>2. Forwards(m, {m.des}, m, Last)
      BY <1>1, <2>1, <3>1, ServerWritesForwards
    <3>3. QED
      BY <3>2
  <2>3. CASE m.des \notin online
    <3>1. ServerWrites({m.src}, FALSE, m)
      BY <1>5, <2>3 DEF ProcSendFile2One
    <3>2. Forwards(m, {m.src}, m, Last - 1)
      BY <1>1, <2>1, <3>1, ServerWritesForwards
    <3>3. QED
      BY <3>2
  <2>4. QED
    BY <2>2, <2>3
<1>6. QED
  BY <1>2, <1>3, <1>4, <1>5 DEF Handle

\* One stream of many loses what n bytes hold.
Shortens(wire, new, c, n) ==
  /\ wire[c] \in Seq(Byte) /\ wire[c] # <<>> /\ wire[c][1] \in Byte /\ 1 \in DOMAIN wire[c]
  /\ new \in [Clients -> Seq(Byte)] /\ n \in Nat /\ n >= 1
  /\ Drops(wire[c], new[c], n)
  /\ \A e \in Clients \ {c} : new[e] = wire[e]

Cuts(wire, new, c, n) ==
  /\ wire \in [Clients -> Seq(Byte)] /\ wire[c] # <<>>
  /\ new = [wire EXCEPT ![c] = Left(wire[c], n)]

LEMMA LeftShortens ==
  ASSUME NEW wire, NEW new, NEW c \in Clients, NEW n \in Nat, n >= 1,
         Cuts(wire, new, c, n)
  PROVE  Shortens(wire, new, c, n)
<1>0. /\ wire \in [Clients -> Seq(Byte)] /\ wire[c] # <<>>
      /\ new = [wire EXCEPT ![c] = Left(wire[c], n)]
  BY DEF Cuts
<1>1. wire[c] \in Seq(Byte)
  BY <1>0
<1>2. Drops(wire[c], Left(wire[c], n), n)
  BY <1>1, LeftDrops
<1>3. Left(wire[c], n) \in Seq(Byte)
  BY <1>2 DEF Drops
<1>4. wire[c][1] \in Byte /\ 1 \in DOMAIN wire[c]
  BY <1>0, <1>1, EmptySeq, LenProperties, ElementOfSeq
<1>5. QED
  BY <1>0, <1>1, <1>2, <1>3, <1>4 DEF Shortens

\* Bytes of two messages are among the first n.
Mixes(s, n) == \E i \in DOMAIN s : i <= n /\ s[i].msg # s[1].msg

LEMMA JoinedMixes ==
  ASSUME NEW s \in Seq(Byte), s # <<>>, NEW n \in Nat, n >= 1
  PROVE  /\ Joined(Got(s, n)) <=> Mixes(s, n)
         /\ Got(s, n)[1] = s[1]
<1>1. /\ DOMAIN Got(s, n) = {i \in DOMAIN s : i <= n} /\ 1 \in DOMAIN Got(s, n)
      /\ \A i \in DOMAIN Got(s, n) : Got(s, n)[i] = s[i]
  BY GotBytes
<1>2. QED
  BY <1>1 DEF Joined, Mixes

LEMMA ServerReadsShortens ==
  ASSUME TypeInv, NEW c \in Clients, ServerReads(c)
  PROVE  /\ Shortens(up, up', c, Last)
         /\ joined' \in BOOLEAN /\ (joined => joined')
         /\ srv' \in {"up", "down"} /\ mixed' \in SUBSET Clients
         /\ srv' = "down" => srv = "down" \/ up[c][1].at # Start
         /\ \E to, k, w : /\ Forwards(up[c][1].msg, to, k, w)
                          /\ to # {} => up[c][1].at = Start
<1> DEFINE buf == Got(up[c], Last)
           m == up[c][1].msg
<1>1. Cuts(up, up', c, Last) /\ Last \in Nat /\ Last >= 1
  BY Constants DEF TypeInv, ServerReads, Cuts
<1>2. Shortens(up, up', c, Last)
  BY <1>1, LeftShortens
<1>3. buf[1] = up[c][1] /\ m \in Msg
  BY <1>2, JoinedMixes, Constants DEF Shortens, Byte
<1>4. joined' = (joined \/ Joined(buf))
  BY DEF ServerReads
<1>5. \/ /\ up[c][1].at = Start
         /\ Handle(m) /\ UNCHANGED srv
      \/ /\ up[c][1].at # Start
         /\ srv' \in {"up", "down"}
         /\ UNCHANGED <<down, due, padded, mixed>>
  BY <1>3 DEF ServerReads
<1>6. CASE up[c][1].at = Start /\ Handle(m) /\ UNCHANGED srv
  <2>1. mixed' \in SUBSET Clients
    BY <1>3, <1>6 DEF Handle, TypeInv, Msg
  <2>2. \E to, k, w : Forwards(m, to, k, w)
    BY <1>3, <1>6, HandleForwards
  <2>3. joined' \in BOOLEAN /\ (joined => joined')
    BY <1>4 DEF TypeInv, Joined
  <2>4. QED
    BY <1>2, <1>6, <2>1, <2>2, <2>3 DEF TypeInv
<1>7. CASE /\ up[c][1].at # Start /\ srv' \in {"up", "down"}
           /\ UNCHANGED <<down, due, padded, mixed>>
  <2>1. Alike(m, m)
    BY DEF Alike
  <2>2. Forwards(m, {}, m, Last)
    BY <1>3, <1>7, <2>1 DEF Forwards, TypeInv
  <2>3. joined' \in BOOLEAN /\ (joined => joined')
    BY <1>4 DEF TypeInv, Joined
  <2>4. QED
    BY <1>2, <1>7, <2>2, <2>3 DEF TypeInv
<1>8. QED
  BY <1>5, <1>6, <1>7

LEMMA ClientReadsShortens ==
  ASSUME TypeInv, NEW c \in Clients, ClientReads(c)
  PROVE  /\ Shortens(down, down', c, Last - 1)
         /\ joined' = (joined \/ Mixes(down[c], Last - 1))
         /\ \/ /\ down[c][1].at = Start /\ ~IsText(down[c][1].msg)
               /\ DoRecvFile(c, down[c][1].msg)
            \/ /\ down[c][1].at = Start /\ IsText(down[c][1].msg)
               /\ ShowText(c, down[c][1].msg)
            \/ down[c][1].at # Start /\ UNCHANGED <<seen, disk, packets>>
<1> DEFINE buf == Got(down[c], Last - 1)
<1>1. Cuts(down, down', c, Last - 1) /\ Last - 1 \in Nat /\ Last - 1 >= 1
  BY Constants DEF TypeInv, ClientReads, Cuts
<1>2. Shortens(down, down', c, Last - 1)
  BY <1>1, LeftShortens
<1>3. buf[1] = down[c][1] /\ (Joined(buf) <=> Mixes(down[c], Last - 1))
  BY <1>2, JoinedMixes, Constants DEF Shortens
<1>4. joined' = (joined \/ Mixes(down[c], Last - 1))
  BY <1>3 DEF ClientReads, Joined, Mixes
<1>5. QED
  BY <1>2, <1>3, <1>4 DEF ClientReads, IsText

-----------------------------------------------------------------------------
(* What a client writes of a piece of a file.                               *)

\* A set of naturals that is not empty has a least member.
LEMMA Least ==
  ASSUME NEW S \in SUBSET Nat, S # {}
  PROVE  \E n \in S : \A j \in S : n <= j
<1> DEFINE R == {x \in Nat \X Nat : x[1] < x[2]}
<1>1. IsWellFoundedOn(R, Nat)
  BY NatLessThanWellFounded DEF OpToRel
<1>2. PICK n \in S : \A j \in S : ~(<<j, n>> \in R)
  <2> HIDE DEF R
  <2>1. QED
    BY <1>1, WFMin
<1>3. ASSUME NEW j \in S PROVE n <= j
  <2>1. ~(j < n) /\ j \in Nat /\ n \in Nat
    BY <1>2
  <2>2. QED
    BY <2>1
<1>4. QED
  BY <1>3

LEMMA StrLenBound ==
  ASSUME NEW b
  PROVE  StrLen(b) \in 0..Word
<1> DEFINE P(n) == /\ \A i \in 1..n : b[i] # Zero
                   /\ n < Word => b[n + 1] = Zero
           S == {n \in 0..Word : n < Word => b[n + 1] = Zero}
<1>1. Word \in Nat
  BY Constants
<1>2. S \in SUBSET Nat /\ Word \in S
  BY <1>1
<1> HIDE DEF S
<1>3. PICK n \in S : \A j \in S : n <= j
  BY <1>2, Least
<1>4. n \in 0..Word /\ (n < Word => b[n + 1] = Zero) /\ n \in Nat
  BY <1>1, <1>3 DEF S
<1>5. ASSUME NEW i \in 1..n PROVE b[i] # Zero
  <2>1. i - 1 \in 0..Word /\ i - 1 < Word /\ ~(n <= i - 1) /\ (i - 1) + 1 = i
    BY <1>1, <1>4
  <2>2. i - 1 \notin S
    BY <1>3, <2>1
  <2>3. QED
    BY <2>1, <2>2 DEF S
<1>6. \E k \in 0..Word : P(k)
  BY <1>4, <1>5
<1>7. QED
  BY <1>6 DEF StrLen

LEMMA PieceBytes ==
  ASSUME NEW m \in Msg, m.file \in Files
  PROVE  /\ Piece(m) \in Seq(Cell(m.file)) /\ Len(Piece(m)) = Word
         /\ \A i \in 1..Word : Piece(m)[i] # Zero => Piece(m)[i] = <<m.file, m.from + i>>
<1> DEFINE f == m.file
<1>1. Word \in Nat /\ m.from \in Nat /\ DOMAIN Piece(m) = 1..Word
  BY Constants DEF Msg, Piece
<1>2. ASSUME NEW i \in 1..Word
      PROVE  /\ Piece(m)[i] \in Cell(f)
             /\ Piece(m)[i] # Zero => Piece(m)[i] = <<f, m.from + i>>
  <2>1. m.from + i \in Nat
    BY <1>1
  <2>2. Piece(m)[i] = FileByte(f, m.from + i)
    BY DEF Piece
  <2>3. QED
    BY <2>1, <2>2 DEF FileByte, Cell
<1>3. Piece(m) \in [1..Word -> Cell(f)]
  BY <1>1, <1>2 DEF Piece
<1>4. QED
  BY <1>1, <1>2, <1>3, SeqDef

LEMMA WrittenBytes ==
  ASSUME NEW m \in Msg, m.file \in Files, NEW n
  PROVE  /\ Written(m, n) \in Seq(Cell(m.file)) /\ Len(Written(m, n)) <= Word
         /\ \A i \in DOMAIN Written(m, n) :
              Written(m, n)[i] # Zero => Written(m, n)[i] = <<m.file, m.from + i>>
<1> DEFINE b == Piece(m)
           k == StrLen(b)
<1>1. /\ b \in Seq(Cell(m.file)) /\ Len(b) = Word
      /\ \A i \in 1..Word : b[i] # Zero => b[i] = <<m.file, m.from + i>>
  BY PieceBytes
<1>2. k \in 0..Word /\ k \in Nat /\ k \in Int /\ Word \in Nat
  BY StrLenBound, Constants
<1>3. Written(m, n) = SubSeq(b, 1, k) \/ Written(m, n) = b
  BY DEF Written
<1> HIDE DEF b, k
<1>4. CASE Written(m, n) = b
  <2>1. DOMAIN b = 1..Word /\ Len(b) <= Word
    BY <1>1, <1>2, LenProperties
  <2>2. QED
    BY <1>1, <1>4, <2>1
<1>5. CASE Written(m, n) = SubSeq(b, 1, k)
  <2>1. \A i \in 1..k : b[i] \in Cell(m.file) /\ i \in 1..Word
    BY <1>1, <1>2, ElementOfSeq
  <2>2. /\ SubSeq(b, 1, k) \in Seq(Cell(m.file))
        /\ Len(SubSeq(b, 1, k)) = IF 1 <= k THEN k - 1 + 1 ELSE 0
        /\ \A i \in 1..(k - 1 + 1) : SubSeq(b, 1, k)[i] = b[1 + i - 1]
    BY <1>2, <2>1, SubSeqProperties
  <2>3. Len(SubSeq(b, 1, k)) = k /\ DOMAIN SubSeq(b, 1, k) = 1..k
    BY <1>2, <2>2, LenProperties
  <2>4. ASSUME NEW i \in 1..k PROVE SubSeq(b, 1, k)[i] = b[i]
    <3>1. i \in 1..(k - 1 + 1) /\ 1 + i - 1 = i
      BY <1>2
    <3>2. QED
      BY <2>2, <3>1
  <2>5. QED
    BY <1>1, <1>2, <1>5, <2>1, <2>2, <2>3, <2>4
<1>6. QED
  BY <1>3, <1>4, <1>5

\* Client c appends a part of piece m to its file.
Stores(c, m) ==
  /\ DOMAIN disk' = Clients
  /\ \A d \in Clients : DOMAIN disk'[d] = Files
  /\ \A d \in Clients, f \in Files : d # c \/ f # m.file => disk'[d][f] = disk[d][f]
  /\ \E b \in Seq(Cell(m.file)) :
       /\ Len(b) <= Word /\ disk'[c][m.file] = disk[c][m.file] \o b
       /\ \A i \in DOMAIN b : b[i] # Zero => b[i] = <<m.file, m.from + i>>

LEMMA DoRecvFileStores ==
  ASSUME TypeInv, NEW c \in Clients, NEW m \in Msg, m.file \in Files, DoRecvFile(c, m)
  PROVE  \/ UNCHANGED <<disk, packets>>
         \/ /\ m.src # c /\ Stores(c, m)
            /\ packets' \in [Clients -> Nat]
            /\ \A d \in Clients : packets'[d] # 0 =>
                 \E f \in Files : packets'[d] * Word < Size[f]
<1>1. CASE UNCHANGED <<disk, packets>>
  BY <1>1
<1>2. CASE ~(UNCHANGED <<disk, packets>>)
  <2> DEFINE b == Written(m, packets[c])
             g == m.file
  <2>1. /\ m.src # c
        /\ disk' = [disk EXCEPT ![c][g] = disk[c][g] \o b]
        /\ packets' = [packets EXCEPT ![c] = IF IsLast(m, packets[c]) THEN 0
                                             ELSE packets[c] + 1]
    BY <1>2 DEF DoRecvFile, Appended
  <2>2. /\ b \in Seq(Cell(g)) /\ Len(b) <= Word
        /\ \A i \in DOMAIN b : b[i] # Zero => b[i] = <<g, m.from + i>>
    BY WrittenBytes
  <2>3. /\ DOMAIN disk = Clients /\ \A d \in Clients : DOMAIN disk[d] = Files
        /\ packets \in [Clients -> Nat]
        /\ \A d \in Clients : packets[d] # 0 => \E f \in Files : packets[d] * Word < Size[f]
    BY DEF TypeInv
  <2> HIDE DEF b
  <2>4. Stores(c, m)
    BY <2>1, <2>2, <2>3 DEF Stores
  <2>5. packets' \in [Clients -> Nat]
    BY <2>1, <2>3
  <2>6. ASSUME NEW d \in Clients, packets'[d] # 0
        PROVE  \E f \in Files : packets'[d] * Word < Size[f]
    <3>1. CASE d # c
      BY <2>1, <2>3, <2>6, <3>1
    <3>2. CASE d = c
      <4>1. ~IsLast(m, packets[c]) /\ packets'[c] = packets[c] + 1
        BY <2>1, <2>3, <2>6, <3>2
      <4>2. ~(Size[g] <= packets'[c] * Word)
        BY <4>1 DEF IsLast
      <4>3. packets'[c] * Word \in Nat /\ Size[g] \in Nat
        BY <2>5, Constants
      <4>4. packets'[c] * Word < Size[g]
        BY <4>2, <4>3
      <4>5. QED
        BY <3>2, <4>4
    <3>3. QED
      BY <3>1, <3>2
  <2>7. QED
    BY <2>1, <2>4, <2>5, <2>6
<1>3. QED
  BY <1>1, <1>2

-----------------------------------------------------------------------------
(* The types.                                                               *)

LEMMA TypeInit == Init => TypeInv
<1> SUFFICES ASSUME Init PROVE TypeInv
  OBVIOUS
<1>1. <<>> \in Seq(Byte) /\ <<>> \in Seq(Msg) /\ \A f \in Files : <<>> \in Seq(Cell(f))
  OBVIOUS
<1>2. /\ up \in [Clients -> Seq(Byte)] /\ down \in [Clients -> Seq(Byte)]
      /\ put \in [Clients -> {NoPut} \cup Puts] /\ \A c \in Clients : put[c] = NoPut
      /\ packets \in [Clients -> Nat] /\ \A c \in Clients : packets[c] = 0
  BY <1>1 DEF Init
<1>3. /\ DOMAIN disk = Clients /\ seen \in [Clients -> Seq(Msg)]
      /\ \A c \in Clients : DOMAIN disk[c] = Files
                            /\ \A f \in Files : disk[c][f] \in Seq(Cell(f))
  BY <1>1 DEF Init
<1>4. puts \in [Clients -> [Files -> Nat]] /\ due \in [Clients -> SUBSET Ids]
  BY DEF Init
<1>7. sent \in 0..MaxSend
  BY Constants DEF Init
<1>5. /\ online \subseteq Clients /\ srv \in {"up", "down"}
      /\ joined \in BOOLEAN /\ mixed \subseteq Clients
      /\ grouped \subseteq Clients /\ padded \subseteq Clients
  BY DEF Init
<1>6. QED
  BY <1>2, <1>3, <1>4, <1>5, <1>7 DEF TypeInv

LEMMA TypeStep ==
  ASSUME TypeInv, OriginInv, Next
  PROVE  TypeInv'
<1>0. PICK c \in Clients : \/ Login(c) \/ SendText(c) \/ Put(c) \/ SendPiece(c)
                           \/ ServerReads(c) \/ ClientReads(c)
  BY DEF Next
<1>1. CASE Login(c)
  BY <1>1 DEF Login, TypeInv, wires, clientV, history
<1>2. CASE SendText(c)
  <2>1. PICK m, w : Writes(c, m, w) /\ TextOf(c, m, w)
    BY <1>2, SendTextWrites
  <2>2. up' \in [Clients -> Seq(Byte)] /\ grouped' \subseteq Clients
    BY <2>1 DEF Writes, TextOf, TypeInv
  <2>3. sent' \in 0..MaxSend
    BY <1>2, Constants DEF SendText, TypeInv
  <2>4. UNCHANGED <<down, online, srv, put, packets, disk, seen, joined, mixed, puts,
                    due, padded>>
    BY <1>2 DEF SendText, clientV
  <2>5. QED
    BY <2>2, <2>3, <2>4 DEF TypeInv
<1>3. CASE Put(c)
  <2>1. PICK d \in Clients \ {c}, f \in Files :
          /\ Size[f] > 0
          /\ put' = [put EXCEPT ![c] = [file |-> f, id |-> sent + 1, des |-> d, from |-> 0]]
          /\ puts' = [puts EXCEPT ![d][f] = puts[d][f] + 1]
          /\ mixed' = IF Arriving(d, c) THEN mixed \cup {d} ELSE mixed
    BY <1>3 DEF Put
  <2> DEFINE r == [file |-> f, id |-> sent + 1, des |-> d, from |-> 0]
  <2>8. sent < MaxSend /\ sent' = sent + 1 /\ sent \in 0..MaxSend /\ MaxSend \in Nat
    BY <1>3, Constants DEF Put, TypeInv
  <2>2. sent + 1 \in Ids /\ sent' \in 0..MaxSend
    BY <2>8 DEF Ids
  <2>3. r \in Puts /\ r.from < Size[r.file]
    BY <2>1, <2>2, Constants DEF Puts
  <2> HIDE DEF r
  <2>4. /\ put' \in [Clients -> {NoPut} \cup Puts]
        /\ \A e \in Clients : put'[e] # NoPut => put'[e].from < Size[put'[e].file]
    <3>1. put' = [put EXCEPT ![c] = r]
      BY <2>1 DEF r
    <3>2. put \in [Clients -> {NoPut} \cup Puts]
          /\ \A e \in Clients : put[e] # NoPut => put[e].from < Size[put[e].file]
      BY DEF TypeInv
    <3>3. QED
      BY <2>3, <3>1, <3>2
  <2>5. puts' \in [Clients -> [Files -> Nat]] /\ mixed' \subseteq Clients
    BY <2>1 DEF TypeInv
  <2>6. UNCHANGED <<up, down, online, srv, packets, disk, seen, joined, due, grouped, padded>>
    BY <1>3 DEF Put, wires
  <2>7. QED
    BY <2>2, <2>4, <2>5, <2>6 DEF TypeInv
<1>4. CASE SendPiece(c)
  <2>1. /\ Writes(c, PieceOf(c), Last) /\ put' \in [Clients -> {NoPut} \cup Puts]
        /\ \A e \in Clients \ {c} : put'[e] = put[e]
        /\ put'[c] # NoPut => put'[c].from < Size[put'[c].file]
    BY <1>4, SendPieceWrites
  <2>2. \A e \in Clients : put'[e] # NoPut => put'[e].from < Size[put'[e].file]
    BY <2>1 DEF TypeInv
  <2>3. UNCHANGED <<down, packets, disk, seen, online, srv, sent, joined, mixed, puts,
                    due, grouped, padded>>
    BY <1>4 DEF SendPiece, history
  <2>4. QED
    BY <2>1, <2>2, <2>3 DEF TypeInv, Writes
<1>5. CASE ServerReads(c)
  <2>1. /\ Shortens(up, up', c, Last) /\ joined' \in BOOLEAN
        /\ srv' \in {"up", "down"} /\ mixed' \in SUBSET Clients
    BY <1>5, ServerReadsShortens
  <2>2. PICK to, k, w : Forwards(up[c][1].msg, to, k, w)
    BY <1>5, ServerReadsShortens
  <2>3. /\ down' \in [Clients -> Seq(Byte)] /\ due' \in [Clients -> SUBSET Ids]
        /\ padded' \subseteq Clients
    BY <2>2 DEF Forwards, TypeInv
  <2>4. UNCHANGED <<put, packets, disk, seen, online, sent, puts, grouped>>
    BY <1>5 DEF ServerReads, clientV
  <2>5. QED
    BY <2>1, <2>3, <2>4 DEF TypeInv, Shortens
<1>6. CASE ClientReads(c)
  <2> DEFINE m == down[c][1].msg
  <2>1. /\ Shortens(down, down', c, Last - 1)
        /\ joined' = (joined \/ Mixes(down[c], Last - 1))
        /\ \/ down[c][1].at = Start /\ ~IsText(m) /\ DoRecvFile(c, m)
           \/ down[c][1].at = Start /\ IsText(m) /\ ShowText(c, m)
           \/ down[c][1].at # Start /\ UNCHANGED <<seen, disk, packets>>
    BY <1>6, ClientReadsShortens
  <2>2. UNCHANGED <<up, online, put, srv, sent, mixed, puts, due, grouped, padded>>
        /\ down' \in [Clients -> Seq(Byte)] /\ joined' \in BOOLEAN /\ m \in Msg
    BY <1>6, <2>1 DEF ClientReads, Shortens, TypeInv, Mixes, Byte
  <2>3. CASE UNCHANGED <<seen, disk, packets>>
    BY <2>2, <2>3 DEF TypeInv
  <2>4. CASE ~IsText(m) /\ DoRecvFile(c, m)
    <3>1. m.file \in Files
      BY <2>1, <2>4 DEF OriginInv, Shortens, Msgs
    <3>2. CASE UNCHANGED <<disk, packets>>
      BY <2>2, <2>4, <3>2 DEF TypeInv, DoRecvFile
    <3>3. CASE ~(UNCHANGED <<disk, packets>>)
      <4>1. /\ Stores(c, m) /\ packets' \in [Clients -> Nat] /\ seen' = seen
            /\ \A d \in Clients : packets'[d] # 0 =>
                 \E f \in Files : packets'[d] * Word < Size[f]
        BY <2>2, <2>4, <3>1, <3>3, DoRecvFileStores DEF DoRecvFile
      <4>2. ASSUME NEW d \in Clients, NEW f \in Files
            PROVE  disk'[d][f] \in Seq(Cell(f))
        <5>1. disk[d][f] \in Seq(Cell(f))
          BY DEF TypeInv
        <5>2. CASE d # c \/ f # m.file
          BY <4>1, <5>1, <5>2 DEF Stores
        <5>3. CASE d = c /\ f = m.file
          <6>1. PICK b \in Seq(Cell(f)) : disk'[d][f] = disk[d][f] \o b
            BY <4>1, <5>3 DEF Stores
          <6>2. QED
            BY <5>1, <6>1, ConcatProperties
        <5>4. QED
          BY <5>2, <5>3
      <4>3. DOMAIN disk' = Clients /\ \A d \in Clients : DOMAIN disk'[d] = Files
        BY <4>1 DEF Stores
      <4>4. QED
        BY <2>2, <4>1, <4>2, <4>3 DEF TypeInv
    <3>4. QED
      BY <3>2, <3>3
  <2>5. CASE ShowText(c, m)
    <3>1. seen' \in [Clients -> Seq(Msg)]
      <4>1. seen \in [Clients -> Seq(Msg)] /\ seen' = [seen EXCEPT ![c] = Append(seen[c], m)]
        BY <2>5 DEF TypeInv, ShowText
      <4>2. Append(seen[c], m) \in Seq(Msg)
        BY <2>2, <4>1, AppendProperties
      <4>3. QED
        BY <4>1, <4>2
    <3>2. UNCHANGED <<disk, packets>>
      BY <2>5 DEF ShowText
    <3>3. QED
      BY <2>2, <3>1, <3>2 DEF TypeInv
  <2>6. QED
    BY <2>1, <2>3, <2>4, <2>5
<1>7. QED
  BY <1>0, <1>1, <1>2, <1>3, <1>4, <1>5, <1>6

-----------------------------------------------------------------------------
(* Where messages begin.                                                    *)

LEMMA FrameStep ==
  ASSUME TypeInv, FrameInv, Next
  PROVE  FrameInv'
<1>0. PICK c \in Clients : \/ Login(c) \/ SendText(c) \/ Put(c) \/ SendPiece(c)
                           \/ ServerReads(c) \/ ClientReads(c)
  BY DEF Next
<1> USE DEF FrameInv
<1>1. CASE Login(c)
  BY <1>1 DEF Login, wires, history
<1>2. CASE SendText(c)
  <2>1. PICK m, w : Writes(c, m, w) /\ TextOf(c, m, w)
    BY <1>2, SendTextWrites
  <2>2. UNCHANGED <<down, srv, padded>>
    BY <1>2 DEF SendText
  <2>3. ASSUME NEW e \in Clients \ grouped' PROVE Frames(up'[e], Last)
    <3>1. e \notin grouped
      BY <2>1 DEF TextOf
    <3>2. CASE e = c
      <4>1. w = Last
        BY <2>1, <3>2 DEF TextOf
      <4>2. Appends(up[c], up'[c], m, Last) /\ Frames(up[c], Last) /\ Last \in 1..Last
            /\ up[c] \in Seq(Byte)
        BY <2>1, <3>1, <3>2, <4>1, Constants DEF Writes, TypeInv
      <4>3. QED
        BY <3>2, <4>2, FramesAppend
    <3>3. CASE e # c
      BY <2>1, <3>1, <3>3 DEF Writes
    <3>4. QED
      BY <3>2, <3>3
  <2>4. srv' = "down" => grouped' # {}
    BY <2>1, <2>2 DEF TextOf
  <2>5. QED
    BY <2>2, <2>3, <2>4
<1>3. CASE Put(c)
  BY <1>3 DEF Put, wires
<1>4. CASE SendPiece(c)
  <2>1. Writes(c, PieceOf(c), Last) /\ UNCHANGED <<down, srv, padded, grouped>>
    BY <1>4, SendPieceWrites DEF SendPiece, history
  <2>2. ASSUME NEW e \in Clients \ grouped PROVE Frames(up'[e], Last)
    <3>1. CASE e = c
      <4>1. Appends(up[c], up'[c], PieceOf(c), Last) /\ Frames(up[c], Last)
            /\ Last \in 1..Last /\ up[c] \in Seq(Byte)
        BY <2>1, <2>2, <3>1, Constants DEF Writes, TypeInv
      <4>2. QED
        BY <3>1, <4>1, FramesAppend
    <3>2. CASE e # c
      BY <2>1, <3>2 DEF Writes
    <3>3. QED
      BY <3>1, <3>2
  <2>3. QED
    BY <2>1, <2>2
<1>5. CASE ServerReads(c)
  <2>1. /\ Shortens(up, up', c, Last)
        /\ srv' = "down" => srv = "down" \/ up[c][1].at # Start
    BY <1>5, ServerReadsShortens
  <2>2. PICK to, k, w : Forwards(up[c][1].msg, to, k, w)
    BY <1>5, ServerReadsShortens
  <2>3. grouped' = grouped
    BY <1>5 DEF ServerReads
  <2>4. ASSUME NEW e \in Clients \ grouped PROVE Frames(up'[e], Last)
    <3>1. CASE e = c
      <4>1. Drops(up[c], up'[c], Last) /\ Frames(up[c], Last) /\ Last \in 1..Last
            /\ up[c] \in Seq(Byte)
        BY <2>1, <2>4, <3>1, Constants DEF Shortens
      <4>2. QED
        BY <3>1, <4>1, FramesDrop
    <3>2. CASE e # c
      BY <2>1, <3>2 DEF Shortens
    <3>3. QED
      BY <3>1, <3>2
  <2>5. ASSUME NEW d \in Clients \ padded' PROVE Frames(down'[d], Last - 1)
    <3>1. d \notin padded /\ (d \in to => w # Last)
      BY <2>2, <2>5 DEF Forwards
    <3>2. CASE d \in to
      <4>1. Appends(down[d], down'[d], k, Last - 1) /\ Frames(down[d], Last - 1)
            /\ Last - 1 \in 1..Last /\ down[d] \in Seq(Byte)
        BY <2>2, <3>1, <3>2, Constants DEF Forwards, TypeInv
      <4>2. QED
        BY <4>1, FramesAppend
    <3>3. CASE d \notin to
      BY <2>2, <3>1, <3>3 DEF Forwards
    <3>4. QED
      BY <3>2, <3>3
  <2>6. srv' = "down" => grouped # {}
    <3>1. CASE srv = "down"
      BY <3>1
    <3>2. CASE up[c][1].at # Start
      <4>1. up[c] \in Seq(Byte) /\ up[c] # <<>> /\ Last \in 1..Last
        BY <2>1, Constants DEF Shortens
      <4>2. ~Frames(up[c], Last)
        BY <3>2, <4>1, FramesFirst
      <4>3. QED
        BY <4>2
    <3>3. QED
      BY <2>1, <3>1, <3>2
  <2>7. QED
    BY <2>3, <2>4, <2>5, <2>6
<1>6. CASE ClientReads(c)
  <2>1. Shortens(down, down', c, Last - 1)
    BY <1>6, ClientReadsShortens
  <2>2. UNCHANGED <<up, srv, grouped, padded>>
    BY <1>6 DEF ClientReads
  <2>3. ASSUME NEW e \in Clients \ padded PROVE Frames(down'[e], Last - 1)
    <3>1. CASE e = c
      <4>1. Drops(down[c], down'[c], Last - 1) /\ Frames(down[c], Last - 1)
            /\ Last - 1 \in 1..Last /\ down[c] \in Seq(Byte)
        BY <2>1, <2>3, <3>1, Constants DEF Shortens
      <4>2. QED
        BY <3>1, <4>1, FramesDrop
    <3>2. CASE e # c
      BY <2>1, <2>3, <3>2 DEF Shortens
    <3>3. QED
      BY <3>1, <3>2
  <2>4. QED
    BY <2>2, <2>3
<1>7. QED
  BY <1>0, <1>1, <1>2, <1>3, <1>4, <1>5, <1>6

-----------------------------------------------------------------------------
(* Where messages come from.                                                *)

LEMMA ShownAppend ==
  ASSUME NEW s \in Seq(Msg), NEW m \in Msg
  PROVE  /\ {Append(s, m)[i] : i \in DOMAIN Append(s, m)} = {s[i] : i \in DOMAIN s} \cup {m}
         /\ DOMAIN Append(s, m) = 1..(Len(s) + 1) /\ DOMAIN s = 1..Len(s)
         /\ Len(s) \in Nat /\ Append(s, m)[Len(s) + 1] = m
         /\ \A i \in 1..Len(s) : Append(s, m)[i] = s[i]
<1>1. /\ Append(s, m) \in Seq(Msg) /\ Len(Append(s, m)) = Len(s) + 1
      /\ \A i \in 1..Len(s) : Append(s, m)[i] = s[i]
      /\ Append(s, m)[Len(s) + 1] = m
  BY AppendProperties
<1>2. /\ DOMAIN Append(s, m) = 1..(Len(s) + 1) /\ DOMAIN s = 1..Len(s) /\ Len(s) \in Nat
  BY <1>1, LenProperties
<1> DEFINE t == Append(s, m)
<1> HIDE DEF t
<1>3. \A i \in 1..(Len(s) + 1) : i \in 1..Len(s) \/ i = Len(s) + 1
  BY <1>2
<1>4. {t[i] : i \in 1..(Len(s) + 1)} = {s[i] : i \in 1..Len(s)} \cup {m}
  <2>1. Len(s) + 1 \in 1..(Len(s) + 1) /\ 1..Len(s) \subseteq 1..(Len(s) + 1)
    BY <1>2
  <2>2. t[Len(s) + 1] = m /\ \A i \in 1..Len(s) : t[i] = s[i]
    BY <1>1 DEF t
  <2>3. QED
    BY <1>3, <2>1, <2>2
<1>5. QED
  BY <1>1, <1>2, <1>4 DEF t

\* What a client shows is the text it read.
LEMMA ShowTextShown ==
  ASSUME TypeInv, NEW c \in Clients, NEW m \in Msg, ShowText(c, m)
  PROVE  /\ Shown(c)' = Shown(c) \cup {m}
         /\ \A d \in Clients \ {c} : seen'[d] = seen[d]
         /\ UNCHANGED <<disk, packets>>
<1>1. seen \in [Clients -> Seq(Msg)] /\ seen' = [seen EXCEPT ![c] = Append(seen[c], m)]
  BY DEF TypeInv, ShowText
<1>2. seen'[c] = Append(seen[c], m) /\ seen[c] \in Seq(Msg)
  BY <1>1
<1>3. Shown(c)' = Shown(c) \cup {m}
  BY <1>2, ShownAppend DEF Shown
<1>4. QED
  BY <1>1, <1>3 DEF ShowText

\* The messages that an action leaves in the streams.
LEMMA WritesMsgs ==
  ASSUME TypeInv, NEW c \in Clients, NEW m, NEW w, Writes(c, m, w)
  PROVE  /\ Msgs(up'[c]) = Msgs(up[c]) \cup {m}
         /\ \A e \in Clients \ {c} : up'[e] = up[e]
BY AppendsMsgs DEF Writes, TypeInv

LEMMA ForwardsMsgs ==
  ASSUME TypeInv, NEW m, NEW to, NEW k, NEW w, Forwards(m, to, k, w)
  PROVE  \A d \in Clients :
           \/ d \in to /\ Msgs(down'[d]) = Msgs(down[d]) \cup {k}
           \/ d \notin to /\ down'[d] = down[d]
<1> SUFFICES ASSUME NEW d \in Clients
             PROVE  \/ d \in to /\ Msgs(down'[d]) = Msgs(down[d]) \cup {k}
                    \/ d \notin to /\ down'[d] = down[d]
  OBVIOUS
<1>1. CASE d \in to
  <2>1. down[d] \in Seq(Byte) /\ w \in 1..Last /\ Appends(down[d], down'[d], k, w)
    BY <1>1, Constants DEF Forwards, TypeInv
  <2>2. QED
    BY <1>1, <2>1, AppendsMsgs
<1>2. CASE d \notin to
  BY <1>2 DEF Forwards
<1>3. QED
  BY <1>1, <1>2

LEMMA ShortensMsgs ==
  ASSUME NEW wire, NEW new, NEW c \in Clients, NEW n, Shortens(wire, new, c, n)
  PROVE  /\ \A e \in Clients : Msgs(new[e]) \subseteq Msgs(wire[e])
         /\ wire[c][1].msg \in Msgs(wire[c]) /\ wire[c][1].msg \in Msg
<1>1. Msgs(new[c]) \subseteq Msgs(wire[c])
  BY DropsMsgs DEF Shortens
<1>2. wire[c][1].msg \in Msgs(wire[c]) /\ wire[c][1].msg \in Msg
  BY DEF Shortens, Msgs, Byte
<1>3. QED
  BY <1>1, <1>2 DEF Shortens

LEMMA OriginStep ==
  ASSUME TypeInv, OriginInv, Next
  PROVE  OriginInv'
<1>0. PICK c \in Clients : \/ Login(c) \/ SendText(c) \/ Put(c) \/ SendPiece(c)
                           \/ ServerReads(c) \/ ClientReads(c)
  BY DEF Next
<1> USE DEF OriginInv
<1>t. /\ \A e \in Clients : \A m \in Msgs(up[e]) \cup Msgs(down[e]) : m \in Msg
      /\ \A e \in Clients : \A m \in Shown(e) : m \in Msg
      /\ sent \in Nat
  <2>1. ASSUME NEW s \in Seq(Byte), NEW i \in DOMAIN s PROVE s[i].msg \in Msg
    <3>1. s[i] \in Byte
      BY ElementOfSeq, LenProperties
    <3>2. QED
      BY <3>1 DEF Byte
  <2>2. \A e \in Clients : \A i \in DOMAIN seen[e] : seen[e][i] \in Msg
    BY ElementOfSeq, LenProperties DEF TypeInv
  <2>3. QED
    BY <2>1, <2>2, Constants DEF TypeInv, Msgs, Shown
<1>1. CASE Login(c)
  BY <1>1 DEF Login, wires, clientV, Shown
<1>2. CASE SendText(c)
  <2>1. PICK m, w : Writes(c, m, w) /\ TextOf(c, m, w)
    BY <1>2, SendTextWrites
  <2>2. m.src = c /\ m.id = sent + 1 /\ IsText(m)
    BY <2>1 DEF Writes, TextOf, IsText
  <2>3. UNCHANGED <<down, seen>> /\ sent' = sent + 1
    BY <1>2 DEF SendText, clientV
  <2>9. ASSUME NEW e \in Clients, put'[e] # NoPut PROVE put'[e].id <= sent'
    <3>1. put'[e] = put[e]
      BY <1>2 DEF SendText, clientV
    <3>2. put[e] \in Puts /\ put[e].id <= sent
      BY <2>9, <3>1 DEF TypeInv
    <3>3. put[e].id \in Nat
      BY <3>2, Constants DEF Puts, Ids
    <3>4. QED
      BY <1>t, <2>3, <3>1, <3>2, <3>3
  <2>4. /\ \A e \in Clients : \A x \in Msgs(up[e]) \cup Msgs(down[e]) : x.id <= sent'
        /\ \A e \in Clients : \A x \in Shown(e) : x.id <= sent'
    BY <1>t, <2>3 DEF Msg, Ids
  <2>5. m.id <= sent'
    BY <1>t, <2>2, <2>3
  <2>6. \A e \in Clients : \A x \in Msgs(up'[e]) : x \in Msgs(up[e]) \/ (e = c /\ x = m)
    BY <2>1, WritesMsgs
  <2>7. QED
    BY <2>2, <2>3, <2>4, <2>5, <2>6, <2>9 DEF Shown
<1>3. CASE Put(c)
  <2>1. UNCHANGED <<up, down, seen>> /\ sent' = sent + 1
    BY <1>3 DEF Put, wires
  <2>2. /\ \A e \in Clients : \A x \in Msgs(up[e]) \cup Msgs(down[e]) : x.id <= sent'
        /\ \A e \in Clients : \A x \in Shown(e) : x.id <= sent'
    BY <1>t, <2>1 DEF Msg, Ids
  <2>3. PICK d \in Clients \ {c}, f \in Files :
          put' = [put EXCEPT ![c] = [file |-> f, id |-> sent + 1, des |-> d, from |-> 0]]
    BY <1>3 DEF Put
  <2>4. put'[c].id = sent + 1 /\ \A e \in Clients \ {c} : put'[e] = put[e]
    BY <2>3 DEF TypeInv
  <2>5. ASSUME NEW e \in Clients, put'[e] # NoPut PROVE put'[e].id <= sent'
    <3>1. CASE e = c
      BY <1>t, <2>1, <2>4, <3>1
    <3>2. CASE e # c
      <4>1. put[e] \in Puts /\ put[e].id <= sent
        BY <2>4, <2>5, <3>2 DEF TypeInv
      <4>2. QED
        BY <1>t, <2>1, <2>4, <3>2, <4>1 DEF Puts, Ids
    <3>3. QED
      BY <3>1, <3>2
  <2>6. QED
    BY <2>1, <2>2, <2>5 DEF Shown
<1>4. CASE SendPiece(c)
  <2>1. /\ Writes(c, PieceOf(c), Last) /\ put[c] \in Puts
        /\ \A e \in Clients \ {c} : put'[e] = put[e]
        /\ put'[c] # NoPut => put'[c].id = put[c].id
    BY <1>4, SendPieceWrites
  <2>7. put[c] # NoPut
    BY <1>4 DEF SendPiece
  <2>2. UNCHANGED <<down, seen, sent>>
    BY <1>4 DEF SendPiece
  <2>3. \A e \in Clients : \A x \in Msgs(up'[e]) : x \in Msgs(up[e]) \/ (e = c /\ x = PieceOf(c))
    BY <2>1, WritesMsgs
  <2>4. PieceOf(c).src = c /\ PieceOf(c).id = put[c].id /\ PieceOf(c).file \in Files
    BY <2>1 DEF PieceOf, Puts
  <2>5. put[c].id <= sent
    BY <2>7
  <2>8. \A e \in Clients : put'[e] # NoPut => put'[e].id <= sent
    BY <2>1, <2>5
  <2>6. QED
    BY <2>2, <2>3, <2>4, <2>5, <2>8 DEF Shown
<1>5. CASE ServerReads(c)
  <2>1. Shortens(up, up', c, Last) /\ UNCHANGED <<seen, sent, put>>
    BY <1>5, ServerReadsShortens DEF ServerReads, clientV
  <2> DEFINE m == up[c][1].msg
  <2>2. PICK to, k, w : Forwards(m, to, k, w)
    BY <1>5, ServerReadsShortens
  <2>3. (\A e \in Clients : Msgs(up'[e]) \subseteq Msgs(up[e])) /\ m \in Msgs(up[c])
    BY <2>1, ShortensMsgs
  <2>4. \A e \in Clients : \A x \in Msgs(down'[e]) : x \in Msgs(down[e]) \/ (e \in to /\ x = k)
    BY <2>2, ForwardsMsgs
  <2>5. k.id <= sent /\ (~IsText(k) => k.file \in Files)
    BY <2>2, <2>3 DEF Forwards, Alike
  <2>6. ~IsText(k) => \A e \in to : e \in {k.src, k.des}
    BY <2>2 DEF Forwards
  <2>7. QED
    BY <2>1, <2>3, <2>4, <2>5, <2>6 DEF Shown
<1>6. CASE ClientReads(c)
  <2> DEFINE m == down[c][1].msg
  <2>1. /\ Shortens(down, down', c, Last - 1)
        /\ \/ ~IsText(m) /\ DoRecvFile(c, m)
           \/ IsText(m) /\ ShowText(c, m)
           \/ UNCHANGED <<seen, disk, packets>>
    BY <1>6, ClientReadsShortens
  <2>2. UNCHANGED <<up, sent, put>>
    BY <1>6 DEF ClientReads
  <2>3. (\A e \in Clients : Msgs(down'[e]) \subseteq Msgs(down[e])) /\ m \in Msgs(down[c])
        /\ m \in Msg
    BY ONLY <2>1, ShortensMsgs, c \in Clients
  <2>4. CASE seen' = seen
    BY <2>2, <2>3, <2>4 DEF Shown
  <2>5. CASE IsText(m) /\ ShowText(c, m)
    <3>1. Shown(c)' = Shown(c) \cup {m} /\ \A d \in Clients \ {c} : seen'[d] = seen[d]
      BY <2>3, <2>5, ShowTextShown
    <3>2. \A d \in Clients : \A x \in Shown(d)' : x \in Shown(d) \/ x = m
      BY <3>1 DEF Shown
    <3>3. m.id <= sent
      BY <2>3
    <3>4. QED
      BY <2>2, <2>3, <2>5, <3>2, <3>3
  <2>6. QED
    BY <2>1, <2>4, <2>5 DEF DoRecvFile
<1>7. QED
  BY <1>0, <1>1, <1>2, <1>3, <1>4, <1>5, <1>6

-----------------------------------------------------------------------------
(* Who sends a file, and what is to come of it.                             *)

LEMMA UnderType ==
  ASSUME TypeInv, OriginInv
  PROVE  \A m \in Under : m \in Msg /\ (~IsText(m) => m.file \in Files)
<1> SUFFICES ASSUME NEW e \in Clients, NEW m \in Msgs(up[e]) \cup Msgs(down[e])
             PROVE  m \in Msg /\ (~IsText(m) => m.file \in Files)
  BY DEF Under
<1>1. ASSUME NEW s \in Seq(Byte), NEW i \in DOMAIN s PROVE s[i].msg \in Msg
  <2>1. s[i] \in Byte
    BY ElementOfSeq, LenProperties
  <2>2. QED
    BY <2>1 DEF Byte
<1>2. m \in Msg
  BY <1>1 DEF TypeInv, Msgs
<1>3. QED
  BY <1>2 DEF OriginInv

\* What an action puts under way is a text, the next piece of a file, or like
\* what was under way.
LEMMA UnderStep ==
  ASSUME TypeInv, Next, NEW x \in Under'
  PROVE  \/ IsText(x)
         \/ \E y \in Under : Alike(x, y)
         \/ \E c \in Clients : SendPiece(c) /\ x = PieceOf(c)
<1>0. PICK c \in Clients : \/ Login(c) \/ SendText(c) \/ Put(c) \/ SendPiece(c)
                           \/ ServerReads(c) \/ ClientReads(c)
  BY DEF Next
<1>a. Alike(x, x)
  BY DEF Alike
<1>b. PICK e \in Clients : x \in Msgs(up'[e]) \cup Msgs(down'[e])
  BY DEF Under
<1>c. \A y : y \in Msgs(up[e]) \cup Msgs(down[e]) => y \in Under
  BY DEF Under
<1>1. CASE Login(c) \/ Put(c)
  BY <1>1, <1>a, <1>b, <1>c DEF Login, Put, wires
<1>2. CASE SendText(c)
  <2>1. PICK m, w : Writes(c, m, w) /\ TextOf(c, m, w)
    BY <1>2, SendTextWrites
  <2>2. IsText(m) /\ down' = down
    BY <1>2, <2>1 DEF TextOf, IsText, SendText
  <2>3. Msgs(up'[e]) \subseteq Msgs(up[e]) \cup {m}
    BY <2>1, WritesMsgs
  <2>4. QED
    BY <1>a, <1>b, <1>c, <2>2, <2>3
<1>3. CASE SendPiece(c)
  <2>1. Writes(c, PieceOf(c), Last) /\ down' = down
    BY <1>3, SendPieceWrites DEF SendPiece
  <2>2. Msgs(up'[e]) \subseteq Msgs(up[e]) \cup {PieceOf(c)}
    BY <2>1, WritesMsgs
  <2>3. QED
    BY <1>3, <1>a, <1>b, <1>c, <2>1, <2>2
<1>4. CASE ServerReads(c)
  <2>1. Shortens(up, up', c, Last)
    BY <1>4, ServerReadsShortens
  <2> DEFINE m == up[c][1].msg
  <2>2. PICK to, k, w : Forwards(m, to, k, w)
    BY <1>4, ServerReadsShortens
  <2>7. Msgs(up'[e]) \subseteq Msgs(up[e]) /\ m \in Msgs(up[c])
    BY <2>1, ShortensMsgs
  <2>3. Msgs(up'[e]) \subseteq Msgs(up[e]) /\ m \in Under
    BY <2>7 DEF Under
  <2>4. Msgs(down'[e]) \subseteq Msgs(down[e]) \cup {k}
    BY <2>2, ForwardsMsgs
  <2>5. Alike(k, m)
    BY <2>2 DEF Forwards
  <2>6. QED
    BY <1>a, <1>b, <1>c, <2>3, <2>4, <2>5
<1>5. CASE ClientReads(c)
  <2>1. Shortens(down, down', c, Last - 1) /\ up' = up
    BY <1>5, ClientReadsShortens DEF ClientReads
  <2>2. Msgs(down'[e]) \subseteq Msgs(down[e])
    BY ONLY <2>1, ShortensMsgs, e \in Clients, c \in Clients
  <2>3. QED
    BY <1>a, <1>b, <1>c, <2>1, <2>2
<1>6. QED
  BY <1>0, <1>1, <1>2, <1>3, <1>4, <1>5

\* Only the command put makes someone send a file.
LEMMA SendsStep ==
  ASSUME TypeInv, Next, NEW b \in Clients, NEW f, NEW d, Sends(b, f, d)'
  PROVE  \/ Sends(b, f, d)
         \/ Put(b) /\ put'[b].file = f /\ put'[b].des = d
<1>1. CASE put'[b] # NoPut /\ put'[b].file = f /\ put'[b].des = d
  <2>0. PICK c \in Clients : \/ Login(c) \/ SendText(c) \/ Put(c) \/ SendPiece(c)
                             \/ ServerReads(c) \/ ClientReads(c)
    BY DEF Next
  <2>1. CASE put'[b] = put[b]
    BY <1>1, <2>1 DEF Sends
  <2>2. CASE Put(c)
    <3>1. CASE c = b
      BY <1>1, <2>2, <3>1
    <3>2. CASE c # b
      <4>1. put'[b] = put[b]
        BY <2>2, <3>2 DEF Put, TypeInv
      <4>2. QED
        BY <1>1, <4>1 DEF Sends
    <3>3. QED
      BY <3>1, <3>2
  <2>3. CASE SendPiece(c)
    <3>1. CASE c = b
      <4>1. put[b] # NoPut /\ put'[b].file = put[b].file /\ put'[b].des = put[b].des
        BY <1>1, <2>3, <3>1, SendPieceWrites DEF SendPiece
      <4>2. QED
        BY <1>1, <4>1 DEF Sends
    <3>2. CASE c # b
      <4>1. put'[b] = put[b]
        BY <2>3, <3>2, SendPieceWrites
      <4>2. QED
        BY <1>1, <4>1 DEF Sends
    <3>3. QED
      BY <3>1, <3>2
  <2>4. CASE Login(c) \/ SendText(c) \/ ServerReads(c) \/ ClientReads(c)
    <3>1. put' = put
      BY <2>4 DEF Login, SendText, ServerReads, ClientReads, clientV
    <3>2. QED
      BY <2>1, <3>1
  <2>5. QED
    BY <2>0, <2>2, <2>3, <2>4
<1>2. CASE \E m \in Under' : m.src = b /\ IsPiece(m, f, d)
  <2>1. PICK m \in Under' : m.src = b /\ IsPiece(m, f, d)
    BY <1>2
  <2>2. ~IsText(m)
    BY <2>1 DEF IsPiece, IsText
  <2>3. CASE \E y \in Under : Alike(m, y)
    BY <2>1, <2>2, <2>3 DEF Alike, IsPiece, IsText, Sends
  <2>4. CASE \E c \in Clients : SendPiece(c) /\ m = PieceOf(c)
    <3>1. PICK c \in Clients : SendPiece(c) /\ m = PieceOf(c)
      BY <2>4
    <3>2. c = b /\ put[b].file = f /\ put[b].des = d /\ put[b] # NoPut
      BY <2>1, <3>1 DEF PieceOf, IsPiece, SendPiece
    <3>3. QED
      BY <3>2 DEF Sends
  <2>5. QED
    BY <2>2, <2>3, <2>4, UnderStep
<1>3. QED
  BY <1>1, <1>2 DEF Sends

\* How often a file was sent changes only by the command put.
PutsRaise(c, d, f) ==
  /\ put' = [put EXCEPT ![c] = [file |-> f, id |-> sent + 1, des |-> d, from |-> 0]]
  /\ puts' = [puts EXCEPT ![d][f] = puts[d][f] + 1]
  /\ UNCHANGED <<up, down, disk, seen>>

LEMMA PutRaises ==
  ASSUME NEW c \in Clients, Put(c)
  PROVE  \E d \in Clients \ {c}, f \in Files : PutsRaise(c, d, f)
BY DEF Put, PutsRaise, wires

LEMMA NoPutPuts ==
  ASSUME Next, \A c \in Clients : ~Put(c)
  PROVE  puts' = puts
BY DEF Next, Login, SendText, SendPiece, ServerReads, ClientReads, history

LEMMA PutsStep ==
  ASSUME TypeInv, Next, NEW d \in Clients, NEW f \in Files
  PROVE  puts[d][f] \in Nat /\ puts'[d][f] \in Nat /\ puts[d][f] <= puts'[d][f]
<1>1. puts[d][f] \in Nat
  BY DEF TypeInv
<1>2. CASE puts' = puts
  BY <1>1, <1>2
<1>3. ASSUME NEW c \in Clients, Put(c)
      PROVE  puts'[d][f] \in Nat /\ puts[d][f] <= puts'[d][f]
  <2>1. PICK e \in Clients \ {c}, g \in Files : PutsRaise(c, e, g)
    BY <1>3, PutRaises
  <2>2. puts' = [puts EXCEPT ![e][g] = puts[e][g] + 1] /\ puts \in [Clients -> [Files -> Nat]]
    BY <2>1 DEF PutsRaise, TypeInv
  <2>3. puts'[d][f] = puts[d][f] \/ puts'[d][f] = puts[d][f] + 1
    BY <2>2
  <2>4. QED
    BY <1>1, <2>3
<1>4. QED
  BY <1>1, <1>2, <1>3, NoPutPuts

\* A file grows only by a piece that its receiver reads.
LEMMA DiskStep ==
  ASSUME TypeInv, OriginInv, Next, NEW d \in Clients, NEW f \in Files,
         disk'[d][f] # disk[d][f]
  PROVE  LET m == down[d][1].msg
         IN /\ ClientReads(d) /\ IsPiece(m, f, d) /\ Stores(d, m)
            /\ down[d][1].at = Start /\ m \in Msgs(down[d]) /\ m \in Msg
<1>0. PICK c \in Clients : \/ Login(c) \/ SendText(c) \/ Put(c) \/ SendPiece(c)
                           \/ ServerReads(c) \/ ClientReads(c)
  BY DEF Next
<1>1. disk' # disk
  OBVIOUS
<1>2. ClientReads(c)
  BY <1>0, <1>1 DEF Login, SendText, Put, SendPiece, ServerReads, clientV
<1> DEFINE m == down[c][1].msg
<1>3. /\ Shortens(down, down', c, Last - 1)
      /\ down[c][1].at = Start /\ ~IsText(m) /\ DoRecvFile(c, m)
  BY <1>1, <1>2, ClientReadsShortens DEF ShowText
<1>4. m \in Msgs(down[c]) /\ m \in Msg
  BY ONLY <1>3, ShortensMsgs, c \in Clients
<1>5. m.file \in Files /\ c \in {m.src, m.des}
  BY <1>3, <1>4 DEF OriginInv
<1>6. m.src # c /\ Stores(c, m)
  BY <1>1, <1>3, <1>4, <1>5, DoRecvFileStores
<1>7. d = c /\ f = m.file
  BY <1>6 DEF Stores
<1>8. QED
  BY <1>2, <1>3, <1>4, <1>5, <1>6, <1>7 DEF IsPiece, IsText

LEMMA SoleStep ==
  ASSUME TypeInv, OriginInv, SoleInv, Next
  PROVE  SoleInv'
<1> SUFFICES ASSUME NEW d \in Clients, NEW f \in Files
             PROVE  /\ puts'[d][f] = 0 => /\ disk'[d][f] = <<>>
                                          /\ \A c \in Clients : ~Sends(c, f, d)'
                    /\ puts'[d][f] = 1 => \A b, c \in Clients :
                                            Sends(b, f, d)' /\ Sends(c, f, d)' => b = c
  BY DEF SoleInv
<1>1. /\ puts[d][f] = 0 => disk[d][f] = <<>> /\ \A c \in Clients : ~Sends(c, f, d)
      /\ puts[d][f] = 1 => \A b, c \in Clients : Sends(b, f, d) /\ Sends(c, f, d) => b = c
  BY DEF SoleInv
<1>2. CASE \E c \in Clients : Put(c)
  <2>1. PICK c \in Clients : Put(c)
    BY <1>2
  <2>2. PICK e \in Clients \ {c}, g \in Files : PutsRaise(c, e, g)
    BY <2>1, PutRaises
  <2>3. disk'[d][f] = disk[d][f]
    BY <2>2 DEF PutsRaise
  <2>4. \A b \in Clients : b # c => put'[b] = put[b]
    BY <2>2 DEF PutsRaise, TypeInv
  <2>5. Under' = Under
    BY <2>2 DEF PutsRaise, Under
  <2>6. put'[c].file = g /\ put'[c].des = e
    BY <2>2 DEF PutsRaise, TypeInv
  <2>7. \A b \in Clients : Sends(b, f, d)' => Sends(b, f, d) \/ (b = c /\ f = g /\ d = e)
    BY <2>4, <2>5, <2>6 DEF Sends
  <2>8. CASE d = e /\ f = g
    <3>1. puts'[d][f] = puts[d][f] + 1 /\ puts[d][f] \in Nat
      BY <2>2, <2>8 DEF PutsRaise, TypeInv
    <3>2. puts'[d][f] # 0 /\ (puts'[d][f] = 1 => puts[d][f] = 0)
      BY <3>1
    <3>3. QED
      BY <1>1, <2>7, <3>2
  <2>9. CASE d # e \/ f # g
    <3>1. puts'[d][f] = puts[d][f]
      BY <2>2, <2>9 DEF PutsRaise, TypeInv
    <3>2. QED
      BY <1>1, <2>3, <2>7, <2>9, <3>1
  <2>10. QED
    BY <2>8, <2>9
<1>3. CASE ~(\E c \in Clients : Put(c))
  <2>1. puts' = puts
    BY <1>3, NoPutPuts
  <2>2. \A b \in Clients : Sends(b, f, d)' => Sends(b, f, d)
    BY <1>3, SendsStep
  <2>3. puts[d][f] = 0 => disk'[d][f] = disk[d][f]
    <3>1. SUFFICES ASSUME puts[d][f] = 0, disk'[d][f] # disk[d][f] PROVE FALSE
      OBVIOUS
    <3>2. PICK m \in Msgs(down[d]) : IsPiece(m, f, d) /\ m \in Msg
      BY <3>1, DiskStep
    <3>3. m \in Under /\ m.src \in Clients
      BY <3>2 DEF Under, Msg
    <3>4. Sends(m.src, f, d)
      BY <3>2, <3>3 DEF Sends
    <3>5. QED
      BY <1>1, <3>1, <3>3, <3>4
  <2>4. QED
    BY <1>1, <2>1, <2>2, <2>3
<1>4. QED
  BY <1>2, <1>3

\* A file that is being sent goes on from where it is.
LEMMA PutGoesOn ==
  ASSUME TypeInv, Next, NEW c \in Clients, ~Put(c), put'[c] # NoPut
  PROVE  /\ put[c] # NoPut /\ put'[c].file = put[c].file /\ put'[c].des = put[c].des
         /\ put'[c].id = put[c].id /\ put[c].id \in Nat
         /\ put[c].from \in Nat /\ put'[c].from \in Nat /\ put[c].from <= put'[c].from
<1>0. PICK b \in Clients : \/ Login(b) \/ SendText(b) \/ Put(b) \/ SendPiece(b)
                           \/ ServerReads(b) \/ ClientReads(b)
  BY DEF Next
<1>1. CASE put'[c] = put[c]
  <2>1. put[c] \in Puts
    BY <1>1 DEF TypeInv
  <2>2. put[c].from \in Nat /\ put[c].id \in Nat
    BY <2>1, Constants DEF Puts, Ids
  <2>3. put[c].from <= put[c].from
    BY <2>2
  <2>4. QED
    BY <1>1, <2>2, <2>3
<1>2. CASE SendPiece(c)
  <2>1. /\ put[c] \in Puts /\ put'[c].from = put[c].from + Word
        /\ put'[c].des = put[c].des /\ put'[c].file = put[c].file /\ put'[c].id = put[c].id
    BY <1>2, SendPieceWrites
  <2>2. put[c].from \in Nat /\ Word \in Nat /\ put[c].id \in Nat
    BY <2>1, Constants DEF Puts, Ids
  <2>3. QED
    BY <1>2, <2>1, <2>2 DEF SendPiece
<1>3. CASE ~(SendPiece(c))
  <2>1. put'[c] = put[c]
    <3>1. CASE Put(b)
      <4>1. b # c
        BY <3>1
      <4>2. PICK e \in Clients \ {b}, g \in Files : PutsRaise(b, e, g)
        BY <3>1, PutRaises
      <4>3. QED
        BY <4>1, <4>2 DEF PutsRaise, TypeInv
    <3>2. CASE SendPiece(b)
      BY <1>3, <3>2, SendPieceWrites
    <3>3. CASE Login(b) \/ SendText(b) \/ ServerReads(b) \/ ClientReads(b)
      BY <3>3 DEF Login, SendText, ServerReads, ClientReads, clientV
    <3>4. QED
      BY <1>0, <3>1, <3>2, <3>3
  <2>2. QED
    BY <1>1, <2>1
<1>4. QED
  BY <1>2, <1>3

\* What is to come of a file stays behind what its sender has under way.
LEMMA PutPrecedes ==
  ASSUME TypeInv, TypeInv', OriginInv, PutInv, Next, NEW c \in Clients, put'[c] # NoPut,
         NEW m \in Under', m.src = c, ~IsText(m)
  PROVE  Precedes(m, put'[c])
<1>1. CASE Put(c)
  <2>1. PICK d \in Clients \ {c}, f \in Files : PutsRaise(c, d, f)
    BY <1>1, PutRaises
  <2>2. put'[c].id = sent + 1
    BY <2>1 DEF PutsRaise, TypeInv
  <2>6. m \in Under
    BY <2>1 DEF PutsRaise, Under
  <2>7. m \in Msg /\ m.id <= sent
    BY <2>6, UnderType DEF OriginInv, Under
  <2>3. m.id \in Nat /\ sent \in Nat /\ m.id <= sent
    BY <2>7, Constants DEF TypeInv, Msg, Ids
  <2>4. m.id < put'[c].id
    BY <2>2, <2>3
  <2>5. QED
    BY <2>4 DEF Precedes
<1>2. CASE ~(Put(c))
  <2>1. /\ put[c] # NoPut /\ put'[c].id = put[c].id
        /\ put[c].from \in Nat /\ put'[c].from \in Nat /\ put[c].from <= put'[c].from
    BY <1>2, PutGoesOn
  <2>2. CASE \E y \in Under : Alike(m, y)
    <3>1. PICK y \in Under : Alike(m, y)
      BY <2>2
    <3>2. y.src = c /\ ~IsText(y) /\ y.from \in Nat /\ y.from = m.from /\ y.id = m.id
      BY <3>1, UnderType DEF Alike, Msg
    <3>3. Precedes(y, put[c])
      BY <2>1, <3>1, <3>2 DEF PutInv
    <3>4. QED
      BY <2>1, <3>2, <3>3, Constants DEF Precedes
  <2>3. CASE \E b \in Clients : SendPiece(b) /\ m = PieceOf(b)
    <3>1. PICK b \in Clients : SendPiece(b) /\ m = PieceOf(b)
      BY <2>3
    <3>2. b = c /\ m.id = put[c].id /\ m.from = put[c].from
      BY <3>1 DEF PieceOf
    <3>3. put'[c].from = put[c].from + Word
      BY <3>1, <3>2, SendPieceWrites
    <3>4. m.from + Word <= put'[c].from
      BY <2>1, <3>2, <3>3
    <3>5. QED
      BY <2>1, <3>2, <3>4 DEF Precedes
  <2>4. QED
    BY <2>2, <2>3, UnderStep
<1>3. QED
  BY <1>1, <1>2

LEMMA PutStep ==
  ASSUME TypeInv, TypeInv', OriginInv, SoleInv, PutInv, Next
  PROVE  PutInv'
<1>0. \A c \in Clients : put'[c] # NoPut =>
        \A m \in Under' : m.src = c /\ ~IsText(m) => Precedes(m, put'[c])
  BY PutPrecedes
<1> SUFFICES ASSUME NEW c \in Clients, NEW d, NEW f, d = put'[c].des, f = put'[c].file,
                    put'[c] # NoPut, puts'[d][f] = 1,
                    NEW m \in Under', IsPiece(m, f, d)
             PROVE  m.from + Word <= put'[c].from
  BY <1>0 DEF PutInv
<1>1. d \in Clients /\ f \in Files
  BY DEF TypeInv, Puts
<1>2. /\ puts[d][f] = 0 => \A b \in Clients : ~Sends(b, f, d)
      /\ puts[d][f] = 1 => \A a, b \in Clients : Sends(a, f, d) /\ Sends(b, f, d) => a = b
      /\ puts[d][f] \in Nat
  BY <1>1 DEF SoleInv, TypeInv
<1>3. CASE \E b \in Clients : Put(b)
  <2>1. PICK b \in Clients : Put(b)
    BY <1>3
  <2>2. PICK e \in Clients \ {b}, g \in Files : PutsRaise(b, e, g)
    BY <2>1, PutRaises
  <2>3. m \in Under /\ m.src \in Clients
    BY <2>2, UnderType DEF PutsRaise, Under, Msg
  <2>4. puts[d][f] # 0
    BY <1>2, <2>3 DEF Sends
  <2>8. puts' = [puts EXCEPT ![e][g] = puts[e][g] + 1] /\ puts \in [Clients -> [Files -> Nat]]
    BY <2>2 DEF PutsRaise, TypeInv
  <2>9. IF d = e /\ f = g THEN puts'[d][f] = puts[d][f] + 1 ELSE puts'[d][f] = puts[d][f]
    BY <1>1, <2>8
  <2>5. ~(d = e /\ f = g) /\ puts[d][f] = 1
    BY <1>2, <2>4, <2>9
  <2>6. put'[c] = put[c]
    BY <2>2, <2>5 DEF PutsRaise, TypeInv
  <2>7. QED
    BY <2>3, <2>5, <2>6 DEF PutInv
<1>4. CASE ~(\E b \in Clients : Put(b))
  <2>1. puts[d][f] = 1
    BY <1>4, NoPutPuts
  <2>2. /\ put[c] # NoPut /\ f = put[c].file /\ d = put[c].des
        /\ put[c].from \in Nat /\ put'[c].from \in Nat /\ put[c].from <= put'[c].from
    BY <1>4, PutGoesOn
  <2>3. CASE \E y \in Under : Alike(m, y)
    <3>1. PICK y \in Under : Alike(m, y)
      BY <2>3
    <3>2. IsPiece(y, f, d) /\ y.from = m.from /\ y.from \in Nat
      BY <3>1, UnderType DEF Alike, IsPiece, IsText, Msg
    <3>3. y.from + Word <= put[c].from
      BY <2>1, <2>2, <3>1, <3>2 DEF PutInv
    <3>4. QED
      BY <2>2, <3>2, <3>3, Constants
  <2>4. CASE \E b \in Clients : SendPiece(b) /\ m = PieceOf(b)
    <3>1. PICK b \in Clients : SendPiece(b) /\ m = PieceOf(b)
      BY <2>4
    <3>2. Sends(b, f, d) /\ Sends(c, f, d)
      BY <2>2, <3>1 DEF Sends, SendPiece, PieceOf, IsPiece
    <3>3. b = c
      BY <1>2, <2>1, <3>2
    <3>4. put'[c].from = put[c].from + Word /\ m.from = put[c].from
      BY <3>1, <3>3, SendPieceWrites DEF PieceOf
    <3>5. QED
      BY <2>2, <3>4, Constants
  <2>5. ~IsText(m)
    BY DEF IsPiece, IsText
  <2>6. QED
    BY <2>3, <2>4, <2>5, UnderStep
<1>5. QED
  BY <1>3, <1>4

-----------------------------------------------------------------------------
(* The order of messages.                                                   *)

LEMMA BeforeAlike ==
  ASSUME NEW pt, NEW k, NEW m, NEW x, Alike(k, m)
  PROVE  /\ Before(pt, m, x) => Before(pt, k, x)
         /\ Before(pt, x, m) => Before(pt, x, k)
BY DEF Alike, Before, Precedes

\* What was in order stays so when files are sent again.
LEMMA BeforePuts ==
  ASSUME TypeInv, Next, NEW m \in Msg, ~IsText(m) => m.file \in Files, NEW k,
         Before(puts, m, k)
  PROVE  Before(puts', m, k)
<1>1. CASE IsText(m)
  BY <1>1 DEF Before
<1>2. CASE ~IsText(m)
  <2>1. m.des \in Clients /\ m.file \in Files
    BY <1>2 DEF Msg
  <2>2. puts'[m.des][m.file] <= 1 => puts[m.des][m.file] <= 1
    BY <2>1, PutsStep
  <2>3. QED
    BY <2>2 DEF Before
<1>3. QED
  BY <1>1, <1>2

LEMMA OrderedPuts ==
  ASSUME TypeInv, Next, NEW s \in Seq(Byte),
         \A m \in Msgs(s) : m \in Msg /\ (~IsText(m) => m.file \in Files),
         Ordered(puts, s)
  PROVE  Ordered(puts', s)
<1> SUFFICES ASSUME NEW j \in DOMAIN s, s[j].at = Start, NEW i \in 1..(j - 1)
             PROVE  Before(puts', s[i].msg, s[j].msg)
  BY DEF Ordered
<1>1. Before(puts, s[i].msg, s[j].msg)
  BY DEF Ordered
<1>2. i \in DOMAIN s
  <2>1. DOMAIN s = 1..Len(s) /\ Len(s) \in Nat
    BY LenProperties
  <2>2. QED
    BY <2>1
<1>3. QED
  BY <1>1, <1>2, BeforePuts DEF Msgs

LEMMA AheadPuts ==
  ASSUME TypeInv, Next, NEW s, NEW M,
         \A m \in M : m \in Msg /\ (~IsText(m) => m.file \in Files),
         Ahead(puts, M, s)
  PROVE  Ahead(puts', M, s)
<1> SUFFICES ASSUME NEW m \in M, NEW j \in DOMAIN s, s[j].at = Start
             PROVE  Before(puts', m, s[j].msg)
  BY DEF Ahead
<1>1. Before(puts, m, s[j].msg)
  BY DEF Ahead
<1>2. QED
  BY <1>1, BeforePuts

LEMMA AheadUnion ==
  ASSUME NEW pt, NEW s, NEW M, NEW N, Ahead(pt, M, s), Ahead(pt, N, s),
         NEW L, L \subseteq M \cup N
  PROVE  Ahead(pt, L, s)
BY DEF Ahead

\* Messages under way or shown.
Known == Under \cup UNION {Shown(d) : d \in Clients}

LEMMA KnownType ==
  ASSUME TypeInv, OriginInv
  PROVE  /\ \A m \in Known : m \in Msg /\ (~IsText(m) => m.file \in Files) /\ m.id <= sent
         /\ \A e \in Clients : Msgs(up[e]) \cup Msgs(down[e]) \cup Shown(e) \subseteq Known
<1>1. \A m \in Under : m \in Msg /\ (~IsText(m) => m.file \in Files)
  BY UnderType
<1>2. \A e \in Clients : \A m \in Shown(e) : m \in Msg
  <2>1. \A e \in Clients : \A i \in DOMAIN seen[e] : seen[e][i] \in Msg
    BY ElementOfSeq, LenProperties DEF TypeInv
  <2>2. QED
    BY <2>1 DEF Shown
<1>3. \A m \in Under : m.id <= sent
  BY DEF OriginInv, Under
<1>4. \A e \in Clients : \A m \in Shown(e) : IsText(m) /\ m.id <= sent
  BY DEF OriginInv
<1>5. QED
  BY <1>1, <1>2, <1>3, <1>4 DEF Known, Under

\* A client that writes a message that comes after all that is known.
LEMMA WritesOrder ==
  ASSUME TypeInv, OrderInv, NEW c \in Clients, NEW m, NEW w, Writes(c, m, w),
         \A x \in Known : Before(puts, x, m), UNCHANGED <<down, seen, puts>>
  PROVE  OrderInv'
<1>1. /\ up[c] \in Seq(Byte) /\ w \in 1..Last /\ Appends(up[c], up'[c], m, w)
      /\ \A e \in Clients \ {c} : up'[e] = up[e]
  BY DEF Writes, TypeInv
<1>2. \A e \in Clients : Msgs(up[e]) \cup Msgs(down[e]) \cup Shown(e) \subseteq Known
  BY DEF Known, Under
<1>3. Ordered(puts, up'[c])
  <2>1. Ordered(puts, up[c]) /\ \A x \in Msgs(up[c]) : Before(puts, x, m)
    BY <1>2 DEF OrderInv
  <2>2. QED
    BY <1>1, <2>1, OrderedAppend
<1>4. ASSUME NEW d \in Clients
      PROVE  Ahead(puts, Shown(d) \cup Msgs(down[d]), up'[c])
  <2>1. /\ Ahead(puts, Shown(d) \cup Msgs(down[d]), up[c])
        /\ \A x \in Shown(d) \cup Msgs(down[d]) : Before(puts, x, m)
    BY <1>2 DEF OrderInv
  <2>2. QED
    BY <1>1, <2>1, AheadAppend
<1>5. \A d \in Clients : Shown(d)' = Shown(d)
  BY DEF Shown
<1>6. QED
  BY <1>1, <1>3, <1>4, <1>5 DEF OrderInv

\* The server passes on what comes after all that the receiver has.
LEMMA ServerReadsOrder ==
  ASSUME TypeInv, OriginInv, OrderInv, NEW c \in Clients, ServerReads(c)
  PROVE  OrderInv'
<1> DEFINE m == up[c][1].msg
<1>1. Shortens(up, up', c, Last) /\ UNCHANGED <<seen, puts>>
  BY ServerReadsShortens DEF ServerReads, clientV
<1>2. PICK to, k, w : Forwards(m, to, k, w) /\ (to # {} => up[c][1].at = Start)
  BY ServerReadsShortens
<1>3. /\ up[c] \in Seq(Byte) /\ 1 \in DOMAIN up[c] /\ Last \in Nat /\ Last >= 1
      /\ Drops(up[c], up'[c], Last) /\ \A e \in Clients \ {c} : up'[e] = up[e]
  BY <1>1 DEF Shortens
<1>4. Ordered(puts, up'[c]) /\ Ahead(puts, {m}, up'[c])
  BY <1>3, OrderedDrop DEF OrderInv
<1>5. /\ \A e \in Clients : Msgs(up'[e]) \subseteq Msgs(up[e])
      /\ m \in Msgs(up[c])
  BY <1>1, ShortensMsgs
<1>6. Alike(k, m) /\ k.src = c
  BY <1>2, <1>5 DEF Forwards, Alike, OriginInv
<1>7. ASSUME NEW d \in Clients, d \in to
      PROVE  \A x \in Shown(d) \cup Msgs(down[d]) : Before(puts, x, k)
  <2>1. Ahead(puts, Shown(d) \cup Msgs(down[d]), up[c]) /\ up[c][1].at = Start
    BY <1>2, <1>7 DEF OrderInv
  <2>2. \A x \in Shown(d) \cup Msgs(down[d]) : Before(puts, x, m)
    BY <1>3, <2>1 DEF Ahead
  <2>3. QED
    BY <1>6, <2>2, BeforeAlike
<1>8. ASSUME NEW d \in Clients
      PROVE  Ordered(puts, down'[d]) /\ Ahead(puts, Shown(d), down'[d])
  <2>1. down[d] \in Seq(Byte) /\ Ordered(puts, down[d]) /\ Ahead(puts, Shown(d), down[d])
    BY DEF TypeInv, OrderInv
  <2>2. CASE d \in to
    <3>1. Appends(down[d], down'[d], k, w) /\ w \in 1..Last
      BY <1>2, <2>2, Constants DEF Forwards
    <3>2. Ordered(puts, down'[d])
      BY <1>7, <2>1, <2>2, <3>1, OrderedAppend
    <3>3. Ahead(puts, Shown(d), down'[d])
      BY <1>7, <2>1, <2>2, <3>1, AheadAppend
    <3>4. QED
      BY <3>2, <3>3
  <2>3. CASE d \notin to
    <3>1. down'[d] = down[d]
      BY <1>2, <2>3 DEF Forwards
    <3>2. QED
      BY <2>1, <3>1
  <2>4. QED
    BY <2>2, <2>3
<1>9. ASSUME NEW e \in Clients
      PROVE  Ahead(puts, {k}, up'[e])
  <2>1. CASE e = c
    BY <1>4, <1>6, <2>1, BeforeAlike DEF Ahead
  <2>2. CASE e # c
    <3>1. up'[e] = up[e] /\ \A j \in DOMAIN up[e] : up[e][j].msg.src = e
      BY <1>3, <2>2 DEF OriginInv, Msgs
    <3>2. QED
      BY <1>6, <2>2, <3>1 DEF Ahead, Before
  <2>3. QED
    BY <2>1, <2>2
<1>10. ASSUME NEW d \in Clients, NEW e \in Clients
       PROVE  Ahead(puts, Shown(d) \cup Msgs(down'[d]), up'[e])
  <2>1. Ahead(puts, Shown(d) \cup Msgs(down[d]), up[e])
    BY DEF OrderInv
  <2>2. Ahead(puts, Shown(d) \cup Msgs(down[d]), up'[e])
    <3>1. CASE e = c
      BY <1>3, <2>1, <3>1, AheadDrop
    <3>2. CASE e # c
      BY <1>3, <2>1, <3>2
    <3>3. QED
      BY <3>1, <3>2
  <2>3. Msgs(down'[d]) \subseteq Msgs(down[d]) \cup {k}
    BY <1>2, ForwardsMsgs
  <2>4. Shown(d) \cup Msgs(down'[d]) \subseteq (Shown(d) \cup Msgs(down[d])) \cup {k}
    BY <2>3
  <2>5. QED
    BY <1>9, <2>2, <2>4, AheadUnion
<1>11. \A e \in Clients : Ordered(puts, up'[e])
  BY <1>3, <1>4 DEF OrderInv
<1>12. \A d \in Clients : Shown(d)' = Shown(d)
  BY <1>1 DEF Shown
<1>13. QED
  BY <1>1, <1>8, <1>10, <1>11, <1>12 DEF OrderInv

LEMMA ClientReadsOrder ==
  ASSUME TypeInv, OriginInv, OrderInv, NEW c \in Clients, ClientReads(c)
  PROVE  OrderInv'
<1> DEFINE m == down[c][1].msg
<1>1. /\ Shortens(down, down', c, Last - 1)
      /\ \/ DoRecvFile(c, m)
         \/ down[c][1].at = Start /\ ShowText(c, m)
         \/ UNCHANGED <<seen, disk, packets>>
  BY ClientReadsShortens
<1>2. UNCHANGED <<up, puts>>
  BY DEF ClientReads
<1>3. /\ down[c] \in Seq(Byte) /\ 1 \in DOMAIN down[c] /\ Last - 1 \in Nat /\ Last - 1 >= 1
      /\ Drops(down[c], down'[c], Last - 1) /\ \A e \in Clients \ {c} : down'[e] = down[e]
  BY ONLY <1>1 DEF Shortens
<1>4. Ordered(puts, down'[c]) /\ Ahead(puts, {m}, down'[c])
  BY <1>3, OrderedDrop DEF OrderInv
<1>5. /\ \A e \in Clients : Msgs(down'[e]) \subseteq Msgs(down[e])
      /\ m \in Msgs(down[c]) /\ m \in Msg
  BY ONLY <1>1, ShortensMsgs, c \in Clients
<1>6. \A d \in Clients : \/ seen'[d] = seen[d] /\ Shown(d)' = Shown(d)
                         \/ d = c /\ Shown(d)' = Shown(c) \cup {m}
  <2>1. CASE seen' = seen
    BY <2>1 DEF Shown
  <2>2. CASE ShowText(c, m)
    <3>1. Shown(c)' = Shown(c) \cup {m} /\ \A d \in Clients \ {c} : seen'[d] = seen[d]
      BY <1>5, <2>2, ShowTextShown
    <3>2. QED
      BY <3>1 DEF Shown
  <2>3. QED
    BY <1>1, <2>1, <2>2 DEF DoRecvFile
<1>7. ASSUME NEW d \in Clients
      PROVE  Ordered(puts, down'[d]) /\ Ahead(puts, Shown(d)', down'[d])
  <2>1. CASE d = c
    <3>1. Ahead(puts, Shown(c), down'[c])
      BY <1>3, AheadDrop DEF OrderInv
    <3>2. Shown(c)' \subseteq Shown(c) \cup {m}
      BY <1>6
    <3>3. Ahead(puts, Shown(c)', down'[c])
      BY <1>4, <3>1, <3>2, AheadUnion
    <3>4. QED
      BY <1>4, <2>1, <3>3
  <2>2. CASE d # c
    BY <1>3, <1>6, <2>2 DEF OrderInv
  <2>3. QED
    BY <2>1, <2>2
<1>8. ASSUME NEW d \in Clients, NEW e \in Clients
      PROVE  Ahead(puts, Shown(d)' \cup Msgs(down'[d]), up[e])
  <2>1. Shown(d)' \cup Msgs(down'[d]) \subseteq Shown(d) \cup Msgs(down[d])
    BY <1>5, <1>6
  <2>2. Ahead(puts, Shown(d) \cup Msgs(down[d]), up[e])
    BY DEF OrderInv
  <2>3. QED
    BY <2>1, <2>2 DEF Ahead
<1>9. ASSUME NEW d \in Clients, NEW i \in DOMAIN seen'[d], NEW j \in DOMAIN seen'[d], i < j
      PROVE  Before(puts, seen'[d][i], seen'[d][j])
  <2>1. CASE seen'[d] = seen[d]
    BY <1>9, <2>1 DEF OrderInv
  <2>2. CASE ~(seen'[d] = seen[d])
    <3>1. d = c /\ down[c][1].at = Start /\ ShowText(c, m)
      BY <1>1, <1>5, <2>2, ShowTextShown DEF DoRecvFile
    <3>2. seen[c] \in Seq(Msg) /\ seen'[c] = Append(seen[c], m)
      BY <3>1 DEF ShowText, TypeInv
    <3>3. /\ DOMAIN seen'[c] = 1..(Len(seen[c]) + 1) /\ DOMAIN seen[c] = 1..Len(seen[c])
          /\ Len(seen[c]) \in Nat /\ seen'[c][Len(seen[c]) + 1] = m
          /\ \A q \in 1..Len(seen[c]) : seen'[c][q] = seen[c][q]
      BY <1>5, <3>2, ShownAppend
    <3>4. i \in 1..Len(seen[c]) /\ (j \in 1..Len(seen[c]) \/ j = Len(seen[c]) + 1)
      BY <1>9, <3>1, <3>3
    <3>5. CASE j \in 1..Len(seen[c])
      BY <1>9, <3>1, <3>3, <3>4, <3>5 DEF OrderInv
    <3>6. CASE j = Len(seen[c]) + 1
      <4>1. Ahead(puts, Shown(c), down[c]) /\ seen[c][i] \in Shown(c)
        BY <3>3, <3>4 DEF OrderInv, Shown
      <4>2. Before(puts, seen[c][i], m)
        BY <1>3, <3>1, <4>1 DEF Ahead
      <4>3. QED
        BY <3>1, <3>3, <3>4, <3>6, <4>2
    <3>7. QED
      BY <3>4, <3>5, <3>6
  <2>3. QED
    BY <2>1, <2>2
<1>10. \A e \in Clients : Ordered(puts, up[e])
  BY DEF OrderInv
<1>11. QED
  BY <1>2, <1>7, <1>8, <1>9, <1>10 DEF OrderInv

LEMMA OrderStep ==
  ASSUME TypeInv, OriginInv, OrderInv, SoleInv, PutInv, Next
  PROVE  OrderInv'
<1>0. PICK c \in Clients : \/ Login(c) \/ SendText(c) \/ Put(c) \/ SendPiece(c)
                           \/ ServerReads(c) \/ ClientReads(c)
  BY DEF Next
<1>k. /\ \A m \in Known : m \in Msg /\ (~IsText(m) => m.file \in Files) /\ m.id <= sent
      /\ \A e \in Clients : Msgs(up[e]) \cup Msgs(down[e]) \cup Shown(e) \subseteq Known
  BY KnownType
<1>1. CASE Login(c) \/ Put(c)
  <2>1. UNCHANGED <<up, down, seen>>
    BY <1>1 DEF Login, Put, wires, clientV
  <2>2. ASSUME NEW e \in Clients
        PROVE  Ordered(puts', up[e]) /\ Ordered(puts', down[e])
    <3>1. up[e] \in Seq(Byte) /\ down[e] \in Seq(Byte)
          /\ Ordered(puts, up[e]) /\ Ordered(puts, down[e])
      BY DEF TypeInv, OrderInv
    <3>2. QED
      BY <1>k, <3>1, OrderedPuts
  <2>3. ASSUME NEW e \in Clients
        PROVE  Ahead(puts', Shown(e), down[e])
    BY <1>k, AheadPuts DEF OrderInv
  <2>4. ASSUME NEW e \in Clients, NEW d \in Clients
        PROVE  Ahead(puts', Shown(d) \cup Msgs(down[d]), up[e])
    <3>1. Ahead(puts, Shown(d) \cup Msgs(down[d]), up[e])
      BY DEF OrderInv
    <3>2. QED
      BY <1>k, <3>1, AheadPuts
  <2>5. ASSUME NEW e \in Clients, NEW i \in DOMAIN seen[e], NEW j \in DOMAIN seen[e], i < j
        PROVE  Before(puts', seen[e][i], seen[e][j])
    <3>1. Before(puts, seen[e][i], seen[e][j]) /\ seen[e][i] \in Shown(e)
      BY <2>5 DEF OrderInv, Shown
    <3>2. QED
      BY <1>k, <3>1, BeforePuts
  <2>6. \A e \in Clients : Shown(e)' = Shown(e)
    BY <2>1 DEF Shown
  <2>7. QED
    BY <2>1, <2>2, <2>3, <2>4, <2>5, <2>6 DEF OrderInv
<1>2. CASE SendText(c)
  <2>1. PICK m, w : Writes(c, m, w) /\ TextOf(c, m, w)
    BY <1>2, SendTextWrites
  <2>2. UNCHANGED <<down, seen, puts>>
    BY <1>2 DEF SendText, clientV
  <2>3. ASSUME NEW x \in Known PROVE Before(puts, x, m)
    <3>1. x.id \in Nat /\ sent \in Nat /\ x.id <= sent /\ m.id = sent + 1 /\ IsText(m)
      BY <1>k, <2>1, Constants DEF Msg, Ids, TextOf, IsText, TypeInv
    <3>2. x.id < m.id
      BY <3>1
    <3>3. QED
      BY <3>1, <3>2 DEF Before
  <2>4. QED
    BY <2>1, <2>2, <2>3, WritesOrder
<1>3. CASE SendPiece(c)
  <2> DEFINE m == PieceOf(c)
  <2>1. Writes(c, m, Last) /\ put[c] \in Puts /\ UNCHANGED <<down, seen, puts>>
    BY <1>3, SendPieceWrites DEF SendPiece, history
  <2>2. m.src = c /\ ~IsText(m) /\ m.file = put[c].file /\ m.des = put[c].des
        /\ m.from = put[c].from /\ m.id = put[c].id /\ put[c] # NoPut /\ m.file \in Files /\ m.des \in Clients
    BY <1>3, <2>1 DEF PieceOf, IsText, SendPiece, Puts
  <2>3. puts[m.des][m.file] # 0 /\ puts[m.des][m.file] \in Nat
    BY <2>2 DEF SoleInv, Sends, TypeInv
  <2> HIDE DEF m
  <2>4. ASSUME NEW x \in Known PROVE Before(puts, x, m)
    <3>a. SUFFICES ASSUME ~IsText(x), x.src = m.src
                   PROVE  /\ Precedes(x, m)
                          /\ x.file = m.file /\ x.des = m.des /\ puts[x.des][x.file] <= 1
                               => x.from + Word <= m.from
      BY <2>2 DEF Before
    <3>2. x \in Under
      BY <3>a DEF Known, OriginInv
    <3>b. Precedes(x, m)
      BY <2>2, <3>a, <3>2 DEF PutInv, Precedes
    <3>1. SUFFICES ASSUME x.file = m.file, x.des = m.des, puts[x.des][x.file] <= 1
                   PROVE  x.from + Word <= m.from
      BY <3>b
    <3>3. puts[m.des][m.file] = 1
      BY <2>3, <3>1
    <3>4. IsPiece(x, put[c].file, put[c].des)
      BY <2>2, <3>a, <3>1 DEF IsPiece, IsText
    <3>5. QED
      BY <2>2, <3>2, <3>3, <3>4 DEF PutInv
  <2>5. QED
    BY <2>1, <2>4, WritesOrder
<1>4. CASE ServerReads(c)
  BY <1>4, ServerReadsOrder
<1>5. CASE ClientReads(c)
  BY <1>5, ClientReadsOrder
<1>6. QED
  BY <1>0, <1>1, <1>2, <1>3, <1>4, <1>5

-----------------------------------------------------------------------------
(* What is due and shown.                                                   *)

BegunIn(s, x) == \E i \in DOMAIN s : s[i].at = Start /\ IsText(s[i].msg) /\ s[i].msg.id = x

LEMMA BegunMember ==
  ASSUME NEW s, NEW x
  PROVE  x \in Begun(s) <=> BegunIn(s, x)
BY DEF Begun, BegunIn

LEMMA BegunAppend ==
  ASSUME NEW s \in Seq(Byte), NEW t, NEW m, NEW n \in 1..Last, Appends(s, t, m, n)
  PROVE  Begun(t) = IF IsText(m) THEN Begun(s) \cup {m.id} ELSE Begun(s)
<1>1. /\ \A i \in DOMAIN s : i \in DOMAIN t /\ t[i] = s[i]
      /\ \A o \in 1..n : Len(s) + o \in DOMAIN t /\ t[Len(s) + o] = [msg |-> m, at |-> o]
      /\ \A j \in DOMAIN t : \/ j \in DOMAIN s /\ t[j] = s[j]
                             \/ t[j].msg = m
      /\ n \in Nat /\ 1 <= n
  BY AppendsBytes, Constants
<1>2. Len(s) + 1 \in DOMAIN t /\ t[Len(s) + 1] = [msg |-> m, at |-> 1]
  <2>1. 1 \in 1..n
    BY <1>1
  <2>2. QED
    BY <1>1, <2>1
<1>3. IsText(m) => BegunIn(t, m.id)
  BY <1>2 DEF BegunIn, Start
<1>4. \A x : BegunIn(s, x) => BegunIn(t, x)
  BY <1>1 DEF BegunIn
<1>5. \A x : BegunIn(t, x) => BegunIn(s, x) \/ (IsText(m) /\ x = m.id)
  BY <1>1 DEF BegunIn
<1>6. QED
  BY <1>3, <1>4, <1>5, BegunMember

\* A read that loses no beginning of a text but that of its first message.
LEMMA BegunDrop ==
  ASSUME NEW s \in Seq(Byte), NEW t, NEW n \in Nat, Drops(s, t, n), 1 \in DOMAIN s, n >= 1,
         \A i \in DOMAIN s : i > 1 /\ i <= n /\ IsText(s[i].msg) => s[i].at # Start
  PROVE  Begun(s) = IF s[1].at = Start /\ IsText(s[1].msg)
                      THEN Begun(t) \cup {s[1].msg.id} ELSE Begun(t)
<1>1. /\ \A j \in DOMAIN t : n + j \in DOMAIN s /\ t[j] = s[n + j]
      /\ \A i \in DOMAIN s : i > n => i - n \in DOMAIN t /\ t[i - n] = s[i]
      /\ DOMAIN s = 1..Len(s) /\ Len(s) \in Nat
  BY DropsBytes
<1>2. \A x : BegunIn(t, x) => BegunIn(s, x)
  BY <1>1 DEF BegunIn
<1>3. ASSUME NEW x, BegunIn(s, x)
      PROVE  BegunIn(t, x) \/ (s[1].at = Start /\ IsText(s[1].msg) /\ x = s[1].msg.id)
  <2>1. PICK i \in DOMAIN s : s[i].at = Start /\ IsText(s[i].msg) /\ s[i].msg.id = x
    BY <1>3 DEF BegunIn
  <2>2. i = 1 \/ i > n
    BY <1>1, <2>1
  <2>3. QED
    BY <1>1, <2>1, <2>2 DEF BegunIn
<1>4. s[1].at = Start /\ IsText(s[1].msg) => BegunIn(s, s[1].msg.id)
  BY DEF BegunIn
<1>5. CASE s[1].at = Start /\ IsText(s[1].msg)
  <2>1. Begun(s) = Begun(t) \cup {s[1].msg.id}
    BY <1>2, <1>3, <1>4, <1>5, BegunMember
  <2>2. QED
    BY <1>5, <2>1
<1>6. CASE ~(s[1].at = Start /\ IsText(s[1].msg))
  <2>1. Begun(s) = Begun(t)
    BY <1>2, <1>3, <1>6, BegunMember
  <2>2. QED
    BY <1>6, <2>1
<1>7. QED
  BY <1>5, <1>6

LEMMA DueStep ==
  ASSUME TypeInv, FrameInv, OriginInv, OrderInv, DueInv, Next
  PROVE  DueInv'
<1>0. PICK c \in Clients : \/ Login(c) \/ SendText(c) \/ Put(c) \/ SendPiece(c)
                           \/ ServerReads(c) \/ ClientReads(c)
  BY DEF Next
<1> SUFFICES ASSUME NEW d \in Clients, ~joined' \/ d \notin padded'
             PROVE  due'[d] = {m.id : m \in Shown(d)'} \cup Begun(down'[d])
  BY DEF DueInv
<1>a. ~joined \/ d \notin padded => due[d] = {m.id : m \in Shown(d)} \cup Begun(down[d])
  BY DEF DueInv
<1>1. CASE Login(c) \/ SendText(c) \/ Put(c) \/ SendPiece(c)
  <2>1. UNCHANGED <<down, seen, due, joined, padded>>
    BY <1>1 DEF Login, SendText, Put, SendPiece, wires, clientV, history
  <2>2. QED
    BY <1>a, <2>1 DEF Shown
<1>2. CASE ServerReads(c)
  <2>1. (joined => joined') /\ UNCHANGED seen
    BY <1>2, ServerReadsShortens DEF ServerReads, clientV
  <2>2. PICK to, k, w : Forwards(up[c][1].msg, to, k, w)
    BY <1>2, ServerReadsShortens
  <2>3. due[d] = {m.id : m \in Shown(d)} \cup Begun(down[d])
    BY <1>a, <2>1, <2>2 DEF Forwards
  <2>4. Shown(d)' = Shown(d)
    BY <2>1 DEF Shown
  <2>5. CASE d \in to
    <3>1. Appends(down[d], down'[d], k, w) /\ w \in 1..Last /\ down[d] \in Seq(Byte)
      BY <2>2, <2>5, Constants DEF Forwards, TypeInv
    <3>2. Begun(down'[d]) = IF IsText(k) THEN Begun(down[d]) \cup {k.id} ELSE Begun(down[d])
      BY <3>1, BegunAppend
    <3>3. due'[d] = IF IsText(k) THEN due[d] \cup {k.id} ELSE due[d]
      BY <2>2, <2>5 DEF Forwards
    <3>4. QED
      BY <2>3, <2>4, <3>2, <3>3
  <2>6. CASE d \notin to
    <3>1. down'[d] = down[d] /\ due'[d] = due[d]
      BY <2>2, <2>6 DEF Forwards
    <3>2. QED
      BY <2>3, <2>4, <3>1
  <2>7. QED
    BY <2>5, <2>6
<1>3. CASE ClientReads(c)
  <2> DEFINE s == down[c]
             n == Last - 1
             m == s[1].msg
  <2>1. /\ Shortens(down, down', c, n) /\ joined' = (joined \/ Mixes(s, n))
        /\ \/ s[1].at = Start /\ ~IsText(m) /\ DoRecvFile(c, m)
           \/ s[1].at = Start /\ IsText(m) /\ ShowText(c, m)
           \/ s[1].at # Start /\ UNCHANGED <<seen, disk, packets>>
    BY <1>3, ClientReadsShortens
  <2>2. UNCHANGED <<due, padded>>
    BY <1>3 DEF ClientReads
  <2>3. due[d] = {x.id : x \in Shown(d)} \cup Begun(down[d])
    BY <1>a, <2>1, <2>2
  <2>4. CASE d # c
    <3>1. down'[d] = down[d]
      BY ONLY <2>1, <2>4, d \in Clients DEF Shortens
    <3>2. seen'[d] = seen[d]
      <4>1. CASE seen' = seen
        BY <4>1
      <4>2. CASE ShowText(c, m)
        BY <2>4, <4>2 DEF ShowText, TypeInv
      <4>3. QED
        BY <2>1, <4>1, <4>2 DEF DoRecvFile
    <3>3. QED
      BY <2>2, <2>3, <3>1, <3>2 DEF Shown
  <2>5. CASE d = c
    <3>1. /\ s \in Seq(Byte) /\ s # <<>> /\ 1 \in DOMAIN s /\ Drops(s, down'[c], n)
          /\ n \in Nat /\ n >= 1
      BY ONLY <2>1 DEF Shortens
    <3>2. m \in Msg /\ m \in Msgs(s)
      BY ONLY <2>1, ShortensMsgs, c \in Clients
    <3>3. ASSUME NEW i \in DOMAIN s, i > 1, i <= n, IsText(s[i].msg) PROVE s[i].at # Start
      <4>1. CASE ~joined'
        <5>1. s[i].msg = m
          BY <2>1, <3>3, <4>1 DEF Mixes
        <5>2. Ordered(puts, s) /\ 1 \in 1..(i - 1)
          <6>1. i \in Nat
            BY <3>1, LenProperties
          <6>2. 1 \in 1..(i - 1)
            BY <3>3, <6>1
          <6>3. QED
            BY <6>2 DEF OrderInv
        <5>3. s[i].at = Start => Before(puts, m, s[i].msg)
          BY <5>2 DEF Ordered
        <5>4. m.id \in Nat
          BY <3>2, Constants DEF Msg, Ids
        <5>5. ~(m.id < m.id)
          BY <5>4
        <5>6. QED
          BY <3>3, <5>1, <5>3, <5>5 DEF Before
      <4>2. CASE d \notin padded'
        <5>1. Frames(s, n)
          BY <2>2, <2>5, <4>2 DEF FrameInv
        <5>2. i \in 1..n /\ n \in 1..Last
          <6>1. i \in Nat
            BY <3>1, LenProperties
          <6>2. QED
            BY <3>1, <3>3, <6>1, Constants
        <5>3. s[i] = [msg |-> m, at |-> i]
          BY <3>1, <5>1, <5>2, FramesFirst
        <5>4. QED
          BY <3>3, <5>3 DEF Start
      <4>3. QED
        BY <4>1, <4>2
    <3>4. Begun(s) = IF s[1].at = Start /\ IsText(m) THEN Begun(down'[c]) \cup {m.id}
                                                     ELSE Begun(down'[c])
      BY <3>1, <3>3, BegunDrop
    <3>5. CASE s[1].at = Start /\ IsText(m) /\ ShowText(c, m)
      <4>1. Shown(c)' = Shown(c) \cup {m}
        BY <3>2, <3>5, ShowTextShown
      <4>2. due[c] = {x.id : x \in Shown(c)} \cup (Begun(down'[c]) \cup {m.id})
        BY <2>3, <2>5, <3>4, <3>5
      <4>3. {x.id : x \in Shown(c) \cup {m}} = {x.id : x \in Shown(c)} \cup {m.id}
        OBVIOUS
      <4>4. QED
        BY <2>2, <2>5, <4>1, <4>2, <4>3
    <3>6. CASE ~(s[1].at = Start /\ IsText(m))
      <4>1. seen' = seen
        BY <2>1, <3>6 DEF DoRecvFile
      <4>2. Begun(down'[c]) = Begun(down[c])
        BY <3>4, <3>6
      <4>3. Shown(d)' = Shown(d)
        BY <4>1 DEF Shown
      <4>4. QED
        BY <2>2, <2>3, <2>5, <4>2, <4>3
    <3>7. QED
      BY <2>1, <3>5, <3>6
  <2>6. QED
    BY <2>4, <2>5
<1>4. QED
  BY <1>0, <1>1, <1>2, <1>3

-----------------------------------------------------------------------------
(* The bytes on the disk.                                                   *)

\* A piece that comes after all that is on the disk leaves the bytes in order.
Follows(b, f, n) ==
  Len(b) <= Word /\ \A i \in DOMAIN b : b[i] # Zero => b[i] = <<f, n + i>>
Numbered(a) == \A i \in DOMAIN a : a[i] # Zero => a[i][2] \in Nat

LEMMA StoresBytes ==
  ASSUME NEW S, NEW a \in Seq(S), NEW b \in Seq(S), NEW f, NEW n \in Nat,
         Rising(a), Within(a, n), Follows(b, f, n), Numbered(a)
  PROVE  Rising(a \o b) /\ Within(a \o b, n + Word)
<1>0. /\ Len(b) <= Word
      /\ \A i \in DOMAIN b : b[i] # Zero => b[i] = <<f, n + i>>
      /\ \A i \in DOMAIN a : a[i] # Zero => a[i][2] \in Nat
  BY DEF Follows, Numbered
<1>1. /\ a \o b \in Seq(S) /\ Len(a \o b) = Len(a) + Len(b)
      /\ \A i \in 1..(Len(a) + Len(b)) :
           (a \o b)[i] = IF i <= Len(a) THEN a[i] ELSE b[i - Len(a)]
  BY ConcatProperties
<1>2. /\ Len(a) \in Nat /\ Len(b) \in Nat /\ DOMAIN a = 1..Len(a) /\ DOMAIN b = 1..Len(b)
      /\ DOMAIN (a \o b) = 1..(Len(a) + Len(b)) /\ Word \in Nat
  BY <1>1, LenProperties, Constants
<1> DEFINE t == a \o b
<1> HIDE DEF t
<1>3. ASSUME NEW i \in DOMAIN t, t[i] # Zero
      PROVE  \/ i \in DOMAIN a /\ t[i] = a[i] /\ a[i] # Zero /\ a[i][2] <= n
                /\ a[i][2] \in Nat
             \/ i - Len(a) \in 1..Len(b) /\ i > Len(a) /\ t[i][2] = n + (i - Len(a))
  <2>1. i \in 1..(Len(a) + Len(b))
    BY <1>2 DEF t
  <2>2. CASE i <= Len(a)
    <3>1. i \in DOMAIN a /\ t[i] = a[i]
      BY <1>1, <1>2, <2>1, <2>2 DEF t
    <3>2. QED
      BY <1>0, <1>3, <3>1 DEF Within
  <2>3. CASE ~(i <= Len(a))
    <3>1. i - Len(a) \in DOMAIN b /\ i > Len(a)
      BY <1>2, <2>1, <2>3
    <3>2. t[i] = b[i - Len(a)]
      BY <1>1, <2>1, <2>3 DEF t
    <3>3. t[i] = <<f, n + (i - Len(a))>>
      BY <1>0, <1>3, <3>1, <3>2
    <3>4. t[i][2] = n + (i - Len(a))
      BY <3>3
    <3>5. QED
      BY <1>2, <3>1, <3>4
  <2>4. QED
    BY <2>2, <2>3
<1>4. ASSUME NEW i \in DOMAIN t, t[i] # Zero PROVE t[i][2] <= n + Word
  BY <1>0, <1>2, <1>3, <1>4
<1>5. ASSUME NEW i \in DOMAIN t, NEW j \in DOMAIN t, i < j, t[i] # Zero, t[j] # Zero
      PROVE  t[i][2] < t[j][2]
  <2>0. i \in Nat /\ j \in Nat
    BY <1>2 DEF t
  <2>1. CASE j \in DOMAIN a /\ t[j] = a[j]
    <3>1. i \in DOMAIN a
      BY <1>2, <1>5, <2>0, <2>1 DEF t
    <3>2. t[i] = a[i]
      BY <1>1, <1>2, <3>1 DEF t
    <3>3. QED
      BY <1>5, <2>1, <3>1, <3>2 DEF Rising
  <2>2. CASE j - Len(a) \in 1..Len(b) /\ j > Len(a) /\ t[j][2] = n + (j - Len(a))
    <3>1. CASE i \in DOMAIN a /\ t[i] = a[i] /\ a[i][2] <= n /\ a[i][2] \in Nat
      BY <1>2, <2>0, <2>2, <3>1
    <3>2. CASE i - Len(a) \in 1..Len(b) /\ i > Len(a) /\ t[i][2] = n + (i - Len(a))
      BY <1>2, <1>5, <2>0, <2>2, <3>2
    <3>3. QED
      BY <1>3, <1>5, <3>1, <3>2
  <2>3. QED
    BY <1>3, <1>5, <2>1, <2>2
<1>6. QED
  BY <1>4, <1>5 DEF Rising, Within, t

LEMMA WithinMore ==
  ASSUME NEW b, NEW n \in Nat, NEW k \in Nat, n <= k, Within(b, n),
         \A i \in DOMAIN b : b[i] # Zero => b[i][2] \in Nat
  PROVE  Within(b, k)
<1> SUFFICES ASSUME NEW i \in DOMAIN b, b[i] # Zero PROVE b[i][2] <= k
  BY DEF Within
<1>1. b[i][2] \in Nat /\ b[i][2] <= n
  BY DEF Within
<1>2. QED
  BY <1>1

LEMMA DiskBytes ==
  ASSUME TypeInv, NEW d \in Clients, NEW f \in Files
  PROVE  /\ disk[d][f] \in Seq(Cell(f))
         /\ \A i \in DOMAIN disk[d][f] : disk[d][f][i] # Zero => disk[d][f][i][2] \in Nat
<1>1. disk[d][f] \in Seq(Cell(f))
  BY DEF TypeInv
<1>2. ASSUME NEW i \in DOMAIN disk[d][f], disk[d][f][i] # Zero
      PROVE  disk[d][f][i][2] \in Nat
  <2>1. disk[d][f][i] \in Cell(f)
    BY <1>1, ElementOfSeq, LenProperties
  <2>2. PICK q \in Nat : disk[d][f][i] = <<f, q>>
    BY <1>2, <2>1 DEF Cell
  <2>3. QED
    BY <2>2
<1>3. QED
  BY <1>1, <1>2

LEMMA StartsAppend ==
  ASSUME NEW s \in Seq(Byte), NEW t, NEW m, NEW n \in 1..Last, Appends(s, t, m, n)
  PROVE  StartMsgs(t) \subseteq StartMsgs(s) \cup {m}
<1>1. \A j \in DOMAIN t : \/ j \in DOMAIN s /\ t[j] = s[j]
                          \/ t[j].msg = m
  BY AppendsBytes
<1>2. QED
  BY <1>1 DEF StartMsgs

LEMMA StartsDrop ==
  ASSUME NEW wire, NEW new, NEW c \in Clients, NEW n, Shortens(wire, new, c, n)
  PROVE  \A e \in Clients : StartMsgs(new[e]) \subseteq StartMsgs(wire[e])
<1>1. \A j \in DOMAIN new[c] : n + j \in DOMAIN wire[c] /\ new[c][j] = wire[c][n + j]
  BY DropsBytes DEF Shortens
<1>2. StartMsgs(new[c]) \subseteq StartMsgs(wire[c])
  BY <1>1 DEF StartMsgs
<1>3. QED
  BY <1>2 DEF Shortens

\* A message that begins in a stream is new only if a client writes it.
LEMMA StartStep ==
  ASSUME TypeInv, Next, NEW d \in Clients, NEW x \in Starts(d)'
  PROVE  \/ IsText(x)
         \/ \E y \in Starts(d) : Alike(x, y)
         \/ \E c \in Clients : SendPiece(c) /\ x = PieceOf(c)
<1>0. PICK c \in Clients : \/ Login(c) \/ SendText(c) \/ Put(c) \/ SendPiece(c)
                           \/ ServerReads(c) \/ ClientReads(c)
  BY DEF Next
<1>a. Alike(x, x)
  BY DEF Alike
<1>b. x \in StartMsgs(down'[d]) \/ \E e \in Clients : x \in StartMsgs(up'[e])
  BY DEF Starts
<1>c. /\ \A y : y \in StartMsgs(down[d]) => y \in Starts(d)
      /\ \A e \in Clients : \A y : y \in StartMsgs(up[e]) => y \in Starts(d)
  BY DEF Starts
<1>1. CASE Login(c) \/ Put(c)
  <2>1. UNCHANGED <<up, down>>
    BY <1>1 DEF Login, Put, wires
  <2>2. QED
    BY <1>a, <1>b, <1>c, <2>1
<1>2. CASE SendText(c)
  <2>1. PICK m, w : Writes(c, m, w) /\ TextOf(c, m, w)
    BY <1>2, SendTextWrites
  <2>2. IsText(m) /\ down' = down
    BY <1>2, <2>1 DEF TextOf, IsText, SendText
  <2>3. StartMsgs(up'[c]) \subseteq StartMsgs(up[c]) \cup {m}
    BY <2>1, StartsAppend DEF Writes, TypeInv
  <2>4. \A e \in Clients \ {c} : up'[e] = up[e]
    BY <2>1 DEF Writes
  <2>5. QED
    BY <1>a, <1>b, <1>c, <2>2, <2>3, <2>4
<1>3. CASE SendPiece(c)
  <2>1. Writes(c, PieceOf(c), Last) /\ down' = down
    BY <1>3, SendPieceWrites DEF SendPiece
  <2>2. StartMsgs(up'[c]) \subseteq StartMsgs(up[c]) \cup {PieceOf(c)}
    BY <2>1, StartsAppend DEF Writes, TypeInv
  <2>3. \A e \in Clients \ {c} : up'[e] = up[e]
    BY <2>1 DEF Writes
  <2>4. QED
    BY <1>3, <1>a, <1>b, <1>c, <2>1, <2>2, <2>3
<1>4. CASE ServerReads(c)
  <2>1. Shortens(up, up', c, Last)
    BY <1>4, ServerReadsShortens
  <2> DEFINE m == up[c][1].msg
  <2>2. PICK to, k, w : Forwards(m, to, k, w) /\ (to # {} => up[c][1].at = Start)
    BY <1>4, ServerReadsShortens
  <2>3. \A e \in Clients : StartMsgs(up'[e]) \subseteq StartMsgs(up[e])
    BY <2>1, StartsDrop
  <2>4. up[c][1].at = Start => m \in Starts(d)
    <3>1. up[c][1].at = Start => m \in StartMsgs(up[c])
      BY <2>1 DEF Shortens, StartMsgs
    <3>2. QED
      BY <1>c, <3>1
  <2>5. Alike(k, m)
    BY <2>2 DEF Forwards
  <2>6. CASE d \in to
    <3>1. down[d] \in Seq(Byte) /\ w \in 1..Last /\ Appends(down[d], down'[d], k, w)
      BY <2>2, <2>6, Constants DEF Forwards, TypeInv
    <3>2. StartMsgs(down'[d]) \subseteq StartMsgs(down[d]) \cup {k}
      BY <3>1, StartsAppend
    <3>3. QED
      BY <1>a, <1>b, <1>c, <2>2, <2>3, <2>4, <2>5, <2>6, <3>2
  <2>7. CASE d \notin to
    <3>1. down'[d] = down[d]
      BY <2>2, <2>7 DEF Forwards
    <3>2. QED
      BY <1>a, <1>b, <1>c, <2>3, <3>1
  <2>8. QED
    BY <2>6, <2>7
<1>5. CASE ClientReads(c)
  <2>1. Shortens(down, down', c, Last - 1) /\ up' = up
    BY <1>5, ClientReadsShortens DEF ClientReads
  <2>2. StartMsgs(down'[d]) \subseteq StartMsgs(down[d])
    BY ONLY <2>1, StartsDrop, d \in Clients, c \in Clients
  <2>3. QED
    BY <1>a, <1>b, <1>c, <2>1, <2>2
<1>6. QED
  BY <1>0, <1>1, <1>2, <1>3, <1>4, <1>5

LEMMA StartsUnder ==
  ASSUME NEW d \in Clients
  PROVE  Starts(d) \subseteq Under
BY DEF Starts, StartMsgs, Under, Msgs

\* A file that did not grow: what is to come is still behind it.
LEMMA DiskKept ==
  ASSUME TypeInv, OriginInv, SoleInv, DiskInv, Next, NEW d \in Clients, NEW f \in Files,
         puts'[d][f] = 1, puts[d][f] = 1, disk'[d][f] = disk[d][f]
  PROVE  /\ Rising(disk'[d][f])
         /\ \A c \in Clients : put'[c] # NoPut /\ put'[c].file = f /\ put'[c].des = d =>
              Within(disk'[d][f], put'[c].from)
         /\ \A m \in Starts(d)' : IsPiece(m, f, d) => Within(disk'[d][f], m.from)
<1> DEFINE b == disk[d][f]
<1>1. /\ Rising(b)
      /\ \A c \in Clients : put[c] # NoPut /\ put[c].file = f /\ put[c].des = d =>
           Within(b, put[c].from)
      /\ \A m \in Starts(d) : IsPiece(m, f, d) => Within(b, m.from)
  BY DEF DiskInv
<1>2. ASSUME NEW c \in Clients, put'[c] # NoPut, put'[c].file = f, put'[c].des = d
      PROVE  Within(b, put'[c].from)
  <2>1. ~Put(c)
    <3>1. SUFFICES ASSUME Put(c) PROVE FALSE
      OBVIOUS
    <3>2. PICK e \in Clients \ {c}, g \in Files : PutsRaise(c, e, g)
      BY <3>1, PutRaises
    <3>3. e = d /\ g = f
      BY <1>2, <3>2 DEF PutsRaise, TypeInv
    <3>4. puts'[d][f] = puts[d][f] + 1
      BY <3>2, <3>3 DEF PutsRaise, TypeInv
    <3>5. QED
      BY <3>4
  <2>2. /\ put[c] # NoPut /\ put'[c].file = put[c].file /\ put'[c].des = put[c].des
        /\ put[c].from \in Nat /\ put'[c].from \in Nat /\ put[c].from <= put'[c].from
    BY <1>2, <2>1, PutGoesOn
  <2>3. Within(b, put[c].from)
    BY <1>1, <1>2, <2>2
  <2>4. QED
    BY <2>2, <2>3, DiskBytes, WithinMore
<1>3. ASSUME NEW m \in Starts(d)', IsPiece(m, f, d)
      PROVE  Within(b, m.from)
  <2>1. ~IsText(m)
    BY <1>3 DEF IsPiece, IsText
  <2>2. CASE \E y \in Starts(d) : Alike(m, y)
    BY <1>1, <1>3, <2>2 DEF Alike, IsPiece, IsText
  <2>3. CASE \E c \in Clients : SendPiece(c) /\ m = PieceOf(c)
    <3>1. PICK c \in Clients : SendPiece(c) /\ m = PieceOf(c)
      BY <2>3
    <3>2. put[c] # NoPut /\ put[c].file = f /\ put[c].des = d /\ m.from = put[c].from
      BY <1>3, <3>1 DEF SendPiece, PieceOf, IsPiece
    <3>3. QED
      BY <1>1, <3>2
  <2>4. QED
    BY <2>1, <2>2, <2>3, StartStep
<1>4. QED
  BY <1>1, <1>2, <1>3

\* A file that grew: what is to come is behind the piece that was read.
LEMMA DiskGrown ==
  ASSUME TypeInv, OriginInv, OrderInv, SoleInv, PutInv, DiskInv, Next,
         NEW d \in Clients, NEW f \in Files, puts[d][f] = 1, disk'[d][f] # disk[d][f]
  PROVE  /\ Rising(disk'[d][f])
         /\ \A c \in Clients : put'[c] # NoPut /\ put'[c].file = f /\ put'[c].des = d =>
              Within(disk'[d][f], put'[c].from)
         /\ \A m \in Starts(d)' : IsPiece(m, f, d) => Within(disk'[d][f], m.from)
<1> DEFINE m == down[d][1].msg
<1>1. /\ ClientReads(d) /\ IsPiece(m, f, d) /\ Stores(d, m)
      /\ down[d][1].at = Start /\ m \in Msgs(down[d]) /\ m \in Msg
  BY DiskStep
<1>2. /\ Shortens(down, down', d, Last - 1) /\ UNCHANGED <<up, put>>
  BY <1>1, ClientReadsShortens DEF ClientReads
<1>3. /\ down[d] \in Seq(Byte) /\ 1 \in DOMAIN down[d] /\ Last - 1 \in Nat /\ Last - 1 >= 1
      /\ Drops(down[d], down'[d], Last - 1)
  BY ONLY <1>2 DEF Shortens
<1>4. m \in Under /\ m.file = f /\ m.des = d /\ m.from \in Nat /\ ~IsText(m)
      /\ m.src \in Clients
  BY <1>1 DEF Under, IsPiece, IsText, Msg
<1>5. Rising(disk[d][f]) /\ Within(disk[d][f], m.from)
  <2>1. m \in Starts(d)
    BY <1>1, <1>3 DEF Starts, StartMsgs
  <2>2. QED
    BY <1>1, <2>1 DEF DiskInv
<1>6. Rising(disk'[d][f]) /\ Within(disk'[d][f], m.from + Word)
  <2>1. PICK b \in Seq(Cell(f)) :
          disk'[d][f] = disk[d][f] \o b /\ Follows(b, f, m.from)
    BY <1>1, <1>4 DEF Stores, Follows
  <2>2. disk[d][f] \in Seq(Cell(f)) /\ Numbered(disk[d][f])
    BY DiskBytes DEF Numbered
  <2>3. QED
    BY <1>4, <1>5, <2>1, <2>2, StoresBytes
<1>7. m.from + Word \in Nat
  BY <1>4, Constants
<1>8. \A i \in DOMAIN disk'[d][f] : disk'[d][f][i] # Zero => disk'[d][f][i][2] \in Nat
  <2>1. TypeInv'
    BY TypeStep
  <2>2. disk'[d][f] \in Seq(Cell(f))
    BY <2>1 DEF TypeInv
  <2>3. ASSUME NEW i \in DOMAIN disk'[d][f], disk'[d][f][i] # Zero
        PROVE  disk'[d][f][i][2] \in Nat
    <3>1. disk'[d][f][i] \in Cell(f)
      BY <2>2, ElementOfSeq, LenProperties
    <3>2. PICK q \in Nat : disk'[d][f][i] = <<f, q>>
      BY <2>3, <3>1 DEF Cell
    <3>3. QED
      BY <3>2
  <2>4. QED
    BY <2>3
<1>9. ASSUME NEW n \in Nat, m.from + Word <= n
      PROVE  Within(disk'[d][f], n)
  BY <1>6, <1>7, <1>8, <1>9, WithinMore
<1>10. ASSUME NEW c \in Clients, put[c] # NoPut, put[c].file = f, put[c].des = d
       PROVE  Within(disk'[d][f], put[c].from)
  <2>1. put[c].from \in Nat
    BY <1>10 DEF TypeInv, Puts
  <2>2. m.from + Word <= put[c].from
    BY <1>1, <1>4, <1>10 DEF PutInv
  <2>3. QED
    BY <1>9, <2>1, <2>2
<1>11. ASSUME NEW k \in Starts(d)', IsPiece(k, f, d)
       PROVE  Within(disk'[d][f], k.from)
  <2>1. /\ StartMsgs(down'[d]) \subseteq StartMsgs(down[d])
    BY ONLY <1>2, StartsDrop, d \in Clients
  <2>2. k \in StartMsgs(down'[d]) \/ \E e \in Clients : k \in StartMsgs(up[e])
    BY <1>2 DEF Starts
  <2>3. k \in Under
    <3>1. k \in Starts(d)
      BY <2>1, <2>2 DEF Starts
    <3>2. QED
      BY <3>1, StartsUnder
  <2>4. k \in Msg /\ k.from \in Nat /\ k.src \in Clients
    BY <2>3, UnderType DEF Msg
  <2>5. Sends(m.src, f, d) /\ Sends(k.src, f, d)
    BY <1>1, <1>4, <1>11, <2>3 DEF Sends
  <2>6. m.src = k.src
    BY <1>4, <2>4, <2>5 DEF SoleInv
  <2>7. Before(puts, m, k)
    <3>1. CASE k \in StartMsgs(down'[d])
      <4>1. Ahead(puts, {m}, down'[d])
        BY <1>3, OrderedDrop DEF OrderInv
      <4>2. QED
        BY <3>1, <4>1 DEF Ahead, StartMsgs
    <3>2. CASE \E e \in Clients : k \in StartMsgs(up[e])
      <4>1. PICK e \in Clients : k \in StartMsgs(up[e])
        BY <3>2
      <4>2. Ahead(puts, Shown(d) \cup Msgs(down[d]), up[e])
        BY DEF OrderInv
      <4>3. QED
        BY <1>1, <4>1, <4>2 DEF Ahead, StartMsgs
    <3>3. QED
      BY <2>2, <3>1, <3>2
  <2>8. m.from + Word <= k.from
    <3>1. k.file = f /\ k.des = d /\ ~IsText(k)
      BY <1>11 DEF IsPiece, IsText
    <3>2. QED
      BY <1>4, <2>6, <2>7, <3>1 DEF Before
  <2>9. QED
    BY <1>9, <2>4, <2>8
<1>12. QED
  BY <1>2, <1>6, <1>10, <1>11

LEMMA DiskInvStep ==
  ASSUME TypeInv, OriginInv, OrderInv, SoleInv, PutInv, DiskInv, Next
  PROVE  DiskInv'
<1> SUFFICES ASSUME NEW d \in Clients, NEW f \in Files, puts'[d][f] = 1
             PROVE  /\ Rising(disk'[d][f])
                    /\ \A c \in Clients :
                         put'[c] # NoPut /\ put'[c].file = f /\ put'[c].des = d =>
                           Within(disk'[d][f], put'[c].from)
                    /\ \A m \in Starts(d)' : IsPiece(m, f, d) => Within(disk'[d][f], m.from)
  BY DEF DiskInv
<1>1. puts[d][f] = 0 \/ puts[d][f] = 1
  BY PutsStep
<1>2. CASE puts[d][f] = 0
  <2>1. disk'[d][f] = <<>>
    <3>1. disk[d][f] = <<>> /\ \A c \in Clients : ~Sends(c, f, d)
      BY <1>2 DEF SoleInv
    <3>2. SUFFICES ASSUME disk'[d][f] # disk[d][f] PROVE FALSE
      BY <3>1
    <3>3. PICK m \in Msgs(down[d]) : IsPiece(m, f, d) /\ m \in Msg
      BY <3>2, DiskStep
    <3>4. m \in Under /\ m.src \in Clients
      BY <3>3 DEF Under, Msg
    <3>5. QED
      BY <3>1, <3>3, <3>4 DEF Sends
  <2>2. DOMAIN disk'[d][f] = {}
    BY <2>1
  <2>3. QED
    BY <2>2 DEF Rising, Within
<1>3. CASE puts[d][f] = 1 /\ disk'[d][f] = disk[d][f]
  BY <1>3, DiskKept
<1>4. CASE puts[d][f] = 1 /\ disk'[d][f] # disk[d][f]
  BY <1>4, DiskGrown
<1>5. QED
  BY <1>1, <1>2, <1>3, <1>4

-----------------------------------------------------------------------------
(* The theorems.                                                            *)

Inv == /\ TypeInv /\ FrameInv /\ OriginInv /\ OrderInv
       /\ DueInv /\ SoleInv /\ PutInv /\ DiskInv

LEMMA InvInit == Init => Inv
<1> SUFFICES ASSUME Init PROVE Inv
  OBVIOUS
<1>1. \A c \in Clients : up[c] = <<>> /\ down[c] = <<>> /\ seen[c] = <<>> /\ put[c] = NoPut
                         /\ due[c] = {} /\ \A f \in Files : disk[c][f] = <<>> /\ puts[c][f] = 0
  BY DEF Init
<1>2. DOMAIN <<>> = {}
  OBVIOUS
<1>3. \A c \in Clients : Msgs(up[c]) = {} /\ Msgs(down[c]) = {} /\ Shown(c) = {}
                         /\ Begun(down[c]) = {}
  BY <1>1, <1>2 DEF Msgs, Shown, Begun
<1>4. TypeInv
  BY TypeInit
<1>5. FrameInv
  BY <1>1, FramesEmpty DEF FrameInv, Init
<1>6. OriginInv
  BY <1>1, <1>3 DEF OriginInv
<1>7. OrderInv
  BY <1>1, <1>2, <1>3 DEF OrderInv, Ordered, Ahead
<1>8. DueInv
  BY <1>1, <1>3 DEF DueInv
<1>9. Under = {}
  BY <1>3 DEF Under
<1>10. SoleInv /\ PutInv /\ DiskInv
  BY <1>1, <1>9 DEF SoleInv, PutInv, DiskInv, Sends
<1>11. QED
  BY <1>4, <1>5, <1>6, <1>7, <1>8, <1>10 DEF Inv

LEMMA InvStep == Inv /\ [Next]_vars => Inv'
<1>1. ASSUME Inv, Next PROVE Inv'
  <2> USE <1>1 DEF Inv
  <2>1. TypeInv'
    BY TypeStep
  <2>2. FrameInv' /\ OriginInv'
    BY FrameStep, OriginStep
  <2>3. OrderInv'
    BY OrderStep
  <2>4. DueInv'
    BY DueStep
  <2>5. SoleInv'
    BY SoleStep
  <2>6. PutInv'
    BY <2>1, PutStep
  <2>7. DiskInv'
    BY DiskInvStep
  <2>8. QED
    BY <2>1, <2>2, <2>3, <2>4, <2>5, <2>6, <2>7
<1>2. ASSUME Inv, UNCHANGED vars PROVE Inv'
  <2>1. UNCHANGED <<up, down, put, packets, disk, seen, joined, mixed, puts, due,
                    grouped, padded, online, srv, sent>>
    BY <1>2 DEF vars, wires, clientV, history
  <2>2. TypeInv' /\ FrameInv' /\ OriginInv'
    BY <1>2, <2>1 DEF Inv, TypeInv, FrameInv, OriginInv, Shown
  <2>8. \A c : Shown(c)' = Shown(c)
    BY <2>1 DEF Shown
  <2>9. OrderInv'
    BY <1>2, <2>1, <2>8 DEF Inv, OrderInv
  <2>3. OrderInv' /\ DueInv'
    BY <1>2, <2>1, <2>8, <2>9 DEF Inv, DueInv
  <2>4. Under' = Under /\ \A d : Starts(d)' = Starts(d)
    BY <2>1 DEF Under, Starts
  <2>5. \A c, f, d : Sends(c, f, d)' <=> Sends(c, f, d)
    BY <2>1, <2>4 DEF Sends
  <2>6. SoleInv' /\ PutInv' /\ DiskInv'
    BY <1>2, <2>1, <2>4, <2>5 DEF Inv, SoleInv, PutInv, DiskInv
  <2>7. QED
    BY <2>2, <2>3, <2>6 DEF Inv
<1>3. QED
  BY <1>1, <1>2

LEMMA InvAlways == Spec => []Inv
<1>1. QED
  BY InvInit, InvStep, PTL DEF Spec

\* A count of pieces whose bodies do not fill the file is at most the pieces
\* that follow the first.
LEMMA PiecesBound ==
  ASSUME NEW n \in Nat, NEW z \in Nat, n * Word < z
  PROVE  n <= (z - 1) \div Word
<1>1. Word \in Nat /\ Word >= 1
  BY Constants
<1>2. \A w, q, k : w \in Nat /\ w >= 1 /\ q \in Int /\ k \in Nat /\ k >= q + 1
                     => k * w >= (q + 1) * w
  OBVIOUS
<1> DEFINE q == (z - 1) \div Word
<1>3. q \in Int /\ z - 1 < (q + 1) * Word
  BY <1>1
<1>4. QED
  BY <1>1, <1>2, <1>3

LEMMA Typed == Inv => TypeOK
<1> SUFFICES ASSUME Inv PROVE TypeOK
  OBVIOUS
<1> USE DEF Inv
<1>1. ASSUME NEW c \in Clients
      PROVE  /\ \A i \in DOMAIN up[c] : up[c][i] \in Byte
             /\ \A i \in DOMAIN down[c] : down[c][i] \in Byte
  BY ElementOfSeq, LenProperties DEF TypeInv
<1>2. ASSUME NEW c \in Clients, put[c] # NoPut
      PROVE  put[c].from \in 0..(Size[put[c].file] - 1)
  <2>1. put[c] \in Puts /\ put[c].from < Size[put[c].file]
    BY <1>2 DEF TypeInv
  <2>2. put[c].from \in Nat /\ Size[put[c].file] \in Nat
    BY <2>1, Constants DEF Puts
  <2>3. QED
    BY <2>1, <2>2
<1>3. ASSUME NEW c \in Clients, packets[c] # 0
      PROVE  \E f \in Files : packets[c] <= MorePieces(f)
  <2>1. PICK f \in Files : packets[c] * Word < Size[f]
    BY <1>3 DEF TypeInv
  <2>2. packets[c] \in Nat /\ Size[f] \in Nat
    BY Constants DEF TypeInv
  <2>3. packets[c] <= (Size[f] - 1) \div Word
    BY <2>1, <2>2, PiecesBound
  <2>4. QED
    BY <2>3 DEF MorePieces
<1>4. QED
  BY <1>1, <1>2, <1>3 DEF TypeInv, TypeOK

\* Connections on which no structure was cut short, or followed by a byte that
\* its reader does not ask for, keep the boundaries between messages, and only
\* who sent a text to all can end the server.
THEOREM FramingAligned == Spec => []Aligned
<1>1. Inv => Aligned
  <2> SUFFICES ASSUME Inv PROVE Aligned
    OBVIOUS
  <2>1. TypeOK
    BY Typed
  <2>2. ASSUME NEW c \in Clients \ grouped, up[c] # <<>> PROVE up[c][1].at = Start
    <3>1. up[c] \in Seq(Byte) /\ Frames(up[c], Last) /\ Last \in 1..Last
      BY Constants DEF Inv, TypeInv, FrameInv
    <3>2. QED
      BY <2>2, <3>1, FramesFirst
  <2>3. ASSUME NEW c \in Clients \ padded, down[c] # <<>> PROVE down[c][1].at = Start
    <3>1. down[c] \in Seq(Byte) /\ Frames(down[c], Last - 1) /\ Last - 1 \in 1..Last
      BY Constants DEF Inv, TypeInv, FrameInv
    <3>2. QED
      BY <2>3, <3>1, FramesFirst
  <2>4. srv = "down" => grouped # {}
    BY DEF Inv, FrameInv
  <2>5. QED
    BY <2>1, <2>2, <2>3, <2>4 DEF Aligned
<1>2. QED
  BY <1>1, InvAlways, PTL

\* Texts of one sender are shown in order and once, and those that were written
\* to a client are shown or on their way, unless a read that returned bytes of
\* two messages lost the beginning of one.
THEOREM FramingTexts == Spec => []TextsKept
<1>1. Inv => TextsKept
  <2> SUFFICES ASSUME Inv, NEW c \in Clients
               PROVE  /\ \A i, j \in DOMAIN seen[c] :
                           i < j /\ seen[c][i].src = seen[c][j].src
                             => seen[c][i].id < seen[c][j].id
                      /\ ~joined \/ c \notin padded =>
                           due[c] = {seen[c][i].id : i \in DOMAIN seen[c]}
                             \cup {down[c][i].msg.id : i \in
                                     {j \in DOMAIN down[c] : down[c][j].at = Start
                                                  /\ down[c][j].msg.kind # "file"}}
    BY DEF TextsKept
  <2>1. ASSUME NEW i \in DOMAIN seen[c], NEW j \in DOMAIN seen[c], i < j,
               seen[c][i].src = seen[c][j].src
        PROVE  seen[c][i].id < seen[c][j].id
    <3>1. IsText(seen[c][i]) /\ IsText(seen[c][j])
      BY DEF Inv, OriginInv, Shown
    <3>2. Before(puts, seen[c][i], seen[c][j])
      BY <2>1 DEF Inv, OrderInv
    <3>3. QED
      BY <2>1, <3>1, <3>2 DEF Before
  <2>2. {m.id : m \in Shown(c)} = {seen[c][i].id : i \in DOMAIN seen[c]}
    BY DEF Shown
  <2>3. Begun(down[c]) = {down[c][i].msg.id : i \in
                            {j \in DOMAIN down[c] : down[c][j].at = Start
                                         /\ down[c][j].msg.kind # "file"}}
    BY DEF Begun, IsText
  <2>4. QED
    BY <2>1, <2>2, <2>3 DEF Inv, DueInv
<1>2. QED
  BY <1>1, InvAlways, PTL

\* Whatever the reads return, and however many send at a time: of a file that
\* was sent to a user once no byte is written twice, or before one it follows.
THEOREM FramingBytes == Spec => []BytesInOrder
<1>1. Inv => BytesInOrder
  <2> SUFFICES ASSUME Inv, NEW d \in Clients, NEW f \in Files, puts[d][f] <= 1
               PROVE  Rising(disk[d][f])
    BY DEF BytesInOrder, Rising
  <2>1. puts[d][f] = 0 \/ puts[d][f] = 1
    BY DEF Inv, TypeInv
  <2>2. CASE puts[d][f] = 0
    <3>1. disk[d][f] = <<>>
      BY <2>2 DEF Inv, SoleInv
    <3>2. DOMAIN disk[d][f] = {}
      BY <3>1
    <3>3. QED
      BY <3>2 DEF Rising
  <2>3. CASE puts[d][f] = 1
    BY <2>3 DEF Inv, DiskInv
  <2>4. QED
    BY <2>1, <2>2, <2>3
<1>2. QED
  BY <1>1, InvAlways, PTL

-----------------------------------------------------------------------------
(* Files that arrive whole: what is sent of a file, and still to come, makes  *)
(* what its receiver holds of it complete.                                   *)

\* What client m.src has still to send of a file: m is a piece of that.
ToSend(m) ==
  /\ put[m.src] # NoPut /\ m.id = put[m.src].id /\ m.des = put[m.src].des
  /\ m.file = put[m.src].file /\ m.from >= put[m.src].from

\* A place where a piece of a file begins.
Multiple(x) == \E q \in Nat : x = q * Word
Begins(m) == m.from < Size[m.file] /\ Multiple(m.from)

\* The pieces of files for d that are under way or to be sent.
ToCome(d) ==
  {m \in Msg : /\ ~IsText(m) /\ m.des = d
               /\ \/ m \in StartMsgs(up[m.src])
                  \/ m \in StartMsgs(down[d])
                  \/ ToSend(m) /\ Begins(m)}

First(m, M) == m \in M /\ \A k \in M : k = m \/ Precedes(m, k)
IdsOf(M, f) == {m.id : m \in {k \in M : k.file = f}}

\* Piece m of a file from place n on.
From(m, n) == [m EXCEPT !.from = n]

\* M are pieces for d from one sender: of a file that is being received all that
\* follow piece p, in the count of the receiver, and of others all.
Chain(d, M, p) ==
  /\ \A m, k \in M : m.src = k.src /\ (m.id = k.id => m.file = k.file)
  /\ \A m \in M : m.file \in Files /\ m.src # d /\ Begins(m)
  /\ \A m \in M : m.from + Word < Size[m.file] => From(m, m.from + Word) \in M
  /\ \A m, k \in M : k.id < m.id => From(m, 0) \in M
  /\ \A m \in M : First(m, M) =>
       IF <<d, m.file>> \in NoAccess THEN p = 0 ELSE m.from = p * Word
  /\ M = {} => p = 0

\* b is k times what is expected of f, and x bytes more.
Holds(b, f, k, x) ==
  /\ Len(b) = k * Len(Expected(f)) + x
  /\ \A q \in Nat, r \in 1..Len(Expected(f)) :
       q * Len(Expected(f)) + r \in DOMAIN b => b[q * Len(Expected(f)) + r] = Expected(f)[r]

\* What b holds of f, that was sent n times, if the pieces in M are to come.
Received(b, f, n, M) ==
  LET k == n - Cardinality(IdsOf(M, f))
  IN /\ k \in Nat
     /\ \A m \in M : First(m, M) /\ m.file = f => Holds(b, f, k, m.from)
     /\ (\A m \in M : First(m, M) => m.file # f) => Holds(b, f, k, 0)

\* What d has and what is to come for it are the files that were sent to it.
Whole(d) ==
  /\ Chain(d, ToCome(d), packets[d])
  /\ \A f \in Files : <<d, f>> \notin NoAccess =>
       Received(disk[d][f], f, puts[d][f], ToCome(d))

WholeInv == ~joined => \A d \in Clients \ mixed : Whole(d)

-----------------------------------------------------------------------------
(* Places in copies of a file.                                              *)

LEMMA Multiples ==
  /\ Multiple(0)
  /\ \A x : Multiple(x) => x \in Nat /\ Multiple(x + Word)
  /\ \A x, y : Multiple(x) /\ Multiple(y) /\ x < y => x + Word <= y
<1>1. Word \in Nat /\ Word >= 1
  BY Constants
<1>2. \A w, q, r \in Nat : /\ 0 * w = 0 /\ q * w \in Nat /\ q * w + w = (q + 1) * w
                           /\ q + 1 <= r => (q + 1) * w <= r * w
                           /\ r <= q => r * w <= q * w
  OBVIOUS
<1>3. Multiple(0)
  BY <1>1, <1>2 DEF Multiple
<1>4. ASSUME NEW x, Multiple(x)
      PROVE  x \in Nat /\ Multiple(x + Word)
  <2>1. PICK q \in Nat : x = q * Word
    BY <1>4 DEF Multiple
  <2>2. x \in Nat /\ x + Word = (q + 1) * Word /\ q + 1 \in Nat
    BY <1>1, <1>2, <2>1
  <2>3. QED
    BY <2>2 DEF Multiple
<1>5. ASSUME NEW x, NEW y, Multiple(x), Multiple(y), x < y
      PROVE  x + Word <= y
  <2>1. PICK q \in Nat : x = q * Word
    BY <1>5 DEF Multiple
  <2>2. PICK r \in Nat : y = r * Word
    BY <1>5 DEF Multiple
  <2>3. x \in Nat /\ y \in Nat
    BY <1>4, <1>5
  <2>4. ~(r <= q)
    BY <1>1, <1>2, <1>5, <2>1, <2>2, <2>3
  <2>5. (q + 1) * Word <= r * Word
    BY <1>1, <1>2, <2>4
  <2>6. QED
    BY <1>1, <1>2, <2>1, <2>2, <2>5
<1>6. QED
  BY <1>3, <1>4, <1>5

\* A place in one of several copies, each of l bytes.
LEMMA OnePlace ==
  ASSUME NEW l \in Nat, NEW q \in Nat, NEW p \in Nat, NEW r \in 1..l, NEW s \in 1..l,
         q * l + r = p * l + s
  PROVE  q = p /\ r = s
<1>1. \A a, b \in Nat : /\ a * l \in Nat
                        /\ a + 1 <= b => a * l + l <= b * l
  <2> SUFFICES ASSUME NEW a \in Nat, NEW b \in Nat
               PROVE  a * l \in Nat /\ (a + 1 <= b => a * l + l <= b * l)
    OBVIOUS
  <2>1. a * l + l = (a + 1) * l
    OBVIOUS
  <2>2. a + 1 <= b => (a + 1) * l <= b * l
    OBVIOUS
  <2>3. QED
    BY <2>1, <2>2
<1>2. ~(q + 1 <= p)
  <2>1. q * l \in Nat /\ p * l \in Nat
    BY <1>1
  <2>2. q + 1 <= p => q * l + l <= p * l
    BY <1>1
  <2>3. QED
    BY <2>1, <2>2
<1>3. ~(p + 1 <= q)
  <2>1. q * l \in Nat /\ p * l \in Nat
    BY <1>1
  <2>2. p + 1 <= q => p * l + l <= q * l
    BY <1>1
  <2>3. QED
    BY <2>1, <2>2
<1>4. q = p
  BY <1>2, <1>3
<1>5. QED
  BY <1>1, <1>4

\* A place among copies, as quotient and remainder.
LEMMA Place ==
  ASSUME NEW l \in Nat, l >= 1, NEW i \in Nat, i >= 1
  PROVE  LET r == ((i - 1) % l) + 1
             q == (i - 1) \div l
         IN q \in Nat /\ r \in 1..l /\ i = q * l + r
OBVIOUS

\* The body that ends what is expected of file f.
Ending(f) == [i \in 1..Word |-> FileByte(f, MorePieces(f) * Word + i)]
EndOf(f)  == IF f \in Images THEN Ending(f) ELSE SubSeq(Ending(f), 1, StrLen(Ending(f)))

\* A body, and as much of it as a receiver writes.
LEMMA EndBytes ==
  ASSUME NEW f, MorePieces(f) \in Int
  PROVE  LET V == {Zero} \cup {<<f, q>> : q \in Int}
         IN /\ EndOf(f) \in Seq(V) /\ Len(EndOf(f)) \in Nat /\ Len(EndOf(f)) <= Word
            /\ f \in Images => Len(EndOf(f)) = Word
            /\ \A i \in 1..Len(EndOf(f)) : EndOf(f)[i] = FileByte(f, MorePieces(f) * Word + i)
<1> DEFINE V == {Zero} \cup {<<f, q>> : q \in Int}
           b == Ending(f)
           k == StrLen(b)
           n == MorePieces(f) * Word
<1>1. Word \in Nat /\ n \in Int
  BY Constants
<1>2. \A i \in 1..Word : n + i \in Int /\ FileByte(f, n + i) \in V
  <2> HIDE DEF n
  <2>1. QED
    BY <1>1 DEF FileByte
<1>3. b \in [1..Word -> V] /\ \A i \in 1..Word : b[i] = FileByte(f, n + i)
  BY <1>2 DEF Ending
<1>4. b \in Seq(V) /\ Len(b) = Word /\ DOMAIN b = 1..Word
  BY <1>1, <1>3, SeqDef
<1>5. k \in 0..Word /\ k \in Nat /\ k \in Int
  BY <1>1, StrLenBound
<1> HIDE DEF V, b, k, n
<1>6. CASE EndOf(f) = b
  BY <1>1, <1>3, <1>4, <1>6 DEF n, V
<1>7. CASE EndOf(f) = SubSeq(b, 1, k) /\ f \notin Images
  <2>1. \A i \in 1..k : b[i] \in V /\ i \in 1..Word
    BY <1>1, <1>3, <1>5
  <2>2. /\ SubSeq(b, 1, k) \in Seq(V)
        /\ Len(SubSeq(b, 1, k)) = IF 1 <= k THEN k - 1 + 1 ELSE 0
        /\ \A i \in 1..(k - 1 + 1) : SubSeq(b, 1, k)[i] = b[1 + i - 1]
    BY <1>5, <2>1, SubSeqProperties
  <2>3. Len(SubSeq(b, 1, k)) = k /\ k <= Word
    BY <1>1, <1>5, <2>2
  <2>4. ASSUME NEW i \in 1..k PROVE SubSeq(b, 1, k)[i] = FileByte(f, n + i)
    <3>1. i \in 1..(k - 1 + 1) /\ 1 + i - 1 = i
      BY <1>5
    <3>2. QED
      BY <1>3, <2>1, <2>2, <3>1
  <2>5. QED
    BY <1>5, <1>7, <2>2, <2>3, <2>4 DEF n, V
<1>8. QED
  BY <1>6, <1>7 DEF EndOf, b, k

LEMMA ExpectedBytes ==
  ASSUME NEW f \in Files
  PROVE  LET n == MorePieces(f) * Word
             e == Expected(f)
         IN /\ Len(e) \in Nat /\ MorePieces(f) \in Int
            /\ Size[f] > 0 =>
                 /\ n \in Nat /\ Multiple(n) /\ n < Size[f] /\ Size[f] <= n + Word
                 /\ Len(e) = n + Len(EndOf(f))
                 /\ \A i \in 1..n : e[i] = FileByte(f, i)
                 /\ \A i \in 1..Len(EndOf(f)) : e[n + i] = FileByte(f, n + i)
<1> DEFINE V == {Zero} \cup {<<f, q>> : q \in Int}
           n == MorePieces(f) * Word
           a == [i \in 1..n |-> FileByte(f, i)]
           b == EndOf(f)
<1>1. Word \in Nat /\ Word >= 1 /\ Size[f] \in Nat
  BY Constants
<1>2. MorePieces(f) \in Int /\ n \in Int
  BY <1>1 DEF MorePieces
<1>3. /\ b \in Seq(V) /\ Len(b) \in Nat
      /\ \A i \in 1..Len(b) : b[i] = FileByte(f, n + i)
  BY <1>2, EndBytes
<1>4. \A i \in 1..n : FileByte(f, i) \in V
  BY <1>2 DEF FileByte
<1>5. Expected(f) = a \o b
  BY DEF Expected, EndOf, Ending
<1>6. a \in Seq(V) /\ Len(a) = IF n \in Nat THEN n ELSE 0
  <2>1. CASE n \in Nat
    BY <1>4, <2>1, SeqDef
  <2>2. CASE ~(n \in Nat)
    <3>1. 1..n = 1..0
      BY <1>2, <2>2
    <3>2. a \in [1..0 -> V]
      BY <1>4, <3>1
    <3> HIDE DEF a
    <3>3. a \in Seq(V) /\ DOMAIN a = 1..0
      BY <3>2, SeqDef
    <3>4. Len(a) = 0
      BY <3>3, LenProperties
    <3>5. QED
      BY <2>2, <3>3, <3>4
  <2>3. QED
    BY <2>1, <2>2
<1>7. Size[f] > 0 => n \in Nat /\ Multiple(n) /\ n < Size[f] /\ Size[f] <= n + Word
  <2>1. \A z, w \in Nat : z > 0 /\ w >= 1 =>
          LET q == (z - 1) \div w IN q \in Nat /\ q * w < z /\ z <= q * w + w
    OBVIOUS
  <2>2. Size[f] > 0 => MorePieces(f) \in Nat /\ n < Size[f] /\ Size[f] <= n + Word
    BY <1>1, <2>1 DEF MorePieces
  <2>3. MorePieces(f) \in Nat => n \in Nat
    BY <1>1
  <2>4. QED
    BY <2>2, <2>3 DEF Multiple
<1> HIDE DEF V, n, b
<1>8. /\ a \o b \in Seq(V) /\ Len(a \o b) = Len(a) + Len(b)
      /\ \A i \in 1..(Len(a) + Len(b)) : (a \o b)[i] = IF i <= Len(a) THEN a[i] ELSE b[i - Len(a)]
  <2>1. a \in Seq(V) /\ b \in Seq(V)
    BY <1>3, <1>6
  <2> HIDE DEF a
  <2>2. QED
    BY ONLY <2>1, ConcatProperties
<1>9. Len(a) \in Nat
  <2> HIDE DEF a
  <2>1. QED
    BY <1>6
<1>10. ASSUME n \in Nat
       PROVE  /\ Len(a) = n
              /\ \A i \in 1..n : (a \o b)[i] = FileByte(f, i)
              /\ \A i \in 1..Len(b) : (a \o b)[n + i] = FileByte(f, n + i)
  <2>1. Len(a) = n
    BY <1>6, <1>10
  <2>2. ASSUME NEW i \in 1..n PROVE (a \o b)[i] = FileByte(f, i)
    <3>1. i \in 1..(Len(a) + Len(b)) /\ i <= Len(a) /\ a[i] = FileByte(f, i)
      BY <1>3, <1>10, <2>1
    <3>2. QED
      BY <1>8, <3>1
  <2>3. ASSUME NEW i \in 1..Len(b) PROVE (a \o b)[n + i] = FileByte(f, n + i)
    <3>1. n + i \in 1..(Len(a) + Len(b)) /\ ~(n + i <= Len(a)) /\ (n + i) - Len(a) = i
      BY <1>3, <1>10, <2>1
    <3>2. QED
      BY <1>3, <1>8, <3>1
  <2>4. QED
    BY <2>1, <2>2, <2>3
<1>11. QED
  <2> HIDE DEF a
  <2>1. Len(a \o b) \in Nat
    BY <1>3, <1>8, <1>9
  <2>2. QED
    BY <1>2, <1>5, <1>7, <1>8, <1>10, <2>1 DEF n, b

\* What is written of a piece is what is expected there, and the last piece ends
\* the file.
LEMMA PieceIsPart ==
  ASSUME NEW m \in Msg, m.file \in Files, Begins(m), NEW p \in Nat, m.from = p * Word
  PROVE  LET c == Written(m, p)
             e == Expected(m.file)
         IN /\ Len(c) \in Nat /\ Len(e) \in Nat /\ m.from + Len(c) <= Len(e)
            /\ \A i \in 1..Len(c) : c[i] = e[m.from + i]
            /\ IsLast(m, p) <=> ~(m.from + Word < Size[m.file])
            /\ IsLast(m, p) => m.from + Len(c) = Len(e)
            /\ ~IsLast(m, p) => Len(c) = Word
<1> DEFINE f == m.file
           n == MorePieces(f) * Word
           c == Written(m, p)
           e == Expected(f)
<1>1. Word \in Nat /\ Word >= 1 /\ Size[f] \in Nat /\ m.from \in Nat /\ Multiple(m.from)
      /\ m.from < Size[f] /\ Size[f] > 0
  BY Constants DEF Msg, Begins
<1>2. /\ Len(e) \in Nat /\ MorePieces(f) \in Int
      /\ n \in Nat /\ Multiple(n) /\ n < Size[f] /\ Size[f] <= n + Word
      /\ Len(e) = n + Len(EndOf(f))
      /\ \A i \in 1..n : e[i] = FileByte(f, i)
      /\ \A i \in 1..Len(EndOf(f)) : e[n + i] = FileByte(f, n + i)
  BY <1>1, ExpectedBytes
<1>3. (p + 1) * Word = m.from + Word
  <2>1. (p + 1) * Word = p * Word + Word
    BY <1>1
  <2>2. QED
    BY <2>1
<1>4. IsLast(m, p) <=> ~(m.from + Word < Size[f])
  BY <1>1, <1>3 DEF IsLast
<1>5. CASE IsLast(m, p)
  <2>1. m.from = n
    <3>1. ~(m.from < n)
      <4>1. m.from < n => m.from + Word <= n
        BY <1>1, <1>2, Multiples
      <4>2. QED
        BY <1>1, <1>2, <1>4, <1>5, <4>1
    <3>2. ~(n < m.from)
      <4>1. n < m.from => n + Word <= m.from
        BY <1>1, <1>2, Multiples
      <4>2. QED
        BY <1>1, <1>2, <4>1
    <3> HIDE DEF n
    <3>3. QED
      BY <1>1, <1>2, <3>1, <3>2
  <2>2. Piece(m) = Ending(f)
    BY <2>1 DEF Piece, Ending
  <2>3. c = EndOf(f)
    BY <1>5, <2>2 DEF Written, EndOf
  <2>4. /\ Len(EndOf(f)) \in Nat
        /\ \A i \in 1..Len(EndOf(f)) : EndOf(f)[i] = FileByte(f, n + i)
    BY <1>2, EndBytes
  <2> HIDE DEF c, e, n
  <2>5. \A i \in 1..Len(c) : c[i] = e[m.from + i]
    BY <1>2, <2>1, <2>3, <2>4
  <2>6. m.from + Len(c) = Len(e)
    BY <1>2, <2>1, <2>3, <2>4
  <2>7. QED
    BY <1>1, <1>2, <1>4, <1>5, <2>3, <2>4, <2>5, <2>6 DEF c, e
<1>6. CASE ~IsLast(m, p)
  <2>1. m.from + Word <= n
    <3>1. m.from < n
      BY <1>1, <1>2, <1>4, <1>6
    <3>2. QED
      BY <1>1, <1>2, <3>1, Multiples
  <2>2. c = Piece(m)
    BY <1>6 DEF Written
  <2>3. Len(c) = Word
    BY <2>2, PieceBytes
  <2>4. Len(EndOf(f)) \in Nat
    BY <1>2, EndBytes
  <2>5. ASSUME NEW i \in 1..Word PROVE c[i] = e[m.from + i]
    <3>1. c[i] = FileByte(f, m.from + i)
      BY <2>2 DEF Piece
    <3>2. m.from + i \in 1..n
      <4> HIDE DEF n
      <4>1. QED
        BY <1>1, <1>2, <2>1
    <3>3. QED
      BY <1>2, <3>1, <3>2
  <2> HIDE DEF c, e, n
  <2>6. m.from + Len(c) <= Len(e) /\ Len(c) \in Nat
    BY <1>1, <1>2, <2>1, <2>3, <2>4
  <2>7. QED
    BY <1>1, <1>2, <1>4, <1>6, <2>3, <2>5, <2>6 DEF c, e
<1>7. QED
  BY <1>5, <1>6

-----------------------------------------------------------------------------
(* What is held of a file, piece by piece.                                   *)

\* A file with some copies, and the next bytes of another.
LEMMA HoldsMore ==
  ASSUME NEW V, NEW b \in Seq(V), NEW c \in Seq(V), NEW f, NEW k \in Nat, NEW x \in Nat,
         Holds(b, f, k, x), Len(Expected(f)) \in Nat, x + Len(c) <= Len(Expected(f)),
         \A i \in 1..Len(c) : c[i] = Expected(f)[x + i]
  PROVE  Holds(b \o c, f, k, x + Len(c))
<1> DEFINE e == Expected(f)
           l == Len(e)
           y == k * l
<1>1. l \in Nat /\ y \in Nat /\ Len(b) = y + x /\ Len(b) \in Nat /\ Len(c) \in Nat
      /\ DOMAIN b = 1..Len(b) /\ x + Len(c) <= l
  BY DEF Holds
<1>2. /\ b \o c \in Seq(V) /\ Len(b \o c) = Len(b) + Len(c)
      /\ \A i \in 1..(Len(b) + Len(c)) :
           (b \o c)[i] = IF i <= Len(b) THEN b[i] ELSE c[i - Len(b)]
  BY ConcatProperties
<1>3. DOMAIN (b \o c) = 1..(Len(b) + Len(c))
  BY <1>2
<1>4. ASSUME NEW q \in Nat, NEW r \in 1..l, q * l + r \in DOMAIN (b \o c)
      PROVE  (b \o c)[q * l + r] = e[r]
  <2> DEFINE i == q * l + r
  <2>1. i \in 1..(Len(b) + Len(c))
    BY <1>3, <1>4
  <2>2. CASE i <= Len(b)
    <3>1. i \in DOMAIN b
      BY <1>1, <2>1, <2>2
    <3>2. b[i] = e[r]
      BY <3>1 DEF Holds
    <3>3. QED
      BY <1>2, <2>1, <2>2, <3>2
  <2>3. CASE ~(i <= Len(b))
    <3> DEFINE j == i - Len(b)
               s == x + j
    <3> HIDE DEF i, y, l
    <3>1. j \in 1..Len(c) /\ s \in 1..l /\ i = y + s
      BY ONLY <1>1, <2>1, <2>3, x \in Nat
    <3>2. q * l + r = k * l + s
      BY <3>1 DEF i, y
    <3>3. r = s
      <4> HIDE DEF s
      <4>1. QED
        BY ONLY <1>1, <3>1, <3>2, OnePlace, q \in Nat, k \in Nat, r \in 1..l
    <3>4. (b \o c)[i] = c[j]
      BY <1>2, <2>1, <2>3
    <3>5. QED
      BY <3>1, <3>3, <3>4 DEF i, e
  <2>4. QED
    BY <2>2, <2>3
<1>5. Len(b \o c) = k * l + (x + Len(c))
  <2> HIDE DEF l, e, y
  <2>1. Len(b \o c) = y + (x + Len(c))
    BY <1>1, <1>2
  <2>2. QED
    BY <2>1 DEF y
<1>6. QED
  BY <1>4, <1>5 DEF Holds

\* All bytes of another make a copy more.
LEMMA HoldsWhole ==
  ASSUME NEW b, NEW f, NEW k \in Nat, Len(Expected(f)) \in Nat,
         Holds(b, f, k, Len(Expected(f)))
  PROVE  Holds(b, f, k + 1, 0)
<1> DEFINE l == Len(Expected(f))
<1>1. \A n \in Nat : k * n + n = (k + 1) * n + 0
  OBVIOUS
<1>2. k * l + l = (k + 1) * l + 0
  <2> HIDE DEF l
  <2>1. l \in Nat
    BY DEF l
  <2>2. QED
    BY <1>1, <2>1
<1>3. QED
  BY <1>2 DEF Holds

-----------------------------------------------------------------------------
(* Pieces to come, as they are read and offered.                             *)

\* Sets of pieces for one client.
PiecesTo(d) == {m \in Msg : ~IsText(m) /\ m.des = d}

LEMMA PieceTypes ==
  ASSUME NEW d, NEW m \in PiecesTo(d)
  PROVE  /\ m \in Msg /\ m.kind = "file" /\ m.des = d
         /\ m.id \in Nat /\ m.id \in Ids /\ m.from \in Nat /\ m.src \in Clients
<1>1. m \in Msg /\ m.kind = "file" /\ m.des = d
  BY DEF PiecesTo, IsText
<1>2. QED
  BY <1>1, Constants DEF Msg, Ids

LEMMA PieceFrom ==
  ASSUME NEW d, NEW m \in PiecesTo(d), NEW n \in Nat
  PROVE  /\ From(m, n) \in PiecesTo(d)
         /\ From(m, n).id = m.id /\ From(m, n).src = m.src
         /\ From(m, n).file = m.file /\ From(m, n).from = n
BY PieceTypes DEF From, Msg, PiecesTo, IsText

LEMMA PieceSame ==
  ASSUME NEW d, NEW m \in PiecesTo(d), NEW k \in PiecesTo(d),
         k.id = m.id, k.src = m.src, k.file = m.file
  PROVE  k = From(m, k.from) /\ (k.from = m.from => k = m)
<1>1. m \in Msg /\ m.kind = "file" /\ m.des = d
  BY DEF PiecesTo, IsText
<1>2. k \in Msg /\ k.kind = "file" /\ k.des = d
  BY DEF PiecesTo, IsText
<1>3. k = From(m, k.from)
  BY <1>1, <1>2 DEF Msg, From
<1>4. k.from = m.from => k = m
  BY <1>1, <1>2 DEF Msg
<1>5. QED
  BY <1>3, <1>4

LEMMA PrecedesOnce ==
  ASSUME NEW d, NEW m \in PiecesTo(d), NEW k \in PiecesTo(d), Precedes(m, k)
  PROVE  ~Precedes(k, m) /\ m # k /\ m.id <= k.id
<1>1. m.id \in Nat /\ m.from \in Nat /\ k.id \in Nat /\ k.from \in Nat
  BY PieceTypes
<1>2. QED
  BY <1>1, Constants DEF Precedes

LEMMA FirstOnce ==
  ASSUME NEW d, NEW M \in SUBSET PiecesTo(d), NEW m, NEW k, First(m, M), First(k, M)
  PROVE  m = k
<1>1. m \in PiecesTo(d) /\ k \in PiecesTo(d)
  BY DEF First
<1>2. k = m \/ Precedes(m, k)
  BY DEF First
<1>3. k = m \/ Precedes(k, m)
  BY DEF First
<1>4. QED
  BY <1>1, <1>2, <1>3, PrecedesOnce

\* The first piece gone: the next one of its file comes first, or the beginning
\* of another file.
LEMMA FirstGone ==
  ASSUME NEW d, NEW M \in SUBSET PiecesTo(d), NEW p, Chain(d, M, p), NEW m, First(m, M)
  PROVE  LET R == M \ {m}
             n == From(m, m.from + Word)
         IN /\ m.from + Word < Size[m.file] =>
                 /\ n \in R /\ n.id = m.id /\ n.file = m.file /\ n.from = m.from + Word
                 /\ First(n, R) /\ \A k : First(k, R) => k = n
            /\ ~(m.from + Word < Size[m.file]) =>
                 \A k \in R : k.id # m.id /\ m.id <= k.id /\ (First(k, R) => k.from = 0)
<1> DEFINE R == M \ {m}
           n == From(m, m.from + Word)
<1>1. m \in M /\ m \in PiecesTo(d) /\ m.id \in Nat /\ m.from \in Nat
      /\ m.from + Word \in Nat /\ Word \in Nat /\ Word >= 1
  BY PieceTypes, Constants DEF First
<1>2. /\ \A k \in M : k.src = m.src /\ (k.id = m.id => k.file = m.file)
      /\ \A k \in M : k.file \in Files /\ Begins(k)
      /\ \A k, j \in M : j.id < k.id => From(k, 0) \in M
      /\ \A k \in M : k # m => Precedes(m, k)
  BY <1>1 DEF Chain, First
<1>3. \A k \in M : k.id \in Nat /\ k.from \in Nat /\ Size[k.file] \in Nat
  BY <1>2, PieceTypes, Constants
<1>4. CASE m.from + Word < Size[m.file]
  <2>1. n \in M
    BY <1>1, <1>4 DEF Chain
  <2>2. n \in PiecesTo(d) /\ n.id = m.id /\ n.file = m.file /\ n.from = m.from + Word
    BY <1>1, PieceFrom
  <2>3. n \in R
    BY <1>1, <2>1, <2>2
  <2>4. ASSUME NEW k \in R PROVE k = n \/ Precedes(n, k)
    <3>1. Precedes(m, k) /\ k \in M /\ k \in PiecesTo(d)
      BY <1>2
    <3>2. CASE k.id = m.id
      <4>1. m.from + Word <= k.from
        BY <1>1, <3>1, <3>2 DEF Precedes
      <4>2. CASE k.from = m.from + Word
        BY <1>1, <1>2, <3>1, <3>2, <4>2, PieceSame
      <4>3. CASE k.from # m.from + Word
        <5>1. n.from < k.from /\ Multiple(n.from) /\ Multiple(k.from)
          BY <1>1, <1>2, <1>3, <2>1, <2>2, <3>1, <4>1, <4>3 DEF Begins
        <5>2. n.from + Word <= k.from
          BY <5>1, Multiples
        <5>3. QED
          BY <2>2, <3>2, <5>2 DEF Precedes
      <4>4. QED
        BY <4>2, <4>3
    <3>3. CASE k.id # m.id
      BY <1>1, <1>3, <2>2, <3>1, <3>3 DEF Precedes
    <3>4. QED
      BY <3>2, <3>3
  <2> HIDE DEF R, n
  <2>5. First(n, R)
    BY <2>3, <2>4 DEF First
  <2>6. R \in SUBSET PiecesTo(d)
    BY DEF R
  <2>7. \A k : First(k, R) => k = n
    BY <2>5, <2>6, FirstOnce
  <2>8. QED
    BY <1>4, <2>2, <2>3, <2>5, <2>7 DEF R, n
<1>5. CASE ~(m.from + Word < Size[m.file])
  <2>1. ASSUME NEW k \in R PROVE k.id # m.id /\ m.id <= k.id
    <3>1. Precedes(m, k) /\ k \in M /\ k \in PiecesTo(d)
      BY <1>2
    <3>2. m.id <= k.id
      BY <1>1, <3>1, PrecedesOnce
    <3>3. SUFFICES ASSUME k.id = m.id PROVE FALSE
      BY <3>2
    <3>4. m.from + Word <= k.from /\ k.file = m.file /\ k.from < Size[k.file]
      BY <1>1, <1>2, <3>1, <3>3 DEF Precedes, Begins
    <3>5. QED
      BY <1>1, <1>3, <1>5, <3>1, <3>4
  <2>2. ASSUME NEW k \in R, First(k, R) PROVE k.from = 0
    <3>1. k \in M /\ k \in PiecesTo(d) /\ m.id < k.id
      BY <1>1, <1>3, <2>1
    <3>2. From(k, 0) \in M /\ From(k, 0) # m
      BY <1>1, <1>2, <2>1, <3>1, PieceFrom
    <3>3. k = From(k, 0) \/ Precedes(k, From(k, 0))
      BY <2>2, <3>2 DEF First
    <3>4. From(k, 0).from = 0 /\ From(k, 0).id = k.id /\ k.from \in Nat /\ k.id \in Nat
      BY <3>1, PieceTypes, PieceFrom
    <3>5. ~Precedes(k, From(k, 0))
      BY <1>1, <3>4 DEF Precedes
    <3>6. QED
      BY <3>3, <3>4, <3>5
  <2>3. QED
    BY <1>5, <2>1, <2>2
<1>6. QED
  BY <1>4, <1>5

\* The count of the receiver once it has read piece m.
Counted(d, m, p) ==
  IF <<d, m.file>> \in NoAccess THEN p ELSE IF IsLast(m, p) THEN 0 ELSE p + 1

\* A piece that comes first is the one the receiver counts on.
LEMMA LastPiece ==
  ASSUME NEW d, NEW M \in SUBSET PiecesTo(d), NEW p \in Nat, Chain(d, M, p),
         NEW m, First(m, M), <<d, m.file>> \notin NoAccess
  PROVE  /\ m \in Msg /\ m.file \in Files /\ Begins(m) /\ m.from = p * Word
         /\ IsLast(m, p) <=> ~(m.from + Word < Size[m.file])
<1>1. m \in M /\ m \in PiecesTo(d)
  BY DEF First
<1>2. m \in Msg /\ m.file \in Files /\ Begins(m) /\ m.from = p * Word
  BY <1>1, PieceTypes DEF Chain
<1>3. QED
  BY <1>2, PieceIsPart

LEMMA ChainRead ==
  ASSUME NEW d, NEW M \in SUBSET PiecesTo(d), NEW p \in Nat, Chain(d, M, p),
         NEW m, First(m, M)
  PROVE  Chain(d, M \ {m}, Counted(d, m, p))
<1> DEFINE R == M \ {m}
           n == From(m, m.from + Word)
           c == Counted(d, m, p)
<1>1. m \in M /\ m \in PiecesTo(d) /\ m.id \in Nat /\ m.from \in Nat
      /\ Word \in Nat /\ Word >= 1
  BY PieceTypes, Constants DEF First
<1>2. /\ m.from + Word < Size[m.file] =>
           /\ n \in R /\ n.id = m.id /\ n.file = m.file /\ n.from = m.from + Word
           /\ First(n, R) /\ \A k : First(k, R) => k = n
      /\ ~(m.from + Word < Size[m.file]) =>
           \A k \in R : k.id # m.id /\ m.id <= k.id /\ (First(k, R) => k.from = 0)
  BY FirstGone
<1>3. <<d, m.file>> \in NoAccess => p = 0 /\ c = 0
  BY <1>1 DEF Chain, Counted
<1>4. <<d, m.file>> \notin NoAccess =>
        /\ m.from = p * Word
        /\ c = IF m.from + Word < Size[m.file] THEN p + 1 ELSE 0
  BY LastPiece DEF Counted
<1>5. /\ \A k, j \in R : k.src = j.src /\ (k.id = j.id => k.file = j.file)
      /\ \A k \in R : k.file \in Files /\ k.src # d /\ Begins(k)
  BY DEF Chain
<1>6. ASSUME NEW k \in R, k.from + Word < Size[k.file] PROVE From(k, k.from + Word) \in R
  <2>1. k \in PiecesTo(d) /\ k.from + Word \in Nat /\ k.from \in Nat
    BY <1>1, PieceTypes
  <2>2. From(k, k.from + Word) \in M /\ Precedes(m, k)
    BY <1>6 DEF Chain, First
  <2>3. From(k, k.from + Word).id = k.id /\ From(k, k.from + Word).from = k.from + Word
    BY <2>1, PieceFrom
  <2>4. From(k, k.from + Word) # m
    BY <1>1, <2>1, <2>2, <2>3 DEF Precedes
  <2>5. QED
    BY <2>2, <2>4
<1>7. ASSUME NEW k \in R, NEW j \in R, j.id < k.id PROVE From(k, 0) \in R
  <2>1. k \in PiecesTo(d) /\ j \in PiecesTo(d) /\ Precedes(m, j) /\ From(k, 0) \in M
    BY <1>7 DEF Chain, First
  <2>2. m.id <= j.id /\ From(k, 0).id = k.id /\ j.id \in Nat /\ k.id \in Nat
    BY <1>1, <2>1, PrecedesOnce, PieceFrom, PieceTypes
  <2>3. From(k, 0) # m
    BY <1>1, <1>7, <2>2
  <2>4. QED
    BY <2>1, <2>3
<1>8. ASSUME NEW k \in R, First(k, R)
      PROVE  IF <<d, k.file>> \in NoAccess THEN c = 0 ELSE k.from = c * Word
  <2>1. CASE m.from + Word < Size[m.file]
    <3>1. k.file = m.file /\ k.from = m.from + Word
      BY <1>2, <1>8, <2>1
    <3>2. CASE <<d, m.file>> \in NoAccess
      BY <1>3, <3>1, <3>2
    <3>3. CASE <<d, m.file>> \notin NoAccess
      <4>1. c = p + 1 /\ k.from = p * Word + Word
        BY <1>4, <2>1, <3>1, <3>3
      <4>2. p * Word + Word = (p + 1) * Word
        BY <1>1
      <4>3. QED
        BY <3>1, <3>3, <4>1, <4>2
    <3>4. QED
      BY <3>2, <3>3
  <2>2. CASE ~(m.from + Word < Size[m.file])
    <3>1. c = 0 /\ k.from = 0
      BY <1>2, <1>3, <1>4, <1>8, <2>2
    <3>2. 0 * Word = 0
      BY <1>1
    <3>3. QED
      BY <3>1, <3>2
  <2>3. QED
    BY <2>1, <2>2
<1>9. R = {} => c = 0
  BY <1>2, <1>3, <1>4
<1>10. QED
  <2> HIDE DEF R, c
  <2>1. Chain(d, R, c)
    BY <1>5, <1>6, <1>7, <1>8, <1>9 DEF Chain
  <2>2. QED
    BY <2>1 DEF R, c

LEMMA IdsFinite ==
  ASSUME NEW d, NEW M \in SUBSET PiecesTo(d), NEW f
  PROVE  IsFiniteSet(IdsOf(M, f)) /\ Cardinality(IdsOf(M, f)) \in Nat
<1>1. IsFiniteSet(Ids)
  BY Constants, FS_Interval DEF Ids
<1>2. IdsOf(M, f) \in SUBSET Ids
  BY PieceTypes DEF IdsOf
<1>3. QED
  BY <1>1, <1>2, FS_Subset, FS_CardinalityType

LEMMA OneLess ==
  ASSUME NEW S, IsFiniteSet(S), NEW x \in S
  PROVE  Cardinality(S \ {x}) = Cardinality(S) - 1
<1>1. Cardinality(S \ {x}) = IF x \in S THEN Cardinality(S) - 1 ELSE Cardinality(S)
  BY FS_RemoveElement
<1>2. QED
  BY <1>1

\* What is received of file f once piece m, that comes first, is read.
LEMMA FileRead ==
  ASSUME NEW d, NEW M \in SUBSET PiecesTo(d), NEW p \in Nat, Chain(d, M, p),
         NEW m, First(m, M), NEW f \in Files, NEW V, NEW b \in Seq(V), NEW n \in Nat,
         <<d, f>> \notin NoAccess, Received(b, f, n, M),
         NEW c, m.file = f => c \in Seq(V) /\ c = b \o Written(m, p),
         m.file = f => Written(m, p) \in Seq(V),
         m.file # f => c = b,
         NEW R, R = M \ {m}
  PROVE  Received(c, f, n, R)
<1> DEFINE x == From(m, m.from + Word)
           k == n - Cardinality(IdsOf(M, f))
           j == n - Cardinality(IdsOf(R, f))
<1>1. /\ m.from + Word < Size[m.file] =>
           /\ x \in R /\ x.id = m.id /\ x.file = m.file /\ x.from = m.from + Word
           /\ First(x, R) /\ \A y : First(y, R) => y = x
      /\ ~(m.from + Word < Size[m.file]) =>
           \A y \in R : y.id # m.id /\ m.id <= y.id /\ (First(y, R) => y.from = 0)
  <2>1. /\ m.from + Word < Size[m.file] =>
             /\ x \in M \ {m} /\ x.id = m.id /\ x.file = m.file /\ x.from = m.from + Word
             /\ First(x, M \ {m}) /\ \A y : First(y, M \ {m}) => y = x
        /\ ~(m.from + Word < Size[m.file]) =>
             \A y \in M \ {m} : /\ y.id # m.id /\ m.id <= y.id
                                /\ First(y, M \ {m}) => y.from = 0
    BY ONLY FirstGone, M \in SUBSET PiecesTo(d), Chain(d, M, p), First(m, M)
  <2>2. QED
    BY ONLY <2>1, R = M \ {m}
<1>2. /\ k \in Nat
      /\ \A y \in M : First(y, M) /\ y.file = f => Holds(b, f, k, y.from)
      /\ (\A y \in M : First(y, M) => y.file # f) => Holds(b, f, k, 0)
  BY DEF Received
<1>3. m \in M /\ m \in PiecesTo(d) /\ m.id \in Nat /\ m.from \in Nat
  BY PieceTypes DEF First
<1>4. /\ IsFiniteSet(IdsOf(M, f)) /\ Cardinality(IdsOf(M, f)) \in Nat
      /\ Cardinality(IdsOf(R, f)) \in Nat
  <2>1. R \in SUBSET PiecesTo(d)
    OBVIOUS
  <2>2. QED
    BY <2>1, IdsFinite
<1>5. CASE m.file # f
  <2>1. IdsOf(R, f) = IdsOf(M, f)
    BY <1>5 DEF IdsOf
  <2>2. k = j
    BY <2>1
  <2>3. \A y : First(y, M) => y = m
    BY FirstOnce
  <2>4. Holds(b, f, k, 0) /\ c = b
    BY <1>2, <1>5, <2>3
  <2>5. \A y \in R : First(y, R) /\ y.file = f => y.from = 0
    BY <1>1, <1>5
  <2>6. QED
    BY <1>2, <2>2, <2>4, <2>5 DEF Received
<1>6. CASE m.file = f
  <2> DEFINE w == Written(m, p)
  <2>1. m \in Msg /\ Begins(m) /\ m.from = p * Word
        /\ (IsLast(m, p) <=> ~(m.from + Word < Size[f]))
    BY <1>6, LastPiece
  <2>2. /\ Len(w) \in Nat /\ Len(Expected(f)) \in Nat /\ m.from + Len(w) <= Len(Expected(f))
        /\ \A i \in 1..Len(w) : w[i] = Expected(f)[m.from + i]
        /\ IsLast(m, p) => m.from + Len(w) = Len(Expected(f))
        /\ ~IsLast(m, p) => Len(w) = Word
    BY <1>6, <2>1, PieceIsPart
  <2>3. Holds(b, f, k, m.from)
    BY <1>2, <1>3, <1>6
  <2>4. c = b \o w /\ w \in Seq(V)
    BY <1>6
  <2> HIDE DEF w, k, j
  <2>5. Holds(c, f, k, m.from + Len(w))
    BY <1>2, <1>3, <2>2, <2>3, <2>4, HoldsMore
  <2>6. CASE m.from + Word < Size[m.file]
    <3>1. x \in R /\ x.id = m.id /\ x.file = f /\ x.from = m.from + Word
          /\ First(x, R) /\ \A y : First(y, R) => y = x
      BY <1>1, <1>6, <2>6
    <3>2. IdsOf(R, f) = IdsOf(M, f)
      <4> HIDE DEF x
      <4>1. \A i : i \in IdsOf(M, f) => i \in IdsOf(R, f)
        <5> SUFFICES ASSUME NEW y \in M, y.file = f PROVE y.id \in IdsOf(R, f)
          BY DEF IdsOf
        <5>1. CASE y = m
          BY <3>1, <5>1 DEF IdsOf
        <5>2. CASE y # m
          BY <5>2 DEF IdsOf
        <5>3. QED
          BY <5>1, <5>2
      <4>2. \A i : i \in IdsOf(R, f) => i \in IdsOf(M, f)
        BY DEF IdsOf
      <4>3. QED
        BY <4>1, <4>2
    <3>3. k = j
      BY <3>2 DEF k, j
    <3>4. Holds(c, f, k, x.from)
      BY <1>6, <2>1, <2>2, <2>5, <2>6, <3>1
    <3>5. QED
      <4> HIDE DEF x
      <4>1. j \in Nat /\ Holds(c, f, j, x.from)
        BY <1>2, <3>3, <3>4
      <4>2. \A y \in R : First(y, R) /\ y.file = f => Holds(c, f, j, y.from)
        BY <3>1, <4>1
      <4>3. ~(\A y \in R : First(y, R) => y.file # f)
        BY <3>1
      <4>4. QED
        BY ONLY <4>1, <4>2, <4>3 DEF Received, j
  <2>7. CASE ~(m.from + Word < Size[m.file])
    <3>1. Holds(c, f, k + 1, 0)
      BY <1>2, <1>6, <2>1, <2>2, <2>5, <2>7, HoldsWhole
    <3>2. \A y \in R : y.id # m.id /\ (First(y, R) => y.from = 0)
      BY <1>1, <2>7
    <3>3. IdsOf(R, f) = IdsOf(M, f) \ {m.id}
      BY <3>2 DEF IdsOf
    <3>4. m.id \in IdsOf(M, f)
      BY <1>3, <1>6 DEF IdsOf
    <3>5. Cardinality(IdsOf(R, f)) = Cardinality(IdsOf(M, f)) - 1
      BY ONLY <1>4, <3>3, <3>4, OneLess
    <3>6. j = k + 1 /\ j \in Nat
      BY <1>2, <1>4, <3>5 DEF k, j
    <3>7. QED
      <4>1. Holds(c, f, j, 0) /\ \A y \in R : First(y, R) /\ y.file = f => Holds(c, f, j, y.from)
        BY <3>1, <3>2, <3>6
      <4>2. QED
        BY ONLY <3>6, <4>1 DEF Received, j
  <2>8. QED
    BY <2>6, <2>7
<1>7. QED
  BY <1>5, <1>6

\* N are the pieces of file f that client c begins to send to d, as number i.
Offered(N, d, c, f, i) ==
  /\ N \in SUBSET PiecesTo(d) /\ c # d /\ f \in Files /\ Size[f] > 0 /\ i \in Nat
  /\ \A k \in N : k.id = i /\ k.src = c /\ k.file = f /\ Begins(k)
  /\ \A x \in Nat : Multiple(x) /\ x < Size[f] => \E k \in N : k.from = x

LEMMA OfferedFrom ==
  ASSUME NEW N, NEW d, NEW c, NEW f, NEW i, Offered(N, d, c, f, i), NEW k \in N
  PROVE  /\ From(k, 0) \in N
         /\ k.from + Word < Size[f] => From(k, k.from + Word) \in N
<1>1. ASSUME NEW x \in Nat, Multiple(x), x < Size[f] PROVE From(k, x) \in N
  <2>1. PICK j \in N : j.from = x
    BY <1>1 DEF Offered
  <2>2. /\ j \in PiecesTo(d) /\ k \in PiecesTo(d) /\ j.id = k.id /\ j.src = k.src
        /\ j.file = k.file
    BY DEF Offered
  <2>3. j = From(k, j.from)
    BY <2>2, PieceSame
  <2>4. QED
    BY <2>1, <2>3
<1>2. From(k, 0) \in N
  BY <1>1, Multiples DEF Offered
<1>3. Multiple(k.from)
  BY DEF Offered, Begins
<1>4. Multiple(k.from + Word) /\ k.from + Word \in Nat
  BY <1>3, Multiples
<1>5. QED
  BY <1>1, <1>2, <1>4

\* What is first stays so, and if there was nothing a beginning is.
LEMMA FirstOffered ==
  ASSUME NEW d, NEW M \in SUBSET PiecesTo(d), NEW N, NEW c, NEW f, NEW i,
         Offered(N, d, c, f, i), \A m \in M : m.id < i
  PROVE  /\ M # {} => \A k : First(k, M \cup N) <=> First(k, M)
         /\ M = {} => \A k : First(k, M \cup N) => k \in N /\ k.from = 0
<1>1. \A k \in N : k \in PiecesTo(d) /\ k.id = i
  BY DEF Offered
<1>2. \A m \in M, k \in N : Precedes(m, k) /\ ~Precedes(k, m) /\ m # k
  <2> SUFFICES ASSUME NEW m \in M, NEW k \in N
               PROVE  Precedes(m, k) /\ ~Precedes(k, m) /\ m # k
    OBVIOUS
  <2>1. Precedes(m, k) /\ m \in PiecesTo(d) /\ k \in PiecesTo(d)
    BY <1>1 DEF Precedes
  <2>2. QED
    BY <2>1, PrecedesOnce
<1>3. ASSUME M # {}, NEW k PROVE First(k, M \cup N) <=> First(k, M)
  <2>1. PICK j \in M : TRUE
    BY <1>3
  <2>2. First(k, M) => First(k, M \cup N)
    BY <1>2 DEF First
  <2>3. First(k, M \cup N) => First(k, M)
    <3>1. First(k, M \cup N) => k \notin N
      BY <1>2, <2>1 DEF First
    <3>2. QED
      BY <3>1 DEF First
  <2>4. QED
    BY <2>2, <2>3
<1>4. ASSUME M = {}, NEW k, First(k, M \cup N) PROVE k \in N /\ k.from = 0
  <2>1. k \in N /\ k \in PiecesTo(d)
    BY <1>1, <1>4 DEF First
  <2>2. From(k, 0) \in N
    BY <2>1, OfferedFrom
  <2>3. k = From(k, 0) \/ Precedes(k, From(k, 0))
    BY <1>4, <2>2 DEF First
  <2>4. From(k, 0).from = 0 /\ From(k, 0).id = k.id /\ k.from \in Nat /\ k.id \in Nat
    BY <2>1, PieceTypes, PieceFrom
  <2>5. ~Precedes(k, From(k, 0))
    BY <2>4, Constants DEF Precedes
  <2>6. QED
    BY <2>1, <2>3, <2>4, <2>5
<1>5. QED
  BY <1>3, <1>4

LEMMA ChainOffered ==
  ASSUME NEW d, NEW M \in SUBSET PiecesTo(d), NEW N, NEW c, NEW f, NEW i,
         Offered(N, d, c, f, i), \A m \in M : m.id < i /\ m.src = c,
         NEW p \in Nat, Chain(d, M, p), NEW R, R = M \cup N
  PROVE  Chain(d, R, p)
<1>1. /\ M # {} => \A k : First(k, R) <=> First(k, M)
      /\ M = {} => \A k : First(k, R) => k \in N /\ k.from = 0
  BY ONLY FirstOffered, R = M \cup N, Offered(N, d, c, f, i), M \in SUBSET PiecesTo(d),
          \A m \in M : m.id < i /\ m.src = c
<1>2. /\ \A k \in N : /\ k \in PiecesTo(d) /\ k.id = i /\ k.src = c /\ k.file = f
                      /\ Begins(k)
      /\ c # d /\ f \in Files /\ i \in Nat
  BY DEF Offered
<1>3. \A m \in M : m.id \in Nat /\ m.id < i /\ m.id # i /\ m.src = c
  BY <1>2, PieceTypes
<1>4. \A m, k \in R : m.src = k.src /\ (m.id = k.id => m.file = k.file)
  BY <1>2, <1>3 DEF Chain
<1>5. \A m \in R : m.file \in Files /\ m.src # d /\ Begins(m)
  BY <1>2 DEF Chain
<1>6. ASSUME NEW m \in R, m.from + Word < Size[m.file]
      PROVE  From(m, m.from + Word) \in R
  <2>1. CASE m \in M
    BY <1>6, <2>1 DEF Chain
  <2>2. CASE m \in N
    BY <1>2, <1>6, <2>2, OfferedFrom
  <2>3. QED
    BY <2>1, <2>2
<1>7. ASSUME NEW m \in R, NEW k \in R, k.id < m.id
      PROVE  From(m, 0) \in R
  <2>1. CASE m \in N
    BY <2>1, OfferedFrom
  <2>2. CASE m \in M
    <3>1. k \in M
      <4>1. SUFFICES ASSUME k \in N PROVE FALSE
        OBVIOUS
      <4>2. k.id = i /\ m.id < i /\ m.id \in Nat /\ i \in Nat
        BY <1>2, <1>3, <2>2, <4>1
      <4>3. QED
        BY <1>7, <4>2
    <3>2. QED
      BY <1>7, <2>2, <3>1 DEF Chain
  <2>3. QED
    BY <2>1, <2>2
<1>8. ASSUME NEW m \in R, First(m, R)
      PROVE  IF <<d, m.file>> \in NoAccess THEN p = 0 ELSE m.from = p * Word
  <2>1. CASE M # {}
    <3>1. First(m, M) /\ m \in M
      BY <1>1, <1>8, <2>1 DEF First
    <3>2. QED
      BY <3>1 DEF Chain
  <2>2. CASE M = {}
    <3>1. p = 0 /\ m.from = 0
      BY <1>1, <1>8, <2>2 DEF Chain
    <3>2. 0 * Word = 0
      BY Constants
    <3>3. QED
      BY <3>1, <3>2
  <2>3. QED
    BY <2>1, <2>2
<1>9. R = {} => p = 0
  BY DEF Chain
<1>10. QED
  BY ONLY <1>4, <1>5, <1>6, <1>7, <1>8, <1>9 DEF Chain

LEMMA FileOffered ==
  ASSUME NEW d, NEW M \in SUBSET PiecesTo(d), NEW N, NEW c, NEW f, NEW i,
         Offered(N, d, c, f, i), \A m \in M : m.id < i /\ m.src = c,
         NEW b, NEW g, NEW n \in Nat, Received(b, g, n, M), NEW R, R = M \cup N
  PROVE  Received(b, g, IF g = f THEN n + 1 ELSE n, R)
<1> DEFINE k == n - Cardinality(IdsOf(M, g))
           l == IF g = f THEN n + 1 ELSE n
           j == l - Cardinality(IdsOf(R, g))
<1>1. /\ M # {} => \A y : First(y, R) <=> First(y, M)
      /\ M = {} => \A y : First(y, R) => y \in N /\ y.from = 0
  BY ONLY FirstOffered, R = M \cup N, Offered(N, d, c, f, i), M \in SUBSET PiecesTo(d),
          \A m \in M : m.id < i /\ m.src = c
<1>2. /\ \A y \in N : y.id = i /\ y.file = f
      /\ i \in Nat
  BY DEF Offered
<1>3. /\ k \in Nat
      /\ \A y \in M : First(y, M) /\ y.file = g => Holds(b, g, k, y.from)
      /\ (\A y \in M : First(y, M) => y.file # g) => Holds(b, g, k, 0)
  BY DEF Received
<1>4. IsFiniteSet(IdsOf(M, g)) /\ Cardinality(IdsOf(M, g)) \in Nat
  BY IdsFinite
<1> HIDE DEF k, j, l
<1>5. j = k
  <2>1. CASE g # f
    <3>1. IdsOf(R, g) = IdsOf(M, g)
      BY <1>2, <2>1 DEF IdsOf
    <3>2. QED
      BY <2>1, <3>1 DEF j, k, l
  <2>2. CASE g = f
    <3>1. \E y \in N : y.from = 0
      BY Multiples DEF Offered
    <3>2. IdsOf(R, g) = IdsOf(M, g) \cup {i}
      BY <1>2, <2>2, <3>1 DEF IdsOf
    <3>3. i \notin IdsOf(M, g)
      <4>1. \A m \in M : m.id # i
        <5>1. \A m \in M : m.id \in Nat /\ m.id < i
          BY PieceTypes
        <5>2. QED
          BY <1>2, <5>1
      <4>2. QED
        BY <4>1 DEF IdsOf
    <3>4. Cardinality(IdsOf(M, g) \cup {i}) = Cardinality(IdsOf(M, g)) + 1
      BY ONLY <1>4, <3>3, FS_AddElement
    <3>5. l = n + 1 /\ Cardinality(IdsOf(R, g)) = Cardinality(IdsOf(M, g)) + 1
      BY <2>2, <3>2, <3>4 DEF l
    <3>6. QED
      BY ONLY <1>4, <3>5, n \in Nat DEF j, k
  <2>3. QED
    BY <2>1, <2>2
<1>6. ASSUME NEW y \in R, First(y, R), y.file = g PROVE Holds(b, g, j, y.from)
  <2>1. CASE M # {}
    <3>1. First(y, M) /\ y \in M
      BY <1>1, <1>6, <2>1 DEF First
    <3>2. QED
      BY <1>3, <1>5, <1>6, <3>1
  <2>2. CASE M = {}
    BY <1>1, <1>3, <1>5, <1>6, <2>2
  <2>3. QED
    BY <2>1, <2>2
<1>7. ASSUME \A y \in R : First(y, R) => y.file # g PROVE Holds(b, g, j, 0)
  <2>1. \A y \in M : First(y, M) => y.file # g
    BY <1>1, <1>7
  <2>2. QED
    BY <1>3, <1>5, <2>1
<1>8. QED
  BY ONLY <1>3, <1>5, <1>6, <1>7 DEF Received, j, l

-----------------------------------------------------------------------------
(* What is to come of files.                                                *)

PlaceInv == \A c \in Clients : put[c] # NoPut => Multiple(put[c].from)

LEMMA NotBeforeSelf ==
  ASSUME NEW pt, NEW m \in Msg
  PROVE  ~Before(pt, m, m)
<1>1. m.id \in Nat /\ m.from \in Nat
  BY Constants DEF Msg, Ids
<1>2. QED
  BY <1>1, Constants DEF Before, Precedes

LEMMA StartsGrow ==
  ASSUME NEW s \in Seq(Byte), NEW t, NEW m, NEW n \in 1..Last, Appends(s, t, m, n)
  PROVE  StartMsgs(t) = StartMsgs(s) \cup {m}
<1>1. /\ \A i \in DOMAIN s : i \in DOMAIN t /\ t[i] = s[i]
      /\ \A o \in 1..n : Len(s) + o \in DOMAIN t /\ t[Len(s) + o] = [msg |-> m, at |-> o]
  BY AppendsBytes
<1>2. Start \in 1..n
  BY Constants
<1>3. m \in StartMsgs(t)
  <2>1. PICK j \in DOMAIN t : t[j] = [msg |-> m, at |-> Start]
    BY <1>1, <1>2
  <2>2. t[j].at = Start /\ t[j].msg = m
    BY <2>1
  <2>3. QED
    BY <2>2 DEF StartMsgs
<1>4. StartMsgs(s) \subseteq StartMsgs(t)
  BY <1>1 DEF StartMsgs
<1>5. QED
  BY <1>3, <1>4, StartsAppend

\* A read that returns bytes of one message, m, takes the beginning of that, or of
\* none.
Takes(wire, new, c, n, m) ==
  /\ Shortens(wire, new, c, n) /\ Ordered(puts, wire[c]) /\ ~Mixes(wire[c], n)
  /\ m = wire[c][1].msg

LEMMA StartsCut ==
  ASSUME NEW wire, NEW new, NEW c \in Clients, NEW n, NEW m, Takes(wire, new, c, n, m)
  PROVE  /\ \A e \in Clients \ {c} : StartMsgs(new[e]) = StartMsgs(wire[e])
         /\ m \notin StartMsgs(new[c])
         /\ \A k : k # m => (k \in StartMsgs(new[c]) <=> k \in StartMsgs(wire[c]))
         /\ wire[c][1].at = Start <=> m \in StartMsgs(wire[c])
<1> DEFINE s == wire[c]
           t == new[c]
<1>0. /\ Shortens(wire, new, c, n) /\ Ordered(puts, s) /\ ~Mixes(s, n) /\ m = s[1].msg
  BY DEF Takes
<1>1. /\ s \in Seq(Byte) /\ n \in Nat /\ n >= 1 /\ Drops(s, t, n)
      /\ \A e \in Clients \ {c} : new[e] = wire[e]
      /\ 1 \in DOMAIN s /\ s[1] \in Byte
  BY <1>0 DEF Shortens
<1>2. m \in Msg
  BY <1>0, <1>1 DEF Byte
<1>3. /\ \A j \in DOMAIN t : n + j \in DOMAIN s /\ t[j] = s[n + j]
      /\ \A i \in DOMAIN s : i > n => i - n \in DOMAIN t /\ t[i - n] = s[i]
      /\ DOMAIN s = 1..Len(s) /\ Len(s) \in Nat /\ DOMAIN t = 1..Len(t) /\ Len(t) \in Nat
  BY <1>1, DropsBytes
<1> HIDE DEF s, t
<1>4. ASSUME NEW j \in DOMAIN s, s[j].at = Start, s[j].msg = m PROVE j = 1
  <2>1. SUFFICES ASSUME j # 1 PROVE FALSE
    OBVIOUS
  <2>2. 1 \in 1..(j - 1)
    BY <1>3, <2>1
  <2>3. Before(puts, s[1].msg, s[j].msg)
    BY <1>0, <1>4, <2>2 DEF Ordered
  <2>4. QED
    BY <1>0, <1>2, <1>4, <2>3, NotBeforeSelf
<1>5. m \notin StartMsgs(t)
  <2> SUFFICES ASSUME NEW j \in DOMAIN t, t[j].at = Start, t[j].msg = m PROVE FALSE
    BY DEF StartMsgs
  <2>1. n + j \in DOMAIN s /\ s[n + j] = t[j]
    BY <1>3
  <2>2. n + j = 1 /\ j \in 1..Len(t)
    BY <1>3, <1>4, <2>1
  <2>3. QED
    BY <1>1, <1>3, <2>2
<1>6. ASSUME NEW k, k # m PROVE k \in StartMsgs(t) <=> k \in StartMsgs(s)
  <2>1. ASSUME NEW j \in DOMAIN s, s[j].at = Start, s[j].msg = k PROVE k \in StartMsgs(t)
    <3>1. j > n
      <4>1. ~(j <= n)
        BY <1>0, <1>6, <2>1 DEF Mixes
      <4>2. QED
        BY <1>1, <1>3, <4>1
    <3>2. j - n \in DOMAIN t /\ t[j - n] = s[j]
      BY <1>3, <3>1
    <3>3. QED
      BY <2>1, <3>2 DEF StartMsgs
  <2>2. ASSUME NEW j \in DOMAIN t, t[j].at = Start, t[j].msg = k PROVE k \in StartMsgs(s)
    BY <1>3, <2>2 DEF StartMsgs
  <2>3. QED
    BY <2>1, <2>2 DEF StartMsgs
<1>7. s[1].at = Start <=> m \in StartMsgs(s)
  <2>1. s[1].at = Start => m \in StartMsgs(s)
    BY <1>0, <1>1 DEF StartMsgs
  <2>2. m \in StartMsgs(s) => s[1].at = Start
    BY <1>4 DEF StartMsgs
  <2>3. QED
    BY <2>1, <2>2
<1>8. QED
  BY <1>1, <1>5, <1>6, <1>7 DEF s, t

LEMMA ToComePieces ==
  ASSUME NEW d
  PROVE  /\ ToCome(d) \in SUBSET PiecesTo(d)
         /\ \A k \in PiecesTo(d) : k \in ToCome(d) <=>
              \/ k \in StartMsgs(up[k.src])
              \/ k \in StartMsgs(down[d])
              \/ ToSend(k) /\ Begins(k)
BY DEF ToCome, PiecesTo

\* What the server does with a piece: unless files for its receiver are lost, it
\* is written to that client.
LEMMA HandlePiece ==
  ASSUME TypeInv, NEW m \in Msg, ~IsText(m), Handle(m)
  PROVE  \E to, w : Forwards(m, to, m, w) /\ (m.des \notin mixed' => to = {m.des})
<1>1. Alike(m, m) /\ m.kind = "file"
  BY DEF Alike, IsText
<1>2. m.des \notin mixed' => ~SaysExit(m) /\ m.des \in online
  BY <1>1 DEF Handle, Dropped
<1>3. CASE SaysExit(m) /\ UNCHANGED <<down, due, padded>>
  <2>1. Forwards(m, {}, m, Last)
    BY <1>1, <1>3 DEF Forwards, TypeInv
  <2>2. QED
    BY <1>2, <1>3, <2>1
<1>4. CASE ProcSendFile2One(m)
  <2>1. {m.des} \in SUBSET Clients /\ {m.src} \in SUBSET Clients
    BY DEF Msg
  <2>2. CASE m.des \in online
    <3>1. ServerWrites({m.des}, TRUE, m)
      BY <1>4, <2>2 DEF ProcSendFile2One
    <3>2. Forwards(m, {m.des}, m, Last)
      BY <1>1, <2>1, <3>1, ServerWritesForwards
    <3>3. QED
      BY <3>2
  <2>3. CASE m.des \notin online
    <3>1. ServerWrites({m.src}, FALSE, m)
      BY <1>4, <2>3 DEF ProcSendFile2One
    <3>2. Forwards(m, {m.src}, m, Last - 1)
      BY <1>1, <2>1, <3>1, ServerWritesForwards
    <3>3. QED
      BY <1>2, <2>3, <3>2
  <2>4. QED
    BY <2>2, <2>3
<1>5. QED
  BY <1>1, <1>3, <1>4 DEF Handle

\* Logins and texts, and the next piece of a file, change nothing.
LEMMA LoginToCome ==
  ASSUME NEW c \in Clients, Login(c), NEW d
  PROVE  ToCome(d)' = ToCome(d)
BY DEF Login, wires, clientV, ToCome, ToSend

LEMMA SendTextToCome ==
  ASSUME TypeInv, NEW c \in Clients, SendText(c), NEW d
  PROVE  ToCome(d)' = ToCome(d)
<1>1. PICK m, w : Writes(c, m, w) /\ TextOf(c, m, w)
  BY SendTextWrites
<1>2. IsText(m) /\ UNCHANGED <<down, put>>
  BY <1>1 DEF TextOf, IsText, SendText, clientV
<1>3. StartMsgs(up'[c]) = StartMsgs(up[c]) \cup {m}
  BY <1>1, StartsGrow DEF Writes, TypeInv
<1>4. \A e \in Clients \ {c} : up'[e] = up[e]
  BY <1>1 DEF Writes
<1>5. ASSUME NEW k \in PiecesTo(d)
      PROVE  k \in StartMsgs(up'[k.src]) <=> k \in StartMsgs(up[k.src])
  <2>1. k # m /\ k.src \in Clients
    BY <1>2, PieceTypes DEF PiecesTo
  <2>2. QED
    BY <1>3, <1>4, <2>1
<1>6. QED
  BY <1>2, <1>5 DEF ToCome, ToSend, PiecesTo

LEMMA NoPutOut == NoPut \notin Puts
<1>1. SUFFICES ASSUME NoPut \in Puts PROVE FALSE
  OBVIOUS
<1>2. DOMAIN NoPut = {"file"} /\ DOMAIN NoPut = {"file", "id", "des", "from"}
  BY <1>1 DEF NoPut, Puts
<1>3. QED
  BY <1>2

LEMMA SendPieceToCome ==
  ASSUME TypeInv, PlaceInv, NEW c \in Clients, SendPiece(c), NEW d
  PROVE  ToCome(d)' = ToCome(d)
<1> DEFINE x == PieceOf(c)
           p == put[c]
<1>1. /\ Writes(c, x, Last) /\ p \in Puts /\ p.from < Size[p.file]
      /\ \A e \in Clients \ {c} : put'[e] = put[e]
      /\ put'[c] # NoPut =>
           /\ put'[c].from = p.from + Word
           /\ put'[c].id = p.id /\ put'[c].des = p.des /\ put'[c].file = p.file
  BY SendPieceWrites
<1>2. p # NoPut /\ down' = down /\ Multiple(p.from) /\ p.from \in Nat
  BY <1>1 DEF SendPiece, PlaceInv, Puts
<1>3. StartMsgs(up'[c]) = StartMsgs(up[c]) \cup {x}
  BY <1>1, StartsGrow DEF Writes, TypeInv
<1>4. \A e \in Clients \ {c} : up'[e] = up[e]
  BY <1>1 DEF Writes
<1>5. x \in Msg /\ x.kind = "file" /\ x.src = c /\ x.id = p.id /\ x.des = p.des
      /\ x.file = p.file /\ x.from = p.from
  BY <1>1 DEF Writes, PieceOf
<1>6. p.from + Word < Size[p.file] => put'[c] # NoPut
  <2>1. SUFFICES ASSUME p.from + Word < Size[p.file] PROVE put'[c] \in Puts
    BY NoPutOut
  <2>2. Size[p.file] \in Nat /\ p.from + Word \in Nat
    BY <1>1, <1>2, Constants DEF Puts
  <2>3. ~(p.from + Word >= Size[p.file])
    BY <2>1, <2>2
  <2>4. put'[c] = [p EXCEPT !.from = p.from + Word]
    BY <2>3 DEF SendPiece, Advance, TypeInv
  <2>5. QED
    BY <1>1, <2>2, <2>4 DEF Puts
<1> HIDE DEF x
<1>7. ASSUME NEW k \in PiecesTo(d)
      PROVE  \/ k \in StartMsgs(up'[k.src])
             \/ ToSend(k)' /\ Begins(k)
             <=>
             \/ k \in StartMsgs(up[k.src])
             \/ ToSend(k) /\ Begins(k)
  <2>1. k \in Msg /\ k.kind = "file" /\ k.src \in Clients /\ k.from \in Nat
    BY PieceTypes
  <2>2. CASE k.src # c
    <3>1. up'[k.src] = up[k.src] /\ put'[k.src] = put[k.src]
      BY <1>1, <1>4, <2>1, <2>2
    <3>2. QED
      BY <3>1 DEF ToSend
  <2>3. CASE k.src = c
    <3>1. CASE k = x
      <4>1. k \in StartMsgs(up'[k.src])
        BY <1>3, <2>3, <3>1
      <4>2. ToSend(k)
        BY <1>2, <1>5, <2>3, <3>1 DEF ToSend
      <4>3. Begins(k)
        BY <1>1, <1>2, <1>5, <3>1 DEF Begins
      <4>4. QED
        BY <4>1, <4>2, <4>3
    <3>2. CASE k # x
      <4>1. k \in StartMsgs(up'[k.src]) <=> k \in StartMsgs(up[k.src])
        BY <1>3, <2>3, <3>2
      <4>2. ASSUME ToSend(k)' PROVE ToSend(k)
        <5>1. /\ put'[c] # NoPut /\ k.id = put'[c].id /\ k.des = put'[c].des
              /\ k.file = put'[c].file /\ k.from >= put'[c].from
          BY <2>3, <4>2 DEF ToSend
        <5>2. k.from >= p.from
          BY <1>1, <1>2, <2>1, <5>1, Constants
        <5>3. QED
          BY <1>1, <1>2, <2>3, <5>1, <5>2 DEF ToSend
      <4>3. ASSUME ToSend(k), Begins(k) PROVE ToSend(k)'
        <5>1. k.id = p.id /\ k.des = p.des /\ k.file = p.file /\ k.from >= p.from
          BY <2>3, <4>3 DEF ToSend
        <5>2. k.from # p.from
          BY <1>5, <2>1, <2>3, <3>2, <5>1 DEF Msg
        <5>3. p.from < k.from /\ Multiple(k.from) /\ k.from < Size[p.file]
          BY <1>2, <2>1, <4>3, <5>1, <5>2 DEF Begins
        <5>4. p.from + Word <= k.from
          BY <1>2, <5>3, Multiples
        <5>5. p.from + Word < Size[p.file]
          BY <1>1, <1>2, <2>1, <5>3, <5>4, Constants DEF Puts
        <5>6. /\ put'[c] # NoPut /\ put'[c].from = p.from + Word
              /\ put'[c].id = p.id /\ put'[c].des = p.des /\ put'[c].file = p.file
          BY <1>1, <1>6, <5>5
        <5>7. k.from >= put'[c].from
          BY <1>2, <2>1, <5>4, <5>6, Constants
        <5>8. QED
          BY <2>3, <5>1, <5>6, <5>7 DEF ToSend
      <4>4. QED
        BY <4>1, <4>2, <4>3
    <3>3. QED
      BY <3>1, <3>2
  <2>4. QED
    BY <2>2, <2>3
<1>8. \A k \in PiecesTo(d) : k \in StartMsgs(down'[d]) <=> k \in StartMsgs(down[d])
  BY <1>2
<1>9. /\ ToCome(d) \in SUBSET PiecesTo(d) /\ ToCome(d)' \in SUBSET PiecesTo(d)
      /\ \A k \in PiecesTo(d) : k \in ToCome(d)' <=> k \in ToCome(d)
  BY <1>7, <1>8 DEF ToCome, PiecesTo
<1>10. QED
  BY <1>9

\* A piece that the server reads is still to come, unless the files for its
\* receiver are no longer whole.
LEMMA ServerReadsToCome ==
  ASSUME TypeInv, OriginInv, OrderInv, NEW c \in Clients, ServerReads(c), ~joined',
         NEW d \in Clients \ mixed'
  PROVE  ToCome(d)' = ToCome(d)
<1>0. PICK m : m = up[c][1].msg
  OBVIOUS
<1>1. Shortens(up, up', c, Last)
  BY ServerReadsShortens
<1>2. /\ ~Mixes(up[c], Last) /\ Got(up[c], Last)[1] = up[c][1]
      /\ Ordered(puts, up[c])
  BY <1>1, JoinedMixes, Constants DEF ServerReads, Shortens, OrderInv
<1>3. /\ \A e \in Clients \ {c} : StartMsgs(up'[e]) = StartMsgs(up[e])
      /\ \A k : k # m => (k \in StartMsgs(up'[c]) <=> k \in StartMsgs(up[c]))
      /\ up[c][1].at = Start <=> m \in StartMsgs(up[c])
      /\ m \notin StartMsgs(up'[c])
  <2>1. Takes(up, up', c, Last, m)
    BY <1>0, <1>1, <1>2 DEF Takes
  <2>2. QED
    BY ONLY <2>1, StartsCut, c \in Clients
<1>4. m \in Msg /\ m \in Msgs(up[c])
  BY <1>0, <1>1, ShortensMsgs DEF Shortens, Byte
<1>5. m.src = c
  BY <1>4 DEF OriginInv
<1>6. put' = put
  BY DEF ServerReads, clientV
<1>7. ASSUME NEW k \in PiecesTo(d)
      PROVE  \/ k \in StartMsgs(up'[k.src])
             \/ k \in StartMsgs(down'[d])
             <=>
             \/ k \in StartMsgs(up[k.src])
             \/ k \in StartMsgs(down[d])
  <2>1. k \in Msg /\ ~IsText(k) /\ k.des = d /\ k.src \in Clients
    BY PieceTypes DEF IsText
  <2>2. k # m => (k \in StartMsgs(up'[k.src]) <=> k \in StartMsgs(up[k.src]))
    BY <1>3, <2>1
  <2>3. CASE up[c][1].at # Start
    <3>1. down' = down
      BY <1>2, <2>3 DEF ServerReads
    <3>2. k = m => k \notin StartMsgs(up'[k.src]) /\ k \notin StartMsgs(up[k.src])
      BY <1>3, <1>5, <2>3
    <3>3. QED
      BY <2>2, <3>1, <3>2
  <2>4. CASE up[c][1].at = Start
    <3>0. Handle(m)
      BY <1>0, <1>2, <2>4 DEF ServerReads
    <3>1. CASE k = m
      <4>1. PICK to, w : Forwards(m, to, m, w) /\ (m.des \notin mixed' => to = {m.des})
        BY <1>4, <2>1, <3>0, <3>1, HandlePiece
      <4>2. d \in to
        BY <2>1, <3>1, <4>1
      <4>3. Appends(down[d], down'[d], m, w) /\ w \in 1..Last /\ down[d] \in Seq(Byte)
        BY <4>1, <4>2, Constants DEF Forwards, TypeInv
      <4>4. m \in StartMsgs(down'[d])
        BY <4>3, StartsGrow
      <4>5. m \in StartMsgs(up[c])
        BY <1>3, <2>4
      <4>6. QED
        BY <1>5, <3>1, <4>4, <4>5
    <3>2. CASE k # m
      <4>1. PICK to, x, w : Forwards(m, to, x, w) /\ (~IsText(m) => x = m)
        <5>1. CASE IsText(m)
          BY <1>4, <3>0, <5>1, HandleForwards
        <5>2. CASE ~IsText(m)
          BY <1>4, <3>0, <5>2, HandlePiece
        <5>3. QED
          BY <5>1, <5>2
      <4>2. k # x
        BY <2>1, <3>2, <4>1 DEF Forwards, Alike
      <4>3. CASE d \in to
        <5>3. Appends(down[d], down'[d], x, w) /\ w \in {Last, Last - 1}
          BY ONLY <4>1, <4>3 DEF Forwards
        <5>5. w \in 1..Last
          BY ONLY <5>3, Constants
        <5>1. Appends(down[d], down'[d], x, w) /\ w \in 1..Last /\ down[d] \in Seq(Byte)
          BY <5>3, <5>5 DEF TypeInv
        <5>2. StartMsgs(down'[d]) = StartMsgs(down[d]) \cup {x}
          BY <5>1, StartsGrow
        <5>4. QED
          BY <2>2, <3>2, <4>2, <5>2
      <4>4. CASE d \notin to
        <5>1. down'[d] = down[d]
          BY <4>1, <4>4 DEF Forwards
        <5>2. QED
          BY <2>2, <3>2, <5>1
      <4>5. QED
        BY <4>3, <4>4
    <3>3. QED
      BY <3>1, <3>2
  <2>5. QED
    BY <2>3, <2>4
<1>8. \A k : ToSend(k)' <=> ToSend(k)
  BY <1>6 DEF ToSend
<1>9. QED
  BY <1>7, <1>8 DEF ToCome, PiecesTo

\* A piece that its receiver reads is the first of those to come, and is gone.
LEMMA ClientReadsToCome ==
  ASSUME TypeInv, OriginInv, OrderInv, PutInv, NEW c \in Clients, ClientReads(c), ~joined',
         NEW d \in Clients,
         \A m, k \in ToCome(d) : m.src = k.src
  PROVE  LET m == down[c][1].msg
         IN IF d = c /\ down[c][1].at = Start /\ ~IsText(m) /\ m.des = d
              THEN First(m, ToCome(d)) /\ ToCome(d)' = ToCome(d) \ {m}
              ELSE ToCome(d)' = ToCome(d)
<1>0. PICK m : m = down[c][1].msg
  OBVIOUS
<1>1. Shortens(down, down', c, Last - 1) /\ ~Mixes(down[c], Last - 1)
  BY ClientReadsShortens
<1>2. Ordered(puts, down[c]) /\ UNCHANGED <<up, put>>
  BY DEF OrderInv, ClientReads
<1>3. /\ \A e \in Clients \ {c} : StartMsgs(down'[e]) = StartMsgs(down[e])
      /\ m \notin StartMsgs(down'[c])
      /\ \A k : k # m => (k \in StartMsgs(down'[c]) <=> k \in StartMsgs(down[c]))
      /\ down[c][1].at = Start <=> m \in StartMsgs(down[c])
  <2>1. Takes(down, down', c, Last - 1, m)
    BY <1>0, <1>1, <1>2 DEF Takes
  <2>2. QED
    BY ONLY <2>1, StartsCut, c \in Clients
<1>4. m \in Msg /\ m \in Msgs(down[c]) /\ 1 \in DOMAIN down[c]
  BY ONLY <1>0, <1>1, ShortensMsgs, c \in Clients DEF Shortens, Byte
<1>8. \A k : ToSend(k)' <=> ToSend(k)
  BY <1>2 DEF ToSend
<1>5. CASE ~(d = c /\ down[c][1].at = Start /\ ~IsText(m) /\ m.des = d)
  <2>1. \A k \in PiecesTo(d) : k \in StartMsgs(down'[d]) <=> k \in StartMsgs(down[d])
    BY <1>3, <1>5 DEF PiecesTo
  <2>2. ToCome(d)' = ToCome(d)
    BY <1>2, <1>8, <2>1 DEF ToCome, PiecesTo
  <2>3. QED
    BY <1>0, <1>5, <2>2
<1>6. CASE d = c /\ down[c][1].at = Start /\ ~IsText(m) /\ m.des = d
  <2>1. m \in ToCome(d) /\ m \in PiecesTo(d)
    BY <1>3, <1>4, <1>6 DEF ToCome, PiecesTo
  <2>2. ASSUME NEW k \in ToCome(d) PROVE k \in Msg /\ ~IsText(k) /\ k.src = m.src
    BY <2>1 DEF ToCome
  <2>3. m \in Under /\ \A e \in Clients : Ahead(puts, Shown(d) \cup Msgs(down[d]), up[e])
    BY <1>4, <1>6 DEF Under, OrderInv
  <2>4. ASSUME NEW k \in ToCome(d), k \in StartMsgs(up[k.src]) PROVE Precedes(m, k)
    <3>1. k.src \in Clients
      BY <2>2 DEF Msg
    <3>2. Before(puts, m, k)
      BY <1>4, <1>6, <2>3, <2>4, <3>1 DEF Ahead, StartMsgs
    <3>3. QED
      BY <1>6, <2>2, <3>2 DEF Before
  <2>5. ASSUME NEW k \in ToCome(d), ToSend(k) PROVE Precedes(m, k)
    <3>1. k.src \in Clients /\ k.id \in Nat /\ k.from \in Nat /\ k.src = m.src
      BY <2>2, Constants DEF Msg, Ids
    <3>2. put[k.src] # NoPut /\ k.id = put[k.src].id /\ k.from >= put[k.src].from
      BY <2>5 DEF ToSend
    <3>3. Precedes(m, put[k.src])
      BY <1>6, <2>3, <3>1, <3>2 DEF PutInv
    <3>4. put[k.src].from \in Nat /\ m.from \in Nat
      BY <1>4, <3>1, <3>2 DEF TypeInv, Puts, Msg
    <3>5. QED
      BY <3>1, <3>2, <3>3, <3>4, Constants DEF Precedes
  <2>6. ASSUME NEW k \in ToCome(d), k \in StartMsgs(down[d]), k # m PROVE Precedes(m, k)
    <3>1. PICK j \in DOMAIN down[d] : down[d][j].at = Start /\ down[d][j].msg = k
      BY <2>6 DEF StartMsgs
    <3>2. j # 1 /\ DOMAIN down[d] = 1..Len(down[d])
      BY <1>0, <1>6, <2>6, <3>1, LenProperties DEF TypeInv
    <3>3. 1 \in 1..(j - 1)
      <4>1. Len(down[d]) \in Nat
        BY LenProperties DEF TypeInv
      <4>2. QED
        BY <3>2, <4>1
    <3>4. Before(puts, m, k)
      BY <1>0, <1>2, <1>6, <3>1, <3>3 DEF Ordered
    <3>5. QED
      BY <1>6, <2>2, <3>4 DEF Before
  <2>7. First(m, ToCome(d))
    BY <2>1, <2>4, <2>5, <2>6 DEF First, ToCome
  <2>8. ~Precedes(m, m)
    BY <2>1, PrecedesOnce
  <2>9. m \notin ToCome(d)'
    <3>1. m \notin StartMsgs(up'[m.src])
      BY <1>2, <2>1, <2>4, <2>8
    <3>2. ~(ToSend(m)')
      BY <1>8, <2>1, <2>5, <2>8
    <3>3. m \notin StartMsgs(down'[d])
      BY <1>3, <1>6
    <3>4. QED
      BY <3>1, <3>2, <3>3 DEF ToCome
  <2>10. \A k \in PiecesTo(d) : k # m => (k \in ToCome(d)' <=> k \in ToCome(d))
    BY <1>2, <1>3, <1>6, <1>8 DEF ToCome, PiecesTo
  <2>11. ToCome(d)' \in SUBSET PiecesTo(d) /\ ToCome(d) \in SUBSET PiecesTo(d)
    BY DEF ToCome, PiecesTo
  <2>12. ToCome(d)' = ToCome(d) \ {m}
    BY <2>9, <2>10, <2>11
  <2>13. QED
    BY <1>0, <1>6, <2>7, <2>12
<1>7. QED
  BY <1>5, <1>6

\* A file that is put is offered behind what is to come from its sender; when no
\* other sends to d, that is all there is to come.
LEMMA PutToCome ==
  ASSUME TypeInv, OriginInv, NEW c \in Clients, Put(c), NEW d \in Clients \ mixed'
  PROVE  /\ UNCHANGED <<packets, disk, joined>> /\ d \notin mixed
         /\ \/ ToCome(d)' = ToCome(d) /\ puts'[d] = puts[d]
            \/ \E f \in Files : \E N :
                 /\ Offered(N, d, c, f, sent + 1) /\ ToCome(d)' = ToCome(d) \cup N
                 /\ \A m \in ToCome(d) : m.id < sent + 1 /\ m.src = c
                 /\ puts'[d] = [puts[d] EXCEPT ![f] = puts[d][f] + 1]
<1>1. PICK e \in Clients \ {c}, f \in Files :
        /\ Size[f] > 0
        /\ put' = [put EXCEPT ![c] = [file |-> f, id |-> sent + 1, des |-> e, from |-> 0]]
        /\ puts' = [puts EXCEPT ![e][f] = @ + 1]
        /\ mixed' = IF Arriving(e, c) THEN mixed \cup {e} ELSE mixed
  BY DEF Put
<1>2. UNCHANGED <<packets, disk, joined, up, down>> /\ put[c] = NoPut
      /\ sent < MaxSend /\ d \notin mixed /\ sent \in Nat
  BY <1>1, Constants DEF Put, wires, TypeInv
<1>3. /\ put'[c] = [file |-> f, id |-> sent + 1, des |-> e, from |-> 0]
      /\ \A b \in Clients \ {c} : put'[b] = put[b]
  BY <1>1 DEF TypeInv
<1>4. put'[c] # NoPut
  <2>1. sent + 1 \in Ids
    BY <1>2, Constants DEF Ids
  <2>2. put'[c] \in Puts
    BY <1>3, <2>1 DEF Puts
  <2>3. QED
    BY <2>2, NoPutOut
<1>5. ASSUME NEW k \in PiecesTo(d)
      PROVE  ToSend(k)' <=> \/ ToSend(k)
                            \/ k.src = c /\ k.id = sent + 1 /\ k.file = f /\ e = d
  <2>1. k.src \in Clients /\ k.des = d /\ k.from \in Nat
    BY PieceTypes
  <2>2. CASE k.src = c
    <3>1. ~ToSend(k)
      BY <1>2, <2>2 DEF ToSend
    <3>2. k.from >= 0
      BY <2>1
    <3>3. ToSend(k)' <=> k.id = sent + 1 /\ k.des = e /\ k.file = f /\ k.from >= 0
      BY <1>3, <1>4, <2>2 DEF ToSend
    <3>4. QED
      BY <2>1, <2>2, <3>1, <3>2, <3>3
  <2>3. CASE k.src # c
    BY <1>3, <2>1, <2>3 DEF ToSend
  <2>4. QED
    BY <2>2, <2>3
<1> DEFINE N == {k \in PiecesTo(d) : k.src = c /\ k.id = sent + 1 /\ k.file = f /\ e = d
                                      /\ Begins(k)}
<1>6. ToCome(d)' = ToCome(d) \cup N
  <2>1. ASSUME NEW k \in PiecesTo(d) PROVE k \in ToCome(d)' <=> k \in ToCome(d) \/ k \in N
    BY <1>2, <1>5, <2>1 DEF ToCome, PiecesTo
  <2>2. ToCome(d)' \in SUBSET PiecesTo(d) /\ ToCome(d) \in SUBSET PiecesTo(d)
    BY DEF ToCome, PiecesTo
  <2>3. QED
    BY <2>1, <2>2
<1>7. CASE e # d
  <2>1. N = {} /\ puts'[d] = puts[d]
    BY <1>1, <1>7 DEF TypeInv
  <2>2. QED
    BY <1>2, <1>6, <2>1
<1>8. CASE e = d
  <2>1. ~Arriving(d, c)
    BY <1>1, <1>8
  <2>2. ASSUME NEW k \in ToCome(d) PROVE k.id < sent + 1 /\ k.src = c
    <3>1. /\ k \in Msg /\ k.kind = "file" /\ k.des = d /\ k.src \in Clients /\ k.id \in Nat
          /\ ~IsText(k)
      BY Constants DEF ToCome, IsText, Msg, Ids
    <3>2. CASE k \in StartMsgs(up[k.src])
      <4>1. k \in PiecesFor(d, up[k.src]) /\ k \in Msgs(up[k.src])
        BY <3>1, <3>2 DEF StartMsgs, PiecesFor, Msgs
      <4>2. k.src = c
        BY <2>1, <3>1, <4>1 DEF Arriving
      <4>3. k.id <= sent
        BY <3>1, <4>1 DEF OriginInv
      <4>4. QED
        BY <1>2, <3>1, <4>2, <4>3
    <3>3. CASE k \in StartMsgs(down[d])
      <4>1. k \in PiecesFor(d, down[d]) /\ k \in Msgs(down[d])
        BY <3>1, <3>3 DEF StartMsgs, PiecesFor, Msgs
      <4>2. k.src = c
        BY <2>1, <3>1, <4>1 DEF Arriving
      <4>3. k.id <= sent
        BY <3>1, <4>1 DEF OriginInv
      <4>4. QED
        BY <1>2, <3>1, <4>2, <4>3
    <3>4. CASE ToSend(k)
      <4>1. put[k.src] # NoPut /\ put[k.src].des = d
        BY <3>1, <3>4 DEF ToSend
      <4>2. k.src = c
        BY <2>1, <3>1, <4>1 DEF Arriving
      <4>3. QED
        BY <1>2, <4>1, <4>2
    <3>5. QED
      BY <3>2, <3>3, <3>4 DEF ToCome
  <2>3. puts'[d] = [puts[d] EXCEPT ![f] = puts[d][f] + 1]
    BY <1>1, <1>8 DEF TypeInv
  <2>4. Offered(N, d, c, f, sent + 1)
    <3>1. ASSUME NEW x \in Nat, Multiple(x), x < Size[f] PROVE \E k \in N : k.from = x
      <4> DEFINE k == [id |-> sent + 1, kind |-> "file", src |-> c, des |-> d,
                       file |-> f, from |-> x]
      <4>1. k \in Msg
        BY <1>2, Constants DEF Msg, Ids, AllKinds
      <4>2. k \in N
        BY <1>8, <3>1, <4>1 DEF PiecesTo, IsText, Begins
      <4>3. QED
        BY <4>2
    <3>2. N \in SUBSET PiecesTo(d) /\ \A k \in N : k.id = sent + 1 /\ k.src = c /\ k.file = f
                                                   /\ Begins(k)
      OBVIOUS
    <3>3. c # d /\ sent + 1 \in Nat
      BY <1>2, <1>8
    <3> HIDE DEF N
    <3>4. QED
      BY <1>1, <3>1, <3>2, <3>3 DEF Offered
  <2>5. QED
    BY <1>2, <1>6, <2>2, <2>3, <2>4
<1>9. QED
  BY <1>7, <1>8

-----------------------------------------------------------------------------
(* Files that are whole.                                                    *)

LEMMA WholeSame ==
  ASSUME NEW d, Whole(d), ToCome(d)' = ToCome(d), packets'[d] = packets[d],
         disk'[d] = disk[d], puts'[d] = puts[d]
  PROVE  Whole(d)'
BY DEF Whole

\* What the receive thread of d does with a piece for d that it reads.
LEMMA RecvFileWhole ==
  ASSUME TypeInv, NEW d \in Clients, Whole(d), NEW m, First(m, ToCome(d)),
         DoRecvFile(d, m), ToCome(d)' = ToCome(d) \ {m}, puts' = puts
  PROVE  Whole(d)'
<1> DEFINE M == ToCome(d)
           p == packets[d]
<1>1. /\ M \in SUBSET PiecesTo(d) /\ p \in Nat /\ Chain(d, M, p)
      /\ \A f \in Files : <<d, f>> \notin NoAccess => Received(disk[d][f], f, puts[d][f], M)
  BY ToComePieces DEF Whole, TypeInv
<1>2. m \in M /\ m.file \in Files /\ m.src # d /\ m \in Msg
  BY <1>1, PieceTypes DEF First, Chain
<1>3. packets'[d] = Counted(d, m, p)
  BY <1>2 DEF DoRecvFile, Counted, TypeInv
<1>4. ToCome(d)' = M \ {m} /\ puts'[d] = puts[d] /\ First(m, M)
  OBVIOUS
<1>5. ASSUME NEW f \in Files, <<d, f>> \notin NoAccess
      PROVE  LET b == disk[d][f]
                 c == disk'[d][f]
                 V == Cell(f)
             IN /\ b \in Seq(V)
                /\ m.file = f => /\ c = b \o Written(m, p) /\ c \in Seq(V)
                                 /\ Written(m, p) \in Seq(V)
                /\ m.file # f => c = b
  <2>1. disk[d][f] \in Seq(Cell(f)) /\ DOMAIN disk = Clients /\ DOMAIN disk[d] = Files
    BY DEF TypeInv
  <2>2. m.file = f => /\ Written(m, p) \in Seq(Cell(f))
                      /\ disk[d][f] \o Written(m, p) \in Seq(Cell(f))
    BY <1>2, <2>1, WrittenBytes, ConcatProperties
  <2>3. m.file = f => disk'[d][f] = disk[d][f] \o Written(m, p)
    BY <1>2, <1>5, <2>1 DEF DoRecvFile, Appended
  <2>4. m.file # f => disk'[d][f] = disk[d][f]
    BY <1>2, <2>1 DEF DoRecvFile
  <2>5. QED
    BY <2>1, <2>2, <2>3, <2>4
<1> HIDE DEF M, p
<1>6. Chain(d, M \ {m}, Counted(d, m, p))
  BY ONLY <1>1, <1>4, ChainRead
<1>7. ASSUME NEW f \in Files, <<d, f>> \notin NoAccess
      PROVE  Received(disk'[d][f], f, puts[d][f], M \ {m})
  <2>1. PICK b, c, V, n, R : /\ b = disk[d][f] /\ c = disk'[d][f] /\ V = Cell(f)
                             /\ n = puts[d][f] /\ R = M \ {m}
    OBVIOUS
  <2>2. /\ b \in Seq(V) /\ n \in Nat /\ Received(b, f, n, M)
        /\ m.file = f => c \in Seq(V) /\ c = b \o Written(m, p)
        /\ m.file = f => Written(m, p) \in Seq(V)
        /\ m.file # f => c = b
    BY <1>1, <1>5, <1>7, <2>1 DEF TypeInv
  <2>3. Received(c, f, n, R)
    BY ONLY <1>1, <1>4, <1>7, <2>1, <2>2, f \in Files, FileRead
  <2>4. QED
    BY <2>1, <2>3
<1>8. QED
  BY <1>3, <1>4, <1>6, <1>7 DEF Whole

LEMMA ClientReadsWhole ==
  ASSUME TypeInv, OriginInv, OrderInv, PutInv, NEW c \in Clients, ClientReads(c),
         ~joined', NEW d \in Clients, Whole(d)
  PROVE  Whole(d)'
<1>1. PICK m : m = down[c][1].msg
  OBVIOUS
<1>2. \A x, y \in ToCome(d) : x.src = y.src
  BY DEF Whole, Chain
<1>3. puts' = puts
  BY DEF ClientReads
<1>4. CASE d = c /\ down[c][1].at = Start /\ ~IsText(m) /\ m.des = d
  <2>1. First(m, ToCome(d)) /\ ToCome(d)' = ToCome(d) \ {m}
    BY <1>1, <1>2, <1>4, ClientReadsToCome
  <2>2. DoRecvFile(d, m)
    BY <1>1, <1>4, ClientReadsShortens
  <2>3. QED
    BY <1>3, <2>1, <2>2, RecvFileWhole
<1>5. CASE ~(d = c /\ down[c][1].at = Start /\ ~IsText(m) /\ m.des = d)
  <2>1. ToCome(d)' = ToCome(d)
    BY <1>1, <1>2, <1>5, ClientReadsToCome
  <2>2. \/ ~IsText(m) /\ DoRecvFile(c, m) /\ down[c][1].at = Start
        \/ UNCHANGED <<packets, disk>>
    BY <1>1, ClientReadsShortens DEF ShowText
  <2>3. m \in Msgs(down[c])
    BY <1>1, ClientReadsShortens, ShortensMsgs
  <2>4. ~IsText(m) => c \in {m.src, m.des}
    BY <2>3 DEF OriginInv
  <2>5. DoRecvFile(c, m) /\ d # c => packets'[d] = packets[d] /\ disk'[d] = disk[d]
    BY DEF DoRecvFile, TypeInv
  <2>6. DoRecvFile(c, m) /\ m.src = c => UNCHANGED <<packets, disk>>
    BY DEF DoRecvFile
  <2>7. packets'[d] = packets[d] /\ disk'[d] = disk[d]
    BY <1>5, <2>2, <2>4, <2>5, <2>6
  <2>8. QED
    BY <1>3, <2>1, <2>7, WholeSame
<1>6. QED
  BY <1>4, <1>5

LEMMA PutWhole ==
  ASSUME TypeInv, OriginInv, NEW c \in Clients, Put(c), NEW d \in Clients \ mixed',
         Whole(d)
  PROVE  Whole(d)'
<1>1. packets' = packets /\ disk' = disk
  BY PutToCome
<1>2. CASE ToCome(d)' = ToCome(d) /\ puts'[d] = puts[d]
  BY <1>1, <1>2, WholeSame
<1>3. ASSUME NEW f \in Files, NEW N,
             Offered(N, d, c, f, sent + 1), ToCome(d)' = ToCome(d) \cup N,
             \A m \in ToCome(d) : m.id < sent + 1 /\ m.src = c,
             puts'[d] = [puts[d] EXCEPT ![f] = puts[d][f] + 1]
      PROVE  Whole(d)'
  <2> DEFINE M == ToCome(d)
             p == packets[d]
             i == sent + 1
  <2>1. /\ M \in SUBSET PiecesTo(d) /\ p \in Nat /\ Chain(d, M, p)
        /\ Offered(N, d, c, f, i) /\ ToCome(d)' = M \cup N
        /\ \A m \in M : m.id < i /\ m.src = c
        /\ packets'[d] = p
    BY <1>1, <1>3, ToComePieces DEF Whole, TypeInv
  <2>2. ASSUME NEW g \in Files, <<d, g>> \notin NoAccess
        PROVE  /\ puts[d][g] \in Nat /\ Received(disk[d][g], g, puts[d][g], M)
               /\ puts'[d][g] = IF g = f THEN puts[d][g] + 1 ELSE puts[d][g]
               /\ disk'[d][g] = disk[d][g]
    <3>1. Received(disk[d][g], g, puts[d][g], M) /\ disk'[d][g] = disk[d][g]
      BY <1>1, <2>2 DEF Whole
    <3>2. puts[d] \in [Files -> Nat]
      BY DEF TypeInv
    <3>3. puts'[d][g] = IF g = f THEN puts[d][g] + 1 ELSE puts[d][g]
      BY ONLY <1>3, <3>2, f \in Files, g \in Files
    <3>4. QED
      BY <3>1, <3>2, <3>3
  <2> HIDE DEF M, p, i
  <2>3. PICK R : R = M \cup N
    OBVIOUS
  <2>4. Chain(d, R, p)
    BY ONLY <2>1, <2>3, ChainOffered
  <2>5. ASSUME NEW g \in Files, <<d, g>> \notin NoAccess
        PROVE  Received(disk'[d][g], g, puts'[d][g], R)
    <3>1. PICK b, n : b = disk[d][g] /\ n = puts[d][g]
      OBVIOUS
    <3>2. n \in Nat /\ Received(b, g, n, M)
      BY <2>2, <2>5, <3>1
    <3>3. Received(b, g, IF g = f THEN n + 1 ELSE n, R)
      BY ONLY <2>1, <2>3, <3>2, FileOffered
    <3>4. QED
      BY <2>2, <2>5, <3>1, <3>3
  <2>6. QED
    BY <2>1, <2>3, <2>4, <2>5 DEF Whole
<1>4. QED
  BY <1>2, <1>3, PutToCome

LEMMA PlaceStep ==
  ASSUME TypeInv, PlaceInv, Next
  PROVE  PlaceInv'
<1>0. PICK c \in Clients : \/ Login(c) \/ SendText(c) \/ Put(c) \/ SendPiece(c)
                           \/ ServerReads(c) \/ ClientReads(c)
  BY DEF Next
<1>1. CASE put' = put
  BY <1>1 DEF PlaceInv
<1>2. CASE Put(c)
  <2>1. PICK d \in Clients \ {c}, f \in Files : PutsRaise(c, d, f)
    BY <1>2, PutRaises
  <2>2. put'[c].from = 0 /\ \A e \in Clients \ {c} : put'[e] = put[e]
    BY <2>1 DEF PutsRaise, TypeInv
  <2>3. QED
    BY <2>2, Multiples DEF PlaceInv
<1>3. CASE SendPiece(c)
  <2>1. /\ \A e \in Clients \ {c} : put'[e] = put[e]
        /\ put'[c] # NoPut => put'[c].from = put[c].from + Word
    BY <1>3, SendPieceWrites
  <2>2. Multiple(put[c].from)
    BY <1>3 DEF SendPiece, PlaceInv
  <2>3. QED
    BY <2>1, <2>2, Multiples DEF PlaceInv
<1>4. QED
  BY <1>0, <1>1, <1>2, <1>3 DEF Login, SendText, ServerReads, ClientReads, clientV

LEMMA WholeStep ==
  ASSUME TypeInv, OriginInv, OrderInv, PutInv, PlaceInv, WholeInv, Next
  PROVE  WholeInv'
<1> SUFFICES ASSUME ~joined', NEW d \in Clients \ mixed'
             PROVE  Whole(d)'
  BY DEF WholeInv
<1>0. PICK c \in Clients : \/ Login(c) \/ SendText(c) \/ Put(c) \/ SendPiece(c)
                           \/ ServerReads(c) \/ ClientReads(c)
  BY DEF Next
<1>1. ~joined /\ d \notin mixed
  BY <1>0 DEF Login, SendText, Put, SendPiece, ServerReads, Handle, ClientReads, history,
              TypeInv
<1>2. Whole(d)
  BY <1>1 DEF WholeInv
<1>3. CASE Login(c)
  <2>1. UNCHANGED <<packets, disk, puts>>
    BY <1>3 DEF Login, clientV, history
  <2>2. QED
    BY <1>2, <1>3, <2>1, LoginToCome, WholeSame
<1>4. CASE SendText(c)
  <2>1. UNCHANGED <<packets, disk, puts>>
    BY <1>4 DEF SendText, clientV
  <2>2. QED
    BY <1>2, <1>4, <2>1, SendTextToCome, WholeSame
<1>5. CASE Put(c)
  BY <1>2, <1>5, PutWhole
<1>6. CASE SendPiece(c)
  <2>1. UNCHANGED <<packets, disk, puts>>
    BY <1>6 DEF SendPiece, history
  <2>2. QED
    BY <1>2, <1>6, <2>1, SendPieceToCome, WholeSame
<1>7. CASE ServerReads(c)
  <2>1. UNCHANGED <<packets, disk, puts>>
    BY <1>7 DEF ServerReads, clientV
  <2>2. QED
    BY <1>2, <1>7, <2>1, ServerReadsToCome, WholeSame
<1>8. CASE ClientReads(c)
  BY <1>2, <1>8, ClientReadsWhole
<1>9. QED
  BY <1>0, <1>3, <1>4, <1>5, <1>6, <1>7, <1>8

\* Nothing is to come: what is held is every copy that was sent.
LEMMA NothingToCome ==
  ASSUME NEW d, ToCome(d) = {}, Whole(d), TypeInv, d \in Clients
  PROVE  /\ packets[d] = 0
         /\ \A f \in Files : <<d, f>> \notin NoAccess =>
              Holds(disk[d][f], f, puts[d][f], 0)
<1>1. packets[d] = 0
  BY DEF Whole, Chain
<1>2. ASSUME NEW f \in Files, <<d, f>> \notin NoAccess
      PROVE  Holds(disk[d][f], f, puts[d][f], 0)
  <2>1. IdsOf({}, f) = {}
    BY DEF IdsOf
  <2>2. Cardinality({}) = 0
    BY FS_EmptySet
  <2>3. puts[d][f] - 0 = puts[d][f]
    BY DEF TypeInv
  <2>4. Received(disk[d][f], f, puts[d][f], {})
    BY <1>2 DEF Whole
  <2>5. QED
    BY <2>1, <2>2, <2>3, <2>4 DEF Received
<1>3. QED
  BY <1>1, <1>2

LEMMA WholeInit == Init => PlaceInv /\ WholeInv
<1> SUFFICES ASSUME Init PROVE PlaceInv /\ WholeInv
  OBVIOUS
<1>1. \A c \in Clients : up[c] = <<>> /\ down[c] = <<>> /\ put[c] = NoPut /\ packets[c] = 0
                         /\ \A f \in Files : disk[c][f] = <<>> /\ puts[c][f] = 0
  BY DEF Init
<1>2. ASSUME NEW d \in Clients PROVE Whole(d)
  <2>1. StartMsgs(<<>>) = {}
    BY DEF StartMsgs
  <2>2. ToCome(d) = {}
    BY <1>1, <2>1 DEF ToCome, ToSend, Msg
  <2>3. Chain(d, {}, 0)
    BY DEF Chain, First
  <2>4. ASSUME NEW f \in Files PROVE Received(<<>>, f, 0, {})
    <3>1. IdsOf({}, f) = {} /\ Cardinality({}) = 0
      BY FS_EmptySet DEF IdsOf
    <3>2. Len(Expected(f)) \in Nat
      BY ExpectedBytes
    <3>3. Holds(<<>>, f, 0, 0)
      <4>1. \A l \in Nat : Len(<<>>) = 0 * l + 0
        OBVIOUS
      <4>2. DOMAIN <<>> = {}
        OBVIOUS
      <4>3. Len(<<>>) = 0 * Len(Expected(f)) + 0
        BY <3>2, <4>1
      <4>4. ASSUME NEW b, Len(b) = 0 * Len(Expected(f)) + 0, DOMAIN b = {}
            PROVE  Holds(b, f, 0, 0)
        BY ONLY <4>4 DEF Holds
      <4>5. QED
        BY <4>2, <4>3, <4>4
    <3>4. 0 - Cardinality(IdsOf({}, f)) = 0
      BY <3>1
    <3>5. QED
      BY <3>3, <3>4 DEF Received
  <2>5. QED
    BY <1>1, <2>2, <2>3, <2>4 DEF Whole
<1>3. QED
  BY <1>1, <1>2 DEF PlaceInv, WholeInv

\* What is held, byte by byte.
LEMMA HoldsBytes ==
  ASSUME NEW V, NEW b \in Seq(V), NEW f \in Files, NEW n \in Nat, Holds(b, f, n, 0)
  PROVE  LET e == Expected(f)
         IN /\ Len(b) = n * Len(e)
            /\ \A i \in DOMAIN b : b[i] = e[((i - 1) % Len(e)) + 1]
<1>1. PICK e, l : e = Expected(f) /\ l = Len(e)
  OBVIOUS
<1>2. l \in Nat
  BY <1>1, ExpectedBytes
<1>3. /\ Len(b) = n * l + 0
      /\ \A q \in Nat, r \in 1..l : q * l + r \in DOMAIN b => b[q * l + r] = e[r]
  BY <1>1 DEF Holds
<1>4. Len(b) = n * l
  BY <1>2, <1>3
<1>5. ASSUME NEW i \in DOMAIN b PROVE b[i] = e[((i - 1) % l) + 1]
  <2>1. i \in Nat /\ i >= 1 /\ i <= Len(b)
    BY <1>5, LenProperties
  <2>2. l >= 1
    <3>1. l = 0 => n * l = 0
      OBVIOUS
    <3>2. QED
      BY <1>2, <1>4, <2>1, <3>1
  <2>3. PICK q, r : q \in Nat /\ r \in 1..l /\ i = q * l + r /\ r = ((i - 1) % l) + 1
    BY <1>2, <2>1, <2>2, Place
  <2>4. QED
    BY <1>3, <2>3
<1>6. QED
  BY <1>1, <1>4, <1>5

\* What a receiver has of files that were sent one at a time, and whole.
THEOREM FramingFiles == Spec => []FilesExact
<1>1. Init => Inv /\ PlaceInv /\ WholeInv
  BY InvInit, WholeInit
<1>2. Inv /\ PlaceInv /\ WholeInv /\ [Next]_vars => (Inv /\ PlaceInv /\ WholeInv)'
  <2>1. ASSUME Inv, PlaceInv, WholeInv, Next PROVE PlaceInv' /\ WholeInv'
    BY <2>1, PlaceStep, WholeStep DEF Inv
  <2>2. ASSUME PlaceInv, WholeInv, UNCHANGED vars PROVE PlaceInv' /\ WholeInv'
    BY <2>2 DEF PlaceInv, WholeInv, Whole, ToCome, ToSend, vars, wires, clientV, history
  <2>3. QED
    BY <2>1, <2>2, InvStep
<1>3. Inv /\ WholeInv /\ BytesInOrder => FilesExact
  <2> SUFFICES ASSUME Inv, WholeInv, BytesInOrder, ~joined, NEW d \in Clients \ mixed, Quiet(d)
               PROVE  /\ packets[d] = 0
                      /\ \A f \in Files : <<d, f>> \notin NoAccess =>
                           LET e == Expected(f)
                               b == disk[d][f]
                           IN /\ Len(b) = puts[d][f] * Len(e)
                              /\ \A i \in DOMAIN b : b[i] = e[((i - 1) % Len(e)) + 1]
    BY DEF FilesExact
  <2>1. TypeInv /\ Whole(d)
    BY DEF Inv, WholeInv
  <2>2. ASSUME NEW m \in ToCome(d) PROVE FALSE
    <3>1. m.src \in Clients /\ m.kind = "file" /\ m.des = d
      <4>1. m \in PiecesTo(d)
        BY ToComePieces
      <4>2. QED
        BY <4>1, PieceTypes
    <3>2. m \notin StartMsgs(up[m.src]) /\ m \notin StartMsgs(down[d])
      <4>1. PiecesFor(d, up[m.src]) = {} /\ PiecesFor(d, down[d]) = {}
        BY <3>1 DEF Quiet
      <4>2. \A s : m \in StartMsgs(s) => m \in PiecesFor(d, s)
        BY ONLY <3>1 DEF PiecesFor, StartMsgs
      <4>3. QED
        BY <4>1, <4>2
    <3>3. ~ToSend(m)
      BY <3>1 DEF Quiet, ToSend
    <3>4. QED
      BY <3>2, <3>3 DEF ToCome
  <2>3. ToCome(d) = {}
    BY <2>2
  <2>4. /\ packets[d] = 0
        /\ \A f \in Files : <<d, f>> \notin NoAccess =>
             Holds(disk[d][f], f, puts[d][f], 0)
    BY <2>1, <2>3, NothingToCome
  <2>5. \A f \in Files : disk[d][f] \in Seq(Cell(f)) /\ puts[d][f] \in Nat
    BY <2>1 DEF TypeInv
  <2>6. QED
    BY <2>4, <2>5, HoldsBytes
<1>4. Spec => [](Inv /\ PlaceInv /\ WholeInv)
  BY <1>1, <1>2, PTL DEF Spec
<1>5. QED
  BY <1>3, <1>4, FramingBytes, PTL
=============================================================================
