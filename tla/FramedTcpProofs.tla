-------------------------- MODULE FramedTcpProofs --------------------------
(***************************************************************************)
(* Proofs about FramedTcp, for any threads, header and buffer lengths:     *)
(* the bytes between the two sides are one stream, without gap, that       *)
(* starts at the byte the reader expects and ends where the thread that    *)
(* holds the mutex goes on.  From it follow the alignment of the reader    *)
(* and the implementation of Channel.                                      *)
(***************************************************************************)
EXTENDS FramedTcp, SequenceTheorems, TLAPS

\* Position p of the frame of message m: its end is the beginning of the next.
At(m, p) == IF m \in DOMAIN frames /\ p = FrameLen(m)
            THEN [msg |-> m + 1, pos |-> 0] ELSE [msg |-> m, pos |-> p]

After(b) == At(b.msg, b.pos + 1)

\* The byte the reader expects, and the one that is sent next.
ReadPos == At(Len(got) + 1, (IF rpc = "body" THEN HeadLen ELSE 0) + Len(buf))
SendPos == IF mutex # Nobody /\ wpc[mutex] = "send"
           THEN At(cur[mutex], idx[mutex]) ELSE [msg |-> Len(frames) + 1, pos |-> 0]

\* Only the thread with the mutex sends, and it sends the last message.
Writing ==
  \A w \in Writers :
    /\ wpc[w] \in {"start", "send"} => mutex = w
    /\ wpc[w] = "send" =>
         /\ cur[w] = Len(frames) /\ Len(frames) > 0
         /\ idx[w] <= FrameLen(cur[w])
    /\ wpc[w] = "gone" => conn # "up"

InFrames ==
  \A i \in DOMAIN wire :
    wire[i].msg \in DOMAIN frames /\ wire[i].pos < FrameLen(wire[i].msg)

\* Up to the end of a frame the positions follow each other, and so do frames.
InOrder ==
  \A i, j \in DOMAIN wire :
    i <= j /\ wire[i].pos + (j - i) < FrameLen(wire[i].msg) =>
      wire[j] = [msg |-> wire[i].msg, pos |-> wire[i].pos + (j - i)]

NoGap ==
  \A i \in DOMAIN wire : i + 1 \in DOMAIN wire => wire[i + 1] = After(wire[i])

\* The stream connects the two sides.
Front == wire # <<>> /\ rpc # "gone" => wire[1] = ReadPos
Back  == wire # <<>> /\ conn = "up" => After(wire[Len(wire)]) = SendPos
Empty == wire = <<>> /\ rpc # "gone" /\ conn = "up" => ReadPos = SendPos

\* What the reader has got of the message it reads, and of those before.
Reading ==
  LET m == Len(got) + 1 IN
  /\ rpc = "idle" => buf = <<>>
  /\ rpc = "head" =>
       /\ Len(buf) <= HeadLen /\ buf = Bytes(m, 0, Len(buf))
       /\ buf # <<>> => m \in DOMAIN frames
  /\ rpc = "body" =>
       /\ m \in DOMAIN frames /\ buflen = frames[m]
       /\ Len(buf) <= buflen /\ buf = Bytes(m, HeadLen, HeadLen + Len(buf))

GotRight == \A i \in DOMAIN got : i \in DOMAIN frames /\ got[i] = Text(i)

Stream == InFrames /\ InOrder /\ NoGap /\ Front /\ Back /\ Empty

StreamInv == TypeOK /\ Writing /\ Stream /\ Reading /\ GotRight

-----------------------------------------------------------------------------
(* Bytes, frames and positions.                                            *)

LEMMA Constants ==
  /\ HeadLen \in Nat /\ HeadLen > 0 /\ BufLen \in Nat /\ MaxMsg \in Nat
  /\ Lens \subseteq Nat /\ Nobody \notin Writers
BY FramedConstants

LEMMA BytesSeq ==
  ASSUME NEW m \in 1..MaxMsg, NEW i \in Nat, NEW j \in Nat,
         i <= j, j <= HeadLen + BufLen
  PROVE  /\ Bytes(m, i, j) \in Seq(Byte) /\ Len(Bytes(m, i, j)) = j - i
         /\ DOMAIN Bytes(m, i, j) = 1..(j - i)
         /\ \A k \in 1..(j - i) : Bytes(m, i, j)[k] = [msg |-> m, pos |-> i + k - 1]
<1>1. \A k \in 1..(j - i) : [msg |-> m, pos |-> i + k - 1] \in Byte
  BY Constants DEF Byte
<1>2. Bytes(m, i, j) \in [1..(j - i) -> Byte]
  BY <1>1 DEF Bytes
<1>3. Bytes(m, i, j) \in Seq(Byte)
  BY <1>2, SeqDef
<1> QED
  BY <1>2, <1>3 DEF Bytes

\* A part of the frame, and the bytes after it, are a longer part.
LEMMA BytesConcat ==
  ASSUME NEW m \in 1..MaxMsg, NEW i \in Nat, NEW j \in Nat, NEW k \in Nat,
         i <= j, j <= k, k <= HeadLen + BufLen
  PROVE  Bytes(m, i, j) \o Bytes(m, j, k) = Bytes(m, i, k)
<1> DEFINE a == Bytes(m, i, j)  b == Bytes(m, j, k)  c == Bytes(m, i, k)
<1>0. j <= HeadLen + BufLen /\ i <= k
  BY Constants
<1>1. /\ a \in Seq(Byte) /\ Len(a) = j - i
      /\ \A q \in 1..(j - i) : a[q] = [msg |-> m, pos |-> i + q - 1]
  BY <1>0, BytesSeq
<1>2. /\ b \in Seq(Byte) /\ Len(b) = k - j
      /\ \A q \in 1..(k - j) : b[q] = [msg |-> m, pos |-> j + q - 1]
  BY BytesSeq
<1>3. /\ c \in Seq(Byte) /\ Len(c) = k - i
      /\ \A q \in 1..(k - i) : c[q] = [msg |-> m, pos |-> i + q - 1]
  BY <1>0, BytesSeq
<1> HIDE DEF a, b, c
<1>4. /\ a \o b \in Seq(Byte) /\ Len(a \o b) = Len(a) + Len(b)
      /\ \A q \in 1..(Len(a) + Len(b)) :
           (a \o b)[q] = IF q <= Len(a) THEN a[q] ELSE b[q - Len(a)]
  BY <1>1, <1>2, ConcatProperties
<1>5. ASSUME NEW q \in 1..(k - i) PROVE (a \o b)[q] = c[q]
  <2>0. q \in 1..(Len(a) + Len(b))
    BY <1>1, <1>2
  <2>1. CASE q <= j - i
    <3>1. (a \o b)[q] = a[q]
      BY <2>0, <2>1, <1>1, <1>4
    <3>2. q \in 1..(j - i)
      BY <2>1
    <3>3. a[q] = [msg |-> m, pos |-> i + q - 1]
      BY <3>2, <1>1
    <3> QED
      BY <3>1, <3>3, <1>3
  <2>2. CASE ~(q <= j - i)
    <3>1. q - (j - i) \in 1..(k - j) /\ q \in 1..(Len(a) + Len(b)) /\ ~(q <= Len(a))
      BY <2>2, <1>1, <1>2
    <3>2. (a \o b)[q] = b[q - (j - i)]
      BY <3>1, <1>1, <1>4
    <3>3. b[q - (j - i)] = [msg |-> m, pos |-> j + (q - (j - i)) - 1]
      BY <3>1, <1>2
    <3> QED
      BY <3>2, <3>3, <1>3
  <2> QED
    BY <2>1, <2>2
<1>6. a \o b \in Seq(Byte) /\ Len(a \o b) = k - i
  BY <1>1, <1>2, <1>4
<1>7. a \o b = c
  BY <1>3, <1>5, <1>6, SeqEqual
<1> QED
  BY <1>7 DEF a, b, c

LEMMA Part ==
  ASSUME NEW m \in 1..MaxMsg, NEW i \in Nat, NEW k \in Nat, i + k <= HeadLen + BufLen
  PROVE  /\ Bytes(m, i, i + k) \in Seq(Byte) /\ Len(Bytes(m, i, i + k)) = k
         /\ \A q \in 1..k : Bytes(m, i, i + k)[q] = [msg |-> m, pos |-> i + q - 1]
<1> DEFINE j == i + k
<1>1. j \in Nat /\ i <= j /\ j <= HeadLen + BufLen /\ j - i = k
  BY Constants
<1> HIDE DEF j
<1>2. /\ Bytes(m, i, j) \in Seq(Byte) /\ Len(Bytes(m, i, j)) = j - i
      /\ \A q \in 1..(j - i) : Bytes(m, i, j)[q] = [msg |-> m, pos |-> i + q - 1]
  BY <1>1, BytesSeq
<1>3. Len(Bytes(m, i, j)) = k
  BY <1>1, <1>2
<1>4. \A q \in 1..k : Bytes(m, i, j)[q] = [msg |-> m, pos |-> i + q - 1]
  BY <1>1, <1>2
<1> QED
  BY <1>2, <1>3, <1>4 DEF j

\* A sequence cut after its k-th element.
LEMMA Cut ==
  ASSUME NEW S, NEW s \in Seq(S), NEW k \in 0..Len(s)
  PROVE  /\ SubSeq(s, 1, k) \in Seq(S) /\ Len(SubSeq(s, 1, k)) = k
         /\ \A q \in 1..k : SubSeq(s, 1, k)[q] = s[q]
         /\ SubSeq(s, k + 1, Len(s)) \in Seq(S)
         /\ Len(SubSeq(s, k + 1, Len(s))) = Len(s) - k
         /\ \A q \in 1..(Len(s) - k) : SubSeq(s, k + 1, Len(s))[q] = s[k + q]
<1> DEFINE n == Len(s)  l == k + 1
<1>1. n \in Nat /\ k \in Nat /\ k <= n /\ l \in Int /\ l = k + 1 /\ 1 \in Int /\ n \in Int /\ k \in Int
  BY LenProperties
<1>2. \A q \in 1..n : s[q] \in S
  BY ElementOfSeq
<1> HIDE DEF n, l
<1>3. \A q \in 1..k : s[q] \in S
  BY <1>1, <1>2
<1>4. \A q \in l..n : s[q] \in S
  BY <1>1, <1>2
<1>5. /\ SubSeq(s, 1, k) \in Seq(S)
      /\ Len(SubSeq(s, 1, k)) = IF 1 <= k THEN k - 1 + 1 ELSE 0
      /\ \A q \in 1..(k - 1 + 1) : SubSeq(s, 1, k)[q] = s[1 + q - 1]
  BY <1>1, <1>3, SubSeqProperties
<1>6. /\ SubSeq(s, l, n) \in Seq(S)
      /\ Len(SubSeq(s, l, n)) = IF l <= n THEN n - l + 1 ELSE 0
      /\ \A q \in 1..(n - l + 1) : SubSeq(s, l, n)[q] = s[l + q - 1]
  BY <1>1, <1>4, SubSeqProperties
<1>7. Len(SubSeq(s, 1, k)) = k /\ Len(SubSeq(s, l, n)) = n - k
  BY <1>1, <1>5, <1>6
<1>8. \A q \in 1..k : SubSeq(s, 1, k)[q] = s[q]
  <2> SUFFICES ASSUME NEW q \in 1..k PROVE SubSeq(s, 1, k)[q] = s[q]
    OBVIOUS
  <2>1. q \in 1..(k - 1 + 1) /\ 1 + q - 1 = q
    BY <1>1
  <2> QED
    BY <2>1, <1>5
<1>9. \A q \in 1..(n - k) : SubSeq(s, l, n)[q] = s[k + q]
  <2> SUFFICES ASSUME NEW q \in 1..(n - k) PROVE SubSeq(s, l, n)[q] = s[k + q]
    OBVIOUS
  <2>1. q \in 1..(n - l + 1) /\ l + q - 1 = k + q
    BY <1>1
  <2> QED
    BY <2>1, <1>6
<1> QED
  BY <1>5, <1>6, <1>7, <1>8, <1>9 DEF n, l

LEMMA Frames ==
  ASSUME TypeOK, NEW m \in DOMAIN frames
  PROVE  /\ m \in 1..MaxMsg /\ m <= Len(frames) /\ frames[m] \in 0..BufLen
         /\ FrameLen(m) \in Nat /\ HeadLen <= FrameLen(m)
         /\ FrameLen(m) <= HeadLen + BufLen
<1>1. frames \in Seq(0..BufLen) /\ Len(frames) <= MaxMsg
  BY DEF TypeOK
<1>2. m \in 1..Len(frames) /\ frames[m] \in 0..BufLen
  BY <1>1, LenProperties, ElementOfSeq
<1>3. Len(frames) \in Nat
  BY <1>1, LenProperties
<1> QED
  BY <1>1, <1>2, <1>3, Constants DEF FrameLen

LEMMA InitStream == Init => StreamInv
<1> SUFFICES ASSUME Init PROVE StreamInv
  OBVIOUS
<1> USE Constants DEF Init
<1>1. TypeOK
  <2>1. frames \in Seq(0..BufLen) /\ wire \in Seq(Byte) /\ buf \in Seq(Byte)
          /\ got \in Seq(Seq(Byte)) /\ Len(frames) = 0
    OBVIOUS
  <2>2. /\ wpc \in [Writers -> {"idle", "start", "send", "gone"}]
        /\ cur \in [Writers -> 0..MaxMsg] /\ idx \in [Writers -> Nat]
    OBVIOUS
  <2>3. buflen \in 0..(BufLen + 1) /\ Len(frames) <= MaxMsg
    BY <2>1
  <2> QED
    BY <2>1, <2>2, <2>3, Zenon DEF TypeOK
<1>2. Writing /\ Reading /\ GotRight
  BY DEF Writing, Reading, GotRight
<1>3. Stream
  BY DEF Stream, InFrames, InOrder, NoGap, Front, Back, Empty, ReadPos, SendPos, At
<1> QED
  BY <1>1, <1>2, <1>3 DEF StreamInv

-----------------------------------------------------------------------------
(* What the steps do to the stream.                                        *)

LEMMA SendEffect ==
  ASSUME StreamInv, NEW w \in Writers, wpc[w] = "send",
         NEW k \in 1..Left(w),
         wire' = wire \o Bytes(cur[w], idx[w], idx[w] + k)
  PROVE  /\ wire' \in Seq(Byte) /\ Len(wire') = Len(wire) + k /\ k \in Nat
         /\ \A q \in 1..Len(wire) : wire'[q] = wire[q]
         /\ \A q \in 1..k :
              wire'[Len(wire) + q] = [msg |-> cur[w], pos |-> idx[w] + q - 1]
         /\ cur[w] \in DOMAIN frames /\ cur[w] = Len(frames)
         /\ idx[w] \in Nat /\ idx[w] + k <= FrameLen(cur[w])
<1> DEFINE m == cur[w]  i == idx[w]  b == Bytes(m, i, i + k)
<1>1. m \in DOMAIN frames /\ m = Len(frames) /\ i \in Nat /\ wire \in Seq(Byte)
  BY LenProperties DEF StreamInv, Writing, TypeOK
<1>2. /\ m \in 1..MaxMsg /\ FrameLen(m) \in Nat
      /\ FrameLen(m) <= HeadLen + BufLen
  BY <1>1, Frames DEF StreamInv
<1>3. k \in Nat /\ i + k \in Nat /\ i <= i + k /\ i + k <= FrameLen(m)
  BY <1>1, <1>2 DEF Left
<1>4. i + k <= HeadLen + BufLen
  BY <1>2, <1>3, Constants
<1> HIDE DEF m, i
<1>5. /\ b \in Seq(Byte) /\ Len(b) = k
      /\ \A q \in 1..k : b[q] = [msg |-> m, pos |-> i + q - 1]
  BY <1>1, <1>2, <1>3, <1>4, Part
<1>7. wire' = wire \o b
  BY DEF m, i
<1> HIDE DEF b
<1>8. /\ wire' \in Seq(Byte) /\ Len(wire') = Len(wire) + k
      /\ \A q \in 1..(Len(wire) + k) :
           wire'[q] = IF q <= Len(wire) THEN wire[q] ELSE b[q - Len(wire)]
  <2>1. /\ wire \o b \in Seq(Byte) /\ Len(wire \o b) = Len(wire) + Len(b)
        /\ \A q \in 1..(Len(wire) + Len(b)) :
             (wire \o b)[q] = IF q <= Len(wire) THEN wire[q] ELSE b[q - Len(wire)]
    BY <1>1, <1>5, ConcatProperties
  <2> QED
    BY <2>1, <1>5, <1>7
<1>9. Len(wire) \in Nat
  BY <1>1, LenProperties
<1>10. \A q \in 1..Len(wire) : wire'[q] = wire[q]
  BY <1>3, <1>8, <1>9
<1>11. ASSUME NEW q \in 1..k
       PROVE  wire'[Len(wire) + q] = [msg |-> m, pos |-> i + q - 1]
  <2>1. Len(wire) + q \in 1..(Len(wire) + k) /\ ~(Len(wire) + q <= Len(wire))
          /\ (Len(wire) + q) - Len(wire) = q
    BY <1>3, <1>9
  <2> QED
    BY <2>1, <1>5, <1>8
<1> QED
  BY <1>1, <1>3, <1>8, <1>10, <1>11 DEF m, i, b

\* What is received is the part of the frame that the reader expects next.
LEMMA ReceiveEffect ==
  ASSUME StreamInv, rpc \in {"head", "body"},
         NEW k \in 1..Len(wire), k <= Want,
         wire' = SubSeq(wire, k + 1, Len(wire)), buf' = buf \o SubSeq(wire, 1, k)
  PROVE  LET m    == Len(got) + 1
             base == IF rpc = "body" THEN HeadLen ELSE 0
         IN
         /\ wire' \in Seq(Byte) /\ Len(wire') = Len(wire) - k /\ k \in Nat
         /\ \A q \in 1..(Len(wire) - k) : wire'[q] = wire[k + q]
         /\ m \in DOMAIN frames /\ base \in Nat
         /\ base + Len(buf) + k <= FrameLen(m)
         /\ wire[k] = [msg |-> m, pos |-> base + Len(buf) + k - 1]
         /\ buf' = Bytes(m, base, base + Len(buf) + k)
         /\ buf' \in Seq(Byte) /\ Len(buf') = Len(buf) + k
<1> DEFINE m == Len(got) + 1
           base == IF rpc = "body" THEN HeadLen ELSE 0
           p == base + Len(buf)
           a == SubSeq(wire, 1, k)
<1>1. /\ wire \in Seq(Byte) /\ Len(wire) \in Nat /\ buf \in Seq(Byte)
      /\ Len(buf) \in Nat /\ base \in Nat /\ p \in Nat /\ m \in Nat
      /\ DOMAIN wire = 1..Len(wire)
  BY LenProperties, Constants DEF StreamInv, TypeOK
<1>2. wire # <<>> /\ 1 \in DOMAIN wire /\ k \in DOMAIN wire /\ k \in Nat /\ k > 0
  BY <1>1, LenProperties
<1>3. wire[1].msg \in DOMAIN frames /\ wire[1] = ReadPos
  BY <1>2 DEF StreamInv, Stream, InFrames, Front
<1>4. ~(m \in DOMAIN frames) => p = 0
  BY <1>1, EmptySeq DEF StreamInv, Reading
<1>5. m \in DOMAIN frames => p < FrameLen(m) /\ p + k <= FrameLen(m)
  <2> SUFFICES ASSUME m \in DOMAIN frames
               PROVE  p < FrameLen(m) /\ p + k <= FrameLen(m)
    OBVIOUS
  <2>1. frames[m] \in Nat /\ FrameLen(m) = HeadLen + frames[m]
    BY Frames, Constants DEF StreamInv, FrameLen
  <2>2. rpc = "body" => buflen = frames[m]
    BY DEF StreamInv, Reading
  <2>3. CASE rpc = "body"
    <3>1. base = HeadLen /\ k <= buflen - Len(buf)
      BY <2>3 DEF Want
    <3> HIDE DEF m, base
    <3> QED
      BY <3>1, <2>1, <2>2, <2>3, <1>1, <1>2, Constants
  <2>4. CASE rpc = "head"
    <3>1. base = 0 /\ k <= HeadLen - Len(buf)
      BY <2>4 DEF Want
    <3> HIDE DEF m, base
    <3> QED
      BY <3>1, <2>1, <1>1, <1>2, Constants
  <2> QED
    BY <2>3, <2>4
<1>6. wire[1] = [msg |-> m, pos |-> p]
  BY <1>3, <1>4, <1>5, <1>1 DEF ReadPos, At
<1>7. m \in DOMAIN frames /\ p + k <= FrameLen(m)
  BY <1>3, <1>5, <1>6
<1>8. m \in 1..MaxMsg /\ FrameLen(m) \in Nat /\ FrameLen(m) <= HeadLen + BufLen
  BY <1>7, Frames DEF StreamInv
<1>9. ASSUME NEW q \in 1..k PROVE wire[q] = [msg |-> m, pos |-> p + q - 1]
  <2> HIDE DEF m, p
  <2>0. q \in Nat /\ 1 <= q /\ q <= k /\ k <= Len(wire)
    BY <1>1, <1>2
  <2>1. q \in DOMAIN wire
    BY <2>0, <1>1
  <2>4. p + (q - 1) < FrameLen(m)
    BY <2>0, <1>1, <1>2, <1>7, <1>8
  <2>2. wire[1].msg = m /\ wire[1].pos = p
    BY <1>6
  <2>3. wire[q] = [msg |-> m, pos |-> p + (q - 1)]
    BY <2>0, <2>1, <2>2, <2>4, <1>2 DEF StreamInv, Stream, InOrder
  <2> QED
    BY <2>0, <2>3, <1>1
<1>10. /\ wire' \in Seq(Byte) /\ Len(wire') = Len(wire) - k
       /\ \A q \in 1..(Len(wire) - k) : wire'[q] = wire[k + q]
       /\ a \in Seq(Byte) /\ Len(a) = k /\ \A q \in 1..k : a[q] = wire[q]
  <2>1. k \in 0..Len(wire)
    BY <1>1, <1>2
  <2> QED
    BY <2>1, <1>1, Cut
<1>12. a = Bytes(m, p, p + k)
  <2> DEFINE b == Bytes(m, p, p + k)
  <2> HIDE DEF a, p, m
  <2>1. p + k <= HeadLen + BufLen
    BY <1>1, <1>2, <1>7, <1>8, Constants
  <2>2. b \in Seq(Byte) /\ Len(b) = k /\ \A q \in 1..k : b[q] = [msg |-> m, pos |-> p + q - 1]
    BY <2>1, <1>1, <1>2, <1>8, Part
  <2> HIDE DEF b
  <2>3. a = b
    BY <2>2, <1>9, <1>10, SeqEqual
  <2> QED
    BY <2>3 DEF b
<1>13. buf = Bytes(m, base, p)
  <2>1. rpc = "head" => buf = Bytes(m, 0, Len(buf)) /\ base = 0
    BY DEF StreamInv, Reading
  <2>2. rpc = "body" => buf = Bytes(m, HeadLen, HeadLen + Len(buf)) /\ base = HeadLen
    BY DEF StreamInv, Reading
  <2>3. rpc = "head" => p = Len(buf)
    BY <1>1
  <2> QED
    BY <2>1, <2>2, <2>3
<1>14. buf' = Bytes(m, base, p + k)
  <2>0. base <= p
    BY <1>1
  <2> HIDE DEF p, m, base, a
  <2>1. p <= p + k /\ p + k <= HeadLen + BufLen /\ p + k \in Nat
    BY <1>1, <1>2, <1>7, <1>8, Constants
  <2>2. Bytes(m, base, p) \o Bytes(m, p, p + k) = Bytes(m, base, p + k)
    BY <2>0, <2>1, <1>1, <1>8, BytesConcat
  <2>3. buf' = buf \o a
    BY DEF a
  <2> QED
    BY <2>2, <2>3, <1>12, <1>13
<1>15. buf' \in Seq(Byte) /\ Len(buf') = Len(buf) + k
  BY <1>1, <1>10, ConcatProperties
<1>16. wire[k] = [msg |-> m, pos |-> p + k - 1]
  <2>1. k \in 1..k
    BY <1>2
  <2> QED
    BY <2>1, <1>9
<1> QED
  BY <1>1, <1>2, <1>7, <1>10, <1>14, <1>15, <1>16

LEMMA BreakEffect ==
  ASSUME StreamInv, Break
  PROVE  /\ wire' \in Seq(Byte) /\ Len(wire') <= Len(wire) /\ Len(wire) \in Nat
         /\ \A q \in 1..Len(wire') : wire'[q] = wire[q]
<1>1. wire \in Seq(Byte) /\ Len(wire) \in Nat
  BY LenProperties DEF StreamInv, TypeOK
<1>2. PICK k \in 0..Len(wire) : wire' = SubSeq(wire, 1, k)
  BY DEF Break
<1> QED
  BY <1>1, <1>2, Cut

\* A frame that begins leaves the others as they are.
LEMMA BeginEffect ==
  ASSUME StreamInv, NEW n \in 0..BufLen, frames' = Append(frames, n)
  PROVE  /\ frames' \in Seq(0..BufLen) /\ Len(frames') = Len(frames) + 1
         /\ DOMAIN frames' = 1..(Len(frames) + 1) /\ Len(frames) \in Nat
         /\ DOMAIN frames = 1..Len(frames)
         /\ \A m \in DOMAIN frames : frames'[m] = frames[m] /\ FrameLen(m)' = FrameLen(m)
         /\ frames'[Len(frames) + 1] = n
<1>1. frames \in Seq(0..BufLen) /\ Len(frames) \in Nat /\ DOMAIN frames = 1..Len(frames)
  BY LenProperties DEF StreamInv, TypeOK
<1>2. /\ frames' \in Seq(0..BufLen) /\ Len(frames') = Len(frames) + 1
      /\ \A m \in 1..Len(frames) : frames'[m] = frames[m]
      /\ frames'[Len(frames) + 1] = n
  BY <1>1
<1>3. DOMAIN frames' = 1..(Len(frames) + 1)
  BY <1>2, LenProperties
<1> QED
  BY <1>1, <1>2, <1>3 DEF FrameLen

LEMMA StepTypes == StreamInv /\ [Next]_vars => TypeOK'
<1> SUFFICES ASSUME StreamInv, [Next]_vars PROVE TypeOK'
  OBVIOUS
<1> USE DEF writeV, readV
<1>1. TypeOK
  BY DEF StreamInv
<1>2. ASSUME NEW w \in Writers, Lock(w) \/ Unlock(w) \/ Exit(w) PROVE TypeOK'
  BY <1>1, <1>2 DEF TypeOK, Lock, Unlock, Exit, Goto
<1>3. ASSUME NEW w \in Writers, Start(w) PROVE TypeOK'
  <2>1. PICK n \in Lens : (n <= BufLen /\ Begin(w, n)) \/ (n > BufLen /\ Exit(w))
    BY <1>3 DEF Start
  <2>2. CASE Exit(w)
    BY <2>2, <1>2
  <2>3. CASE n <= BufLen /\ Begin(w, n)
    <3>1. n \in 0..BufLen
      BY <2>3, Constants
    <3>2. frames' \in Seq(0..BufLen) /\ Len(frames') = Len(frames) + 1 /\ Len(frames) \in Nat
      BY <3>1, <2>3, BeginEffect DEF Begin
    <3>3. Len(frames') <= MaxMsg /\ Len(frames) + 1 \in 0..MaxMsg
      BY <3>2, <1>3, Constants DEF Start
    <3> QED
      BY <3>2, <3>3, <2>3, <1>1 DEF TypeOK, Begin, Goto
  <2> QED
    BY <2>1, <2>2, <2>3
<1>4. ASSUME NEW w \in Writers, Send(w) PROVE TypeOK'
  <2>1. PICK k \in 1..Left(w) :
          /\ wire' = wire \o Bytes(cur[w], idx[w], idx[w] + k)
          /\ idx' = [idx EXCEPT ![w] = @ + k]
    BY <1>4 DEF Send
  <2>2. wire' \in Seq(Byte) /\ k \in Nat
    BY <2>1, <1>4, SendEffect DEF Send
  <2>3. idx' \in [Writers -> Nat]
    BY <2>1, <2>2, <1>1 DEF TypeOK
  <2> QED
    BY <2>2, <2>3, <1>1, <1>4 DEF TypeOK, Send
<1>5. ASSUME NEW w \in Writers, SendFails(w) PROVE TypeOK'
  BY <1>2, <1>5 DEF SendFails
<1>6. CASE Break
  BY <1>1, <1>6, BreakEffect DEF TypeOK, Break
<1>7. CASE Select \/ SelectTimeOut \/ RecvFails
  <2>1. rpc' \in {"idle", "head", "gone"} /\ bTimeOut' \in BOOLEAN
    BY <1>1, <1>7 DEF TypeOK, Select, SelectTimeOut, RecvFails
  <2>4. buf' = <<>> \/ buf' = buf
    BY <1>7 DEF Select, SelectTimeOut, RecvFails
  <2>5. buflen' = 0 \/ buflen' = buflen
    BY <1>7 DEF Select, SelectTimeOut, RecvFails
  <2>2. buf' \in Seq(Byte)
    BY <2>4, <1>1, EmptySeq DEF TypeOK
  <2>6. buflen' \in 0..(BufLen + 1)
    BY <2>5, <1>1, Constants DEF TypeOK
  <2>3. UNCHANGED <<writeV, conn, wire, got>>
    BY <1>7 DEF Select, SelectTimeOut, RecvFails
  <2> QED
    BY <1>1, <2>1, <2>2, <2>3, <2>6 DEF TypeOK
<1>8. CASE Recv
  <2>1. PICK k \in 1..Len(wire) : k <= Want /\ Receive(k)
    BY <1>8 DEF Recv
  <2>2. wire' \in Seq(Byte) /\ buf' \in Seq(Byte)
    BY <2>1, <1>8, ReceiveEffect DEF Recv, Receive
  <2> QED
    BY <2>1, <2>2, <1>1 DEF TypeOK, Receive
<1>9. CASE HeadRead
  <2>1. Says(buf) \subseteq 0..(BufLen + 1)
    <3>1. ASSUME NEW m \in DOMAIN frames, buf = Bytes(m, 0, HeadLen)
          PROVE  frames[buf[1].msg] \in 0..(BufLen + 1)
      <4>1. buf[1].msg = m
        BY <3>1, Constants DEF Bytes
      <4> QED
        BY <4>1, <1>1, Frames, Constants
    <3> QED
      BY <3>1 DEF Says
  <2> QED
    BY <2>1, <1>1, <1>9 DEF TypeOK, HeadRead
<1>10. CASE BodyRead
  <2>1. got' \in Seq(Seq(Byte))
    BY <1>1, <1>10 DEF TypeOK, BodyRead
  <2> QED
    BY <2>1, <1>1, <1>10, Constants DEF TypeOK, BodyRead
<1>11. CASE UNCHANGED vars
  BY <1>1, <1>11 DEF TypeOK, vars
<1> QED
  BY <1>2, <1>3, <1>4, <1>5, <1>6, <1>7, <1>8, <1>9, <1>10, <1>11
     DEF Next, Writer, Reader

-----------------------------------------------------------------------------
(* The threads that send.                                                  *)

LEMMA StepWriting == StreamInv /\ [Next]_vars => Writing'
<1> SUFFICES ASSUME StreamInv, [Next]_vars PROVE Writing'
  OBVIOUS
<1> USE DEF writeV, readV
<1>1. TypeOK /\ Writing
  BY DEF StreamInv
<1>2. ASSUME NEW w \in Writers, Lock(w) \/ Unlock(w) PROVE Writing'
  <2>1. \A v \in Writers : v # w => wpc[v] \notin {"start", "send"}
    BY <1>1, <1>2, Constants DEF Lock, Unlock, TypeOK, Writing
  <2>2. /\ UNCHANGED <<frames, cur, idx, conn>>
        /\ wpc'[w] = "idle" \/ (wpc'[w] = "start" /\ mutex' = w)
        /\ \A v \in Writers : v # w => wpc'[v] = wpc[v]
    BY <1>1, <1>2 DEF Lock, Unlock, Goto, TypeOK
  <2> QED
    BY <2>1, <2>2, <1>1 DEF Writing, FrameLen
<1>3. ASSUME NEW w \in Writers, Exit(w), conn \in {"up", "reset", "closed", "silent"}
      PROVE Writing'
  BY <1>3 DEF Exit, Writing
<1>4. ASSUME NEW w \in Writers, Start(w) PROVE Writing'
  <2>1. PICK n \in Lens : (n <= BufLen /\ Begin(w, n)) \/ (n > BufLen /\ Exit(w))
    BY <1>4 DEF Start
  <2>2. CASE Exit(w)
    BY <2>2, <1>1, <1>3 DEF TypeOK
  <2>3. CASE n <= BufLen /\ Begin(w, n)
    <3>1. n \in 0..BufLen
      BY <2>3, Constants
    <3>2. /\ Len(frames') = Len(frames) + 1 /\ Len(frames) \in Nat
          /\ frames'[Len(frames) + 1] = n
      BY <3>1, <2>3, BeginEffect DEF Begin
    <3>3. mutex = w /\ \A v \in Writers : v # w => wpc[v] \notin {"start", "send"}
      BY <1>1, <1>4 DEF Start, Writing
    <3>4. /\ wpc'[w] = "send" /\ cur'[w] = Len(frames) + 1 /\ idx'[w] = 0
          /\ mutex' = mutex /\ conn' = conn
          /\ \A v \in Writers : v # w => wpc'[v] = wpc[v]
      BY <2>3, <1>1 DEF Begin, Goto, TypeOK
    <3>5. (idx[w] <= FrameLen(cur[w]))'
      BY <3>1, <3>2, <3>4, Constants DEF FrameLen
    <3>6. cur'[w] = Len(frames') /\ Len(frames') > 0
      BY <3>2, <3>4
    <3> QED
      BY <3>3, <3>4, <3>5, <3>6, <1>1 DEF Writing
  <2> QED
    BY <2>1, <2>2, <2>3
<1>5. ASSUME NEW w \in Writers, Send(w) PROVE Writing'
  <2>1. PICK k \in 1..Left(w) :
          /\ wire' = wire \o Bytes(cur[w], idx[w], idx[w] + k)
          /\ idx' = [idx EXCEPT ![w] = @ + k]
    BY <1>5 DEF Send
  <2>2. idx[w] + k <= FrameLen(cur[w])
    BY <2>1, <1>5, SendEffect DEF Send
  <2>3. /\ UNCHANGED <<frames, mutex, cur, wpc, conn>>
        /\ idx'[w] = idx[w] + k
        /\ \A v \in Writers : v # w => idx'[v] = idx[v]
    BY <2>1, <1>1, <1>5 DEF Send, TypeOK
  <2> QED
    BY <2>2, <2>3, <1>1 DEF Writing, FrameLen
<1>6. ASSUME NEW w \in Writers, SendFails(w) PROVE Writing'
  BY <1>1, <1>3, <1>6 DEF SendFails, TypeOK
<1>7. CASE Break
  BY <1>1, <1>7 DEF Break, Writing, FrameLen
<1>8. CASE SelectTimeOut \/ Reader \/ UNCHANGED vars
  <2>1. UNCHANGED <<writeV, conn>>
    BY <1>8 DEF SelectTimeOut, Reader, Select, Recv, Receive, RecvFails, HeadRead,
                BodyRead, vars
  <2> QED
    BY <2>1, <1>1 DEF Writing, FrameLen
<1> QED
  BY <1>2, <1>4, <1>5, <1>6, <1>7, <1>8 DEF Next, Writer

-----------------------------------------------------------------------------
(* The reader: what its steps keep of the message it reads.                *)

LEMMA NoBytes == \A m, i : i \in Nat => Bytes(m, i, i) = <<>> /\ Bytes(m, i, i + 0) = <<>>
<1> SUFFICES ASSUME NEW m, NEW i \in Nat PROVE Bytes(m, i, i) = <<>> /\ i + 0 = i
  OBVIOUS
<1>1. Bytes(m, i, i) \in [1..0 -> {}]
  BY DEF Bytes
<1>2. Bytes(m, i, i) \in Seq({}) /\ DOMAIN Bytes(m, i, i) = 1..0
  BY <1>1, SeqDef
<1>3. Len(Bytes(m, i, i)) = 0
  BY <1>2, LenProperties
<1> QED
  BY <1>2, <1>3, EmptySeq

\* A step of the writers, or of the connection, is none of the reader's.
LEMMA ReadingKept ==
  ASSUME StreamInv, UNCHANGED readV,
         \A m \in DOMAIN frames : m \in DOMAIN frames' /\ frames'[m] = frames[m]
  PROVE  Reading' /\ GotRight'
<1>1. Reading /\ GotRight
  BY DEF StreamInv
<1>2. Reading'
  BY <1>1 DEF Reading, readV, Bytes
<1>3. \A m \in DOMAIN frames : Text(m)' = Text(m)
  BY DEF Text, FrameLen, Bytes
<1>4. GotRight'
  BY <1>1, <1>3 DEF GotRight, readV
<1> QED
  BY <1>2, <1>4

\* A complete header is that of the message after those read, and says its
\* length.
LEMMA HeaderSays ==
  ASSUME StreamInv, HeadRead
  PROVE  LET m == Len(got) + 1 IN
         /\ m \in DOMAIN frames /\ buflen' = frames[m] /\ rpc' = "body"
         /\ Len(buf) = HeadLen
<1> DEFINE m == Len(got) + 1
<1>1. rpc = "head" /\ Want <= 0 /\ Len(buf) \in Nat /\ buf \in Seq(Byte) /\ m \in Nat
  BY LenProperties DEF StreamInv, TypeOK, HeadRead
<1>2. Len(buf) <= HeadLen /\ buf = Bytes(m, 0, Len(buf)) /\ (buf # <<>> => m \in DOMAIN frames)
  BY <1>1 DEF StreamInv, Reading
<1>3. Len(buf) = HeadLen
  BY <1>1, <1>2, Constants DEF Want
<1>4. m \in DOMAIN frames /\ buf = Bytes(m, 0, HeadLen)
  BY <1>1, <1>2, <1>3, EmptySeq, Constants
<1>5. buf[1].msg = m
  BY <1>4, Constants DEF Bytes
<1>6. Says(buf) = {frames[m]}
  BY <1>4, <1>5 DEF Says
<1>7. buflen' = frames[m] /\ frames[m] \in 0..BufLen
  BY <1>4, <1>6, Frames DEF HeadRead, StreamInv
<1> HIDE DEF m
<1>8. ~(buflen' > BufLen)
  BY <1>7, Constants
<1>9. rpc' = "body"
  BY <1>8 DEF HeadRead
<1> QED
  BY <1>3, <1>4, <1>7, <1>9 DEF m

\* A complete body is the text of the message after those read.
LEMMA BodyIsText ==
  ASSUME StreamInv, BodyRead
  PROVE  LET m == Len(got) + 1 IN
         m \in DOMAIN frames /\ buf = Text(m) /\ HeadLen + Len(buf) = FrameLen(m)
<1> DEFINE m == Len(got) + 1
<1>1. rpc = "body" /\ Want <= 0 /\ Len(buf) \in Nat
  BY LenProperties DEF StreamInv, TypeOK, BodyRead
<1>2. /\ m \in DOMAIN frames /\ buflen = frames[m] /\ Len(buf) <= buflen
      /\ buf = Bytes(m, HeadLen, HeadLen + Len(buf))
  BY <1>1 DEF StreamInv, Reading
<1>3. frames[m] \in 0..BufLen
  BY <1>2, Frames DEF StreamInv
<1> HIDE DEF m
<1>4. Len(buf) = frames[m]
  BY <1>1, <1>2, <1>3, Constants DEF Want
<1>5. buf = Text(m) /\ HeadLen + Len(buf) = FrameLen(m)
  BY <1>2, <1>4 DEF Text, FrameLen
<1> QED
  BY <1>2, <1>5 DEF m

LEMMA StepReading == StreamInv /\ [Next]_vars => Reading' /\ GotRight'
<1> SUFFICES ASSUME StreamInv, [Next]_vars PROVE Reading' /\ GotRight'
  OBVIOUS
<1> DEFINE m == Len(got) + 1
<1>1. TypeOK /\ Reading /\ GotRight
  BY DEF StreamInv
<1>2. CASE UNCHANGED <<readV, frames>>
  BY <1>2, ReadingKept
<1>3. ASSUME NEW w \in Writers, Start(w) PROVE Reading' /\ GotRight'
  <2>1. PICK n \in Lens : (n <= BufLen /\ Begin(w, n)) \/ (n > BufLen /\ Exit(w))
    BY <1>3 DEF Start
  <2>2. CASE Exit(w)
    BY <2>2, <1>2 DEF Exit
  <2>3. CASE n <= BufLen /\ Begin(w, n)
    <3>1. n \in 0..BufLen
      BY <2>3, Constants
    <3>2. \A q \in DOMAIN frames : q \in DOMAIN frames' /\ frames'[q] = frames[q]
      BY <3>1, <2>3, BeginEffect DEF Begin
    <3> QED
      BY <3>2, <2>3, ReadingKept DEF Begin
  <2> QED
    BY <2>1, <2>2, <2>3
<1>4. CASE Select \/ SelectTimeOut \/ RecvFails
  <2>1. UNCHANGED <<frames, got>>
    BY <1>4 DEF Select, SelectTimeOut, RecvFails, writeV
  <2>2. GotRight'
    BY <2>1, <1>1 DEF GotRight, Text, FrameLen, Bytes
  <2>3. \/ rpc' = "head" /\ buf' = <<>>
        \/ rpc' = "gone"
        \/ rpc' = "idle" /\ rpc = "idle" /\ buf' = buf
    BY <1>4 DEF Select, SelectTimeOut, RecvFails
  <2>4. Len(<<>>) = 0 /\ 0 \in Nat /\ Bytes(m, 0, 0) = <<>>
    BY NoBytes
  <2>5. Reading'
    BY <2>1, <2>3, <2>4, <1>1, Constants DEF Reading
  <2> QED
    BY <2>2, <2>5
<1>5. CASE Recv
  <2>1. PICK k \in 1..Len(wire) : k <= Want /\ Receive(k)
    BY <1>5 DEF Recv
  <2>2. /\ UNCHANGED <<frames, got, rpc, buflen>> /\ rpc \in {"head", "body"}
        /\ wire' = SubSeq(wire, k + 1, Len(wire)) /\ buf' = buf \o SubSeq(wire, 1, k)
    BY <2>1, <1>5 DEF Receive, writeV, Recv
  <2>3. GotRight'
    BY <2>2, <1>1 DEF GotRight, Text, FrameLen, Bytes
  <2> DEFINE base == IF rpc = "body" THEN HeadLen ELSE 0
  <2>4. /\ m \in DOMAIN frames /\ buf' = Bytes(m, base, base + Len(buf) + k)
        /\ Len(buf') = Len(buf) + k /\ Len(buf) \in Nat /\ k \in Nat
    BY <2>1, <2>2, <1>1, ReceiveEffect, LenProperties DEF TypeOK
  <2>5. CASE rpc = "head"
    <3>1. base = 0 /\ 0 + Len(buf) + k = Len(buf') /\ Len(buf') <= HeadLen
      BY <2>1, <2>4, <2>5, Constants DEF Want
    <3> QED
      BY <3>1, <2>2, <2>3, <2>4, <2>5 DEF Reading
  <2>6. CASE rpc = "body"
    <3>1. buflen \in Nat /\ buflen = frames[m]
      BY <2>6, <1>1 DEF TypeOK, Reading
    <3>2. /\ base = HeadLen /\ HeadLen + Len(buf) + k = HeadLen + Len(buf')
          /\ Len(buf') <= buflen
      BY <3>1, <2>1, <2>4, <2>6, Constants DEF Want
    <3> QED
      BY <3>1, <3>2, <2>2, <2>3, <2>4, <2>6 DEF Reading, Bytes
  <2> QED
    BY <2>2, <2>5, <2>6
<1>6. CASE HeadRead
  <2>1. UNCHANGED <<frames, got>> /\ buf' = <<>>
    BY <1>6 DEF HeadRead, writeV
  <2>2. m \in DOMAIN frames /\ buflen' = frames[m] /\ rpc' = "body"
    BY <1>6, HeaderSays
  <2>3. Len(<<>>) = 0 /\ Bytes(m, HeadLen, HeadLen + 0) = <<>>
    BY NoBytes, Constants
  <2>4. Len(buf') <= buflen'
    BY <2>1, <2>2, <2>3, <1>1, Frames
  <2>5. Reading'
    BY <2>1, <2>2, <2>3, <2>4 DEF Reading, Bytes
  <2>6. GotRight'
    BY <2>1, <1>1 DEF GotRight, Text, FrameLen, Bytes
  <2> QED
    BY <2>5, <2>6
<1>7. CASE BodyRead
  <2>1. frames' = frames /\ got' = Append(got, buf) /\ rpc' = "idle" /\ buf' = <<>>
    BY <1>7 DEF BodyRead, writeV
  <2>2. m \in DOMAIN frames /\ buf = Text(m)
    BY <1>7, BodyIsText
  <2>3. got \in Seq(Seq(Byte)) /\ buf \in Seq(Byte)
    BY <1>1 DEF TypeOK
  <2>4. DOMAIN got' = 1..m /\ got'[m] = buf /\ \A i \in DOMAIN got : got'[i] = got[i]
          /\ DOMAIN got = 1..Len(got) /\ Len(got) \in Nat
    BY <2>1, <2>3
  <2>5. \A i \in 1..m : i = m \/ i \in DOMAIN got
    BY <2>4
  <2>6. GotRight'
    BY <2>1, <2>2, <2>4, <2>5, <1>1 DEF GotRight, Text, FrameLen, Bytes
  <2>7. Reading'
    BY <2>1 DEF Reading
  <2> QED
    BY <2>6, <2>7
<1>8. ASSUME NEW w \in Writers, Lock(w) \/ Send(w) \/ SendFails(w) \/ Unlock(w)
      PROVE UNCHANGED <<readV, frames>>
  BY <1>8 DEF Lock, Send, SendFails, Exit, Unlock
<1>9. Break \/ UNCHANGED vars => UNCHANGED <<readV, frames>>
  BY DEF Break, vars, writeV
<1> QED
  BY <1>2, <1>3, <1>4, <1>5, <1>6, <1>7, <1>8, <1>9 DEF Next, Writer, Reader

-----------------------------------------------------------------------------
(* The stream between them.                                                *)

\* Steps that move no byte: the two ends stay where they are.
LEMMA EndsKept ==
  ASSUME StreamInv, UNCHANGED <<wire, frames>>,
         rpc' # "gone" => rpc # "gone" /\ ReadPos' = ReadPos,
         conn' = "up" => conn = "up" /\ SendPos' = SendPos
  PROVE  Stream'
<1>1. Stream
  BY DEF StreamInv
<1>2. InFrames' /\ InOrder'
  BY <1>1 DEF Stream, InFrames, InOrder, FrameLen
<1>3. NoGap'
  BY <1>1 DEF Stream, NoGap, After, At, FrameLen
<1>4. Front' /\ Empty'
  BY <1>1 DEF Stream, Front, Empty
<1>5. Back'
  BY <1>1 DEF Stream, Back, After, At, FrameLen
<1> QED
  BY <1>2, <1>3, <1>4, <1>5 DEF Stream

\* A frame that begins: its first byte is the one that was to come.
LEMMA BeginStream ==
  ASSUME StreamInv, NEW w \in Writers, NEW n \in 0..BufLen,
         wpc[w] = "start", Begin(w, n)
  PROVE  Stream'
<1> USE DEF writeV, readV
<1>1. TypeOK /\ Stream /\ Writing /\ Reading
  BY DEF StreamInv
<1>2. /\ Len(frames) \in Nat /\ DOMAIN frames = 1..Len(frames)
      /\ DOMAIN frames' = 1..(Len(frames) + 1)
      /\ \A m \in DOMAIN frames : frames'[m] = frames[m] /\ FrameLen(m)' = FrameLen(m)
      /\ frames'[Len(frames) + 1] = n
  BY BeginEffect DEF Begin
<1>3. UNCHANGED <<wire, conn, rpc, buf, got, mutex>>
  BY DEF Begin
<1>4. \A m \in DOMAIN frames : m \in DOMAIN frames'
  BY <1>2
<1>5. InFrames' /\ InOrder'
  BY <1>1, <1>2, <1>3, <1>4 DEF Stream, InFrames, InOrder
<1>6. \A i \in DOMAIN wire : After(wire[i])' = After(wire[i])
  BY <1>1, <1>2, <1>3, <1>4 DEF Stream, InFrames, After, At
<1>7. NoGap'
  BY <1>1, <1>3, <1>6 DEF Stream, NoGap
<1>8. rpc # "gone" => ReadPos' = ReadPos
  <2> SUFFICES ASSUME rpc # "gone" PROVE ReadPos' = ReadPos
    OBVIOUS
  <2> DEFINE m == Len(got) + 1
             p == (IF rpc = "body" THEN HeadLen ELSE 0) + Len(buf)
  <2>1. CASE m \in DOMAIN frames
    BY <2>1, <1>2, <1>3, <1>4 DEF ReadPos, At
  <2>2. CASE m \notin DOMAIN frames
    <3>1. p = 0
      BY <2>2, <1>1 DEF Reading, TypeOK
    <3>2. FrameLen(m)' = HeadLen + frames'[m]
      BY <1>3 DEF FrameLen
    <3>3. m \in DOMAIN frames' => m = Len(frames) + 1
      BY <2>2, <1>2, <1>1, LenProperties DEF TypeOK
    <3>4. m \in DOMAIN frames' => FrameLen(m)' # 0
      BY <3>2, <3>3, <1>2, Constants
    <3> QED
      BY <3>1, <3>4, <2>2, <1>3 DEF ReadPos, At
  <2> QED
    BY <2>1, <2>2
<1>9. SendPos' = SendPos
  <2>1. mutex = w /\ w # Nobody
    BY <1>1, Constants DEF Writing
  <2>2. SendPos = [msg |-> Len(frames) + 1, pos |-> 0]
    BY <2>1 DEF SendPos
  <2>3. wpc'[w] = "send" /\ cur'[w] = Len(frames) + 1 /\ idx'[w] = 0
    BY <1>1 DEF Begin, Goto, TypeOK
  <2>7. SendPos' = (At(cur[w], idx[w]))'
    BY <2>1, <2>3, <1>3 DEF SendPos
  <2>8. (At(cur[w], idx[w]))' = [msg |-> Len(frames) + 1, pos |-> 0]
    <3>0. FrameLen(cur[w])' = HeadLen + n
      BY <2>3, <1>2 DEF FrameLen
    <3>1. FrameLen(cur[w])' # 0
      BY <3>0, Constants
    <3> QED
      BY <3>1, <2>3 DEF At
  <2> QED
    BY <2>2, <2>7, <2>8
<1>10. Front' /\ Empty' /\ Back'
  <2>1. wire # <<>> => Len(wire) \in DOMAIN wire
    BY <1>1, LenProperties, EmptySeq DEF TypeOK
  <2> QED
    BY <2>1, <1>1, <1>3, <1>6, <1>8, <1>9 DEF Stream, Front, Empty, Back
<1> QED
  BY <1>5, <1>7, <1>10 DEF Stream

\* send() prolongs the stream by the bytes that are next.
LEMMA SendStream ==
  ASSUME StreamInv, NEW w \in Writers, Send(w)
  PROVE  Stream'
<1> USE DEF readV
<1>1. TypeOK /\ Stream /\ Writing
  BY DEF StreamInv
<1>2. PICK k \in 1..Left(w) :
        /\ wire' = wire \o Bytes(cur[w], idx[w], idx[w] + k)
        /\ idx' = [idx EXCEPT ![w] = @ + k]
  BY DEF Send
<1> DEFINE m == cur[w]  i0 == idx[w]  n == Len(wire)
<1>3. wpc[w] = "send" /\ conn = "up" /\ UNCHANGED <<frames, cur, wpc, mutex, conn, rpc, buf, got>>
  BY DEF Send
<1>4. /\ wire' \in Seq(Byte) /\ Len(wire') = n + k /\ k \in Nat
      /\ \A q \in 1..n : wire'[q] = wire[q]
      /\ \A q \in 1..k : wire'[n + q] = [msg |-> m, pos |-> i0 + q - 1]
      /\ m \in DOMAIN frames /\ m = Len(frames)
      /\ i0 \in Nat /\ i0 + k <= FrameLen(m)
  BY <1>2, <1>3, SendEffect
<1>5. k > 0 /\ n \in Nat /\ DOMAIN wire = 1..n /\ DOMAIN wire' = 1..(n + k)
      /\ FrameLen(m) \in Nat /\ wire \in Seq(Byte)
  BY <1>1, <1>4, LenProperties, Frames DEF TypeOK
<1>19. \A q \in DOMAIN wire : wire[q].pos \in Nat
  <2> SUFFICES ASSUME NEW q \in DOMAIN wire PROVE wire[q].pos \in Nat
    OBVIOUS
  <2>1. wire[q] \in Byte
    BY <1>5, ElementOfSeq
  <2> QED
    BY <2>1 DEF Byte
<1>6. SendPos = [msg |-> m, pos |-> i0]
  <2>1. mutex = w /\ w # Nobody
    BY <1>1, <1>3, Constants DEF Writing
  <2>2. i0 # FrameLen(m)
    BY <1>4, <1>5
  <2> QED
    BY <2>1, <2>2, <1>3 DEF SendPos, At
<1>7. SendPos' = At(m, i0 + k)
  <2>1. mutex' = w /\ w # Nobody /\ idx'[w] = i0 + k
    BY <1>1, <1>2, <1>3, Constants DEF Writing, TypeOK
  <2> QED
    BY <2>1, <1>3 DEF SendPos, At, FrameLen
<1>8. \A b : After(b)' = After(b)
  BY <1>3 DEF After, At, FrameLen
<1>9. \A q \in DOMAIN wire' : q \in DOMAIN wire \/ \E r \in 1..k : q = n + r
  <2> SUFFICES ASSUME NEW q \in 1..(n + k), ~(q \in 1..n)
               PROVE  \E r \in 1..k : q = n + r
    BY <1>5
  <2>1. q - n \in 1..k /\ q = n + (q - n)
    BY <1>4, <1>5
  <2> QED
    BY <2>1
<1> HIDE DEF m, i0, n
<1>10. InFrames'
  <2> SUFFICES ASSUME NEW q \in DOMAIN wire'
               PROVE  wire'[q].msg \in DOMAIN frames /\ wire'[q].pos < FrameLen(wire'[q].msg)
    BY <1>3 DEF InFrames, FrameLen
  <2>1. CASE q \in DOMAIN wire
    BY <2>1, <1>1, <1>4, <1>5 DEF Stream, InFrames
  <2>2. ASSUME NEW r \in 1..k, q = n + r
        PROVE  wire'[q].msg \in DOMAIN frames /\ wire'[q].pos < FrameLen(wire'[q].msg)
    <3>1. wire'[q] = [msg |-> m, pos |-> i0 + r - 1]
      BY <2>2, <1>4
    <3>2. i0 + r - 1 < FrameLen(m)
      BY <1>4, <1>5
    <3> QED
      BY <3>1, <3>2, <1>4
  <2> QED
    BY <2>1, <2>2, <1>9
\* The last byte before those sent now.
<1>11. n > 0 => After(wire[n]) = [msg |-> m, pos |-> i0]
  BY <1>1, <1>3, <1>5, <1>6, EmptySeq DEF Stream, Back, n
<1>12. ASSUME NEW i \in DOMAIN wire, NEW r \in 1..k,
              wire[i].pos + ((n + r) - i) < FrameLen(wire[i].msg)
       PROVE  wire[i].msg = m /\ wire[i].pos + (n - i) + 1 = i0
  <2> DEFINE b == wire[i]
  <2>1. i \in 1..n /\ b.pos \in Nat /\ i \in Nat /\ r \in Nat /\ r > 0
    BY <1>5, <1>4, <1>19
  <2>2. b.msg \in DOMAIN frames /\ FrameLen(b.msg) \in Nat
    BY <1>1, Frames DEF Stream, InFrames
  <2> HIDE DEF b
  <2>3. b.pos + (n - i) < FrameLen(b.msg) /\ i <= n /\ n \in DOMAIN wire
          /\ b.pos + (n - i) + 1 # FrameLen(b.msg) /\ n > 0
    BY <1>12, <2>1, <2>2, <1>5 DEF b
  <2>4. wire[n] = [msg |-> b.msg, pos |-> b.pos + (n - i)]
    BY <2>3, <1>1 DEF Stream, InOrder, b
  <2>5. After(wire[n]) = [msg |-> b.msg, pos |-> b.pos + (n - i) + 1]
    BY <2>3, <2>4 DEF After, At
  <2> QED
    BY <2>3, <2>5, <1>11 DEF b
<1>13. InOrder'
  <2> SUFFICES ASSUME NEW i \in DOMAIN wire', NEW j \in DOMAIN wire', i <= j,
                      wire'[i].pos + (j - i) < FrameLen(wire'[i].msg)
               PROVE  wire'[j] = [msg |-> wire'[i].msg, pos |-> wire'[i].pos + (j - i)]
    BY <1>3 DEF InOrder, FrameLen
  <2>0. i \in Nat /\ j \in Nat
    BY <1>5
  <2>1. CASE i \in DOMAIN wire /\ j \in DOMAIN wire
    BY <2>1, <1>1, <1>4, <1>5 DEF Stream, InOrder
  <2>2. ASSUME i \in DOMAIN wire, NEW r \in 1..k, j = n + r
        PROVE  wire'[j] = [msg |-> wire'[i].msg, pos |-> wire'[i].pos + (j - i)]
    <3>1. wire'[i] = wire[i] /\ wire[i].pos \in Nat
      BY <2>2, <1>4, <1>5, <1>19
    <3>2. wire[i].msg = m /\ wire[i].pos + (n - i) + 1 = i0
      BY <2>2, <3>1, <1>12
    <3>3. wire'[j] = [msg |-> m, pos |-> i0 + r - 1]
      BY <2>2, <1>4
    <3>4. i0 + r - 1 = wire[i].pos + (j - i)
      <4> DEFINE p == wire[i].pos
      <4>1. p \in Nat /\ p + (n - i) + 1 = i0 /\ r \in Nat /\ n \in Nat /\ j = n + r
        BY <3>1, <3>2, <2>2, <1>4, <1>5
      <4> HIDE DEF p
      <4>2. i0 + r - 1 = p + (j - i)
        BY <4>1, <2>0
      <4> QED
        BY <4>2 DEF p
    <3> QED
      BY <3>1, <3>2, <3>3, <3>4
  <2>3. ASSUME NEW q \in 1..k, i = n + q, NEW r \in 1..k, j = n + r
        PROVE  wire'[j] = [msg |-> wire'[i].msg, pos |-> wire'[i].pos + (j - i)]
    <3>1. wire'[i] = [msg |-> m, pos |-> i0 + q - 1] /\ wire'[j] = [msg |-> m, pos |-> i0 + r - 1]
      BY <2>3, <1>4
    <3>2. i0 + r - 1 = (i0 + q - 1) + (j - i)
      BY <2>3, <1>4, <1>5
    <3> QED
      BY <3>1, <3>2
  <2>4. ~(i \notin DOMAIN wire /\ j \in DOMAIN wire)
    BY <2>0, <1>5
  <2> QED
    BY <2>1, <2>2, <2>3, <2>4, <1>9
<1>14. NoGap'
  <2> SUFFICES ASSUME NEW i \in DOMAIN wire', i + 1 \in DOMAIN wire'
               PROVE  wire'[i + 1] = After(wire'[i])
    BY <1>3, <1>8 DEF NoGap, After, At, FrameLen
  <2>1. CASE i + 1 \in DOMAIN wire
    <3>1. i \in DOMAIN wire
      BY <2>1, <1>5
    <3> QED
      BY <3>1, <2>1, <1>1, <1>4, <1>5 DEF Stream, NoGap
  <2>2. CASE i = n
    <3>1. n > 0 /\ i \in 1..n /\ 1 \in 1..k
      BY <2>2, <1>4, <1>5
    <3>2. wire'[i] = wire[n] /\ wire'[n + 1] = [msg |-> m, pos |-> i0 + 1 - 1]
      BY <3>1, <2>2, <1>4
    <3>3. i0 + 1 - 1 = i0
      BY <1>4
    <3> QED
      BY <3>1, <3>2, <3>3, <2>2, <1>11
  <2>3. CASE i + 1 \notin DOMAIN wire /\ i # n
    <3> DEFINE r == i - n
    <3>1. r \in 1..k /\ i = n + r /\ i + 1 = n + (r + 1) /\ r + 1 \in 1..k
      BY <2>3, <1>4, <1>5
    <3> HIDE DEF r
    <3>2. /\ wire'[i] = [msg |-> m, pos |-> i0 + r - 1]
          /\ wire'[i + 1] = [msg |-> m, pos |-> i0 + (r + 1) - 1]
      BY <3>1, <1>4
    <3>3. /\ (i0 + r - 1) + 1 # FrameLen(m)
          /\ (i0 + r - 1) + 1 = i0 + (r + 1) - 1
      BY <3>1, <1>4, <1>5
    <3> QED
      BY <3>2, <3>3 DEF After, At
  <2> QED
    BY <2>1, <2>2, <2>3
<1>15. wire'[n + k] = [msg |-> m, pos |-> i0 + k - 1] /\ wire' # <<>>
  <2>1. k \in 1..k /\ n + k # 0
    BY <1>4, <1>5
  <2> QED
    BY <2>1, <1>4, EmptySeq
<1>16. Back'
  <2>1. (i0 + k - 1) + 1 = i0 + k
    BY <1>4
  <2>2. After(wire'[n + k]) = At(m, i0 + k)
    BY <2>1, <1>15 DEF After
  <2> QED
    BY <2>2, <1>4, <1>7, <1>8 DEF Back, After, At, FrameLen, m, i0
<1>17. Front'
  <2>1. ReadPos' = ReadPos
    BY <1>3 DEF ReadPos, At, FrameLen
  <2>2. CASE n = 0
    <3>1. wire = <<>>
      BY <2>2, <1>5, EmptySeq DEF n
    <3>2. 1 \in 1..k /\ n + 1 = 1 /\ i0 + 1 - 1 = i0
      BY <2>2, <1>4, <1>5
    <3>3. wire'[1] = [msg |-> m, pos |-> i0]
      BY <3>2, <1>4
    <3> QED
      BY <3>1, <3>3, <2>1, <1>1, <1>3, <1>6 DEF Front, Stream, Empty
  <2>3. CASE n > 0
    <3>1. 1 \in 1..n /\ wire # <<>>
      BY <2>3, <1>5 DEF n
    <3> QED
      BY <3>1, <2>1, <1>1, <1>3, <1>4 DEF Front, Stream
  <2> QED
    BY <2>2, <2>3, <1>5
<1>18. Empty'
  BY <1>15 DEF Empty
<1> QED
  BY <1>10, <1>13, <1>14, <1>16, <1>17, <1>18 DEF Stream

\* recv() takes bytes from the front of the stream.
LEMMA RecvStream ==
  ASSUME StreamInv, Recv
  PROVE  Stream'
<1> USE DEF writeV
<1>1. TypeOK /\ Stream /\ Reading
  BY DEF StreamInv
<1>2. PICK k \in 1..Len(wire) : k <= Want /\ Receive(k)
  BY DEF Recv
<1> DEFINE m == Len(got) + 1
           base == IF rpc = "body" THEN HeadLen ELSE 0
           n == Len(wire)
<1>3. UNCHANGED <<frames, cur, idx, wpc, mutex, conn, rpc, got>> /\ rpc \in {"head", "body"}
  BY <1>2 DEF Receive, Recv
<1>4. /\ wire' \in Seq(Byte) /\ Len(wire') = n - k /\ k \in Nat
      /\ \A q \in 1..(n - k) : wire'[q] = wire[k + q]
      /\ base \in Nat /\ wire[k] = [msg |-> m, pos |-> base + Len(buf) + k - 1]
      /\ Len(buf') = Len(buf) + k
  BY <1>2, <1>3, ReceiveEffect DEF Receive
<1>5. /\ n \in Nat /\ DOMAIN wire = 1..n /\ DOMAIN wire' = 1..(n - k) /\ k \in 1..n
      /\ Len(buf) \in Nat
  BY <1>1, <1>2, <1>4, LenProperties DEF TypeOK
<1>6. ReadPos' = After(wire[k])
  <2> DEFINE p == base + Len(buf)
  <2>1. (p + k - 1) + 1 = p + k /\ base + Len(buf') = p + k
    BY <1>4, <1>5
  <2>2. ReadPos' = At(m, base + Len(buf'))
    BY <1>3 DEF ReadPos, At, FrameLen
  <2> QED
    BY <2>1, <2>2, <1>4 DEF After
<1>7. SendPos' = SendPos /\ \A b : After(b)' = After(b)
  BY <1>3 DEF SendPos, After, At, FrameLen
<1> HIDE DEF m, base, n
<1>8. \A q \in DOMAIN wire' : k + q \in DOMAIN wire /\ wire'[q] = wire[k + q] /\ q \in Nat
  BY <1>4, <1>5
<1>9. InFrames'
  BY <1>1, <1>3, <1>8 DEF Stream, InFrames, FrameLen
<1>10. InOrder'
  <2> SUFFICES ASSUME NEW i \in DOMAIN wire', NEW j \in DOMAIN wire', i <= j,
                      wire'[i].pos + (j - i) < FrameLen(wire'[i].msg)
               PROVE  wire'[j] = [msg |-> wire'[i].msg, pos |-> wire'[i].pos + (j - i)]
    BY <1>3 DEF InOrder, FrameLen
  <2>1. (k + j) - (k + i) = j - i /\ k + i <= k + j
    BY <1>4, <1>8
  <2> QED
    BY <2>1, <1>1, <1>8 DEF Stream, InOrder
<1>11. NoGap'
  <2> SUFFICES ASSUME NEW i \in DOMAIN wire', i + 1 \in DOMAIN wire'
               PROVE  wire'[i + 1] = After(wire'[i])
    BY <1>7 DEF NoGap
  <2>1. k + (i + 1) = (k + i) + 1
    BY <1>4, <1>8
  <2> QED
    BY <2>1, <1>1, <1>8 DEF Stream, NoGap
<1>12. CASE k = n
  <2>1. wire' = <<>>
    BY <1>12, <1>4, <1>5, EmptySeq
  <2>2. wire # <<>> /\ wire[k] = wire[Len(wire)]
    BY <1>12, <1>5, EmptySeq DEF n
  <2>3. conn = "up" => ReadPos' = SendPos'
    BY <2>2, <1>1, <1>6, <1>7 DEF Stream, Back
  <2> QED
    BY <2>1, <2>3, <1>3, <1>9, <1>10, <1>11 DEF Stream, Front, Back, Empty
<1>13. CASE k # n
  <2>1. k + 1 \in DOMAIN wire /\ 1 \in 1..(n - k) /\ n - k \in 1..(n - k)
          /\ k + (n - k) = n /\ n - k # 0
    BY <1>13, <1>4, <1>5
  <2>2. wire' # <<>> /\ wire'[1] = wire[k + 1] /\ wire'[Len(wire')] = wire[n]
    BY <2>1, <1>4, EmptySeq
  <2>3. wire'[1] = ReadPos'
    BY <2>1, <2>2, <1>1, <1>5, <1>6 DEF Stream, NoGap
  <2>4. wire # <<>>
    BY <1>5, EmptySeq DEF n
  <2>6. (After(wire[Len(wire)]))' = After(wire[n])
    BY <2>2, <1>7, <1>3 DEF After, At, FrameLen
  <2>7. conn = "up" => (After(wire[Len(wire)]))' = SendPos'
    BY <2>4, <2>6, <1>1, <1>7 DEF Stream, Back, n
  <2> QED
    BY <2>2, <2>3, <2>7, <1>3, <1>9, <1>10, <1>11 DEF Stream, Front, Back, Empty
<1> QED
  BY <1>12, <1>13

\* The connection that breaks loses bytes at the end of the stream.
LEMMA BreakStream ==
  ASSUME StreamInv, Break
  PROVE  Stream'
<1> USE DEF writeV, readV
<1>1. TypeOK /\ Stream
  BY DEF StreamInv
<1>2. conn' # "up" /\ UNCHANGED <<frames, rpc, buf, got>>
  BY DEF Break
<1>3. /\ wire' \in Seq(Byte) /\ Len(wire') <= Len(wire) /\ Len(wire) \in Nat
      /\ \A q \in 1..Len(wire') : wire'[q] = wire[q]
  BY BreakEffect
<1>4. DOMAIN wire = 1..Len(wire) /\ DOMAIN wire' = 1..Len(wire') /\ Len(wire') \in Nat
  BY <1>1, <1>3, LenProperties DEF TypeOK
<1>5. \A q \in DOMAIN wire' : q \in DOMAIN wire /\ wire'[q] = wire[q] /\ q \in Nat
  BY <1>3, <1>4
<1>6. InFrames' /\ InOrder' /\ NoGap'
  BY <1>1, <1>2, <1>5 DEF Stream, InFrames, InOrder, NoGap, After, At, FrameLen
<1>7. Front'
  <2> SUFFICES ASSUME wire' # <<>>, rpc # "gone" PROVE wire'[1] = ReadPos'
    BY <1>2 DEF Front
  <2>1. 1 \in DOMAIN wire'
    BY <1>3, <1>4, EmptySeq
  <2>2. wire # <<>> /\ wire'[1] = wire[1]
    BY <2>1, <1>5
  <2>3. ReadPos' = ReadPos
    BY <1>2 DEF ReadPos, At, FrameLen
  <2> QED
    BY <2>2, <2>3, <1>1 DEF Stream, Front
<1> QED
  BY <1>2, <1>6, <1>7 DEF Stream, Back, Empty

LEMMA StepStream == StreamInv /\ [Next]_vars => Stream'
<1> SUFFICES ASSUME StreamInv, [Next]_vars PROVE Stream'
  OBVIOUS
<1> USE DEF writeV, readV
<1>1. TypeOK /\ Stream /\ Writing /\ Reading
  BY DEF StreamInv
<1>2. ASSUME UNCHANGED <<wire, frames, rpc, buf, got>>,
             conn' = "up" => conn = "up" /\ SendPos' = SendPos
      PROVE  Stream'
  <2>1. rpc' # "gone" => rpc # "gone" /\ ReadPos' = ReadPos
    BY <1>2 DEF ReadPos, At, FrameLen
  <2> QED
    BY <2>1, <1>2, EndsKept
<1>3. ASSUME NEW w \in Writers, Lock(w) PROVE Stream'
  <2>1. SendPos = [msg |-> Len(frames) + 1, pos |-> 0]
    BY <1>3 DEF Lock, SendPos
  <2>2. mutex' = w /\ wpc'[w] = "start"
    BY <1>1, <1>3 DEF Lock, Goto, TypeOK
  <2>3. SendPos' = [msg |-> Len(frames) + 1, pos |-> 0]
    BY <2>2, <1>3 DEF Lock, SendPos
  <2> QED
    BY <2>1, <2>3, <1>2, <1>3 DEF Lock
<1>4. ASSUME NEW w \in Writers, Exit(w) PROVE Stream'
  BY <1>2, <1>4 DEF Exit
<1>5. ASSUME NEW w \in Writers, Start(w) PROVE Stream'
  <2>1. PICK n \in Lens : (n <= BufLen /\ Begin(w, n)) \/ (n > BufLen /\ Exit(w))
    BY <1>5 DEF Start
  <2>2. CASE Exit(w)
    BY <2>2, <1>4
  <2>3. CASE n <= BufLen /\ Begin(w, n)
    <3>1. n \in 0..BufLen
      BY <2>3, Constants
    <3> QED
      BY <3>1, <2>3, <1>5, BeginStream DEF Start
  <2> QED
    BY <2>1, <2>2, <2>3
<1>6. ASSUME NEW w \in Writers, Unlock(w) PROVE Stream'
  <2>1. wpc[w] = "send" /\ mutex = w /\ cur[w] = Len(frames) /\ Len(frames) \in DOMAIN frames
    BY <1>1, <1>6, LenProperties DEF Unlock, Writing, TypeOK
  <2>2. idx[w] \in Nat /\ FrameLen(cur[w]) \in Nat
    BY <2>1, <1>1, Frames DEF TypeOK
  <2>3. idx[w] = FrameLen(cur[w])
    BY <2>2, <1>6 DEF Unlock, Left
  <2>4. SendPos = [msg |-> Len(frames) + 1, pos |-> 0]
    BY <2>1, <2>3, Constants DEF SendPos, At
  <2>5. SendPos' = [msg |-> Len(frames) + 1, pos |-> 0]
    BY <1>6 DEF Unlock, SendPos
  <2> QED
    BY <2>4, <2>5, <1>2, <1>6 DEF Unlock
<1>7. CASE Select
  <2>1. buf = <<>> /\ buf' = <<>> /\ rpc = "idle" /\ rpc' = "head"
    BY <1>1, <1>7 DEF Select, Reading
  <2>2. ReadPos' = ReadPos
    BY <2>1, <1>7 DEF Select, ReadPos, At, FrameLen
  <2>3. SendPos' = SendPos
    BY <1>7 DEF Select, SendPos, At, FrameLen
  <2> QED
    BY <2>1, <2>2, <2>3, <1>7, EndsKept DEF Select
<1>8. CASE SelectTimeOut \/ RecvFails
  <2>1. UNCHANGED <<wire, frames, conn, buf, got>> /\ ((rpc' = rpc /\ rpc = "idle") \/ rpc' = "gone")
    BY <1>8 DEF SelectTimeOut, RecvFails
  <2>2. SendPos' = SendPos
    BY <1>8 DEF SelectTimeOut, RecvFails, SendPos, At, FrameLen
  <2>3. rpc' # "gone" => rpc # "gone" /\ ReadPos' = ReadPos
    BY <2>1 DEF ReadPos, At, FrameLen
  <2> QED
    BY <2>1, <2>2, <2>3, EndsKept
<1>9. CASE HeadRead
  <2>1. UNCHANGED <<wire, frames, conn, got>> /\ rpc = "head" /\ buf' = <<>>
    BY <1>9 DEF HeadRead
  <2>2. rpc' = "body" /\ Len(buf) = HeadLen
    BY <1>9, HeaderSays
  <2>3. 0 + Len(buf) = HeadLen + Len(buf') /\ Len(buf') = 0
    BY <2>1, <2>2, Constants
  <2>4. ReadPos' = ReadPos
    BY <2>1, <2>2, <2>3 DEF ReadPos, At, FrameLen
  <2>5. SendPos' = SendPos
    BY <1>9 DEF HeadRead, SendPos, At, FrameLen
  <2> QED
    BY <2>1, <2>4, <2>5, EndsKept
<1>10. CASE BodyRead
  <2> DEFINE m == Len(got) + 1
  <2>1. UNCHANGED <<wire, frames, conn>> /\ rpc = "body" /\ rpc' = "idle" /\ buf' = <<>>
          /\ got' = Append(got, buf)
    BY <1>10 DEF BodyRead
  <2>2. m \in DOMAIN frames /\ HeadLen + Len(buf) = FrameLen(m)
    BY <1>10, BodyIsText
  <2>3. ReadPos = [msg |-> m + 1, pos |-> 0]
    BY <2>1, <2>2 DEF ReadPos, At
  <2>4. Len(got') = m /\ 0 + Len(buf') = 0
    BY <2>1, <1>1 DEF TypeOK
  <2>5. (m + 1) \in DOMAIN frames => FrameLen(m + 1) # 0
    BY <1>1, Frames, Constants
  <2> HIDE DEF m
  <2>6. ReadPos' = [msg |-> m + 1, pos |-> 0]
    BY <2>1, <2>4, <2>5 DEF ReadPos, At, FrameLen
  <2>7. SendPos' = SendPos
    BY <1>10 DEF BodyRead, SendPos, At, FrameLen
  <2> QED
    BY <2>1, <2>3, <2>6, <2>7, EndsKept
<1>11. CASE UNCHANGED vars
  <2>1. SendPos' = SendPos
    BY <1>11 DEF vars, SendPos, At, FrameLen
  <2> QED
    BY <2>1, <1>2, <1>11 DEF vars
<1> QED
  BY <1>3, <1>4, <1>5, <1>6, <1>7, <1>8, <1>9, <1>10, <1>11, SendStream, RecvStream,
     BreakStream DEF Next, Writer, Reader, SendFails

-----------------------------------------------------------------------------
(* The results.                                                            *)

LEMMA StreamInvariant == Spec => []StreamInv
<1>1. StreamInv /\ [Next]_vars => StreamInv'
  BY StepTypes, StepWriting, StepReading, StepStream DEF StreamInv
<1> QED
  BY InitStream, <1>1, PTL DEF Spec

\* The reader never loses the boundary between two messages: the first byte
\* under way is the one it expects, for any number of threads, any cutting by
\* send() and recv(), and any loss (TcpRead 1834-1840, Readn 1884-1900).
THEOREM TcpAligned == Spec => []ReadAligned
<1>1. StreamInv => ReadAligned
  <2> SUFFICES ASSUME StreamInv, wire # <<>>, rpc = "idle" \/ (rpc # "gone" /\ Want > 0)
               PROVE  Head(wire) = [msg |-> Len(got) + 1,
                        pos |-> (IF rpc = "body" THEN HeadLen ELSE 0) + Len(buf)]
    BY DEF ReadAligned, StreamInv
  <2> DEFINE m == Len(got) + 1
             p == (IF rpc = "body" THEN HeadLen ELSE 0) + Len(buf)
  <2>1. Head(wire) = ReadPos
    BY DEF StreamInv, Stream, Front, TypeOK
  <2>2. Len(buf) \in Nat
    BY LenProperties DEF StreamInv, TypeOK
  <2>3. ASSUME m \in DOMAIN frames PROVE p # FrameLen(m)
    <3>1. frames[m] \in Nat /\ FrameLen(m) = HeadLen + frames[m]
      BY <2>3, Frames DEF StreamInv, FrameLen
    <3>2. CASE rpc = "body"
      <4>1. buflen = frames[m] /\ Len(buf) < buflen
        BY <3>2, <3>1, <2>2 DEF StreamInv, Reading, Want
      <4> QED
        BY <4>1, <3>1, <3>2, <2>2, Constants
    <3>3. CASE rpc = "head"
      BY <3>1, <3>3, <2>2, Constants DEF Want
    <3>4. CASE rpc = "idle"
      <4>1. p = 0
        BY <3>4 DEF StreamInv, Reading
      <4> QED
        BY <4>1, <3>1, Constants
    <3> QED
      BY <3>2, <3>3, <3>4 DEF StreamInv, TypeOK
  <2> QED
    BY <2>1, <2>3 DEF ReadPos, At
<1> QED
  BY <1>1, StreamInvariant, PTL

\* The texts of the frames are messages of the channel.
LEMMA InitChannel == Init => C!ChannelInit
<1> SUFFICES ASSUME Init PROVE Sent = <<>> /\ got = <<>>
  BY DEF C!ChannelInit
<1>1. got = <<>> /\ frames = <<>>
  BY DEF Init
<1>2. Sent \in [1..0 -> {}]
  BY <1>1 DEF Sent
<1>3. Sent \in Seq({}) /\ DOMAIN Sent = 1..0
  BY <1>2, SeqDef
<1>4. Len(Sent) = 0
  BY <1>3, LenProperties
<1> QED
  BY <1>1, <1>3, <1>4, EmptySeq

LEMMA SentSeq ==
  ASSUME StreamInv
  PROVE  Sent \in Seq(Seq(Byte)) /\ Len(Sent) = Len(frames) /\ DOMAIN Sent = DOMAIN frames
<1>1. frames \in Seq(0..BufLen) /\ DOMAIN frames = 1..Len(frames) /\ Len(frames) \in Nat
  BY LenProperties DEF StreamInv, TypeOK
<1>2. ASSUME NEW m \in DOMAIN frames PROVE Text(m) \in Seq(Byte)
  <2>1. m \in 1..MaxMsg /\ frames[m] \in 0..BufLen
    BY <1>2, Frames DEF StreamInv
  <2>2. HeadLen + frames[m] <= HeadLen + BufLen /\ HeadLen \in Nat /\ frames[m] \in Nat
    BY <2>1, Constants
  <2> QED
    BY <2>1, <2>2, Part DEF Text, FrameLen
<1>3. Sent \in [1..Len(frames) -> Seq(Byte)]
  BY <1>1, <1>2 DEF Sent
<1>4. Sent \in Seq(Seq(Byte)) /\ DOMAIN Sent = 1..Len(frames)
  BY <1>1, <1>3, SeqDef
<1> QED
  BY <1>1, <1>4, LenProperties

LEMMA StepChannel ==
  StreamInv /\ [Next]_vars => [C!ChannelNext]_(C!channelVars)
<1> DEFINE M == {Bytes(m, HeadLen, HeadLen + n) : m \in 1..MaxMsg, n \in Lens}
<1> SUFFICES ASSUME StreamInv, [Next]_vars
             PROVE  \/ \E x \in M : C!Put(x)
                    \/ C!Get
                    \/ UNCHANGED <<Sent, got>>
  BY DEF C!channelVars, C!ChannelNext
<1> USE DEF writeV, readV
<1>1. CASE UNCHANGED <<frames, got>>
  BY <1>1 DEF Sent, Text, FrameLen, Bytes
<1>2. ASSUME NEW w \in Writers, NEW n \in Lens, Start(w), n <= BufLen, Begin(w, n)
      PROVE  \E x \in M : C!Put(x)
  <2> DEFINE m == Len(frames) + 1
             x == Bytes(m, HeadLen, HeadLen + n)
  <2>1. n \in 0..BufLen /\ frames' = Append(frames, n) /\ got' = got
    BY <1>2, Constants DEF Begin
  <2>2. /\ DOMAIN frames' = 1..m /\ Len(frames) \in Nat /\ DOMAIN frames = 1..Len(frames)
        /\ \A q \in DOMAIN frames : FrameLen(q)' = FrameLen(q)
        /\ frames'[m] = n
    BY <2>1, BeginEffect
  <2>3. m \in 1..MaxMsg
    BY <2>2, <1>2, Constants DEF Start
  <2>4. x \in M
    BY <2>3
  <2>5. Sent \in Seq(Seq(Byte)) /\ Len(Sent) = Len(frames) /\ DOMAIN Sent = DOMAIN frames
    BY SentSeq
  <2>6. x \in Seq(Byte)
    <3>1. HeadLen + n <= HeadLen + BufLen /\ HeadLen \in Nat /\ n \in Nat
      BY <2>1, Constants
    <3> QED
      BY <3>1, <2>3, Part
  <2>7. \A q \in DOMAIN frames : Sent'[q] = Sent[q]
    <3> SUFFICES ASSUME NEW q \in DOMAIN frames PROVE Sent'[q] = Sent[q]
      OBVIOUS
    <3>1. q \in DOMAIN frames' /\ FrameLen(q)' = FrameLen(q)
      BY <2>2
    <3> QED
      BY <3>1 DEF Sent, Text, Bytes
  <2>8. Sent'[m] = x
    <3>1. m \in DOMAIN frames' /\ frames'[m] = n
      BY <2>2, <2>3
    <3>2. \A q \in DOMAIN frames' :
            Sent'[q] = Bytes(q, HeadLen, HeadLen + frames'[q])
      BY DEF Sent, Text, Bytes, FrameLen
    <3> QED
      BY <3>1, <3>2
  <2>9. Sent' = Append(Sent, x)
    <3> DEFINE t == Sent'
    <3>1. t = [q \in 1..m |-> t[q]]
      BY <2>2 DEF Sent
    <3> HIDE DEF t, x
    <3>2. t \in [1..m -> Seq(Byte)]
      <4> SUFFICES ASSUME NEW q \in 1..m PROVE t[q] \in Seq(Byte)
        BY <3>1
      <4>1. q = m \/ q \in 1..Len(frames)
        BY <2>2
      <4>2. Sent[q] \in Seq(Byte) \/ q = m
        BY <4>1, <2>2, <2>5, ElementOfSeq
      <4> QED
        BY <4>1, <4>2, <2>2, <2>6, <2>7, <2>8 DEF t
    <3>3. t \in Seq(Seq(Byte)) /\ Len(t) = m
      <4>1. t \in Seq(Seq(Byte)) /\ DOMAIN t = 1..m
        BY <3>2, <2>3, SeqDef
      <4> QED
        BY <4>1, <2>3, LenProperties
    <3>4. Append(Sent, x) \in Seq(Seq(Byte)) /\ Len(Append(Sent, x)) = m
            /\ Append(Sent, x)[m] = x
            /\ \A q \in 1..Len(frames) : Append(Sent, x)[q] = Sent[q]
      BY <2>5, <2>6
    <3>5. \A q \in 1..m : t[q] = Append(Sent, x)[q]
      BY <3>4, <2>2, <2>7, <2>8 DEF t
    <3>6. t = Append(Sent, x)
      BY <3>3, <3>4, <3>5, SeqEqual
    <3> QED
      BY <3>6 DEF t
  <2> QED
    BY <2>1, <2>4, <2>9 DEF C!Put
<1>3. CASE BodyRead
  <2> DEFINE m == Len(got) + 1
  <2>1. frames' = frames /\ got' = Append(got, buf)
    BY <1>3 DEF BodyRead
  <2>2. m \in DOMAIN frames /\ buf = Text(m)
    BY <1>3, BodyIsText
  <2>3. Len(Sent) = Len(frames) /\ Sent[m] = Text(m) /\ m <= Len(frames)
    BY <2>2, SentSeq, Frames DEF Sent, StreamInv
  <2>4. Len(got) \in Nat /\ Len(frames) \in Nat
    BY LenProperties DEF StreamInv, TypeOK
  <2>5. Len(got) < Len(Sent)
    BY <2>3, <2>4
  <2>6. Sent' = Sent
    BY <2>1 DEF Sent, Text, FrameLen, Bytes
  <2> QED
    BY <2>1, <2>2, <2>3, <2>5, <2>6 DEF C!Get
<1>4. ASSUME NEW w \in Writers, Lock(w) \/ Send(w) \/ SendFails(w) \/ Unlock(w) \/ Exit(w)
      PROVE UNCHANGED <<frames, got>>
  BY <1>4 DEF Lock, Send, SendFails, Exit, Unlock
<1>5. Break \/ UNCHANGED vars \/ Select \/ SelectTimeOut \/ Recv \/ RecvFails \/ HeadRead
        => UNCHANGED <<frames, got>>
  BY DEF Break, vars, Select, SelectTimeOut, Recv, Receive, RecvFails, HeadRead
<1>6. ASSUME NEW w \in Writers, Start(w)
      PROVE  UNCHANGED <<frames, got>> \/ \E n \in Lens : n <= BufLen /\ Begin(w, n)
  BY <1>6, <1>4 DEF Start
<1> QED
  BY <1>1, <1>2, <1>3, <1>4, <1>5, <1>6 DEF Next, Writer, Reader

\* The connection implements the channel: what TcpRead returns is the texts
\* given to TcpWrite, whole and in the order the frames were begun, for any
\* number of threads and any cutting (TcpWrite 1846-1877, TcpRead 1821-1844).
THEOREM TcpChannel == Spec => ImplementsChannel
  BY InitChannel, StepChannel, StreamInvariant, PTL DEF Spec, ImplementsChannel, C!ChannelSpec
=============================================================================
