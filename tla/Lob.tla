-------------------------------- MODULE Lob --------------------------------
(***************************************************************************)
(* sqlstatement::filetolob and lobtofile of freec++/db/oracle/_ooci.cpp:   *)
(* a file is written into a BLOB or CLOB, and read back, in pieces of      *)
(* LOBMAXBUFLEN bytes.  The loops are functions of what their variables    *)
(* hold at the beginning of a turn.  Contents are sequences of bytes, one  *)
(* for each character of a CLOB.  Pure operators.                          *)
(***************************************************************************)
EXTENDS Integers, Sequences

CONSTANTS BufLen,    \* LOBMAXBUFLEN
          MaxFile    \* bound on the length of a file or LOB

ASSUME LobAssumption == BufLen \in Nat \ {0} /\ MaxFile \in Nat

(* What goes wrong: nothing; a file that does not give its bytes or a disk  *)
(* that takes no more; a length OCI does not tell; an OCI call that returns *)
(* OCI_ERROR, or a result that is neither that nor one of the good ones     *)
(* (OCI_INVALID_HANDLE, ...) and leaves no record of an error. It happens   *)
(* at the turn "at", the calls before the loops being turn 1.               *)
Mishaps == {"none", "fread", "fwrite", "length", "error", "other"}
Turns   == 1..(MaxFile \div BufLen + 2)
Happens(bad, how, k) == bad.how = how /\ bad.at = k

\* err_report: the code of the error on record; 0 when there is none.
err_report(bad) == IF bad.how = "error" THEN 1 ELSE 0

Least(a, b) == IF a <= b THEN a ELSE b

\* The bytes of s after the first pos.
From(s, pos, len) == SubSeq(s, pos + 1, pos + len)

\* fread(bufp, nbytes, 1, fp) # 1
freadFails(file, pos, nbytes, bad, k) ==
  nbytes = 0 \/ pos + nbytes > Len(file) \/ Happens(bad, "fread", k)

\* OCILobWrite and OCILobRead: a LOB that goes in pieces needs data until the
\* last of them.
Result(last, bad, k) ==
  IF Happens(bad, "error", k) \/ Happens(bad, "other", k) THEN "failed"
  ELSE IF last THEN "success" ELSE "need_data"

\* What is left of a LOB of which data overwrites the beginning: it is not cut.
Overwrites(lob, data) == data \o SubSeq(lob, Len(data) + 1, Len(lob))

-----------------------------------------------------------------------------
\* Mutant: a piece that fills the buffer is never the last one.
Full_Equal(remainder) == remainder >= BufLen

\* There is more left than goes into the buffer.
Full(remainder) == remainder > BufLen

NBytes(remainder) == IF Full(remainder) THEN BufLen ELSE remainder

\* The loop of filetolob: what the turns from k on append to the LOB, and what
\* the function returns then.
nextpieces(file, bad) ==
  LET turn[pos \in 0..MaxFile, remainder \in 0..MaxFile, k \in Turns] ==
        LET nbytes == NBytes(remainder)
            bufp   == From(file, pos, nbytes)
            retval == Result(~Full(remainder), bad, k)
            after  == turn[pos + nbytes, remainder - nbytes, k + 1]
        IN CASE freadFails(file, pos, nbytes, bad, k) -> [ret |-> -1, sent |-> <<>>]
             [] retval = "failed"    -> [ret |-> err_report(bad), sent |-> <<>>]
             [] retval = "success"   -> [ret |-> 0, sent |-> bufp]
             [] retval = "need_data" -> [after EXCEPT !.sent = bufp \o @]
  IN turn

\* filetolob(FILE *): the first piece is the only one, or the loop follows.
writepieces(file, bad) ==
  LET filelen   == Len(file)
      nbytes    == NBytes(filelen)
      bufp      == From(file, 0, nbytes)
      remainder == filelen - nbytes
      retval    == Result(remainder = 0, bad, 1)
      after     == nextpieces(file, bad)[nbytes, remainder, 2]
  IN CASE filelen = 0 -> [ret |-> 0, sent |-> <<>>]
       [] filelen # 0 /\ freadFails(file, 0, nbytes, bad, 1) -> [ret |-> -1, sent |-> <<>>]
       [] OTHER -> CASE retval = "failed"    -> [ret |-> err_report(bad), sent |-> <<>>]
                     [] retval = "success"   -> [ret |-> 0, sent |-> bufp]
                     [] retval = "need_data" -> [after EXCEPT !.sent = bufp \o @]

\* What it returns and the LOB it leaves. (All programs empty the LOB before.)
filetolob(file, lob, bad) ==
  LET w == writepieces(file, bad)
  IN [ret |-> w.ret, lob |-> Overwrites(lob, w.sent)]

-----------------------------------------------------------------------------
\* fwrite, whose result nobody looks at; a full disk stays so.
fwrite(buf, bad, k) == IF bad.how = "fwrite" /\ k >= bad.at THEN <<>> ELSE buf

\* The loop of lobtofile: what the turns from k on write. Whatever the result
\* of OCILobRead is, if not OCI_NEED_DATA, it is the last turn, and amtp is 0
\* if nothing was read.
readpieces(lob, bad) ==
  LET turn[pos \in 0..MaxFile, k \in Turns] ==
        LET amtp   == Least(Len(lob) - pos, BufLen)
            retval == Result(pos + amtp = Len(lob), bad, k)
            bufp   == IF retval = "failed" THEN <<>> ELSE From(lob, pos, amtp)
        IN fwrite(bufp, bad, k)
             \o (IF retval = "need_data" THEN turn[pos + amtp, k + 1] ELSE <<>>)
  IN turn

\* lobtofile(FILE *): a length that OCI does not tell is 0; the switch knows
\* three results, and after any other the function returns 0, as err_report
\* would have it.
readlob(lob, bad) ==
  LET loblen == IF bad.how = "length" THEN 0 ELSE Len(lob)
      amtp   == Least(loblen, BufLen)
      first  == fwrite(From(lob, 0, amtp), bad, 1)
      retval == Result(amtp = loblen, bad, 1)
  IN CASE loblen = 0 -> [ret |-> 0, file |-> <<>>]
       [] loblen # 0 /\ retval = "success" -> [ret |-> 0, file |-> first]
       [] loblen # 0 /\ retval = "need_data" ->
            [ret |-> 0, file |-> first \o readpieces(lob, bad)[amtp, 2]]
       [] OTHER -> [ret |-> err_report(bad), file |-> <<>>]

\* lobtofile(filename): the file is made, and removed if an error is reported.
lobtofile(lob, bad) ==
  LET r == readlob(lob, bad)
  IN [ret |-> r.ret, exists |-> r.ret = 0, file |-> r.file]

-----------------------------------------------------------------------------

Contents == {[i \in 1..len |-> i] : len \in 0..MaxFile}
Bads     == [how : Mishaps, at : Turns]

StartOf(s, t) == Len(s) <= Len(t) /\ \A i \in 1..Len(s) : s[i] = t[i]

\* Cut into pieces, a file of any length against the buffer comes to the LOB,
\* and back, with each byte once and in order; when something goes wrong what
\* has passed is the beginning of it, and filetolob never fails after all of
\* it. But a 0 does not mean that all of it has passed: filetolob returns 0
\* after a result of OCI without a record of an error, and lobtofile unless
\* it was the first read that failed with a record of the error. Then alone no
\* file is left (_ooci.cpp 731-818, 841, 856-899, err_report 658-680).
LobExact ==
  \A file \in Contents, bad \in Bads :
    LET w == filetolob(file, <<>>, bad)
        r == lobtofile(file, bad)
    IN /\ StartOf(w.lob, file) /\ StartOf(r.file, file)
       /\ bad.how = "none" => w.ret = 0 /\ r.ret = 0
       /\ w.ret = 0 => w.lob = file \/ bad.how = "other"
       /\ w.ret # 0 => Len(w.lob) < Len(file) /\ bad.how \in {"fread", "error"}
       /\ r.exists <=> r.ret = 0
       /\ r.ret = 0 => \/ r.file = file
                       \/ bad.how \in {"fwrite", "length", "other"}
                       \/ bad.how = "error" /\ bad.at > 1 /\ Len(r.file) >= BufLen
       /\ r.ret # 0 <=> file # <<>> /\ Happens(bad, "error", 1)
=============================================================================
