-------------------------------- MODULE Text --------------------------------
(***************************************************************************)
(* The string, file-line and time helpers of freec++/public/_public.cpp    *)
(* (the copy of bank/src is the same), which the file loader, the XML      *)
(* requests of the bank and the FTP wrapper are built from.  A string is a *)
(* sequence of characters without its NUL; a buffer that a function fills  *)
(* without writing a NUL keeps what it held behind, so such functions take *)
(* its old content.  Pure operators, checked against reference definitions *)
(* for all short inputs; so are CLogFile and MKDIR, as functions of what   *)
(* was there before.  Not modelled: FGETS with an end mark of its own.     *)
(***************************************************************************)
EXTENDS Integers, Sequences, SequencesExt

CONSTANTS MaxText,   \* bound on the length of the strings tried
          MaxStr,    \* 2000: UpdateStr leaves longer strings alone
          TagSize    \* 50: the size snprintf is given for a tag

ASSUME TextAssumption == MaxText \in Nat /\ MaxStr > MaxText /\ TagSize > 5

Digit == <<"0", "1", "2", "3", "4", "5", "6", "7", "8", "9">>
Lower == <<"a", "b", "t", "x">>
Upper == <<"A", "B", "T", "X">>

Cut(s, n) == SubSeq(s, 1, IF n < Len(s) THEN n ELSE Len(s))
From(s, i) == SubSeq(s, i, Len(s))

\* strstr and string::find: the first place of sub in s, from place i on; 0
\* stands for "not found".
Find(s, sub, i) ==
  LET at == {k \in i..(Len(s) - Len(sub) + 1) :
                SubSeq(s, k, k + Len(sub) - 1) = sub}
  IN IF at = {} THEN 0 ELSE CHOOSE k \in at : \A l \in at : k <= l

-----------------------------------------------------------------------------
(* Trimming, padding, replacing.                                           *)

RECURSIVE DeleteLChar(_, _), DeleteRChar(_, _)
DeleteLChar(s, c) ==
  IF s # <<>> /\ Head(s) = c THEN DeleteLChar(Tail(s), c) ELSE s

DeleteRChar(s, c) ==
  IF s # <<>> /\ Last(s) = c THEN DeleteRChar(Front(s), c) ELSE s

DeleteLRChar(s, c) == DeleteRChar(DeleteLChar(s, c), c)

Repeat(c, n) == [i \in 1..n |-> c]
LPad(s, c, len) == IF Len(s) >= len THEN s ELSE Repeat(c, len - Len(s)) \o s
RPad(s, c, len) == IF Len(s) >= len THEN s ELSE s \o Repeat(c, len - Len(s))

\* One character of ToUpper and ToLower.
Mapped(c, from, to) ==
  IF \E i \in DOMAIN from : from[i] = c
  THEN to[CHOOSE i \in DOMAIN from : from[i] = c] ELSE c

ToUpper(s) == [i \in DOMAIN s |-> Mapped(s[i], Lower, Upper)]
ToLower(s) == [i \in DOMAIN s |-> Mapped(s[i], Upper, Lower)]

IsDigit(s)        == \A i \in DOMAIN s : s[i] \in ToSet(Digit)
IsUpper(s)        == \A i \in DOMAIN s : s[i] \in ToSet(Upper)
IsDigitOrSpace(s) == \A i \in DOMAIN s : s[i] \in ToSet(Digit) \cup {" "}

RECURSIVE DeleteMStr(_, _)
DeleteMStr(s, str) ==
  LET at == Find(s, str, 1)
  IN IF at = 0 THEN s
     ELSE DeleteMStr(SubSeq(s, 1, at - 1) \o From(s, at + Len(str)), str)

\* The loop of UpdateStr, with strStart at place start.
RECURSIVE Update(_, _, _, _, _)
Update(s, str1, str2, bLoop, start) ==
  LET at == Find(s, str1, IF bLoop THEN 1 ELSE start)
  IN IF Len(s) > MaxStr \/ at = 0 THEN s
     ELSE Update(SubSeq(s, 1, at - 1) \o str2 \o From(s, at + Len(str1)),
                 str1, str2, bLoop, at + Len(str2))

\* Mutant: one pass, so that three blanks leave two.
UpdateStr_Once(s, str1, str2, bLoop) == Update(s, str1, str2, FALSE, 1)

UpdateStr(s, str1, str2, bLoop) == Update(s, str1, str2, bLoop, 1)

-----------------------------------------------------------------------------
(* CCmdStr.                                                                *)

Trimmed(s, bdeletespace) == IF bdeletespace THEN DeleteLRChar(s, " ") ELSE s

RECURSIVE SplitToCmd(_, _, _)
SplitToCmd(s, sep, bdeletespace) ==
  LET at == Find(s, sep, 1)
  IN IF at = 0 THEN <<Trimmed(s, bdeletespace)>>
     ELSE <<Trimmed(SubSeq(s, 1, at - 1), bdeletespace)>>
            \o SplitToCmd(From(s, at + Len(sep)), sep, bdeletespace)

\* strncpy of n bytes into a buffer that was emptied by strcpy(buffer, "").
Strncpy(s, n, old) ==
  IF n = 0 THEN <<>> ELSE IF Len(s) < n THEN s ELSE Cut(s, n) \o From(old, n + 1)

\* GetValue with a length, of a buffer that held old.
GetValue(cmds, inum, len, old) ==
  IF inum >= Len(cmds) THEN <<>>
  ELSE IF Len(cmds[inum + 1]) > len THEN Strncpy(cmds[inum + 1], len, old)
  ELSE cmds[inum + 1]

\* atoi of an unsigned number.
RECURSIVE Atoi(_)
Atoi(s) ==
  LET digits == {i \in 0..Len(s) : IsDigit(Cut(s, i))}
      n == CHOOSE i \in digits : \A j \in digits : j <= i
  IN IF n = 0 THEN 0
     ELSE 10 * Atoi(Cut(s, n - 1)) + (CHOOSE d \in 0..9 : Digit[d + 1] = s[n])

GetNumber(cmds, inum) == IF inum >= Len(cmds) THEN 0 ELSE Atoi(cmds[inum + 1])

\* How the loader takes a line apart: getddtime, getcityid and procline.
Fields(line) ==
  SplitToCmd(UpdateStr(DeleteLRChar(line, " "), <<" ", " ">>, <<" ">>, TRUE),
             <<" ">>, TRUE)

-----------------------------------------------------------------------------
(* MatchFileName.                                                          *)

\* The loop over the pieces between the stars: behind[j] is the place behind
\* piece j, 0 after a mismatch.  strcmp looks before the name when the last
\* piece is longer than it; the search that follows fails whatever it finds.
MatchPieces(name, piece) ==
  LET behind[j \in 0..Len(piece)] ==
        IF j = 0 THEN 1
        ELSE LET at == IF behind[j - 1] = 0 THEN 0
                       ELSE Find(name, piece[j], behind[j - 1])
             IN IF \/ at = 0
                   \/ j = 1 /\ ~IsPrefix(piece[j], name)
                   \/ j = Len(piece) /\ ~IsSuffix(piece[j], name)
                THEN 0 ELSE at + Len(piece[j])
  IN behind[Len(piece)] # 0

MatchFileName(name, match) ==
  /\ match # <<>>
  /\ \/ match = <<"*">>
     \/ LET cmds == SplitToCmd(ToUpper(match), <<",">>, TRUE)
        IN \E i \in DOMAIN cmds :
             /\ cmds[i] # <<>>
             /\ MatchPieces(ToUpper(name), SplitToCmd(cmds[i], <<"*">>, TRUE))

-----------------------------------------------------------------------------
(* Numbers, XML and the lines of a file.                                   *)

JudgeSignDOT(s, bz) ==
  LET at == Find(s, <<bz>>, 1)
  IN at # 0 => /\ at # Len(s)
               /\ bz \in {"+", "-"} => at = 1
               /\ Find(s, <<bz>>, at + 1) = 0

PickNumber(s, bWithSign, bWithDOT) ==
  LET t == DeleteLRChar(s, " ")
      Picked(c) == \/ c \in ToSet(Digit)
                   \/ bWithSign /\ c \in {"+", "-"}
                   \/ bWithDOT /\ c = "."
  IN IF /\ bWithSign => JudgeSignDOT(t, "-") /\ JudgeSignDOT(t, "+")
        /\ bWithDOT => JudgeSignDOT(t, ".")
     THEN SelectSeq(t, Picked) ELSE <<>>

\* GetXMLBuffer: what it returns and the buffer, which held old.  A length of
\* 0 is no limit.
GetXMLBuffer(xml, name, len, old) ==
  LET open  == Cut(<<"<">> \o name \o <<">">>, TagSize - 1)
      close == Cut(<<"<", "/">> \o name \o <<">">>, TagSize - 1)
      start == Find(xml, open, 1)
      end   == IF start = 0 THEN 0 ELSE Find(xml, close, start)
      n     == end - start - Len(name) - 2
      value == From(xml, start + Len(name) + 2)
  IN IF end = 0 THEN [ok |-> FALSE, out |-> <<>>]
     ELSE [ok  |-> TRUE,
           out |-> DeleteLRChar(
                     Strncpy(value, IF n <= len \/ len = 0 THEN n ELSE len, old),
                     " ")]

\* fgets: up to size - 1 bytes, to the end of the line.
Fgets(file, size) ==
  LET nl == Find(file, <<"\n">>, 1)
  IN Cut(file, IF nl \in 1..(size - 1) THEN nl ELSE size - 1)

\* The trailing line ends of a line, each kind three times.
Chomp(line) ==
  LET once(s) == DeleteRChar(DeleteRChar(s, "\n"), "\r")
  IN once(once(once(line)))

\* What calls of FGETS with an empty buffer read from a file until one returns
\* FALSE.
RECURSIVE FGETS(_, _)
FGETS(file, size) ==
  IF file = <<>> THEN <<>>
  ELSE <<Chomp(Fgets(file, size))>>
         \o FGETS(From(file, Len(Fgets(file, size)) + 1), size)

\* CXmlFile::LoadFile: lines as long as the buffer has room for them.
LoadFile(file, size, room) ==
  LET lines == FGETS(file, size)
      xml[k \in 0..Len(lines)] ==
        IF k = 0 THEN <<>>
        ELSE IF Len(xml[k - 1] \o lines[k]) >= room THEN xml[k - 1]
        ELSE xml[k - 1] \o lines[k]
      stops == {k \in 1..Len(lines) : Len(xml[k - 1] \o lines[k]) >= room}
  IN xml[IF stops = {} THEN Len(lines)
         ELSE (CHOOSE k \in stops : \A l \in stops : k <= l) - 1]

-----------------------------------------------------------------------------
(* CLogFile, in one process: its file, the backups by the second they are  *)
(* named for, whether the file is open, and what went to stdout instead.   *)

LogOpen(bBackup, opens) == [backup |-> bBackup, file |-> <<>>, bak |-> <<>>,
                            open |-> opens, out |-> <<>>]

\* The file is longer than size: it is renamed and opened anew, which may fail.
Rotates(log, size) == log.backup /\ log.open /\ Len(log.file) > size

BackupLogFile(log, size, time, opens) ==
  IF ~Rotates(log, size) THEN log
  ELSE [log EXCEPT !.bak = (time :> log.file) @@ @, !.file = <<>>, !.open = opens]

\* CLogFile::WriteEx
WriteEx(log, line) ==
  IF log.open THEN [log EXCEPT !.file = Append(@, line)]
  ELSE [log EXCEPT !.out = Append(@, line)]

\* CLogFile::Write: the line whose backup fails is not written at all.
LogWrite(log, size, time, opens, line) ==
  LET backed == BackupLogFile(log, size, time, opens)
  IN IF log.open /\ ~backed.open THEN backed ELSE WriteEx(backed, line)

(* MKDIR, and FOPEN to write: a path is the sequence of its names.  Every  *)
(* directory can be made but for those in denied.                          *)

MKDIR(dirs, denied, path, bisfilename) ==
  LET depth == IF bisfilename THEN Len(path) - 1 ELSE Len(path)
      made[k \in 0..depth] ==
        IF k = 0 THEN [ok |-> TRUE, dirs |-> dirs]
        ELSE LET name == Cut(path, k)
             IN IF ~made[k - 1].ok \/ name \in made[k - 1].dirs THEN made[k - 1]
                ELSE IF name \in denied THEN [made[k - 1] EXCEPT !.ok = FALSE]
                ELSE [made[k - 1] EXCEPT !.dirs = @ \cup {name}]
  IN made[depth]

FOPEN(dirs, denied, path) ==
  LET made == MKDIR(dirs, denied, path, TRUE)
  IN [made EXCEPT !.ok = @ /\ path \notin made.dirs]

-----------------------------------------------------------------------------
(* Times.  A time is a record of its fields; the calendar of mktime and    *)
(* localtime is the Gregorian one, without time zones.                     *)

\* Days since 1 January 1970, of years that begin in March.
Days(y, m, d) ==
  LET yy == IF m <= 2 THEN y - 1 ELSE y
      mm == (m + 9) % 12
  IN 365 * yy + yy \div 4 - yy \div 100 + yy \div 400
       + (153 * mm + 2) \div 5 + d - 719469

Mktime(t) ==
  86400 * Days(t.yyyy, t.mm, t.dd) + 3600 * t.hh24 + 60 * t.mi + t.ss

MonthLength(y, m) ==
  IF m = 2 THEN IF (y % 4 = 0 /\ y % 100 # 0) \/ y % 400 = 0 THEN 29 ELSE 28
  ELSE IF m \in {4, 6, 9, 11} THEN 30 ELSE 31

\* localtime of a number of seconds within the years given.
Localtime(timer, years) ==
  LET day == timer \div 86400
      sec == timer % 86400
      y == CHOOSE y \in years : Days(y, 1, 1) <= day /\ day < Days(y + 1, 1, 1)
      m == CHOOSE m \in 1..12 : day - Days(y, m, 1) \in 0..(MonthLength(y, m) - 1)
  IN [yyyy |-> y, mm |-> m, dd |-> day - Days(y, m, 1) + 1,
      hh24 |-> sec \div 3600, mi |-> (sec \div 60) % 60, ss |-> sec % 60]

\* The formats, and the size that snprintf is given for each.
TimeFormat ==
  [n \in {"default", "yyyy-mm-dd hh24:mi:ss"} |->
     [parts |-> <<"yyyy", "-", "mm", "-", "dd", " ", "hh24", ":", "mi", ":", "ss">>,
      size  |-> 20]]
  @@ "yyyy-mm-dd hh24:mi" :>
     [parts |-> <<"yyyy", "-", "mm", "-", "dd", " ", "hh24", ":", "mi">>, size |-> 17]
  @@ "yyyy-mm-dd hh24" :>
     [parts |-> <<"yyyy", "-", "mm", "-", "dd", " ", "hh24">>, size |-> 14]
  @@ "yyyy-mm-dd" :> [parts |-> <<"yyyy", "-", "mm", "-", "dd">>, size |-> 11]
  @@ "yyyy-mm"    :> [parts |-> <<"yyyy", "-", "mm">>, size |-> 8]
  @@ "hh24:mi:ss" :> [parts |-> <<"hh24", ":", "mi", ":", "ss">>, size |-> 9]
  @@ "hh24:mi"    :> [parts |-> <<"hh24", ":", "mi">>, size |-> 5]
  @@ "yyyymmddhh24miss" :>
     [parts |-> <<"yyyy", "mm", "dd", "hh24", "mi", "ss">>, size |-> 15]
  @@ "yyyymmddhh24mi" :>
     [parts |-> <<"yyyy", "mm", "dd", "hh24", "mi">>, size |-> 13]
  @@ "yyyymmddhh24" :> [parts |-> <<"yyyy", "mm", "dd", "hh24">>, size |-> 11]
  @@ "yyyymmdd" :> [parts |-> <<"yyyy", "mm", "dd">>, size |-> 9]
  @@ "hh24miss" :> [parts |-> <<"hh24", "mi", "ss">>, size |-> 7]
  @@ "hh24mi"   :> [parts |-> <<"hh24", "mi">>, size |-> 5]
  @@ "hh24"     :> [parts |-> <<"hh24">>, size |-> 3]
  @@ "mi"       :> [parts |-> <<"mi">>, size |-> 3]

\* %04u and %02u.
Rendered(t, parts) ==
  LET width(p) == IF p = "yyyy" THEN 4 ELSE 2
      digits(n, w) == [i \in 1..w |-> Digit[((n \div 10 ^ (w - i)) % 10) + 1]]
  IN FlattenSeq([i \in DOMAIN parts |->
       IF parts[i] \in DOMAIN t THEN digits(t[parts[i]], width(parts[i]))
       ELSE <<parts[i]>>])

LocalTime(t, fmt) ==
  Cut(Rendered(t, TimeFormat[fmt].parts), TimeFormat[fmt].size - 1)

UTCTime(stime) ==
  LET n == PickNumber(stime, FALSE, FALSE)
      at(i, j) == Atoi(SubSeq(n, i, j))
  IN IF Len(n) # 14 THEN -1
     ELSE Mktime([yyyy |-> at(1, 4), mm |-> at(5, 6), dd |-> at(7, 8),
                  hh24 |-> at(9, 10), mi |-> at(11, 12), ss |-> at(13, 14)])

\* The formats AddTime knows, none of which it cuts.
AddFormats == {"default", "yyyy-mm-dd hh24:mi:ss", "yyyymmddhh24miss",
               "yyyy-mm-dd", "yyyymmdd", "hh24:mi:ss", "hh24:mi", "hh24mi"}

AddTime(stime, interval, fmt, years) ==
  IF fmt \notin AddFormats THEN [ret |-> -1, out |-> <<>>]
  ELSE [ret |-> 0,
        out |-> Rendered(Localtime(UTCTime(stime) + interval, years),
                         TimeFormat[fmt].parts)]

-----------------------------------------------------------------------------
(* Reference definitions and the property.                                 *)

Strings(chars, n) == BoundedSeq(chars, n)

\* The runs of s of characters other than c.
Runs(s, c) ==
  LET run == {r \in (1..Len(s)) \X (1..Len(s)) :
                /\ r[1] <= r[2] /\ \A i \in r[1]..r[2] : s[i] # c
                /\ r[1] = 1 \/ s[r[1] - 1] = c
                /\ r[2] = Len(s) \/ s[r[2] + 1] = c}
      order == SetToSortSeq(run, LAMBDA p, q : p[1] < q[1])
  IN [i \in DOMAIN order |-> SubSeq(s, order[i][1], order[i][2])]

RECURSIVE Glob(_, _)
Glob(name, pat) ==
  IF pat = <<>> THEN name = <<>>
  ELSE IF Head(pat) = "*"
  THEN Glob(name, Tail(pat)) \/ (name # <<>> /\ Glob(Tail(name), pat))
  ELSE name # <<>> /\ Head(name) = Head(pat) /\ Glob(Tail(name), Tail(pat))

\* The fields of a line are its runs of other characters than blanks; a blank
\* line has one empty field (pspccfiles.cpp 189, 231, 253).
FieldsExact ==
  \A s \in Strings({" ", "a"}, MaxText + 3) :
    Fields(s) = IF Runs(s, " ") = <<>> THEN <<<<>>>> ELSE Runs(s, " ")

\* A pattern with a star takes the names the pattern means, whatever the case
\* of the letters; one without takes every name that begins and ends with it.
MatchExact ==
  \A n \in Strings({"a", "B"}, MaxText), p \in Strings({"A", "b", "*"}, MaxText) :
    MatchFileName(n, p) <=>
      LET N == ToUpper(n)
          P == ToUpper(p)
      IN /\ p # <<>>
         /\ IF "*" \in ToSet(p) THEN Glob(N, P) ELSE IsPrefix(P, N) /\ IsSuffix(P, N)

\* A buffer that held nothing gets the value, cut to the length; one that held
\* something keeps it behind a value that is cut, and behind any value of XML.
CopiesExact ==
  \A s \in Strings({"a", " "}, MaxText) \ {<<>>}, len \in 1..MaxText,
     old \in {<<>>, Repeat("x", MaxText)} :
    LET xml == <<"a", "<", "t", ">">> \o s \o <<"<", "/", "t", ">", "x">>
        got == GetXMLBuffer(xml, <<"t">>, len, old)
        n   == Len(Cut(s, len))
    IN /\ got.ok /\ got.out = DeleteLRChar(Cut(s, len) \o From(old, n + 1), " ")
       /\ GetValue(<<s>>, 0, len, old)
            = IF n < Len(s) THEN Cut(s, len) \o From(old, n + 1) ELSE s
       /\ GetXMLBuffer(xml, <<"t">>, 0, <<>>).out = DeleteLRChar(s, " ")
       /\ ~GetXMLBuffer(Front(Front(xml)), <<"t">>, len, old).ok

\* Digits are picked in their order, a sign only in front and a point only once.
NumbersExact ==
  \A s \in Strings({"1", "-", ".", " ", "a"}, MaxText) :
    LET n == PickNumber(s, TRUE, TRUE)
        d == PickNumber(s, FALSE, FALSE)
    IN /\ IsDigit(d) /\ d = SelectSeq(s, LAMBDA c : c = "1")
       /\ n # <<>> => SelectSeq(n, LAMBDA c : c = "1") = d
       /\ \A i \in DOMAIN n : n[i] = "-" => i = 1
       /\ \A i, j \in DOMAIN n : n[i] = "." /\ n[j] = "." => i = j

\* Padding and replacing.
StringsExact ==
  \A s \in Strings({"a", "b"}, MaxText), len \in 0..(MaxText + 1) :
    /\ IsSuffix(s, LPad(s, "x", len)) /\ IsPrefix(s, RPad(s, "x", len))
    /\ Len(LPad(s, "x", len)) = Len(RPad(s, "x", len))
    /\ DeleteLChar(LPad(s, "x", len), "x") = s
    /\ \A str \in Strings({"a", "b"}, 2) \ {<<>>} :
         /\ Find(DeleteMStr(s, str), str, 1) = 0
         /\ Find(UpdateStr(s, str, <<"x">>, FALSE), str, 1) = 0
         /\ UpdateStr(s, str, <<>>, TRUE) = DeleteMStr(s, str)
    /\ ToLower(ToUpper(s)) = s /\ IsUpper(ToUpper(s))

\* Lines that fit are read as they are, without their line ends; longer ones
\* arrive in parts, and nothing is lost.
LinesExact ==
  \A file \in Strings({"a", "\r", "\n"}, MaxText), size \in 3..(MaxText + 2) :
    LET lines == FGETS(file, size)
        cut   == SplitToCmd(file, <<"\n">>, FALSE)
        whole == IF Last(cut) = <<>> THEN Front(cut) ELSE cut
    IN /\ (\A i \in DOMAIN cut : Len(cut[i]) < size - 1)
            => lines = [i \in DOMAIN whole |-> DeleteRChar(whole[i], "\r")]
       /\ SelectSeq(FlattenSeq(lines), LAMBDA c : c = "a")
            = SelectSeq(file, LAMBDA c : c = "a")
       /\ IsPrefix(LoadFile(file, size, MaxText), FlattenSeq(lines))
       /\ Len(LoadFile(file, size, MaxText)) < MaxText

\* Every line of a log is kept once and in its order, in a backup, the file or
\* the output, but for one whose file could not be opened again and those of a
\* backup that a second one of the same second takes the name of.
LogExact ==
  \A es \in Strings([ex : BOOLEAN, time : 1..2, opens : BOOLEAN], 4), size \in 0..1,
     bBackup, first \in BOOLEAN :
    (\A i, j \in DOMAIN es : i < j => es[i].time <= es[j].time) =>
      LET log[k \in 0..Len(es)] ==
            IF k = 0 THEN LogOpen(bBackup, first)
            ELSE IF es[k].ex THEN WriteEx(log[k - 1], k)
            ELSE LogWrite(log[k - 1], size, es[k].time, es[k].opens, k)
          end    == log[Len(es)]
          order  == SetToSortSeq(DOMAIN end.bak, <)
          kept   == FlattenSeq([i \in DOMAIN order |-> end.bak[order[i]]])
                      \o end.file \o end.out
          backed == {k \in DOMAIN es : ~es[k].ex /\ Rotates(log[k - 1], size)}
      IN /\ \A i, j \in DOMAIN kept : i < j => kept[i] < kept[j]
         /\ (\A i, j \in backed : es[i].time = es[j].time => i = j)
              => ToSet(kept) = DOMAIN es \ {k \in backed : ~es[k].opens}
         /\ ~bBackup => (IF first THEN end.file ELSE end.out) = [k \in DOMAIN es |-> k]

\* MKDIR makes what is missing above a file and nothing else, from the top on,
\* and fails exactly if it cannot; then FOPEN opens nothing.
PathsExact ==
  LET paths == Strings({"a", "b"}, 3) \ {<<>>}
      Above(p) == {Cut(p, k) : k \in 1..(Len(p) - 1)}
  IN \A dirs \in {Above(p) : p \in paths}, denied \in SUBSET Strings({"a"}, 3),
        p \in paths, file \in BOOLEAN :
       LET want == Above(p) \cup (IF file THEN {} ELSE {p})
           made == MKDIR(dirs, denied, p, file)
       IN /\ made.ok <=> (want \ dirs) \cap denied = {}
          /\ made.ok => made.dirs = dirs \cup want
          /\ dirs \subseteq made.dirs /\ made.dirs \subseteq dirs \cup want
          /\ \A d \in made.dirs : Above(d) \subseteq made.dirs
          /\ FOPEN(dirs, denied, p).ok => Above(p) \subseteq FOPEN(dirs, denied, p).dirs

\* Times of interest: the ends of days, months, years, leap years.
Instants ==
  {[yyyy |-> d[1], mm |-> d[2], dd |-> d[3],
    hh24 |-> s[1], mi |-> s[2], ss |-> s[3]] :
     d \in {<<1999, 12, 31>>, <<2000, 2, 28>>, <<2000, 2, 29>>, <<2019, 2, 28>>,
            <<2019, 3, 1>>, <<2020, 1, 1>>},
     s \in {<<0, 0, 0>>, <<9, 5, 59>>, <<23, 59, 59>>}}

Years == 1998..2021

\* Every format shows the whole time, but for "hh24:mi" of LocalTime, which
\* loses its last digit to the size of 5 (_public.cpp 1033); a time that is
\* written and read again, with an offset, is the time plus the offset.
TimesExact ==
  \A t \in Instants :
    /\ \A fmt \in DOMAIN TimeFormat :
         LET whole == Rendered(t, TimeFormat[fmt].parts)
         IN LocalTime(t, fmt) = IF fmt = "hh24:mi" THEN Front(whole) ELSE whole
    /\ \A fmt \in {"default", "yyyymmddhh24miss"},
          i \in {0, 1, -1, 86400, -86400, 28800} :
         /\ UTCTime(LocalTime(t, fmt)) = Mktime(t)
         /\ UTCTime(AddTime(LocalTime(t, fmt), i, fmt, Years).out) = Mktime(t) + i
    /\ UTCTime(LocalTime(t, "yyyymmddhh24mi")) = -1

\* The helpers do what their callers rely on, with the exceptions named above
\* (_public.cpp 23-230, 464-655, 687-959, 977-1121, 1186-1525, 2105-2140).
TextExact ==
  /\ FieldsExact  /\ MatchExact  /\ CopiesExact /\ NumbersExact
  /\ StringsExact /\ LinesExact  /\ TimesExact  /\ LogExact
  /\ PathsExact
=============================================================================
