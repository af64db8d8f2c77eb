------------------------------- MODULE Loader -------------------------------
(***************************************************************************)
(* Files of forecasts on their way into a table.  A file gets into the     *)
(* directory in one of four ways: written by a program with CFile, which   *)
(* uses a temporary name and renames (demo8.cpp); received over a socket   *)
(* under its own name (demo13.cpp and demo14.cpp); fetched from an FTP     *)
(* server, where it may still grow, or put there by FTP, both under a      *)
(* temporary name (Cftp::get and put).                                     *)
(* The loader pspccfiles.cpp lists the directory, loads one file after the *)
(* other, each in a transaction, and removes it; procctl.cpp starts it     *)
(* again whenever it has ended.  It may be killed at any step, and the     *)
(* database may refuse a statement or a commit or be lost.                 *)
(* A file is a sequence of lines, each of a kind:                          *)
(*   spcc      two fields, the first of them SPCC      count n  a number   *)
(*   station n six fields, the fifth n                 row      22 fields  *)
(*   end       the mark NNNN                           other    the rest   *)
(***************************************************************************)
EXTENDS Integers, Sequences, FiniteSets

CONSTANTS Files,      \* names of files
          Via,        \* the ways each may get into the directory
          Contents,   \* what each may contain
          LongNames,  \* files demo13 may be given with a path that leaves no
                      \* room for the size in its XML
          Piece,      \* lines that arrive together
          Many,       \* what atoi makes of the first field of a row or station
          MaxCount,   \* OpenDir lists up to one name more than this
          MaxCrash,   \* bound on the times the loader or a writer is killed
          MaxFail    \* bound on the failures of database and file system

LineKinds == {"spcc", "count", "station", "row", "end", "other"}
Line  == [kind : LineKinds, n : Nat]

ASSUME LoaderConstants ==
  /\ Via \in [Files -> SUBSET {"rename", "socket", "get", "put"}]
  /\ \A f \in Files : Contents[f] \subseteq Seq(Line)
  /\ \A f \in Files : \A c \in Contents[f] : \A k \in DOMAIN c :
       c[k].kind = "end" => k = Len(c)   \* the mark is the last line
  /\ LongNames \subseteq Files
  /\ Piece \in Nat \ {0} /\ Many \in Nat \ {0} /\ MaxCount \in Nat
  /\ MaxCrash \in Nat /\ MaxFail \in Nat

NoFile == "none"

VARIABLES content,  \* what each file contains when it is complete
          disk,     \* lines of it under its own name, -1: no such name
          tmp,      \* lines of it under the temporary name, -1: no such name
          remote,   \* lines of it on the FTP server
          wpc,      \* where its writer is
          lpc,      \* where the loader is, "off" while it does not run
          list,     \* Dir: the names listed and not yet read
          cur,      \* Dir.m_FileName
          pos,      \* File: lines read
          ii, jj,   \* rounds of the two loops of _pspccfiles still to do
          ybsum,    \* rows of the last station read
          linked,   \* the connection to the database works
          txn,      \* rows inserted and not committed: file and line
          table,    \* table t_spcc: how often it has each row
          crashes, failures,
          refused,  \* files a commit of which was refused
          again     \* how often a file was left behind after its commit

writers == <<disk, tmp, remote, wpc>>
loader  == <<lpc, list, cur, pos, ii, jj, ybsum>>
dbase   == <<linked, txn, table>>
ghosts  == <<refused, again>>
loadvars == <<content, writers, loader, dbase, crashes, failures, ghosts>>

Lines(f)  == DOMAIN content[f]
RowsOf(c) == {k \in DOMAIN c : c[k].kind = "row"}
Least(a, b) == IF a < b THEN a ELSE b

LoadInit ==
  /\ content \in {c \in [Files -> UNION {Contents[f] : f \in Files}] :
                    \A f \in Files : c[f] \in Contents[f]}
  /\ disk = [f \in Files |-> -1]
  /\ tmp = [f \in Files |-> -1]
  /\ remote = [f \in Files |-> 0]
  /\ wpc = [f \in Files |-> "start"]
  /\ lpc = "off" /\ list = {} /\ cur = NoFile /\ pos = 0
  /\ ii = 0 /\ jj = 0 /\ ybsum = 0
  /\ linked = FALSE /\ txn = {}
  /\ table = [f \in Files |-> [k \in Lines(f) |-> 0]]
  /\ crashes = 0 /\ failures = 0
  /\ refused = {} /\ again = [f \in Files |-> 0]

Set(fn, f, v) == [fn EXCEPT ![f] = v]

-----------------------------------------------------------------------------
(* The writers.                                                            *)

\* CFile::OpenForRename: the temporary name is made, or emptied.
OpenForRename(f) ==
  /\ "rename" \in Via[f] /\ wpc[f] = "start"
  /\ tmp' = Set(tmp, f, 0)
  /\ wpc' = Set(wpc, f, "open")
  /\ UNCHANGED <<disk, remote>>

\* CFile::Fprintf.
Fprintf(f) ==
  /\ wpc[f] = "open" /\ tmp[f] < Len(content[f])
  /\ tmp' = Set(tmp, f, Least(tmp[f] + Piece, Len(content[f])))
  /\ UNCHANGED <<disk, remote, wpc>>

\* CFile::CloseAndRename.
CloseAndRename(f) ==
  /\ wpc[f] = "open" /\ tmp[f] = Len(content[f])
  /\ disk' = Set(disk, f, tmp[f])
  /\ tmp' = Set(tmp, f, -1)
  /\ wpc' = Set(wpc, f, "done")
  /\ UNCHANGED remote

\* The program ends before it is done: CFile::CloseOnly removes the temporary
\* name, unless the program was killed.  It is run again.
WriterEnds(f) ==
  /\ wpc[f] = "open" /\ crashes < MaxCrash
  /\ tmp' \in {tmp, Set(tmp, f, -1)}
  /\ wpc' = Set(wpc, f, "start")
  /\ crashes' = crashes + 1
  /\ UNCHANGED <<disk, remote>>

\* RecvFile of demo14.cpp opens the file; when the size is missing from the
\* XML there is nothing to receive, and the sender is told "ok".
RecvFile(f, long) ==
  /\ "socket" \in Via[f] /\ wpc[f] = "start"
  /\ long => f \in LongNames
  /\ disk' = Set(disk, f, 0)
  /\ wpc' = Set(wpc, f, IF long THEN "done" ELSE "recv")
  /\ UNCHANGED <<tmp, remote>>

\* SendFile of demo13.cpp and the loop of RecvFile: the next piece.
SendFile(f) ==
  LET now == Least(disk[f] + Piece, Len(content[f]))
  IN /\ wpc[f] = "recv"
     /\ disk' = Set(disk, f, now)
     /\ wpc' = Set(wpc, f, IF now = Len(content[f]) THEN "done" ELSE "recv")
     /\ UNCHANGED <<tmp, remote>>

\* The connection breaks: RecvFile returns FALSE and leaves what it has.  The
\* file is sent again, or not.
SendBreaks(f) ==
  /\ wpc[f] = "recv" /\ crashes < MaxCrash
  /\ wpc' \in {Set(wpc, f, "start"), Set(wpc, f, "done")}
  /\ crashes' = crashes + 1
  /\ UNCHANGED <<disk, tmp, remote>>

\* The file on the FTP server grows.
RemoteGrows(f) ==
  /\ "get" \in Via[f] /\ remote[f] < Len(content[f])
  /\ remote' = Set(remote, f, Least(remote[f] + Piece, Len(content[f])))
  /\ UNCHANGED <<disk, tmp, wpc>>

\* Cftp::get and put: FtpGet or FtpPut to the temporary name.  Both are also
\* successful when the connection for the data ended early.
FtpGet(f) ==
  /\ "get" \in Via[f] /\ wpc[f] = "start" /\ remote[f] > 0
  /\ tmp' \in {Set(tmp, f, n) : n \in {Least(Piece, remote[f]), remote[f]}}
  /\ wpc' = Set(wpc, f, "get")
  /\ UNCHANGED <<disk, remote>>

FtpPut(f) ==
  /\ "put" \in Via[f] /\ wpc[f] = "start"
  /\ tmp' \in {Set(tmp, f, n) : n \in {Piece, Len(content[f])} \cap Lines(f)}
  /\ wpc' = Set(wpc, f, "put")
  /\ UNCHANGED <<disk, remote>>

FtpRename(f, ok) ==
  /\ IF ok THEN /\ disk' = Set(disk, f, tmp[f])
                /\ tmp' = Set(tmp, f, -1)
                /\ wpc' = Set(wpc, f, "done")
           ELSE wpc' = Set(wpc, f, "start") /\ UNCHANGED <<disk, tmp>>
  /\ UNCHANGED remote

\* The rest of Cftp::get: the size is compared when bCheckSize is FALSE.  If it
\* differs, or the server does not tell it, get returns FALSE and is called
\* again.
FtpGetEnds(f, bCheckSize) ==
  /\ wpc[f] = "get"
  /\ \/ FtpRename(f, bCheckSize \/ tmp[f] = remote[f])
     \/ FtpRename(f, FALSE)

\* The rest of Cftp::put: when bCheckSize is TRUE the size of the file of the
\* final name is compared, before the new file has it.
FtpPutEnds(f, bCheckSize) ==
  /\ wpc[f] = "put"
  /\ \/ FtpRename(f, bCheckSize => disk[f] = Len(content[f]))
     \/ FtpRename(f, FALSE)

WriterStep(f) ==
  \/ OpenForRename(f) \/ Fprintf(f) \/ CloseAndRename(f)
  \/ SendFile(f) \/ RemoteGrows(f) \/ FtpGet(f) \/ FtpPut(f)
  \/ \E b \in BOOLEAN : RecvFile(f, b) \/ FtpGetEnds(f, b) \/ FtpPutEnds(f, b)

Writer ==
  /\ \E f \in Files :
       \/ WriterStep(f) /\ UNCHANGED crashes
       \/ WriterEnds(f) \/ SendBreaks(f)
  /\ UNCHANGED <<content, loader, dbase, failures, ghosts>>

-----------------------------------------------------------------------------
(* The loader.                                                             *)

\* CheckFileEnd: the mark is in the last 30 bytes, which are the last line.
CheckFileEnd(f) == disk[f] > 0 /\ content[f][disk[f]].kind = "end"

\* atoi of a line.
Number(line) ==
  CASE line.kind = "count" -> line.n
    [] line.kind \in {"row", "station"} -> Many
    [] OTHER -> 0

\* The first line behind line k that is of a set of lines, 0 if there is none.
FirstIn(lines, k) ==
  IF \E l \in lines : l > k
  THEN CHOOSE l \in lines : l > k /\ \A m \in lines : m > k => l <= m
  ELSE 0

\* getddtime: the line SPCC, and the first line behind it that begins with a
\* number.  The place of that line, or 0.
getddtime(c) ==
  LET spcc == FirstIn({k \in DOMAIN c : c[k].kind = "spcc"}, 0)
  IN IF spcc = 0 THEN 0 ELSE FirstIn({k \in DOMAIN c : Number(c[k]) # 0}, spcc)

\* getcityid: the place of the next station.
getcityid(c, k) == FirstIn({l \in DOMAIN c : c[l].kind = "station"}, k)

\* The loader ends, in whatever way: what it did not commit is rolled back.
Ends ==
  /\ lpc' = "off" /\ list' = {} /\ cur' = NoFile /\ pos' = 0
  /\ ii' = 0 /\ jj' = 0 /\ ybsum' = 0
  /\ linked' = FALSE /\ txn' = {}

\* Mutant: a program that was killed is not started again.
Start_NotKilled ==
  /\ lpc = "off" /\ crashes = 0
  /\ lpc' = "connect"
  /\ UNCHANGED <<content, writers, list, cur, pos, ii, jj, ybsum, dbase, crashes,
                 failures, ghosts>>

\* procctl: fork and exec, after wait and sleep.
Start ==
  /\ lpc = "off"
  /\ lpc' = "connect"
  /\ UNCHANGED <<content, writers, list, cur, pos, ii, jj, ybsum, dbase, crashes,
                 failures, ghosts>>


\* main: connecttodb.
Connect ==
  /\ lpc = "connect"
  /\ lpc' = "opendir" /\ linked' = TRUE
  /\ UNCHANGED <<content, writers, list, cur, pos, ii, jj, ybsum, txn, table,
                 crashes, failures, ghosts>>

ConnectFails ==
  /\ lpc = "connect" /\ failures < MaxFail
  /\ failures' = failures + 1
  /\ Ends
  /\ UNCHANGED <<content, writers, table, crashes, ghosts>>

\* Dir.OpenDir: names that match the pattern, which temporary ones do not, in
\* the order of the directory; it stops when it has more than MaxCount.
OpenDir ==
  LET names == {f \in Files : disk[f] # -1}
  IN /\ lpc = "opendir"
     /\ \E l \in SUBSET names :
          /\ Cardinality(l) = Least(Cardinality(names), MaxCount + 1)
          /\ list' = l
     /\ lpc' = "readdir"
     /\ UNCHANGED <<content, writers, cur, pos, ii, jj, ybsum, dbase, crashes,
                    failures, ghosts>>

\* Dir.ReadDir: the next name.
ReadDir ==
  /\ lpc = "readdir" /\ list # {}
  /\ \E f \in list : cur' = f /\ list' = list \ {f}
  /\ lpc' = "check"
  /\ UNCHANGED <<content, writers, pos, ii, jj, ybsum, dbase, crashes, failures, ghosts>>

\* The last name was read: main returns.
ReadDirEnds ==
  /\ lpc = "readdir" /\ list = {}
  /\ Ends
  /\ UNCHANGED <<content, writers, table, crashes, failures, ghosts>>

\* _pspccfiles: a file without its end, or without a head, ends the run.
OpenForRead ==
  LET head == getddtime(content[cur])
  IN /\ lpc = "check"
     /\ IF CheckFileEnd(cur) /\ head # 0
        THEN /\ lpc' = "station"
             /\ pos' = head
             /\ ii' = Number(content[cur][head])
             /\ UNCHANGED <<list, cur, jj, ybsum, dbase>>
        ELSE Ends /\ UNCHANGED table
     /\ UNCHANGED <<content, writers, crashes, failures, ghosts>>

\* getcityid; at the end of the file the number of rows is the last one.
Station ==
  LET next == getcityid(content[cur], pos)
      rows == IF next = 0 THEN ybsum ELSE content[cur][next].n
  IN /\ lpc = "station" /\ ii > 0
     /\ pos' = IF next = 0 THEN Len(content[cur]) ELSE next
     /\ ybsum' = rows /\ jj' = rows
     /\ ii' = ii - 1
     /\ lpc' = "rows"
     /\ UNCHANGED <<content, writers, list, cur, dbase, crashes, failures, ghosts>>

\* The inner loop is done.
RowsEnd ==
  /\ lpc = "rows" /\ jj = 0
  /\ lpc' = "station"
  /\ UNCHANGED <<content, writers, list, cur, pos, ii, jj, ybsum, dbase, crashes,
                 failures, ghosts>>

\* procline of a line that is no row, or at the end of the file: a round of
\* the loop is gone.
BadLine ==
  /\ lpc = "rows" /\ jj > 0
  /\ pos + 1 \notin RowsOf(content[cur])
  /\ pos' = Least(pos + 1, Len(content[cur]))
  /\ jj' = jj - 1
  /\ UNCHANGED <<content, writers, lpc, list, cur, ii, ybsum, dbase, crashes,
                 failures, ghosts>>

\* procline and inserttodb.
Insert ==
  /\ lpc = "rows" /\ jj > 0 /\ linked
  /\ pos + 1 \in RowsOf(content[cur])
  /\ pos' = pos + 1
  /\ jj' = jj - 1
  /\ txn' = txn \cup {<<cur, pos + 1>>}
  /\ UNCHANGED <<content, writers, lpc, list, cur, ii, ybsum, linked, table,
                 crashes, failures, ghosts>>

\* A statement or a commit fails: the connection is lost, or it is refused.
DatabaseFails ==
  \/ ~linked /\ UNCHANGED failures
  \/ linked /\ failures < MaxFail /\ failures' = failures + 1

\* Mutant: the row is left out and the file goes on.
InsertFails_Continue ==
  /\ lpc = "rows" /\ jj > 0
  /\ pos + 1 \in RowsOf(content[cur])
  /\ DatabaseFails
  /\ pos' = pos + 1 /\ jj' = jj - 1
  /\ UNCHANGED <<content, writers, lpc, list, cur, ii, ybsum, dbase, crashes, ghosts>>

\* inserttodb fails: main returns.
InsertFails ==
  /\ lpc = "rows" /\ jj > 0
  /\ pos + 1 \in RowsOf(content[cur])
  /\ DatabaseFails
  /\ Ends
  /\ UNCHANGED <<content, writers, table, crashes, ghosts>>

\* conn.commit.
Commit ==
  /\ lpc = "station" /\ ii = 0 /\ linked
  /\ table' = [f \in Files |-> [k \in Lines(f) |->
                 table[f][k] + IF <<f, k>> \in txn THEN 1 ELSE 0]]
  /\ txn' = {}
  /\ lpc' = "remove"
  /\ UNCHANGED <<content, writers, list, cur, pos, ii, jj, ybsum, linked,
                 crashes, failures, ghosts>>

\* A commit that fails is taken for one that did not.
CommitFails ==
  /\ lpc = "station" /\ ii = 0
  /\ DatabaseFails
  /\ txn' = {}
  /\ refused' = refused \cup {cur}
  /\ lpc' = "remove"
  /\ UNCHANGED <<content, writers, list, cur, pos, ii, jj, ybsum, linked,
                 table, crashes, again>>

\* File.CloseAndRemove; nobody looks whether it could.
CloseAndRemove ==
  /\ lpc = "remove"
  /\ disk' = Set(disk, cur, -1)
  /\ lpc' = "readdir"
  /\ UNCHANGED <<content, tmp, remote, wpc, list, cur, pos, ii, jj, ybsum, dbase,
                 crashes, failures, ghosts>>

RemoveFails ==
  /\ lpc = "remove" /\ failures < MaxFail
  /\ failures' = failures + 1
  /\ again' = [again EXCEPT ![cur] = @ + 1]
  /\ lpc' = "readdir"
  /\ UNCHANGED <<content, writers, list, cur, pos, ii, jj, ybsum, dbase, crashes,
                 refused>>

\* The database or the way to it is lost: the transaction is rolled back.
LinkCut ==
  /\ linked /\ failures < MaxFail
  /\ linked' = FALSE /\ txn' = {}
  /\ failures' = failures + 1
  /\ UNCHANGED <<content, writers, loader, table, crashes, ghosts>>

\* The loader is killed.
Crash ==
  /\ lpc # "off" /\ crashes < MaxCrash
  /\ crashes' = crashes + 1
  /\ again' = IF lpc = "remove" THEN [again EXCEPT ![cur] = @ + 1] ELSE again
  /\ Ends
  /\ UNCHANGED <<content, writers, table, failures, refused>>

Load ==
  \/ Connect \/ OpenDir \/ ReadDir \/ ReadDirEnds \/ OpenForRead \/ Station
  \/ RowsEnd \/ BadLine \/ Insert \/ Commit \/ CloseAndRemove

LoadNext ==
  \/ Writer \/ Start \/ Load
  \/ ConnectFails \/ InsertFails \/ CommitFails \/ RemoveFails \/ LinkCut \/ Crash

\* The loader runs, and procctl starts it again; what it calls returns, with
\* an error if the connection is lost.  Writers may stop anywhere.
Fairness == WF_loadvars(Start) /\ WF_loadvars(Load \/ InsertFails \/ CommitFails)

LoadSpec == LoadInit /\ [][LoadNext]_loadvars /\ Fairness

-----------------------------------------------------------------------------

LoadTypeOK ==
  /\ \A f \in Files : content[f] \in Contents[f]
  /\ \A f \in Files : /\ disk[f] \in -1..Len(content[f])
                      /\ tmp[f] \in -1..Len(content[f])
                      /\ remote[f] \in 0..Len(content[f])
  /\ wpc \in [Files -> {"start", "open", "recv", "get", "put", "done"}]
  /\ lpc \in {"off", "connect", "opendir", "readdir", "check", "station",
              "rows", "remove"}
  /\ list \subseteq Files /\ cur \in Files \cup {NoFile}
  /\ pos \in Nat /\ ii \in Nat /\ jj \in Nat /\ ybsum \in Nat
  /\ linked \in BOOLEAN
  /\ txn \subseteq {<<f, k>> : f \in {cur} \cap Files, k \in 1..pos}
  /\ \A f \in Files : table[f] \in [Lines(f) -> Nat]
  /\ crashes \in 0..MaxCrash /\ failures \in 0..MaxFail
  /\ refused \subseteq Files /\ again \in [Files -> Nat]

\* A file as it should be: the number of stations, and behind each station as
\* many rows as it says.
WellFormed(c) ==
  LET stations == {k \in DOMAIN c : c[k].kind = "station"}
      head == getddtime(c)
  IN /\ head # 0
     /\ c[head] = [kind |-> "count", n |-> Cardinality(stations)]
     /\ \A k \in stations : k > head /\ (k + 1)..(k + c[k].n) \subseteq RowsOf(c)
     /\ \A r \in RowsOf(c) : \E k \in stations : r \in (k + 1)..(k + c[k].n)

Gone(f) == wpc[f] = "done" /\ disk[f] = -1

\* A well-formed file is in the table as a whole or not at all, however the
\* loader is killed and started again; when it was removed it is there, once,
\* and once more for every time the loader was stopped, or could not remove
\* it, after the commit -- unless a commit was refused, which nobody looks at.
\* No line but a row ever gets into the table, and a file that is not complete
\* is never removed (pspccfiles.cpp 125-174, _public.cpp 1164-1182, 2088-2102).
LoadExact ==
  /\ LoadTypeOK
  /\ \A f \in Files :
       LET rows == RowsOf(content[f])
           copies(k) == table[f][k]
       IN /\ \A k \in Lines(f) : copies(k) > 0 => k \in rows /\ copies(k) <= again[f] + 1
          /\ WellFormed(content[f]) => \A k, l \in rows : copies(k) = copies(l)
          /\ Gone(f) => /\ content[f][Len(content[f])].kind = "end"
                        /\ WellFormed(content[f]) /\ f \notin refused
                             => \A k \in rows : copies(k) = again[f] + 1

\* A file that is for ever in the way: its end never came, or it has no head.
InTheWay(f) == disk[f] # -1 /\ ~(CheckFileEnd(f) /\ getddtime(content[f]) # 0)

\* If no file stays in the way, every file that is in the directory is taken
\* out of it, however often the loader was stopped before (procctl.cpp 49-98).
AllLoaded ==
  <>[](\A f \in Files : ~InTheWay(f))
    => \A f \in Files : (disk[f] # -1) ~> (disk[f] = -1)
=============================================================================
