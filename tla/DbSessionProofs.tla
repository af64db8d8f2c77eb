-------------------------- MODULE DbSessionProofs --------------------------
(***************************************************************************)
(* Proofs about DbSession, for every number of statements, rows and        *)
(* faults, and for each of the three libraries: what a program may         *)
(* conclude from the return codes of a connection and of its statements.   *)
(* The last part is about Loader, a program that uses one: what is in the  *)
(* table when files were loaded.                                           *)
(***************************************************************************)
EXTENDS DbSession, Loader, TLAPS, FiniteSetTheorems, SequenceTheorems

-----------------------------------------------------------------------------
(* What is true of a statement t, with library d, after m inserts.          *)

SqlTexts == {"none", "insert", "select"}

Statement ==
  [state : {0, 1}, h : {"none", "open", "stale", "wild"}, kind : SqlTexts,
   sqltype : SqlTexts, rc : Codes, rpc : Nat, left : Int, calls : Seq(Params),
   frozen : Seq(0..2), late : BOOLEAN, got : Nat, total : Nat]

\* What was fetched and what is left make up the result; nothing is left when
\* the end has been answered.
Counted(t) ==
  /\ t.left >= 0 => (t.rpc = t.got /\ t.got + t.left = t.total)
  /\ (t.left = AtEnd \/ (t.left # NoResult /\ t.rc = END_OTHER)) =>
       (t.got = t.total /\ t.rpc = t.got)

\* With MySQL the first execute decides where the parameters come from.
BoundOnce(d, t) ==
  (d = "mysql" /\ ~t.late /\ t.frozen # <<>>) => t.frozen = ByPosition(t.calls)

Good(d, m, t) ==
  /\ t \in Statement /\ t.left \in NoResult..m
  /\ Counted(t) /\ BoundOnce(d, t)

LEMMA Positions ==
  ASSUME NEW c \in Seq(Params)
  PROVE  ByPosition(c) \in Seq(0..2)
<1>1. ByPosition(c) \in [1..2 -> 0..2]
  BY DEF ByPosition, Params
<1>2. Seq(0..2) = UNION {[1..i -> 0..2] : i \in Nat}
  BY SeqDef
<1> QED
  BY <1>1, <1>2

LEMMA Straight == ByPosition(<<1, 2>>) = <<1, 2>>
<1> DEFINE b == ByPosition(<<1, 2>>)
           c == <<1, 2>>
<1>1. c \in [1..2 -> 1..2] /\ c[1] = 1 /\ c[2] = 2 /\ DOMAIN c = {1, 2}
  OBVIOUS
<1>2. (\E i \in DOMAIN c : c[i] = 1) /\ (\E i \in DOMAIN c : c[i] = 2)
  BY <1>1
<1>3. b \in [1..2 -> 0..2] /\ b[1] = 1 /\ b[2] = 2
  BY <1>2 DEF ByPosition, Params
<1>4. \A i \in 1..2 : b[i] = c[i]
  BY <1>1, <1>3
<1> HIDE DEF b, c
<1>5. b = c
  BY <1>1, <1>3, <1>4
<1> QED
  BY <1>5 DEF b, c

LEMMA ClosedGood ==
  ASSUME NEW d, NEW m \in Nat
  PROVE  Good(d, m, Closed) /\ Good(d, m, Opened)
<1> DEFINE e == <<>>
<1>1. e \in Seq(Params) /\ e \in Seq(0..2)
  OBVIOUS
<1>1a. "none" \in SqlTexts /\ -1 \in Codes /\ 0 \in Codes /\ NoResult \in Int
  BY DEF SqlTexts, Codes, NoResult
<1>2. Closed \in Statement
  BY <1>1, <1>1a DEF Statement, Closed
<1>2a. Opened \in Statement
  BY <1>1a, <1>2 DEF Statement, Opened
<1> USE DEF Closed, Opened, NoResult, AtEnd, END_OTHER, END_MYSQL, Codes, SqlTexts
<1>3. Counted(Closed) /\ Counted(Opened)
  BY DEF Counted
<1>4. BoundOnce(d, Closed) /\ BoundOnce(d, Opened)
  BY DEF BoundOnce
<1>5. Closed.left \in NoResult..m /\ Opened.left \in NoResult..m
  OBVIOUS
<1> QED
  BY <1>2, <1>2a, <1>3, <1>4, <1>5 DEF Good

\* More rows may be inserted.
LEMMA LaterGood ==
  ASSUME NEW d, NEW m \in Nat, NEW t, Good(d, m, t)
  PROVE  Good(d, m + 1, t)
BY DEF Good, NoResult

\* A return code that is not the end is kept, or the handle is lost.
LEMMA CodeGood ==
  ASSUME NEW d, NEW m \in Nat, NEW t, Good(d, m, t), NEW c \in Codes,
         c = END_OTHER => (t.left = NoResult \/ (t.got = t.total /\ t.rpc = t.got))
  PROVE  Good(d, m, [t EXCEPT !.rc = c])
<1> DEFINE u == [t EXCEPT !.rc = c]
<1>1. /\ t \in Statement /\ u \in Statement
      /\ u.rc = c /\ u.left = t.left /\ u.rpc = t.rpc /\ u.got = t.got
      /\ u.total = t.total /\ u.late = t.late /\ u.frozen = t.frozen
      /\ u.calls = t.calls
  BY DEF Good, Statement
<1> HIDE DEF u
<1>2. Counted(u)
  BY <1>1 DEF Counted, Good, NoResult, AtEnd
<1>3. BoundOnce(d, u)
  BY <1>1 DEF BoundOnce, Good
<1> QED
  BY <1>1, <1>2, <1>3 DEF Good, u

LEMMA LostGood ==
  ASSUME NEW d, NEW m \in Nat, NEW t, Good(d, m, t)
  PROVE  /\ Good(d, m, [t EXCEPT !.h = "stale"])
         /\ Good(d, m, [t EXCEPT !.left = NoResult])
<1> DEFINE u == [t EXCEPT !.h = "stale"]
           v == [t EXCEPT !.left = NoResult]
<1>1. /\ t \in Statement /\ u \in Statement
      /\ u.rc = t.rc /\ u.left = t.left /\ u.rpc = t.rpc /\ u.got = t.got
      /\ u.total = t.total /\ u.late = t.late /\ u.frozen = t.frozen
      /\ u.calls = t.calls
  BY DEF Good, Statement
<1>2. /\ v \in Statement
      /\ v.rc = t.rc /\ v.left = NoResult /\ v.rpc = t.rpc /\ v.got = t.got
      /\ v.total = t.total /\ v.late = t.late /\ v.frozen = t.frozen
      /\ v.calls = t.calls
  BY DEF Good, Statement, NoResult
<1> HIDE DEF u, v
<1>3. Counted(u) /\ Counted(v)
  BY <1>1, <1>2 DEF Counted, Good, NoResult, AtEnd
<1>4. BoundOnce(d, u) /\ BoundOnce(d, v)
  BY <1>1, <1>2 DEF BoundOnce, Good
<1>5. u.left \in NoResult..m /\ v.left \in NoResult..m
  BY <1>1, <1>2 DEF Good, NoResult
<1> QED
  BY <1>1, <1>2, <1>3, <1>4, <1>5 DEF Good, u, v

LEMMA BindGood ==
  ASSUME NEW d, NEW m \in Nat, NEW t, Good(d, m, t), NEW p \in Params
  PROVE  Good(d, m, [t EXCEPT !.calls = Append(@, p),
                              !.late = @ \/ t.frozen # <<>>])
<1> DEFINE u == [t EXCEPT !.calls = Append(@, p),
                          !.late = @ \/ t.frozen # <<>>]
<1>0. t \in Statement /\ Append(t.calls, p) \in Seq(Params)
  BY DEF Good, Statement
<1>1. /\ u \in Statement
      /\ u.rc = t.rc /\ u.left = t.left /\ u.rpc = t.rpc /\ u.got = t.got
      /\ u.total = t.total /\ u.frozen = t.frozen
      /\ (u.late <=> (t.late \/ t.frozen # <<>>))
  BY <1>0 DEF Statement
<1> HIDE DEF u
<1>2. Counted(u)
  BY <1>1 DEF Counted, Good
<1>3. BoundOnce(d, u)
  BY <1>1 DEF BoundOnce
<1> QED
  BY <1>1, <1>2, <1>3 DEF Good, u

\* A statement without a result.
LEMMA NoneGood ==
  ASSUME NEW d, NEW m \in Nat, NEW u \in Statement, u.left = NoResult,
         BoundOnce(d, u)
  PROVE  Good(d, m, u)
<1>1. Counted(u)
  BY DEF Counted, NoResult, AtEnd
<1> QED
  BY <1>1 DEF Good, NoResult

\* A query that has just been executed.
LEMMA FreshGood ==
  ASSUME NEW d, NEW m \in Nat, NEW u \in Statement, BoundOnce(d, u),
         u.rc = 0, u.rpc = 0, u.got = 0, u.left \in 0..m, u.total = u.left
  PROVE  Good(d, m, u)
<1>1. Counted(u)
  BY DEF Counted, NoResult, AtEnd, END_OTHER
<1> QED
  BY <1>1 DEF Good, NoResult

\* A row is fetched, the end is found.
LEMMA FetchGood ==
  ASSUME NEW d, NEW m \in Nat, NEW t, Good(d, m, t), t.left > 0, t.rc = 0
  PROVE  Good(d, m, [t EXCEPT !.rpc = @ + 1, !.got = @ + 1, !.left = @ - 1])
<1> DEFINE u == [t EXCEPT !.rpc = @ + 1, !.got = @ + 1, !.left = @ - 1]
<1>a. t \in Statement
  BY DEF Good
<1>b. t.rpc + 1 \in Nat /\ t.got + 1 \in Nat /\ t.left - 1 \in Int
  BY <1>a DEF Statement
<1>1. /\ t \in Statement /\ u \in Statement
      /\ u.rc = t.rc /\ u.left = t.left - 1 /\ u.rpc = t.rpc + 1
      /\ u.got = t.got + 1 /\ u.total = t.total
      /\ u.late = t.late /\ u.frozen = t.frozen /\ u.calls = t.calls
  BY <1>a, <1>b DEF Statement
<1>2. /\ t.left \in Int /\ t.rpc \in Nat /\ t.got \in Nat /\ t.total \in Nat
      /\ t.left \in NoResult..m
  BY <1>1 DEF Statement, Good
<1> HIDE DEF u
<1>3. Counted(u)
  BY <1>1, <1>2 DEF Counted, Good, NoResult, AtEnd, END_OTHER
<1>4. BoundOnce(d, u)
  BY <1>1 DEF BoundOnce, Good
<1>5. u.left \in NoResult..m
  BY <1>1, <1>2 DEF NoResult
<1> QED
  BY <1>1, <1>3, <1>4, <1>5 DEF Good, u

LEMMA EndGood ==
  ASSUME NEW d, NEW m \in Nat, NEW t, Good(d, m, t), t.left \in {0, AtEnd}
  PROVE  Good(d, m, [t EXCEPT !.left = AtEnd])
<1> DEFINE u == [t EXCEPT !.left = AtEnd]
<1>a. t \in Statement /\ AtEnd \in Int
  BY DEF Good, AtEnd
<1>1. /\ t \in Statement /\ u \in Statement
      /\ u.rc = t.rc /\ u.left = AtEnd /\ u.rpc = t.rpc
      /\ u.got = t.got /\ u.total = t.total
      /\ u.late = t.late /\ u.frozen = t.frozen /\ u.calls = t.calls
  BY <1>a DEF Statement
<1>2. t.rpc \in Nat /\ t.got \in Nat /\ t.total \in Nat
  BY <1>1 DEF Statement
<1> HIDE DEF u
<1>3. Counted(u)
  BY <1>1, <1>2 DEF Counted, Good, NoResult, AtEnd
<1>4. BoundOnce(d, u)
  BY <1>1 DEF BoundOnce, Good
<1>5. u.left \in NoResult..m
  BY <1>1 DEF NoResult, AtEnd
<1> QED
  BY <1>1, <1>3, <1>4, <1>5 DEF Good, u

-----------------------------------------------------------------------------
(* The invariant.                                                           *)

Connection == [state : {0, 1}, h : {"none", "open", "null", "freed"}, auto : {0, 1}]

Server(m) == [link : BOOLEAN, txn : SUBSET (1..m), failed : BOOLEAN,
              table : SUBSET (1..m)]

Knowledge(m) == [told : SUBSET (1..m), owed : SUBSET (1..m), undone : SUBSET (1..m),
                 lost : SUBSET (1..m), marred : BOOLEAN, failedEnd : BOOLEAN,
                 closed : BOOLEAN, mixed : BOOLEAN]

TypeInv ==
  /\ drv \in Drivers /\ faults \in 0..MaxFault /\ n \in 0..MaxRow
  /\ conn \in Connection /\ db \in Server(n) /\ seen \in Knowledge(n)
  /\ ret \in Codes

StmtInv ==
  /\ stmt \in [Stmts -> Statement]
  /\ \A s \in Stmts : Good(drv, n, stmt[s])

\* What the program was told of rows, and the open transaction.  A row it was
\* told nothing of yet is in the transaction, unless the link is down or a
\* statement has failed; there is neither without a connection, or when every
\* statement commits.
TxnInv ==
  /\ seen.told \ seen.lost \subseteq db.table
  /\ drv # "postgresql" => (seen.lost = {} /\ ~seen.marred)
  /\ seen.undone \cap (db.table \cup db.txn) = {}
  /\ seen.owed \cap db.table = {}
  /\ (Reaches /\ ~seen.marred) => seen.owed \subseteq db.txn
  /\ db.failed => seen.marred
  /\ (conn.auto = 1 \/ conn.state = 0) =>
       (seen.owed = {} /\ db.txn = {} /\ ~db.failed /\ ~seen.marred)

\* Where handles that do not exist come from.
HandleInv ==
  /\ (drv = "mysql" /\ conn.state = 1 /\ conn.h = "null") => seen.failedEnd
  /\ conn.h = "open" => conn.state = 1
  /\ \A s \in Stmts : (drv = "oracle" /\ stmt[s].h = "stale") => seen.closed
  /\ \A s \in Stmts : stmt[s].h = "wild" => faults > 0

SessionInv ==
  /\ TypeInv /\ StmtInv /\ TxnInv /\ HandleInv
  /\ HandlesLive /\ BindExact

LEMMA Constants ==
  /\ MaxRow \in Nat /\ MaxFault \in Nat
  /\ \A s \in Stmts : \A k \in Kinds[s] : k \in SqlTexts /\ k # "none"
BY DbAssumption DEF SqlTexts

LEMMA Initially == Init => SessionInv
<1> SUFFICES ASSUME Init PROVE SessionInv
  OBVIOUS
<1> USE DEF Init
<1>1. TypeInv
  BY Constants DEF TypeInv, Codes, Connection, Server, Knowledge
<1>2. StmtInv
  BY ClosedGood DEF StmtInv, Good
<1>3. TxnInv
  BY DEF TxnInv
<1>4. HandleInv
  BY DEF HandleInv, Closed
<1>5. HandlesLive /\ BindExact
  BY DEF HandlesLive, BindExact
<1> QED
  BY <1>1, <1>2, <1>3, <1>4, <1>5 DEF SessionInv

-----------------------------------------------------------------------------
(* Steps that concern one statement only.                                   *)

\* Statement s is given a value that it may have; no handle is lost.
Sets(s) ==
  \E u \in Statement :
    /\ Good(drv, n, u) /\ stmt' = [stmt EXCEPT ![s] = u]
    /\ u.h = "stale" => stmt[s].h = "stale"
    /\ u.h = "wild"  => (stmt[s].h = "wild" \/ faults' > 0)

LEMMA StmtSet ==
  ASSUME SessionInv, NEW s \in Stmts, Sets(s), drv' = drv,
         n' = n \/ n' = n + 1
  PROVE  StmtInv'
<1>1. PICK u \in Statement : Good(drv, n, u) /\ stmt' = [stmt EXCEPT ![s] = u]
  BY DEF Sets
<1>2. n \in Nat /\ stmt \in [Stmts -> Statement] /\ \A r \in Stmts : Good(drv, n, stmt[r])
  BY Constants DEF SessionInv, TypeInv, StmtInv
<1>3. stmt' \in [Stmts -> Statement] /\ \A r \in Stmts : Good(drv, n, stmt'[r])
  BY <1>1, <1>2
<1>4. \A r \in Stmts : Good(drv, n + 1, stmt'[r])
  BY <1>2, <1>3, LaterGood
<1> QED
  BY <1>3, <1>4 DEF StmtInv

LEMMA HandleSet ==
  ASSUME SessionInv, NEW s \in Stmts, Sets(s), drv' = drv, conn' = conn,
         faults' \in Nat, faults' >= faults,
         seen'.failedEnd = seen.failedEnd, seen'.closed = seen.closed
  PROVE  HandleInv'
<1>1. PICK u \in Statement :
        /\ stmt' = [stmt EXCEPT ![s] = u]
        /\ u.h = "stale" => stmt[s].h = "stale"
        /\ u.h = "wild"  => (stmt[s].h = "wild" \/ faults' > 0)
  BY DEF Sets
<1>2. stmt \in [Stmts -> Statement] /\ HandleInv /\ faults \in Nat
  BY Constants DEF SessionInv, StmtInv, TypeInv
<1>3. stmt' \in [Stmts -> Statement] /\ \A r \in Stmts : stmt'[r] = IF r = s THEN u ELSE stmt[r]
  BY <1>1, <1>2
<1>4. \A r \in Stmts : (drv = "oracle" /\ stmt'[r].h = "stale") => seen.closed
  BY <1>1, <1>2, <1>3 DEF HandleInv
<1>5. \A r \in Stmts : stmt'[r].h = "wild" => faults' > 0
  BY <1>1, <1>2, <1>3 DEF HandleInv
<1>6. /\ (drv = "mysql" /\ conn.state = 1 /\ conn.h = "null") => seen.failedEnd
      /\ conn.h = "open" => conn.state = 1
  BY <1>2 DEF HandleInv
<1> QED
  BY <1>4, <1>5, <1>6 DEF HandleInv

\* The connection, the server and what the program was told stay as they are.
StmtOnly(s) ==
  /\ Sets(s)
  /\ ret' \in Codes /\ faults' \in 0..MaxFault /\ faults' >= faults
  /\ UNCHANGED <<drv, conn, db, n, dead, seen>>

LEMMA StmtOnlyInv ==
  ASSUME SessionInv, NEW s \in Stmts, StmtOnly(s), dead = "no"
  PROVE  SessionInv'
<1> USE DEF StmtOnly
<1>1. TypeInv'
  BY DEF SessionInv, TypeInv
<1>2. StmtInv'
  BY StmtSet
<1>3. TxnInv'
  BY DEF SessionInv, TxnInv, Reaches
<1>4. faults' \in Nat
  BY Constants
<1>5. HandleInv'
  BY <1>4, HandleSet
<1>6. HandlesLive' /\ BindExact'
  BY DEF SessionInv, HandlesLive, BindExact
<1> QED
  BY <1>1, <1>2, <1>3, <1>5, <1>6 DEF SessionInv

LEMMA SetTo ==
  ASSUME SessionInv, NEW s \in Stmts, NEW u, Good(drv, n, u), u.h = stmt[s].h,
         stmt' = [stmt EXCEPT ![s] = u]
  PROVE  Sets(s)
BY DEF Sets, Good

LEMMA SetNone ==
  ASSUME SessionInv, NEW s \in Stmts, UNCHANGED stmt
  PROVE  Sets(s)
<1>1. stmt \in [Stmts -> Statement] /\ Good(drv, n, stmt[s])
  BY DEF SessionInv, StmtInv
<1>2. stmt' = [stmt EXCEPT ![s] = stmt[s]]
  BY <1>1
<1> QED
  BY <1>1, <1>2 DEF Sets

LEMMA SetCode ==
  ASSUME SessionInv, NEW s \in Stmts, NEW c \in Codes,
         c = END_OTHER =>
           (stmt[s].left = NoResult
             \/ (stmt[s].got = stmt[s].total /\ stmt[s].rpc = stmt[s].got)),
         stmt' = [stmt EXCEPT ![s].rc = c]
  PROVE  Sets(s)
<1> DEFINE t == stmt[s]
           u == [t EXCEPT !.rc = c]
<1>1. /\ stmt \in [Stmts -> Statement] /\ Good(drv, n, t) /\ t \in Statement
      /\ n \in Nat
  BY Constants DEF SessionInv, StmtInv, TypeInv
<1>2. Good(drv, n, u)
  BY <1>1, CodeGood
<1>3. u.h = t.h
  BY <1>1 DEF Statement
<1>4. stmt' = [stmt EXCEPT ![s] = u]
  BY <1>1
<1> QED
  BY <1>2, <1>3, <1>4, SetTo

\* m_cda of a statement that is closed or opened anew.
LEMMA SetClosed ==
  ASSUME SessionInv, NEW s \in Stmts,
         stmt' = [stmt EXCEPT ![s] = Opened] \/ stmt' = [stmt EXCEPT ![s] = Closed]
  PROVE  Sets(s)
<1>1. Good(drv, n, Opened) /\ Good(drv, n, Closed)
  BY Constants, ClosedGood DEF SessionInv, TypeInv
<1>2. Opened.h = "open" /\ Closed.h = "none"
  BY DEF Opened, Closed
<1> QED
  BY <1>1, <1>2 DEF Sets, Good

LEMMA Counters ==
  ASSUME SessionInv
  PROVE  /\ 0 \in Codes /\ -1 \in Codes /\ 2 \in Codes
         /\ END_MYSQL \in Codes /\ END_OTHER \in Codes
         /\ END_OTHER \notin {0, -1, 2, END_MYSQL}
         /\ faults \in 0..MaxFault /\ faults \in Nat /\ n \in Nat /\ ret \in Codes
         /\ (Refuses \/ Accepts) =>
              (faults' \in 0..MaxFault /\ faults' \in Nat /\ faults' >= faults)
         /\ Refuses => faults' > 0
BY Constants DEF SessionInv, TypeInv, Codes, END_MYSQL, END_OTHER, Refuses, Accepts

LEMMA ConnectStep ==
  ASSUME SessionInv, NEW s \in Stmts,
         stmtConnect(s) \/ stmtDisconnect(s) \/ NotConnected(s)
  PROVE  SessionInv'
<1> USE DEF stmtConnect, stmtDisconnect, NotConnected, Usable, Return
<1>1. Sets(s)
  <2>1. CASE UNCHANGED stmt
    BY <2>1, SetNone
  <2>2. CASE stmt' = [stmt EXCEPT ![s].rc = -1]
    BY <2>2, Counters, SetCode
  <2>3. CASE stmt' = [stmt EXCEPT ![s] = Opened] \/ stmt' = [stmt EXCEPT ![s] = Closed]
    BY <2>3, SetClosed
  <2> QED
    BY <2>1, <2>2, <2>3
<1>2. StmtOnly(s) /\ dead = "no"
  BY <1>1, Counters DEF StmtOnly
<1> QED
  BY <1>2, StmtOnlyInv

LEMMA ConstructStep ==
  ASSUME SessionInv, NEW s \in Stmts, stmtConstruct(s)
  PROVE  SessionInv'
<1> USE DEF stmtConstruct, Return
<1> DEFINE u == [Opened EXCEPT !.h = "wild"]
<1>1. Good(drv, n, Opened)
  BY Counters, ClosedGood
<1>a. Opened.left = NoResult /\ Opened.frozen = <<>> /\ Opened \in Statement
  BY <1>1 DEF Opened, Closed, Good
<1>2. u \in Statement /\ u.left = NoResult /\ u.frozen = <<>> /\ u.h = "wild"
  BY <1>a DEF Statement
<1>3. Good(drv, n, u)
  BY <1>2, Counters, NoneGood DEF BoundOnce
<1>4. Sets(s)
  BY <1>2, <1>3, Counters DEF Sets
<1>5. StmtOnly(s) /\ dead = "no"
  BY <1>4, Counters DEF StmtOnly
<1> QED
  BY <1>5, StmtOnlyInv

LEMMA PreparedGood ==
  ASSUME SessionInv, NEW s \in Stmts, NEW k \in SqlTexts, NEW q \in SqlTexts
  PROVE  LET u == Prepared(s, k) IN
         /\ Good(drv, n, u) /\ u.h = stmt[s].h
         /\ Good(drv, n, [u EXCEPT !.sqltype = q])
         /\ Good(drv, n, [u EXCEPT !.rc = 2])
         /\ [u EXCEPT !.sqltype = q].h = stmt[s].h
         /\ [u EXCEPT !.rc = 2].h = stmt[s].h
<1> DEFINE u == Prepared(s, k)
           v == [u EXCEPT !.sqltype = q]
<1>1. Good(drv, n, Opened) /\ stmt[s] \in Statement
  BY Counters, ClosedGood DEF SessionInv, StmtInv
<1>2. stmt[s].h \in {"none", "open", "stale", "wild"}
  BY <1>1 DEF Statement
<1>3. Opened.left = NoResult /\ Opened.frozen = <<>> /\ Opened \in Statement
  BY <1>1 DEF Opened, Closed, Good
<1>4. /\ u \in Statement /\ u.left = NoResult /\ u.frozen = <<>>
      /\ u.h = stmt[s].h
  BY <1>2, <1>3 DEF Prepared, Statement
<1> HIDE DEF u
<1>5. /\ v \in Statement /\ v.left = NoResult /\ v.frozen = <<>>
      /\ v.h = stmt[s].h /\ [u EXCEPT !.rc = 2].h = stmt[s].h
  BY <1>4 DEF Statement
<1> HIDE DEF v
<1>6. Good(drv, n, u) /\ Good(drv, n, v)
  BY <1>4, <1>5, Counters, NoneGood DEF BoundOnce
<1>7. Good(drv, n, [u EXCEPT !.rc = 2])
  BY <1>6, Counters, CodeGood
<1> QED
  BY <1>4, <1>5, <1>6, <1>7 DEF u, v

LEMMA PrepareStep ==
  ASSUME SessionInv, NEW s \in Stmts, NEW k \in Kinds[s], prepare(s, k)
  PROVE  SessionInv'
<1>1. /\ k \in SqlTexts /\ "none" \in SqlTexts /\ stmt[s].sqltype \in SqlTexts
      /\ dead = "no" /\ UNCHANGED <<drv, conn, db, faults, n, dead, seen>>
  BY Constants DEF SessionInv, StmtInv, Statement, SqlTexts, prepare, Usable
<1>2. Sets(s) /\ ret' \in Codes
  <2>1. CASE My_prepare(s, k)
    <3>1. ret' \in {0, 2}
      BY <2>1 DEF My_prepare, Return
    <3>2. CASE stmt' = [stmt EXCEPT ![s] = Prepared(s, k)]
      BY <1>1, <3>1, <3>2, PreparedGood, SetTo, Counters
    <3>3. CASE stmt' = [stmt EXCEPT ![s] = [Prepared(s, "none") EXCEPT !.rc = 2]]
      BY <1>1, <3>1, <3>3, PreparedGood, SetTo, Counters
    <3> QED
      BY <2>1, <3>2, <3>3 DEF My_prepare
  <2>2. CASE Oci_prepare(s, k)
    BY <1>1, <2>2, PreparedGood, SetTo, Counters DEF Oci_prepare, Return
  <2>3. CASE Pg_prepare(s, k)
    BY <1>1, <2>3, PreparedGood, SetTo, Counters DEF Pg_prepare, Return
  <2> QED
    BY <2>1, <2>2, <2>3 DEF prepare
<1>3. StmtOnly(s)
  BY <1>1, <1>2, Counters DEF StmtOnly
<1> QED
  BY <1>1, <1>3, StmtOnlyInv

LEMMA BindStep ==
  ASSUME SessionInv, NEW s \in Stmts, NEW p \in Params, bindin(s, p)
  PROVE  SessionInv'
<1> DEFINE t == stmt[s]
           u == [t EXCEPT !.calls = Append(@, p), !.late = @ \/ t.frozen # <<>>]
<1>1. /\ dead = "no" /\ UNCHANGED <<drv, conn, db, ret, faults, n, dead, seen>>
      /\ stmt' = [stmt EXCEPT ![s].calls = Append(@, p),
                              ![s].late = @ \/ stmt[s].frozen # <<>>]
  BY DEF bindin, Usable
<1>2. stmt \in [Stmts -> Statement] /\ Good(drv, n, t) /\ t \in Statement
  BY DEF SessionInv, StmtInv
<1>3. Good(drv, n, u)
  BY <1>2, Counters, BindGood
<1>4. u.h = t.h
  BY <1>2 DEF Statement
<1>5. stmt' = [stmt EXCEPT ![s] = u]
  BY <1>1, <1>2
<1>6. Sets(s)
  BY <1>3, <1>4, <1>5, SetTo
<1>7. StmtOnly(s)
  BY <1>1, <1>6, Counters DEF StmtOnly
<1> QED
  BY <1>1, <1>7, StmtOnlyInv

-----------------------------------------------------------------------------
(* Steps of the connection.                                                 *)

LEMMA ServerAfter ==
  ASSUME SessionInv
  PROVE  /\ Ended \in Server(n) /\ Ended.txn = {} /\ ~Ended.failed
         /\ Ended.table = db.table /\ Ended.link = db.link
         /\ Committed \in Server(n) /\ Committed.txn = {} /\ ~Committed.failed
         /\ Committed.table = db.table \cup db.txn /\ Committed.link = db.link
<1>1. db \in Server(n)
  BY DEF SessionInv, TypeInv
<1>2. /\ Ended \in Server(n) /\ Ended.txn = {} /\ ~Ended.failed
      /\ Ended.table = db.table /\ Ended.link = db.link
  BY <1>1 DEF Ended, Server
<1>3. db.table \cup db.txn \in SUBSET (1..n)
  BY <1>1 DEF Server
<1>4. /\ Committed \in Server(n) /\ Committed.txn = {} /\ ~Committed.failed
      /\ Committed.table = db.table \cup db.txn /\ Committed.link = db.link
  BY <1>2, <1>3 DEF Committed, Server
<1> QED
  BY <1>2, <1>4

LEMMA LinkAfter ==
  ASSUME SessionInv, NEW b \in BOOLEAN
  PROVE  LET d == [Ended EXCEPT !.link = b] IN
         /\ d \in Server(n) /\ d.txn = {} /\ ~d.failed /\ d.table = db.table
         /\ d.link = b
BY ServerAfter DEF Server

LEMMA ToldAfter ==
  ASSUME SessionInv
  PROVE  /\ Told \in Knowledge(n) /\ Told.told = seen.told \cup seen.owed
         /\ Told.owed = {} /\ ~Told.marred /\ Told.undone = seen.undone
         /\ Told.lost = IF seen.marred THEN seen.lost \cup seen.owed ELSE seen.lost
         /\ Told.failedEnd = seen.failedEnd /\ Told.closed = seen.closed
         /\ Told.mixed = seen.mixed
<1>1. seen \in Knowledge(n)
  BY DEF SessionInv, TypeInv
<1>2. seen.told \cup seen.owed \in SUBSET (1..n) /\ seen.lost \cup seen.owed \in SUBSET (1..n)
  BY <1>1 DEF Knowledge
<1> QED
  BY <1>1, <1>2 DEF Told, Knowledge

\* A COMMIT that was refused, and was told to have succeeded.
LEMMA LostAfter ==
  ASSUME SessionInv
  PROVE  LET k == [Told EXCEPT !.lost = @ \cup seen.owed] IN
         /\ k \in Knowledge(n) /\ k.told = seen.told \cup seen.owed
         /\ k.owed = {} /\ ~k.marred /\ k.undone = seen.undone
         /\ k.lost = seen.lost \cup seen.owed
         /\ k.failedEnd = seen.failedEnd /\ k.closed = seen.closed
         /\ k.mixed = seen.mixed
<1>1. seen \in Knowledge(n)
  BY DEF SessionInv, TypeInv
<1>2. Told.lost \cup seen.owed = seen.lost \cup seen.owed
  BY ToldAfter
<1>3. Told.lost \cup seen.owed \in SUBSET (1..n)
  BY <1>1, <1>2 DEF Knowledge
<1> QED
  BY <1>2, <1>3, ToldAfter DEF Knowledge

LEMMA UndoneAfter ==
  ASSUME SessionInv
  PROVE  /\ Undone \in Knowledge(n) /\ Undone.told = seen.told
         /\ Undone.undone = seen.undone \cup seen.owed
         /\ Undone.owed = {} /\ ~Undone.marred /\ Undone.lost = seen.lost
         /\ Undone.failedEnd = seen.failedEnd /\ Undone.closed = seen.closed
         /\ Undone.mixed = seen.mixed
         /\ Shut \in Knowledge(n) /\ Shut.told = seen.told
         /\ Shut.undone = seen.undone \cup seen.owed
         /\ Shut.owed = {} /\ ~Shut.marred /\ Shut.lost = seen.lost
         /\ Shut.failedEnd = seen.failedEnd /\ Shut.closed
         /\ Shut.mixed = seen.mixed
<1>1. seen \in Knowledge(n)
  BY DEF SessionInv, TypeInv
<1>2. seen.undone \cup seen.owed \in SUBSET (1..n)
  BY <1>1 DEF Knowledge
<1>3. /\ Undone \in Knowledge(n) /\ Undone.told = seen.told
      /\ Undone.undone = seen.undone \cup seen.owed
      /\ Undone.owed = {} /\ ~Undone.marred /\ Undone.lost = seen.lost
      /\ Undone.failedEnd = seen.failedEnd /\ Undone.closed = seen.closed
      /\ Undone.mixed = seen.mixed
  BY <1>1, <1>2 DEF Undone, Knowledge
<1> QED
  BY <1>3 DEF Shut, Knowledge

LEMMA UnsureAfter ==
  ASSUME SessionInv
  PROVE  /\ Unsure \in Knowledge(n) /\ Unsure.told = seen.told
         /\ Unsure.undone = seen.undone /\ Unsure.owed = {} /\ ~Unsure.marred
         /\ Unsure.lost = seen.lost /\ Unsure.failedEnd
         /\ Unsure.closed = seen.closed /\ Unsure.mixed = seen.mixed
<1>1. seen \in Knowledge(n)
  BY DEF SessionInv, TypeInv
<1> QED
  BY <1>1 DEF Unsure, Knowledge

\* A closed connection leaves no statement worse than without its handle.
LEMMA Abandoned ==
  ASSUME SessionInv
  PROVE  /\ Orphaned \in [Stmts -> Statement] /\ Detached \in [Stmts -> Statement]
         /\ \A s \in Stmts :
              /\ Good(drv, n, Orphaned[s]) /\ Good(drv, n, Detached[s])
              /\ Orphaned[s].h = "wild" => stmt[s].h = "wild"
              /\ Detached[s].h = "wild" => stmt[s].h = "wild"
<1>1. /\ stmt \in [Stmts -> Statement] /\ n \in Nat
      /\ \A s \in Stmts : Good(drv, n, stmt[s])
  BY Counters DEF SessionInv, StmtInv
<1>2. ASSUME NEW s \in Stmts
      PROVE  /\ Good(drv, n, Orphaned[s]) /\ Good(drv, n, Detached[s])
             /\ Orphaned[s].h = "wild" => stmt[s].h = "wild"
             /\ Detached[s].h = "wild" => stmt[s].h = "wild"
  <2> DEFINE t == stmt[s]
             u == [t EXCEPT !.h = "stale"]
             o == Orphaned[s]
             v == [o EXCEPT !.left = NoResult]
  <2>1. t \in Statement /\ Good(drv, n, t) /\ Good(drv, n, u)
    BY <1>1, LostGood
  <2>2. u.h = "stale"
    BY <2>1 DEF Statement
  <2>3. o = IF t.h = "open" THEN u ELSE t
    BY DEF Orphaned
  <2>4. Good(drv, n, o) /\ (o.h = "wild" => t.h = "wild")
    BY <2>1, <2>2, <2>3
  <2>5. Detached[s] = v
    BY DEF Detached
  <2> HIDE DEF o
  <2>6. Good(drv, n, v)
    BY <1>1, <2>4, LostGood
  <2>7. v.h = o.h
    BY <2>4 DEF Good, Statement
  <2> QED
    BY <2>4, <2>5, <2>6, <2>7 DEF o
<1>3. \A s \in Stmts : Orphaned[s] \in Statement /\ Detached[s] \in Statement
  BY <1>2 DEF Good
<1>4. Orphaned \in [Stmts -> Statement]
  BY <1>3 DEF Orphaned
<1>5. Detached \in [Stmts -> Statement]
  BY <1>3 DEF Detached
<1> QED
  BY <1>2, <1>4, <1>5

LEMMA StmtAfter ==
  ASSUME SessionInv, drv' = drv, n' = n,
         \/ UNCHANGED stmt \/ stmt' = Orphaned \/ stmt' = Detached
         \/ \E s \in Stmts : stmt' = [Orphaned EXCEPT ![s].rc = 2]
  PROVE  /\ StmtInv'
         /\ \A s \in Stmts : stmt'[s].h = "wild" => faults > 0
<1>1. \A s \in Stmts : stmt[s].h = "wild" => faults > 0
  BY DEF SessionInv, HandleInv
<1>2. CASE UNCHANGED stmt \/ stmt' = Orphaned \/ stmt' = Detached
  BY <1>1, <1>2, Abandoned DEF SessionInv, StmtInv
<1>3. ASSUME NEW s \in Stmts, stmt' = [Orphaned EXCEPT ![s].rc = 2]
      PROVE  /\ StmtInv'
             /\ \A r \in Stmts : stmt'[r].h = "wild" => faults > 0
  <2> DEFINE o == Orphaned[s]
             u == [o EXCEPT !.rc = 2]
  <2>1. Good(drv, n, o) /\ Orphaned \in [Stmts -> Statement] /\ o \in Statement
    BY Abandoned
  <2>2. Good(drv, n, u)
    BY <2>1, Counters, CodeGood
  <2>3. u \in Statement /\ u.h = o.h
    BY <2>1, <2>2 DEF Good, Statement
  <2>4. /\ stmt' \in [Stmts -> Statement]
        /\ \A r \in Stmts : stmt'[r] = IF r = s THEN u ELSE Orphaned[r]
    BY <1>3, <2>1, <2>3
  <2> HIDE DEF u
  <2> QED
    BY <1>1, <2>2, <2>3, <2>4, Abandoned DEF StmtInv
<1> QED
  BY <1>2, <1>3

\* Types and handles in a step of the connection; what is left is TxnInv.
Connects ==
  /\ dead = "no" /\ UNCHANGED <<drv, n, dead>>
  /\ faults' \in 0..MaxFault /\ faults' >= faults /\ ret' \in Codes
  /\ conn' \in Connection /\ db' \in Server(n) /\ seen' \in Knowledge(n)
  /\ \/ UNCHANGED stmt \/ stmt' = Orphaned \/ stmt' = Detached
     \/ \E s \in Stmts : stmt' = [Orphaned EXCEPT ![s].rc = 2]
  /\ drv = "oracle" => (UNCHANGED stmt \/ seen'.closed)
  /\ seen.closed => seen'.closed
  /\ (drv = "mysql" /\ conn'.state = 1 /\ conn'.h = "null") => seen'.failedEnd
  /\ conn'.h = "open" => conn'.state = 1
  /\ seen'.mixed = seen.mixed

LEMMA ConnectsInv ==
  ASSUME SessionInv, Connects, TxnInv'
  PROVE  SessionInv'
<1> USE DEF Connects
<1>1. TypeInv'
  BY DEF SessionInv, TypeInv
<1>2. StmtInv' /\ \A s \in Stmts : stmt'[s].h = "wild" => faults > 0
  BY StmtAfter
<1>3. \A s \in Stmts : stmt'[s].h = "wild" => faults' > 0
  BY <1>2, Counters
<1>4. \A s \in Stmts : (drv = "oracle" /\ stmt'[s].h = "stale") => seen'.closed
  BY DEF SessionInv, HandleInv
<1>5. HandleInv'
  BY <1>3, <1>4 DEF HandleInv
<1>6. HandlesLive' /\ BindExact'
  BY DEF SessionInv, HandlesLive, BindExact
<1> QED
  BY <1>1, <1>2, <1>5, <1>6 DEF SessionInv

LEMMA NotOpenStep ==
  ASSUME SessionInv, NEW op, NotOpen(op)
  PROVE  SessionInv'
<1>1. Connects
  BY Counters DEF NotOpen, Return, Connects, SessionInv, TypeInv, HandleInv
<1>2. TxnInv'
  BY DEF NotOpen, SessionInv, TxnInv, Reaches
<1> QED
  BY <1>1, <1>2, ConnectsInv

LEMMA LinkLostStep ==
  ASSUME SessionInv, LinkLost
  PROVE  SessionInv'
<1> USE DEF LinkLost
<1>1. /\ db' \in Server(n) /\ db'.txn = {} /\ ~db'.failed
      /\ db'.table = db.table /\ db'.link = FALSE
  BY LinkAfter
<1>2. faults' \in 0..MaxFault /\ faults' >= faults
  BY Counters DEF Refuses
<1>3. Connects
  BY <1>1, <1>2, Counters DEF Connects, SessionInv, TypeInv, HandleInv
<1>4. TxnInv'
  BY <1>1 DEF SessionInv, TxnInv, Reaches
<1> QED
  BY <1>3, <1>4, ConnectsInv

\* A handle that does not exist is used: the program ends.
LEMMA DeadStep ==
  ASSUME SessionInv,
         NullHandle \/ \E s \in Stmts : DeadStatement(s)
  PROVE  SessionInv'
<1> USE DEF Dies
<1>1. UNCHANGED <<drv, conn, stmt, db, ret, faults, n, seen>>
  BY DEF NullHandle, DeadStatement
<1>2. TypeInv' /\ StmtInv' /\ TxnInv' /\ HandleInv' /\ BindExact'
  BY <1>1 DEF SessionInv, TypeInv, StmtInv, TxnInv, HandleInv, BindExact, Reaches
<1>3. HandlesLive'
  BY <1>1 DEF NullHandle, DeadStatement, SessionInv, HandleInv, HandlesLive
<1> QED
  BY <1>2, <1>3 DEF SessionInv

LEMMA ConnectAny ==
  ASSUME SessionInv, NEW a \in {0, 1}, connecttodb(a)
  PROVE  /\ faults' \in 0..MaxFault /\ faults' >= faults /\ ret' \in Codes
         /\ dead = "no" /\ UNCHANGED <<drv, stmt, n, dead>>
         /\ \/ conn.state = 1 /\ UNCHANGED <<conn, db>>
            \/ /\ conn.state = 0 /\ UNCHANGED db
               /\ conn' = conn \/ conn' = [conn EXCEPT !.h = "null"]
            \/ /\ conn.state = 0 /\ conn' = [state |-> 1, h |-> "open", auto |-> a]
               /\ db' = [Ended EXCEPT !.link = TRUE]
<1> USE Counters DEF connecttodb, Return
<1>1. CASE My_connecttodb(a)
  BY <1>1 DEF My_connecttodb, Accepts
<1>2. CASE Oci_connecttodb(a)
  BY <1>2 DEF Oci_connecttodb, Accepts
<1>3. CASE Pg_connecttodb(a)
  BY <1>3 DEF Pg_connecttodb, Accepts
<1> QED
  BY <1>1, <1>2, <1>3

LEMMA ConnectDbStep ==
  ASSUME SessionInv, NEW a \in {0, 1}, connecttodb(a)
  PROVE  SessionInv'
<1>1. conn \in Connection /\ db \in Server(n) /\ seen \in Knowledge(n) /\ HandleInv
  BY DEF SessionInv, TypeInv
<1>2. /\ seen' \in Knowledge(n) /\ seen'.told = seen.told /\ seen'.owed = seen.owed
      /\ seen'.undone = seen.undone /\ seen'.lost = seen.lost
      /\ seen'.marred = seen.marred /\ seen'.closed = seen.closed
      /\ seen'.mixed = seen.mixed
      /\ conn.state = 1 => seen'.failedEnd = seen.failedEnd
  <2> DEFINE k == [seen EXCEPT !.failedEnd = FALSE]
  <2>a. /\ k \in Knowledge(n) /\ k.told = seen.told /\ k.owed = seen.owed
        /\ k.undone = seen.undone /\ k.lost = seen.lost
        /\ k.marred = seen.marred /\ k.closed = seen.closed
        /\ k.mixed = seen.mixed
    BY <1>1 DEF Knowledge
  <2> HIDE DEF k
  <2>1. CASE conn.state = 0 /\ seen' = k
    BY <2>1, <2>a
  <2>2. CASE conn.state # 0 /\ seen' = seen
    BY <1>1, <2>2
  <2> QED
    BY <2>1, <2>2 DEF connecttodb, k
<1>3. CASE conn.state = 1 /\ UNCHANGED <<conn, db>>
  <2>1. Connects
    BY <1>1, <1>2, <1>3, ConnectAny DEF Connects, HandleInv
  <2>2. TxnInv'
    BY <1>2, <1>3, ConnectAny DEF SessionInv, TxnInv, Reaches
  <2> QED
    BY <2>1, <2>2, ConnectsInv
<1>4. CASE /\ conn.state = 0 /\ UNCHANGED db
           /\ conn' = conn \/ conn' = [conn EXCEPT !.h = "null"]
  <2>1. conn' \in Connection /\ conn'.state = 0 /\ conn'.h # "open"
    BY <1>1, <1>4 DEF Connection, HandleInv
  <2>2. Connects
    BY <1>1, <1>2, <1>4, <2>1, ConnectAny DEF Connects
  <2>3. TxnInv'
    BY <1>2, <1>4, <2>1, ConnectAny DEF SessionInv, TxnInv, Reaches
  <2> QED
    BY <2>2, <2>3, ConnectsInv
<1>5. CASE /\ conn.state = 0 /\ conn' = [state |-> 1, h |-> "open", auto |-> a]
           /\ db' = [Ended EXCEPT !.link = TRUE]
  <2>1. conn' \in Connection /\ conn'.state = 1 /\ conn'.h = "open"
    BY <1>5 DEF Connection
  <2>2. /\ db' \in Server(n) /\ db'.txn = {} /\ ~db'.failed /\ db'.table = db.table
    BY <1>5, LinkAfter
  <2>3. Connects
    BY <1>1, <1>2, <1>5, <2>1, <2>2, ConnectAny DEF Connects
  <2>4. seen.owed = {} /\ ~seen.marred
    BY <1>5 DEF SessionInv, TxnInv
  <2>5. TxnInv'
    BY <1>2, <2>2, <2>4, ConnectAny DEF SessionInv, TxnInv
  <2> QED
    BY <2>3, <2>5, ConnectsInv
<1> QED
  BY <1>3, <1>4, <1>5, ConnectAny

LEMMA HandleAfter ==
  ASSUME SessionInv, NEW x \in {"null", "freed"}
  PROVE  LET c == [conn EXCEPT !.h = x]
             e == [conn EXCEPT !.state = 0, !.h = x]
         IN /\ c \in Connection /\ c.h = x /\ c.state = conn.state
            /\ c.auto = conn.auto
            /\ e \in Connection /\ e.h = x /\ e.state = 0
BY DEF SessionInv, TypeInv, Connection

\* The connection is closed: what was owed is undone.
LEMMA ShutTxn ==
  ASSUME SessionInv, drv' = drv, conn'.state = 0, db' = Ended, seen' = Shut
  PROVE  TxnInv'
BY ServerAfter, UndoneAfter DEF SessionInv, TxnInv

\* What was owed is undone on a connection that stays open.
LEMMA UndoneTxn ==
  ASSUME SessionInv, UNCHANGED <<drv, conn>>, seen' = Undone,
         db' = Ended \/ (db' = db /\ conn.auto = 1)
  PROVE  TxnInv'
<1>1. CASE db' = Ended
  BY <1>1, ServerAfter, UndoneAfter DEF SessionInv, TxnInv
<1>2. CASE db' = db /\ conn.auto = 1
  BY <1>2, UndoneAfter DEF SessionInv, TxnInv
<1> QED
  BY <1>1, <1>2

\* Nothing is said of what was owed.
LEMMA UnsureTxn ==
  ASSUME SessionInv, drv' = drv, conn'.auto = conn.auto, conn'.state = conn.state,
         seen' = Unsure,
         db' = Ended \/ (db' = db /\ (conn.auto = 1 \/ drv # "postgresql"))
  PROVE  TxnInv'
<1>1. CASE db' = Ended
  BY <1>1, ServerAfter, UnsureAfter DEF SessionInv, TxnInv
<1>2. CASE db' = db /\ (conn.auto = 1 \/ drv # "postgresql")
  BY <1>2, UnsureAfter DEF SessionInv, TxnInv
<1> QED
  BY <1>1, <1>2

LEMMA DisconnectStep ==
  ASSUME SessionInv, disconnect
  PROVE  SessionInv'
<1>1. /\ dead = "no" /\ ret' = 0 /\ seen' = Shut /\ UNCHANGED <<drv, faults, n, dead>>
      /\ db' = Ended /\ conn' \in Connection /\ conn'.state = 0 /\ conn'.h # "open"
      /\ UNCHANGED stmt \/ stmt' = Orphaned \/ stmt' = Detached
  BY HandleAfter DEF disconnect, IsOpen, Return, My_disconnect, Oci_disconnect,
     Pg_disconnect
<1>2. Connects
  BY <1>1, Counters, UndoneAfter, ServerAfter DEF Connects
<1>3. TxnInv'
  BY <1>1, ShutTxn
<1> QED
  BY <1>2, <1>3, ConnectsInv

\* MySQL: the connection is closed, but says that it is open.
LEMMA CloseFailedStep ==
  ASSUME SessionInv, My_CloseFailed, drv = "mysql", dead = "no", ret' \in Codes,
         UNCHANGED <<drv, n, dead>>, faults' \in 0..MaxFault, faults' >= faults
  PROVE  SessionInv'
<1> USE DEF My_CloseFailed
<1>1. Connects
  BY HandleAfter, UnsureAfter, ServerAfter DEF Connects
<1>2. TxnInv'
  BY HandleAfter, UnsureTxn
<1> QED
  BY <1>1, <1>2, ConnectsInv

LEMMA RollbackStep ==
  ASSUME SessionInv, rollback
  PROVE  SessionInv'
<1>1. /\ dead = "no" /\ UNCHANGED <<drv, faults, n, dead>>
      /\ conn.state = 1 /\ conn.h = "open" /\ conn \in Connection /\ db \in Server(n)
  BY DEF rollback, IsOpen, SessionInv, TypeInv
<1>2. ASSUME seen' = Undone \/ seen' = Unsure, UNCHANGED <<conn, stmt>>,
             db' = db \/ db' = Ended, ret' \in Codes, TxnInv'
      PROVE  SessionInv'
  <2>1. Connects
    BY <1>1, <1>2, Counters, ServerAfter, UndoneAfter, UnsureAfter DEF Connects
  <2> QED
    BY <1>2, <2>1, ConnectsInv
<1>3. CASE drv = "mysql" /\ My_rollback
  <2>1. CASE db' = Ended /\ seen' = Undone /\ Return(0) /\ UNCHANGED <<conn, stmt>>
    BY <1>1, <1>2, <2>1, Counters, UndoneTxn DEF Return
  <2>2. CASE My_CloseFailed /\ Return(-1)
    BY <1>1, <1>3, <2>2, Counters, CloseFailedStep DEF Return
  <2> QED
    BY <1>3, <2>1, <2>2 DEF My_rollback
<1>4. CASE drv = "oracle" /\ Oci_rollback
  <2>1. CASE db' = Ended /\ seen' = Undone /\ Return(0)
    BY <1>1, <1>2, <1>4, <2>1, Counters, UndoneTxn DEF Return, Oci_rollback
  <2>2. CASE UNCHANGED db /\ seen' = Unsure /\ Return(2)
    BY <1>1, <1>2, <1>4, <2>2, Counters, UnsureTxn DEF Return, Oci_rollback
  <2> QED
    BY <1>4, <2>1, <2>2 DEF Oci_rollback
<1>5. CASE drv = "postgresql" /\ Pg_rollbackwork
  <2>1. /\ ret' \in Codes /\ UNCHANGED <<conn, stmt>>
        /\ seen' = Undone \/ seen' = Unsure
        /\ db' = Ended \/ (db' = db /\ conn.auto = 1)
    BY <1>5, Counters DEF Pg_rollbackwork, Pg_beginwork, Return
  <2>2. TxnInv'
    BY <1>1, <2>1, UndoneTxn, UnsureTxn
  <2> QED
    BY <1>2, <2>1, <2>2
<1> QED
  BY <1>3, <1>4, <1>5 DEF rollback

\* The program is told that what was owed is committed; it is, or the
\* transaction had failed.
LEMMA ToldTxn ==
  ASSUME SessionInv, UNCHANGED <<drv, conn>>, seen' = Told,
         \/ db' = Committed /\ Reaches
         \/ db' = Ended /\ db.failed
         \/ db' = db /\ conn.auto = 1
  PROVE  TxnInv'
<1>1. CASE db' = Committed /\ Reaches
  BY <1>1, ServerAfter, ToldAfter DEF SessionInv, TxnInv
<1>2. CASE db' = Ended /\ db.failed
  BY <1>2, ServerAfter, ToldAfter DEF SessionInv, TxnInv
<1>3. CASE db' = db /\ conn.auto = 1
  BY <1>3, ToldAfter DEF SessionInv, TxnInv
<1> QED
  BY <1>1, <1>2, <1>3

\* PostgreSQL: a COMMIT was refused, and the program is told otherwise.
LEMMA LostTxn ==
  ASSUME SessionInv, UNCHANGED <<drv, conn>>, drv = "postgresql", db' = Ended,
         seen' = [Told EXCEPT !.lost = @ \cup seen.owed]
  PROVE  TxnInv'
BY ServerAfter, LostAfter DEF SessionInv, TxnInv

LEMMA CommitStep ==
  ASSUME SessionInv, commit
  PROVE  SessionInv'
<1>1. /\ dead = "no" /\ UNCHANGED <<drv, n, dead>> /\ seen \in Knowledge(n)
      /\ conn.state = 1 /\ conn.h = "open" /\ conn \in Connection /\ db \in Server(n)
  BY DEF commit, IsOpen, SessionInv, TypeInv
<1>2. ASSUME \/ seen' \in {Told, Unsure}
             \/ seen' = [Told EXCEPT !.lost = @ \cup seen.owed],
             UNCHANGED <<conn, stmt>>, Refuses \/ Accepts,
             db' \in {db, Ended, Committed}, ret' \in Codes, TxnInv'
      PROVE  SessionInv'
  <2>1. seen' \in Knowledge(n) /\ seen'.closed = seen.closed /\ seen'.mixed = seen.mixed
    BY <1>2, ToldAfter, UnsureAfter, LostAfter
  <2>2. Connects
    BY <1>1, <1>2, <2>1, Counters, ServerAfter DEF Connects
  <2> QED
    BY <1>2, <2>2, ConnectsInv
<1>3. CASE drv = "mysql" /\ My_commit
  <2>1. CASE /\ Reaches /\ Accepts /\ db' = Committed /\ seen' = Told
             /\ Return(0) /\ UNCHANGED <<conn, stmt>>
    BY <1>1, <1>2, <2>1, Counters, ToldTxn DEF Return
  <2>2. CASE /\ Refuses \/ Accepts
             /\ My_CloseFailed /\ Return(-1)
    BY <1>1, <1>3, <2>2, Counters, CloseFailedStep DEF Return
  <2> QED
    BY <1>3, <2>1, <2>2 DEF My_commit
<1>4. CASE drv = "oracle" /\ Oci_commit
  <2>1. CASE Reaches /\ Accepts /\ db' = Committed /\ seen' = Told /\ Return(0)
    BY <1>1, <1>2, <1>4, <2>1, Counters, ToldTxn DEF Return, Oci_commit
  <2>2. CASE (Refuses \/ Accepts) /\ db' = Ended /\ seen' = Unsure /\ Return(2)
    BY <1>1, <1>2, <1>4, <2>2, Counters, UnsureTxn DEF Return, Oci_commit
  <2> QED
    BY <1>4, <2>1, <2>2 DEF Oci_commit
<1>5. CASE drv = "postgresql" /\ Pg_commitwork
  <2>1. /\ UNCHANGED <<conn, stmt>> /\ ret' \in Codes
        /\ \/ conn.auto = 1 /\ Accepts /\ db' = db
           \/ /\ conn.auto = 0 /\ Accepts
              /\ \/ db' = Committed /\ Reaches
                 \/ db' = Ended /\ db.failed
                 \/ db' = Ended /\ ~Reaches
           \/ conn.auto = 0 /\ Refuses /\ db' = Ended
        /\ seen' = IF Pg_beginwork # 0 THEN Unsure
                   ELSE IF faults' # faults THEN [Told EXCEPT !.lost = @ \cup seen.owed]
                   ELSE Told
    BY <1>5, Counters DEF Pg_commitwork, Pg_beginwork, Return
  <2>2. CASE Pg_beginwork # 0
    <3>1. ~Reaches /\ conn.auto # 1
      BY <2>2 DEF Pg_beginwork
    <3>2. seen' = Unsure /\ db' = Ended
      BY <2>1, <2>2, <3>1
    <3>3. TxnInv'
      BY <1>1, <2>1, <3>2, UnsureTxn
    <3> QED
      BY <1>2, <2>1, <3>2, <3>3
  <2>3. CASE Pg_beginwork = 0 /\ Accepts
    <3>1. conn.auto = 1 \/ Reaches
      BY <2>3 DEF Pg_beginwork
    <3>2. faults' = faults /\ ~Refuses
      BY <2>3, Counters DEF Accepts, Refuses
    <3>3. /\ seen' = Told
          /\ \/ db' = Committed /\ Reaches
             \/ db' = Ended /\ db.failed
             \/ db' = db /\ conn.auto = 1
      BY <2>1, <2>3, <3>1, <3>2
    <3>4. TxnInv'
      BY <1>1, <2>1, <3>3, ToldTxn
    <3> QED
      BY <1>2, <2>1, <2>3, <3>3, <3>4
  <2>4. CASE Pg_beginwork = 0 /\ Refuses
    <3>1. faults' # faults /\ ~Accepts
      BY <2>4, Counters DEF Accepts, Refuses
    <3>2. db' = Ended /\ seen' = [Told EXCEPT !.lost = @ \cup seen.owed]
      BY <2>1, <2>4, <3>1
    <3>3. TxnInv'
      BY <1>1, <1>5, <2>1, <3>2, LostTxn
    <3> QED
      BY <1>2, <2>1, <2>4, <3>2, <3>3
  <2> QED
    BY <2>1, <2>2, <2>3, <2>4
<1> QED
  BY <1>3, <1>4, <1>5 DEF commit

-----------------------------------------------------------------------------
(* Statements are executed.                                                 *)

LEMMA Rows == SessionInv => Cardinality(Visible) \in 0..n
<1> SUFFICES ASSUME SessionInv PROVE Cardinality(Visible) \in 0..n
  OBVIOUS
<1>1. Visible \in SUBSET (1..n) /\ n \in Nat
  BY Counters DEF SessionInv, TypeInv, Server, Visible
<1>2. IsFiniteSet(1..n) /\ Cardinality(1..n) = IF 1 > n THEN 0 ELSE n - 1 + 1
  BY <1>1, FS_Interval
<1>3. Cardinality(1..n) = n
  BY <1>1, <1>2
<1>4. IsFiniteSet(Visible) /\ Cardinality(Visible) <= Cardinality(1..n)
  BY <1>1, <1>2, FS_Subset
<1>5. Cardinality(Visible) \in Nat
  BY <1>4, FS_CardinalityType
<1> QED
  BY <1>1, <1>3, <1>4, <1>5

\* A statement after it was executed, with the bindings f.
LEMMA ExecutedGood ==
  ASSUME SessionInv, NEW s \in Stmts, NEW f \in Seq(0..2), NEW q \in SqlTexts,
         (drv = "mysql" /\ ~stmt[s].late /\ f # <<>>) => f = ByPosition(stmt[s].calls)
  PROVE  LET e == [Executed(s) EXCEPT !.frozen = f]
             p == [e EXCEPT !.sqltype = q]
         IN /\ Good(drv, n, e) /\ e.h = stmt[s].h
            /\ Good(drv, n, p) /\ p.h = stmt[s].h
<1> DEFINE t == stmt[s]
           c == Cardinality(Visible)
           x == Executed(s)
           e == [x EXCEPT !.frozen = f]
           p == [e EXCEPT !.sqltype = q]
<1>1. t \in Statement /\ n \in Nat /\ c \in 0..n /\ c \in Nat /\ c \in Int
  BY Rows, Counters DEF SessionInv, StmtInv
<1>2. NoResult \in Int /\ 0 \in Codes
  BY Counters DEF NoResult
<1> HIDE DEF c
<1>3. /\ x \in Statement /\ x.h = t.h /\ x.late = t.late /\ x.calls = t.calls
      /\ x.rc = 0
      /\ \/ x.left = NoResult
         \/ x.rpc = 0 /\ x.got = 0 /\ x.left = c /\ x.total = c
  <2>1. CASE t.kind = "insert"
    <3>1. x = [t EXCEPT !.rc = 0, !.rpc = 1, !.left = NoResult]
      BY <2>1 DEF Executed
    <3> HIDE DEF x
    <3> QED
      BY <1>1, <1>2, <3>1 DEF Statement
  <2>2. CASE t.kind # "insert"
    <3>1. x = [t EXCEPT !.rc = 0, !.rpc = 0, !.got = 0, !.left = c, !.total = c]
      BY <2>2 DEF Executed, c
    <3> HIDE DEF x
    <3> QED
      BY <1>1, <1>2, <3>1 DEF Statement
  <2> QED
    BY <2>1, <2>2
<1> HIDE DEF x
<1>4. /\ e \in Statement /\ e.h = t.h /\ e.late = t.late /\ e.calls = t.calls
      /\ e.rc = 0 /\ e.frozen = f
      /\ \/ e.left = NoResult
         \/ e.rpc = 0 /\ e.got = 0 /\ e.left = c /\ e.total = c
  BY <1>3 DEF Statement
<1> HIDE DEF e
<1>5. /\ p \in Statement /\ p.h = t.h /\ p.late = t.late /\ p.calls = t.calls
      /\ p.rc = 0 /\ p.frozen = f
      /\ \/ p.left = NoResult
         \/ p.rpc = 0 /\ p.got = 0 /\ p.left = c /\ p.total = c
  BY <1>4 DEF Statement
<1> HIDE DEF p
<1>6. BoundOnce(drv, e) /\ BoundOnce(drv, p)
  BY <1>4, <1>5 DEF BoundOnce
<1>7. Good(drv, n, e)
  BY <1>1, <1>4, <1>6, NoneGood, FreshGood
<1>8. Good(drv, n, p)
  BY <1>1, <1>5, <1>6, NoneGood, FreshGood
<1> QED
  BY <1>4, <1>5, <1>7, <1>8 DEF e, p, x

LEMMA FailedGood ==
  ASSUME SessionInv, NEW s \in Stmts, NEW f \in Seq(0..2), NEW q \in SqlTexts,
         NEW code \in Codes,
         (drv = "mysql" /\ ~stmt[s].late /\ f # <<>>) => f = ByPosition(stmt[s].calls)
  PROVE  LET x == Failed(s, code)
             e == [x EXCEPT !.frozen = f]
             p == [x EXCEPT !.sqltype = q]
         IN /\ Good(drv, n, e) /\ e.h = stmt[s].h
            /\ Good(drv, n, p) /\ p.h = stmt[s].h
            /\ Good(drv, n, x) /\ x.h = stmt[s].h
<1> DEFINE t == stmt[s]
           x == Failed(s, code)
           e == [x EXCEPT !.frozen = f]
           p == [x EXCEPT !.sqltype = q]
<1>1. t \in Statement /\ n \in Nat /\ Good(drv, n, t) /\ NoResult \in Int
  BY Counters DEF SessionInv, StmtInv, NoResult
<1>2. /\ x \in Statement /\ x.h = t.h /\ x.late = t.late /\ x.calls = t.calls
      /\ x.left = NoResult /\ x.frozen = t.frozen
  BY <1>1 DEF Statement, Failed
<1> HIDE DEF x
<1>3. /\ e \in Statement /\ e.h = t.h /\ e.late = t.late /\ e.calls = t.calls
      /\ e.left = NoResult /\ e.frozen = f
  BY <1>2 DEF Statement
<1>4. /\ p \in Statement /\ p.h = t.h /\ p.late = t.late /\ p.calls = t.calls
      /\ p.left = NoResult /\ p.frozen = t.frozen
  BY <1>2 DEF Statement
<1> HIDE DEF e, p
<1>5. BoundOnce(drv, x) /\ BoundOnce(drv, e) /\ BoundOnce(drv, p)
  BY <1>1, <1>2, <1>3, <1>4 DEF BoundOnce, Good
<1>6. Good(drv, n, x) /\ Good(drv, n, e) /\ Good(drv, n, p)
  BY <1>1, <1>2, <1>3, <1>4, <1>5, NoneGood
<1> QED
  BY <1>2, <1>3, <1>4, <1>6 DEF e, p, x

\* What an execute does to the server and to what is known of it.
Inserted(s) ==
  \E val \in Seq(0..2) :
    /\ Inserts(s, val) /\ Reaches /\ n < MaxRow
    /\ Tidy(s) => val = <<1, 2>>
Marred ==
  \E f \in BOOLEAN :
    /\ f => (conn.auto = 0 /\ Reaches)
    /\ drv = "postgresql" /\ n' = n
    /\ db' = [db EXCEPT !.failed = @ \/ f]
    /\ seen' = [seen EXCEPT !.marred = @ \/ f]

LEMMA InsertedInv ==
  ASSUME SessionInv, NEW s \in Stmts, Inserted(s), UNCHANGED <<drv, conn>>
  PROVE  /\ TxnInv' /\ n' \in 0..MaxRow /\ n' = n + 1
         /\ db' \in Server(n') /\ seen' \in Knowledge(n')
         /\ seen'.failedEnd = seen.failedEnd /\ seen'.closed = seen.closed
         /\ seen'.mixed = seen.mixed
<1>1. PICK val \in Seq(0..2) :
        Inserts(s, val) /\ Reaches /\ n < MaxRow /\ (Tidy(s) => val = <<1, 2>>)
  BY DEF Inserted
<1>2. n' = n + 1 /\ n \in Nat /\ n' \in 0..MaxRow
  BY <1>1, Constants, Counters DEF Inserts
<1>3. n + 1 \in 1..(n + 1) /\ n + 1 \notin 1..n /\ 1..n \subseteq 1..(n + 1)
  BY <1>2
<1> DEFINE k == n + 1
<1> HIDE DEF k
<1>4. db \in Server(n) /\ db \in Server(k)
  BY <1>3 DEF SessionInv, TypeInv, Server, k
<1>5. seen \in Knowledge(n) /\ seen \in Knowledge(k)
  BY <1>3 DEF SessionInv, TypeInv, Knowledge, k
<1>6. k \in 1..k /\ k \notin 1..n /\ n' = k
  BY <1>2, <1>3 DEF k
<1>7. TxnInv /\ conn.state = 1 /\ conn \in Connection
  BY <1>1 DEF SessionInv, TypeInv, HandleInv, Reaches
<1>8. ~(Tidy(s) /\ val # <<1, 2>>)
  BY <1>1
<1>9. CASE conn.auto = 1
  <2>1. db' = [db EXCEPT !.table = @ \cup {k}]
    BY <1>1, <1>9 DEF Inserts, k
  <2>2. seen' = [seen EXCEPT !.told = @ \cup {k}, !.owed = @, !.mixed = @ \/ FALSE]
    BY <1>1, <1>8, <1>9 DEF Inserts, k
  <2>3. db.table \cup {k} \in SUBSET (1..k) /\ seen.told \cup {k} \in SUBSET (1..k)
    BY <1>4, <1>5, <1>6 DEF Server, Knowledge
  <2>4. /\ db' \in Server(k) /\ db'.table = db.table \cup {k}
        /\ db'.txn = db.txn /\ db'.failed = db.failed /\ db'.link = db.link
    BY <1>4, <2>1, <2>3 DEF Server
  <2>5. /\ seen' \in Knowledge(k) /\ seen'.told = seen.told \cup {k}
        /\ seen'.owed = seen.owed /\ seen'.undone = seen.undone
        /\ seen'.lost = seen.lost /\ seen'.marred = seen.marred
        /\ seen'.failedEnd = seen.failedEnd /\ seen'.closed = seen.closed
        /\ seen'.mixed = seen.mixed
    BY <1>5, <2>2, <2>3 DEF Knowledge
  <2>6. k \notin seen.undone
    BY <1>5, <1>6 DEF Knowledge
  <2>7. TxnInv'
    BY <1>7, <1>9, <2>4, <2>5, <2>6 DEF TxnInv
  <2> QED
    BY <1>2, <1>6, <2>4, <2>5, <2>7
<1>10. CASE conn.auto # 1
  <2>1. db' = [db EXCEPT !.txn = @ \cup {k}]
    BY <1>1, <1>10 DEF Inserts, k
  <2>2. seen' = [seen EXCEPT !.told = @, !.owed = @ \cup {k}, !.mixed = @ \/ FALSE]
    BY <1>1, <1>8, <1>10 DEF Inserts, k
  <2>3. db.txn \cup {k} \in SUBSET (1..k) /\ seen.owed \cup {k} \in SUBSET (1..k)
    BY <1>4, <1>5, <1>6 DEF Server, Knowledge
  <2>4. /\ db' \in Server(k) /\ db'.txn = db.txn \cup {k}
        /\ db'.table = db.table /\ db'.failed = db.failed /\ db'.link = db.link
    BY <1>4, <2>1, <2>3 DEF Server
  <2>5. /\ seen' \in Knowledge(k) /\ seen'.told = seen.told
        /\ seen'.owed = seen.owed \cup {k} /\ seen'.undone = seen.undone
        /\ seen'.lost = seen.lost /\ seen'.marred = seen.marred
        /\ seen'.failedEnd = seen.failedEnd /\ seen'.closed = seen.closed
        /\ seen'.mixed = seen.mixed
    BY <1>5, <2>2, <2>3 DEF Knowledge
  <2>6. k \notin seen.undone /\ k \notin db.table
    BY <1>4, <1>5, <1>6 DEF Server, Knowledge
  <2>7. TxnInv'
    BY <1>7, <1>10, <2>4, <2>5, <2>6 DEF TxnInv, Reaches
  <2> QED
    BY <1>2, <1>6, <2>4, <2>5, <2>7
<1> QED
  BY <1>9, <1>10

LEMMA MarredInv ==
  ASSUME SessionInv, Marred, UNCHANGED <<drv, conn>>
  PROVE  /\ TxnInv' /\ n' = n /\ db' \in Server(n) /\ seen' \in Knowledge(n)
         /\ seen'.failedEnd = seen.failedEnd /\ seen'.closed = seen.closed
         /\ seen'.mixed = seen.mixed
<1>1. PICK f \in BOOLEAN :
        /\ f => (conn.auto = 0 /\ Reaches)
        /\ drv = "postgresql" /\ n' = n
        /\ db' = [db EXCEPT !.failed = @ \/ f]
        /\ seen' = [seen EXCEPT !.marred = @ \/ f]
  BY DEF Marred
<1>2. db \in Server(n) /\ seen \in Knowledge(n) /\ TxnInv /\ HandleInv
  BY DEF SessionInv, TypeInv
<1>3. CASE ~f
  <2>1. db' = db /\ seen' = seen
    BY <1>1, <1>2, <1>3 DEF Server, Knowledge
  <2> QED
    BY <1>1, <1>2, <2>1 DEF TxnInv, Reaches
<1>4. CASE f
  <2>1. /\ db' \in Server(n) /\ db'.txn = db.txn /\ db'.table = db.table
        /\ db'.failed /\ db'.link = db.link
    BY <1>1, <1>2, <1>4 DEF Server
  <2>2. /\ seen' \in Knowledge(n) /\ seen'.told = seen.told
        /\ seen'.owed = seen.owed /\ seen'.undone = seen.undone
        /\ seen'.lost = seen.lost /\ seen'.marred
        /\ seen'.failedEnd = seen.failedEnd /\ seen'.closed = seen.closed
        /\ seen'.mixed = seen.mixed
    BY <1>1, <1>2, <1>4 DEF Knowledge
  <2>3. conn.auto # 1 /\ conn.state # 0
    BY <1>1, <1>2, <1>4 DEF HandleInv, Reaches
  <2>4. TxnInv'
    BY <1>1, <1>2, <2>1, <2>2, <2>3 DEF TxnInv
  <2> QED
    BY <1>1, <2>1, <2>2, <2>4
<1> QED
  BY <1>3, <1>4

LEMMA ExecutesInv ==
  ASSUME SessionInv, NEW s \in Stmts, Sets(s), dead = "no",
         UNCHANGED <<drv, conn, dead>>, Refuses \/ Accepts, ret' \in Codes,
         UNCHANGED <<n, db, seen>> \/ Inserted(s) \/ Marred
  PROVE  SessionInv'
<1>1. CASE UNCHANGED <<n, db, seen>>
  <2>1. StmtOnly(s)
    BY <1>1, Counters DEF StmtOnly
  <2> QED
    BY <2>1, StmtOnlyInv
<1>2. CASE Inserted(s) \/ Marred
  <2>1. /\ TxnInv' /\ n' \in 0..MaxRow /\ (n' = n \/ n' = n + 1)
        /\ db' \in Server(n') /\ seen' \in Knowledge(n')
        /\ seen'.failedEnd = seen.failedEnd /\ seen'.closed = seen.closed
        /\ seen'.mixed = seen.mixed
    <3>1. CASE Inserted(s)
      BY <3>1, InsertedInv
    <3>2. CASE Marred
      <4>1. n \in 0..MaxRow
        BY DEF SessionInv, TypeInv
      <4> QED
        BY <3>2, <4>1, MarredInv
    <3> QED
      BY <1>2, <3>1, <3>2
  <2>2. faults' \in 0..MaxFault /\ faults' >= faults /\ faults' \in Nat
    BY Counters
  <2>3. TypeInv'
    BY <2>1, <2>2 DEF SessionInv, TypeInv
  <2>4. StmtInv'
    BY <2>1, StmtSet
  <2>5. HandleInv'
    BY <2>1, <2>2, HandleSet
  <2>6. HandlesLive' /\ BindExact'
    BY <2>1 DEF SessionInv, HandlesLive, BindExact
  <2> QED
    BY <2>1, <2>3, <2>4, <2>5, <2>6 DEF SessionInv
<1> QED
  BY <1>1, <1>2

LEMMA Unbound ==
  ASSUME SessionInv, NEW s \in Stmts
  PROVE  /\ Executed(s).frozen = stmt[s].frozen
         /\ Failed(s, 2).frozen = stmt[s].frozen
         /\ stmt[s] \in Statement /\ stmt[s].frozen \in Seq(0..2)
         /\ stmt[s].calls \in Seq(Params) /\ stmt[s].kind \in SqlTexts
         /\ stmt[s].rc \in Codes /\ stmt[s].left \in Int
         /\ stmt \in [Stmts -> Statement] /\ Good(drv, n, stmt[s])
<1>1. /\ stmt[s] \in Statement /\ stmt \in [Stmts -> Statement]
      /\ Good(drv, n, stmt[s])
  BY DEF SessionInv, StmtInv
<1>2. /\ stmt[s].frozen \in Seq(0..2) /\ stmt[s].calls \in Seq(Params)
      /\ stmt[s].kind \in SqlTexts /\ stmt[s].rc \in Codes /\ stmt[s].left \in Int
  BY <1>1 DEF Statement
<1>3. Failed(s, 2).frozen = stmt[s].frozen
  BY <1>1 DEF Failed, Statement
<1>4. Executed(s).frozen = stmt[s].frozen
  BY <1>1 DEF Executed, Statement
<1> QED
  BY <1>1, <1>2, <1>3, <1>4

LEMMA BoundValues ==
  ASSUME SessionInv, NEW s \in Stmts
  PROVE  /\ My_bindin(s) \in Seq(0..2) /\ Oci_bindin(s) \in Seq(0..2)
         /\ Pg_bindin(s) \in Seq(0..2)
         /\ Tidy(s) => Oci_bindin(s) = <<1, 2>> /\ Pg_bindin(s) = <<1, 2>>
         /\ (Tidy(s) /\ drv = "mysql") => My_bindin(s) = <<1, 2>>
         /\ (drv = "mysql" /\ ~stmt[s].late) =>
              My_bindin(s) = ByPosition(stmt[s].calls)
<1> DEFINE t == stmt[s]
<1>1. t.frozen \in Seq(0..2) /\ t.calls \in Seq(Params) /\ BoundOnce(drv, t)
  BY Unbound DEF Good
<1>2. ByPosition(t.calls) \in Seq(0..2)
  BY <1>1, Positions
<1>3. My_bindin(s) \in Seq(0..2) /\ Oci_bindin(s) \in Seq(0..2)
  BY <1>1, <1>2 DEF My_bindin, Oci_bindin
<1>4. Pg_bindin(s) \in Seq(0..2)
  BY <1>1 DEF Pg_bindin, Params
<1>5. (drv = "mysql" /\ ~t.late) => My_bindin(s) = ByPosition(t.calls)
  BY <1>1 DEF My_bindin, BoundOnce
<1>6. Tidy(s) => (~t.late /\ t.calls = <<1, 2>>)
  BY DEF Tidy
<1> HIDE DEF t
<1>7. Tidy(s) => ByPosition(t.calls) = <<1, 2>>
  BY <1>6, Straight
<1> QED
  BY <1>3, <1>4, <1>5, <1>6, <1>7 DEF t, Oci_bindin, Pg_bindin

LEMMA MyExecuteStep ==
  ASSUME SessionInv, NEW s \in Stmts, My_execute(s), drv = "mysql",
         stmt[s].kind = "insert" => n < MaxRow,
         dead = "no", UNCHANGED <<drv, conn, dead>>
  PROVE  SessionInv'
<1> DEFINE val == My_bindin(s)
           binds == stmt[s].kind = "insert"
           f == IF binds THEN val ELSE stmt[s].frozen
           good == [Executed(s) EXCEPT !.frozen = f]
           bad == [Failed(s, 2) EXCEPT !.frozen = f]
<1>1. /\ f \in Seq(0..2)
      /\ (~stmt[s].late /\ f # <<>>) => f = ByPosition(stmt[s].calls)
  BY BoundValues, Unbound DEF Good, BoundOnce
<1>2. /\ good = [Executed(s) EXCEPT !.frozen = IF binds THEN val ELSE @]
      /\ bad = [Failed(s, 2) EXCEPT !.frozen = IF binds THEN val ELSE @]
  BY Unbound
<1>3. "none" \in SqlTexts
  BY DEF SqlTexts
<1>4. Good(drv, n, good) /\ good.h = stmt[s].h
  BY <1>1, <1>3, ExecutedGood
<1>5. Good(drv, n, bad) /\ bad.h = stmt[s].h
  <2>1. 2 \in Codes
    BY Counters
  <2> HIDE DEF f
  <2> QED
    BY <1>1, <1>3, <2>1, FailedGood
<1>6. val \in Seq(0..2) /\ (Tidy(s) => val = <<1, 2>>)
  BY BoundValues
<1>7. \/ /\ Reaches /\ Accepts /\ (Inserts(s, val) \/ Selects(s))
         /\ stmt' = [stmt EXCEPT ![s] = good] /\ Return(0)
      \/ /\ Refuses \/ Accepts
         /\ stmt' = [stmt EXCEPT ![s] = bad] /\ NoEffect /\ Return(2)
  BY <1>2 DEF My_execute
<1> HIDE DEF val, binds, f, good, bad
<1>8. Sets(s)
  BY <1>4, <1>5, <1>7, SetTo
<1>9. UNCHANGED <<n, db, seen>> \/ Inserted(s)
  <2>1. CASE Inserts(s, val) /\ Reaches
    <3>1. n < MaxRow
      BY <2>1 DEF Inserts
    <3> QED
      BY <1>6, <2>1, <3>1 DEF Inserted
  <2>2. CASE Selects(s) \/ NoEffect
    BY <2>2 DEF Selects, NoEffect
  <2> QED
    BY <1>7, <2>1, <2>2
<1>10. ret' \in Codes /\ (Refuses \/ Accepts)
  BY <1>7, Counters DEF Return
<1> QED
  BY <1>8, <1>9, <1>10, ExecutesInv

LEMMA OciExecuteStep ==
  ASSUME SessionInv, NEW s \in Stmts, Oci_execute(s), drv = "oracle",
         stmt[s].kind = "insert" => n < MaxRow,
         dead = "no", UNCHANGED <<drv, conn, dead>>
  PROVE  SessionInv'
<1> DEFINE val == Oci_bindin(s)
           good == [Executed(s) EXCEPT !.frozen = val]
           bad == Failed(s, 2)
<1>1. val \in Seq(0..2) /\ (Tidy(s) => val = <<1, 2>>) /\ "none" \in SqlTexts
  BY BoundValues DEF SqlTexts
<1>2. Good(drv, n, good) /\ good.h = stmt[s].h
  BY <1>1, ExecutedGood
<1>3. Good(drv, n, bad) /\ bad.h = stmt[s].h
  BY <1>1, FailedGood, Counters
<1>4. \/ /\ Reaches /\ Accepts /\ (Inserts(s, val) \/ Selects(s))
         /\ stmt' = [stmt EXCEPT ![s] = good] /\ Return(0)
      \/ /\ Refuses \/ Accepts
         /\ stmt' = [stmt EXCEPT ![s] = bad] /\ NoEffect /\ Return(2)
  BY DEF Oci_execute
<1> HIDE DEF val, good, bad
<1>5. Sets(s)
  BY <1>2, <1>3, <1>4, SetTo
<1>6. UNCHANGED <<n, db, seen>> \/ Inserted(s)
  <2>1. CASE Inserts(s, val) /\ Reaches
    <3>1. n < MaxRow
      BY <2>1 DEF Inserts
    <3> QED
      BY <1>1, <2>1, <3>1 DEF Inserted
  <2>2. CASE Selects(s) \/ NoEffect
    BY <2>2 DEF Selects, NoEffect
  <2> QED
    BY <1>4, <2>1, <2>2
<1>7. ret' \in Codes /\ (Refuses \/ Accepts)
  BY <1>4, Counters DEF Return
<1> QED
  BY <1>5, <1>6, <1>7, ExecutesInv

LEMMA PgExecuteStep ==
  ASSUME SessionInv, NEW s \in Stmts, Pg_execute(s), drv = "postgresql",
         stmt[s].kind = "insert" => n < MaxRow,
         dead = "no", UNCHANGED <<drv, conn, dead>>
  PROVE  SessionInv'
<1> DEFINE val == Pg_bindin(s)
           k == stmt[s].kind
           good == [[Executed(s) EXCEPT !.frozen = val] EXCEPT !.sqltype = k]
           bad == [Failed(s, -1) EXCEPT !.sqltype = k]
           fails == Reaches /\ stmt[s].kind # "none" /\ conn.auto = 0
<1>1. val \in Seq(0..2) /\ (Tidy(s) => val = <<1, 2>>) /\ k \in SqlTexts
  BY BoundValues, Unbound
<1>2. Good(drv, n, good) /\ good.h = stmt[s].h
  BY <1>1, ExecutedGood
<1>3. Good(drv, n, bad) /\ bad.h = stmt[s].h
  BY <1>1, FailedGood, Counters
<1>4. \/ /\ Reaches /\ Accepts /\ (Inserts(s, val) \/ Selects(s))
         /\ stmt' = [stmt EXCEPT ![s] = good] /\ Return(0)
      \/ /\ Refuses \/ Accepts
         /\ stmt' = [stmt EXCEPT ![s] = bad]
         /\ db' = [db EXCEPT !.failed = @ \/ fails]
         /\ seen' = [seen EXCEPT !.marred = @ \/ fails]
         /\ UNCHANGED n /\ Return(-1)
  BY DEF Pg_execute
<1>5. fails \in BOOLEAN /\ (fails => (conn.auto = 0 /\ Reaches))
  OBVIOUS
<1> HIDE DEF val, good, bad, fails
<1>6. Sets(s)
  BY <1>2, <1>3, <1>4, SetTo
<1>7. UNCHANGED <<n, db, seen>> \/ Inserted(s) \/ Marred
  <2>1. CASE Inserts(s, val) /\ Reaches
    <3>1. n < MaxRow
      BY <2>1 DEF Inserts
    <3> QED
      BY <1>1, <2>1, <3>1 DEF Inserted
  <2>2. CASE Selects(s)
    BY <2>2 DEF Selects
  <2>3. CASE /\ db' = [db EXCEPT !.failed = @ \/ fails]
             /\ seen' = [seen EXCEPT !.marred = @ \/ fails]
             /\ UNCHANGED n
    BY <1>5, <2>3 DEF Marred
  <2> QED
    BY <1>4, <2>1, <2>2, <2>3
<1>8. ret' \in Codes /\ (Refuses \/ Accepts)
  BY <1>4, Counters DEF Return
<1> QED
  BY <1>6, <1>7, <1>8, ExecutesInv

LEMMA ExecuteStep ==
  ASSUME SessionInv, NEW s \in Stmts, execute(s)
  PROVE  SessionInv'
BY MyExecuteStep, OciExecuteStep, PgExecuteStep DEF execute, Usable

-----------------------------------------------------------------------------
(* Rows are fetched.                                                        *)

LEMMA SetFetched ==
  ASSUME SessionInv, NEW s \in Stmts, Fetched(s), stmt[s].left > 0, stmt[s].rc = 0
  PROVE  Sets(s) /\ ret' \in Codes
<1> DEFINE t == stmt[s]
           u == [t EXCEPT !.rpc = @ + 1, !.got = @ + 1, !.left = @ - 1]
<1>1. /\ t \in Statement /\ stmt \in [Stmts -> Statement] /\ Good(drv, n, t)
      /\ n \in Nat
  BY Unbound, Counters
<1>2. Good(drv, n, u)
  BY <1>1, FetchGood
<1>3. u.h = t.h
  BY <1>1 DEF Statement
<1>4. stmt' = [stmt EXCEPT ![s] = u] /\ ret' = 0
  BY <1>1 DEF Fetched, Return
<1> HIDE DEF u
<1> QED
  BY <1>2, <1>3, <1>4, SetTo, Counters

LEMMA SetNoRecordset ==
  ASSUME SessionInv, NEW s \in Stmts, NoRecordset(s)
  PROVE  Sets(s) /\ ret' \in Codes
<1>1. CASE UNCHANGED stmt /\ Return(stmt[s].rc)
  BY <1>1, SetNone, Unbound DEF Return
<1>2. CASE Reports(s, -1)
  BY <1>2, SetCode, Counters DEF Reports, Return
<1> QED
  BY <1>1, <1>2 DEF NoRecordset

LEMMA MyNextSets ==
  ASSUME SessionInv, NEW s \in Stmts, My_next(s)
  PROVE  Sets(s) /\ ret' \in Codes
<1> DEFINE t == stmt[s]
<1>1. /\ t \in Statement /\ stmt \in [Stmts -> Statement] /\ Good(drv, n, t)
      /\ n \in Nat
  BY Unbound, Counters
<1>2. CASE NoRecordset(s)
  BY <1>2, SetNoRecordset
<1>3. CASE IsQuery(s) /\ t.left > 0 /\ Fetched(s)
  BY <1>3, SetFetched DEF IsQuery
<1>4. CASE /\ t.left \in {0, AtEnd} /\ stmt' = [stmt EXCEPT ![s].left = AtEnd]
           /\ Return(END_MYSQL)
  <2> DEFINE u == [t EXCEPT !.left = AtEnd]
  <2>1. Good(drv, n, u)
    BY <1>1, <1>4, EndGood
  <2>2. u.h = t.h /\ stmt' = [stmt EXCEPT ![s] = u]
    BY <1>1, <1>4 DEF Statement
  <2> HIDE DEF u
  <2> QED
    BY <1>4, <2>1, <2>2, SetTo, Counters DEF Return
<1>5. CASE stmt' = [stmt EXCEPT ![s].rc = 2, ![s].left = NoResult] /\ Return(2)
  <2> DEFINE v == [t EXCEPT !.rc = 2]
             u == [v EXCEPT !.left = NoResult]
  <2>1. Good(drv, n, v)
    BY <1>1, CodeGood, Counters
  <2>2. v.h = t.h /\ v \in Statement
    BY <1>1, <2>1 DEF Statement, Good
  <2>3. stmt' = [stmt EXCEPT ![s] = u]
    BY <1>1, <1>5
  <2> HIDE DEF v
  <2>4. Good(drv, n, u) /\ u.h = t.h
    BY <1>1, <2>1, <2>2, LostGood DEF Statement
  <2> HIDE DEF u
  <2> QED
    BY <1>5, <2>3, <2>4, SetTo, Counters DEF Return
<1> QED
  BY <1>2, <1>3, <1>4, <1>5 DEF My_next

LEMMA PgNextSets ==
  ASSUME SessionInv, NEW s \in Stmts, Pg_next(s)
  PROVE  Sets(s) /\ ret' \in Codes
<1> DEFINE t == stmt[s]
<1>1. /\ t.left \in NoResult..n /\ Counted(t) /\ n \in Nat
      /\ t.rpc \in Nat /\ t.got \in Nat /\ t.total \in Nat /\ t.left \in Int
  BY Unbound, Counters DEF Good, Statement
<1>2. CASE NoRecordset(s)
  BY <1>2, SetNoRecordset
<1>3. CASE IsQuery(s) /\ t.left # NoResult /\ t.rpc < t.total /\ Fetched(s)
  <2>1. t.left > 0
    BY <1>1, <1>3 DEF Counted, NoResult, AtEnd
  <2> QED
    BY <1>3, <2>1, SetFetched DEF IsQuery
<1>4. CASE /\ t.left = NoResult \/ t.rpc >= t.total
           /\ Reports(s, END_OTHER)
  <2>1. t.left = NoResult \/ (t.got = t.total /\ t.rpc = t.got)
    BY <1>1, <1>4 DEF Counted, NoResult, AtEnd
  <2> QED
    BY <1>4, <2>1, SetCode, Counters DEF Reports, Return
<1> QED
  BY <1>2, <1>3, <1>4 DEF Pg_next

LEMMA OciNextSets ==
  ASSUME SessionInv, NEW s \in Stmts,
         \/ NoRecordset(s)
         \/ IsQuery(s) /\ stmt[s].left > 0 /\ Fetched(s)
         \/ IsQuery(s) /\ stmt[s].left = 0 /\ Reports(s, END_OTHER)
  PROVE  Sets(s) /\ ret' \in Codes
<1> DEFINE t == stmt[s]
<1>1. /\ Counted(t) /\ t.rpc \in Nat /\ t.got \in Nat /\ t.total \in Nat
  BY Unbound DEF Good, Statement
<1>2. CASE NoRecordset(s)
  BY <1>2, SetNoRecordset
<1>3. CASE IsQuery(s) /\ t.left > 0 /\ Fetched(s)
  BY <1>3, SetFetched DEF IsQuery
<1>4. CASE t.left = 0 /\ Reports(s, END_OTHER)
  <2>1. t.got = t.total /\ t.rpc = t.got
    BY <1>1, <1>4 DEF Counted
  <2> QED
    BY <1>4, <2>1, SetCode, Counters DEF Reports, Return
<1> QED
  BY <1>2, <1>3, <1>4

LEMMA NextStep ==
  ASSUME SessionInv, NEW s \in Stmts, next(s)
  PROVE  SessionInv'
<1>1. dead = "no" /\ UNCHANGED <<drv, faults, n, dead>>
  BY DEF next, Usable
<1>2. ASSUME Sets(s), ret' \in Codes, UNCHANGED <<conn, db, seen>>
      PROVE  SessionInv'
  <2>1. StmtOnly(s)
    BY <1>1, <1>2, Counters DEF StmtOnly
  <2> QED
    BY <1>1, <2>1, StmtOnlyInv
<1>3. CASE My_next(s)
  <2>1. UNCHANGED <<conn, db, seen>>
    BY <1>3 DEF My_next
  <2> QED
    BY <1>2, <1>3, <2>1, MyNextSets
<1>4. CASE Pg_next(s)
  <2>1. UNCHANGED <<conn, db, seen>>
    BY <1>4 DEF Pg_next
  <2> QED
    BY <1>2, <1>4, <2>1, PgNextSets
<1>5. CASE Oci_next(s)
  <2>1. CASE /\ \/ NoRecordset(s)
                \/ IsQuery(s) /\ stmt[s].left > 0 /\ Fetched(s)
                \/ IsQuery(s) /\ stmt[s].left = 0 /\ Reports(s, END_OTHER)
             /\ UNCHANGED <<conn, db, seen>>
    BY <1>2, <2>1, OciNextSets
  <2>2. CASE /\ conn' = [conn EXCEPT !.state = 0, !.h = "freed"]
             /\ db' = Ended /\ seen' = Shut
             /\ stmt' = [Orphaned EXCEPT ![s].rc = 2] /\ Return(2)
    <3>1. conn' \in Connection /\ conn'.state = 0 /\ conn'.h # "open"
      BY <2>2, HandleAfter
    <3>5. \E r \in Stmts : stmt' = [Orphaned EXCEPT ![r].rc = 2]
      BY <2>2
    <3>6. /\ ret' \in Codes /\ db' \in Server(n) /\ seen' \in Knowledge(n)
          /\ seen'.closed /\ seen'.mixed = seen.mixed
      BY <2>2, Counters, ServerAfter, UndoneAfter DEF Return
    <3>7. faults' \in 0..MaxFault /\ faults' >= faults /\ conn'.state # 1
      BY <1>1, <3>1, Counters
    <3>8. \/ UNCHANGED stmt \/ stmt' = Orphaned \/ stmt' = Detached
          \/ \E r \in Stmts : stmt' = [Orphaned EXCEPT ![r].rc = 2]
      BY <3>5, Zenon
    <3>2. Connects
      BY <1>1, <3>1, <3>6, <3>7, <3>8 DEF Connects
    <3>3. TxnInv'
      BY <1>1, <2>2, <3>1, ShutTxn
    <3> QED
      BY <3>2, <3>3, ConnectsInv
  <2> QED
    BY <1>5, <2>1, <2>2 DEF Oci_next
<1> QED
  BY <1>3, <1>4, <1>5 DEF next

-----------------------------------------------------------------------------
(* Theorems.                                                                *)

LEMMA Preserved == SessionInv /\ [Next]_vars => SessionInv'
<1> SUFFICES ASSUME SessionInv, [Next]_vars PROVE SessionInv'
  OBVIOUS
<1>1. ASSUME NEW a \in {0, 1}, connecttodb(a) PROVE SessionInv'
  BY <1>1, ConnectDbStep
<1>2. ASSUME NEW op \in {"disconnect", "rollback", "commit"}, NotOpen(op)
      PROVE  SessionInv'
  BY <1>2, NotOpenStep
<1>3. CASE NullHandle
  BY <1>3, DeadStep
<1>4. CASE disconnect
  BY <1>4, DisconnectStep
<1>5. CASE rollback
  BY <1>5, RollbackStep
<1>6. CASE commit
  BY <1>6, CommitStep
<1>7. CASE LinkLost
  BY <1>7, LinkLostStep
<1>8. ASSUME NEW s \in Stmts,
             stmtConnect(s) \/ stmtDisconnect(s) \/ NotConnected(s)
      PROVE  SessionInv'
  BY <1>8, ConnectStep
<1>9. ASSUME NEW s \in Stmts, stmtConstruct(s) PROVE SessionInv'
  BY <1>9, ConstructStep
<1>10. ASSUME NEW s \in Stmts, DeadStatement(s) PROVE SessionInv'
  BY <1>10, DeadStep
<1>11. ASSUME NEW s \in Stmts, NEW k \in Kinds[s], prepare(s, k) PROVE SessionInv'
  BY <1>11, PrepareStep
<1>12. ASSUME NEW s \in Stmts, NEW p \in Params, bindin(s, p) PROVE SessionInv'
  BY <1>12, BindStep
<1>13. ASSUME NEW s \in Stmts, execute(s) PROVE SessionInv'
  BY <1>13, ExecuteStep
<1>14. ASSUME NEW s \in Stmts, next(s) PROVE SessionInv'
  BY <1>14, NextStep
<1>15. CASE UNCHANGED vars
  BY <1>15 DEF vars, SessionInv, TypeInv, StmtInv, TxnInv, HandleInv, HandlesLive,
     BindExact, Reaches
<1> QED
  BY <1>1, <1>2, <1>3, <1>4, <1>5, <1>6, <1>7, <1>8, <1>9, <1>10, <1>11, <1>12,
     <1>13, <1>14, <1>15 DEF Next

\* The invariant of connections and statements, from which the others follow.
THEOREM SessionSafe == Spec => []SessionInv
BY Initially, Preserved, PTL DEF Spec

\* Whatever library a program is linked with, and however links are lost and
\* calls refused: a row whose INSERT and whose commit were answered 0 is in the
\* table, and one that was rolled back is not; with PostgreSQL but for the rows
\* of a transaction that had failed and of a COMMIT that was refused.
THEOREM DbTxn == Spec => []TxnExact
<1>1. SessionInv => TxnExact
  <2> SUFFICES ASSUME SessionInv PROVE TxnExact
    OBVIOUS
  <2>1. TypeOK
    <3>1. \A s \in Stmts :
            /\ stmt[s].rc \in Codes /\ stmt[s].left \in NoResult..n
            /\ stmt[s].h \in {"none", "open", "stale", "wild"}
      BY DEF SessionInv, StmtInv, Good, Statement
    <3> QED
      BY <3>1 DEF SessionInv, TypeInv, TypeOK, Connection, Server
  <2> QED
    BY <2>1 DEF SessionInv, TxnInv, TxnExact
<1> QED
  BY <1>1, SessionSafe, PTL

\* When next has answered that there is no more row, every row of the result
\* was fetched once and m_cda.rpc is their number.
THEOREM DbFetch == Spec => []FetchExact
<1>1. ASSUME SessionInv, NEW s \in Stmts,
             stmt[s].left # NoResult,
             stmt[s].rc = END_OTHER \/ stmt[s].left = AtEnd
      PROVE  stmt[s].got = stmt[s].total /\ stmt[s].rpc = stmt[s].got
  BY <1>1 DEF SessionInv, StmtInv, Good, Counted
<1>2. SessionInv => FetchExact
  BY <1>1 DEF FetchExact
<1> QED
  BY <1>2, SessionSafe, PTL

\* Parameters bound once each, in order, before the first execute are the
\* ones that execute inserts.
THEOREM DbBind == Spec => []BindExact
<1>1. SessionInv => BindExact
  BY DEF SessionInv
<1> QED
  BY <1>1, SessionSafe, PTL

\* A handle that does not exist is used only after a failed commit or rollback
\* of MySQL, after OCI's connection was closed under a statement, or in a
\* statement whose m_state was never initialised.
THEOREM DbHandles == Spec => []HandlesLive
<1>1. SessionInv => HandlesLive
  BY DEF SessionInv
<1> QED
  BY <1>1, SessionSafe, PTL

-----------------------------------------------------------------------------
(* A program that works through such a session, one transaction for each    *)
(* file: the loader of module Loader, for every set of files, every content *)
(* and every number of kills and faults.  What is in the table is counted   *)
(* by an invariant that says where the loader is in the file it reads.      *)

WriterAt == {"start", "open", "recv", "get", "put", "done"}

FilesTyped ==
  /\ content \in [Files -> Seq(Line)] /\ \A f \in Files : content[f] \in Contents[f]
  /\ disk \in [Files -> Int] /\ tmp \in [Files -> Int] /\ remote \in [Files -> Int]
  /\ \A f \in Files : /\ disk[f] \in -1..Len(content[f])
                      /\ tmp[f] \in -1..Len(content[f])
                      /\ remote[f] \in 0..Len(content[f])
  /\ wpc \in [Files -> WriterAt]

LoopTyped ==
  /\ lpc \in {"off", "connect", "opendir", "readdir", "check", "station", "rows", "remove"}
  /\ list \subseteq Files /\ cur \in Files \cup {NoFile}
  /\ pos \in Nat /\ ii \in Nat /\ jj \in Nat /\ ybsum \in Nat /\ linked \in BOOLEAN

TxnTyped == txn \subseteq {<<f, k>> : f \in {cur} \cap Files, k \in 1..pos}

TableTyped ==
  /\ DOMAIN table = Files /\ \A f \in Files : table[f] \in [Lines(f) -> Nat]
  /\ refused \subseteq Files /\ again \in [Files -> Nat]

CountsTyped == crashes \in 0..MaxCrash /\ failures \in 0..MaxFail

\* The type invariant of Loader, in parts.
LoaderTypes == FilesTyped /\ LoopTyped /\ TxnTyped /\ TableTyped /\ CountsTyped

\* File f is there, whole.
Complete(f) ==
  /\ content[f] # <<>> /\ disk[f] = Len(content[f])
  /\ content[f][Len(content[f])].kind = "end"

\* A file is whole when its writer is done with it, and has a name until then or
\* until it was loaded.
WritersInv ==
  \A f \in Files :
    /\ content[f] # <<>> /\ disk[f] = Len(content[f]) => wpc[f] = "done"
    /\ wpc[f] \in {"get", "put"} => tmp[f] # -1
    /\ wpc[f] = "recv" => disk[f] # -1
    /\ Gone(f) => content[f] # <<>> /\ content[f][Len(content[f])].kind = "end"

\* What is inserted and not committed is of the file that is being read.
ReadingInv ==
  /\ lpc = "check" => cur \in Files
  /\ lpc \in {"station", "rows", "remove"} => cur \in Files /\ Complete(cur)
  /\ lpc \notin {"station", "rows"} => txn = {}
  /\ lpc # "rows" => jj = 0
  /\ \A x \in txn : x[1] = cur /\ x[2] \in RowsOf(content[cur]) /\ x[2] <= pos

Stations(c) == {k \in DOMAIN c : c[k].kind = "station"}

\* In a file as it should be, with p lines read and j rows of a station to read:
\* these are the next j lines, and i stations follow.
Walk(c, p, i, j) ==
  /\ (p + 1)..(p + j) \subseteq RowsOf(c)
  /\ \A k \in Stations(c) : k <= p => k + c[k].n <= p + j
  /\ Cardinality({k \in Stations(c) : k > p}) = i

WalkInv ==
  lpc \in {"station", "rows"} /\ WellFormed(content[cur]) =>
    /\ Walk(content[cur], pos, ii, jj)
    /\ linked => \A k \in RowsOf(content[cur]) : k <= pos => <<cur, k>> \in txn

\* f was committed and not left behind since.
Kept(f) == IF Gone(f) \/ (lpc = "remove" /\ cur = f) THEN 1 ELSE 0

TableInv ==
  \A f \in Files :
    /\ \A k \in Lines(f) : /\ table[f][k] > 0 => k \in RowsOf(content[f])
                           /\ table[f][k] <= again[f] + Kept(f)
    /\ WellFormed(content[f]) =>
         \A k, l \in RowsOf(content[f]) :
           /\ table[f][k] = table[f][l]
           /\ f \notin refused => table[f][k] = again[f] + Kept(f)

LoaderInv ==
  /\ LoaderTypes
  /\ WritersInv /\ ReadingInv /\ WalkInv /\ TableInv

-----------------------------------------------------------------------------
(* Lines of a file.                                                         *)

LEMMA ContentLines ==
  ASSUME LoaderTypes, NEW f \in Files
  PROVE  /\ content[f] \in Seq(Line) /\ content[f] \in Contents[f]
         /\ Len(content[f]) \in Nat /\ DOMAIN content[f] = 1..Len(content[f])
         /\ content[f] # <<>> <=> Len(content[f]) # 0
<1>1. content[f] \in Seq(Line) /\ content[f] \in Contents[f]
  BY DEF LoaderTypes, FilesTyped
<1>2. QED
  BY <1>1, LenProperties, EmptySeq

LEMMA LeastOf ==
  ASSUME NEW a \in Int, NEW m \in Nat, a <= m
  PROVE  LET b == Least(a + Piece, m)
         IN b \in Int /\ a <= b /\ b <= m /\ (a < m => a < b)
BY LoaderConstants DEF Least

LEMMA LeastNumber ==
  ASSUME NEW S \in SUBSET Nat, S # {}
  PROVE  \E x \in S : \A y \in S : x <= y
<1> DEFINE R == {x \in Nat \X Nat : x[1] < x[2]}
<1>1. IsWellFoundedOn(R, Nat)
  BY NatLessThanWellFounded DEF OpToRel
<1>2. PICK x \in S : \A y \in S : ~(<<y, x>> \in R)
  <2> HIDE DEF R
  <2>1. QED
    BY <1>1, WFMin
<1>3. ASSUME NEW y \in S PROVE x <= y
  <2>1. ~(y < x) /\ y \in Nat /\ x \in Nat
    BY <1>2
  <2>2. QED
    BY <2>1
<1>4. QED
  BY <1>3

LEMMA FirstLine ==
  ASSUME NEW S \in SUBSET Nat, NEW k \in Nat
  PROVE  LET l == FirstIn(S, k)
         IN /\ l \in Nat
            /\ l # 0 => l \in S /\ l > k /\ \A m \in S : m > k => l <= m
            /\ l = 0 => \A m \in S : ~(m > k)
<1> DEFINE T == {l \in S : l > k}
<1>1. CASE T = {}
  BY <1>1 DEF FirstIn
<1>2. CASE T # {}
  <2>1. PICK x \in T : \A y \in T : x <= y
    <3> HIDE DEF T
    <3>1. T \in SUBSET Nat
      BY DEF T
    <3>2. QED
      BY <1>2, <3>1, LeastNumber
  <2>2. \E l \in S : l > k /\ \A m \in S : m > k => l <= m
    BY <2>1
  <2>3. FirstIn(S, k) = CHOOSE l \in S : l > k /\ \A m \in S : m > k => l <= m
    BY <1>2 DEF FirstIn
  <2>4. PICK l : l = FirstIn(S, k)
    OBVIOUS
  <2>5. l \in S /\ l > k /\ \A m \in S : m > k => l <= m
    BY <2>2, <2>3, <2>4
  <2>6. l \in Nat /\ l # 0
    BY <2>5
  <2>7. QED
    BY <2>4, <2>5, <2>6
<1>3. QED
  BY <1>1, <1>2

\* A file that is whole, and its head.
LEMMA FileEnd ==
  ASSUME LoaderTypes, NEW f \in Files
  PROVE  CheckFileEnd(f) => Complete(f)
<1> SUFFICES ASSUME CheckFileEnd(f) PROVE Complete(f)
  OBVIOUS
<1>1. disk[f] \in DOMAIN content[f]
  BY ContentLines DEF CheckFileEnd, LoaderTypes, FilesTyped
<1>2. disk[f] = Len(content[f])
  BY <1>1, ContentLines, LoaderConstants DEF CheckFileEnd
<1>3. QED
  BY <1>1, <1>2, ContentLines DEF CheckFileEnd, Complete

LEMMA HeadLine ==
  ASSUME NEW c \in Seq(Line)
  PROVE  LET h == getddtime(c)
         IN /\ h \in Nat
            /\ h # 0 => h \in DOMAIN c /\ Number(c[h]) \in Nat
<1> DEFINE A == {k \in DOMAIN c : c[k].kind = "spcc"}
           B == {k \in DOMAIN c : Number(c[k]) # 0}
           s == FirstIn(A, 0)
<1>1. A \in SUBSET Nat /\ B \in SUBSET Nat
  BY LenProperties
<1>2. s \in Nat
  BY <1>1, FirstLine
<1>3. \A k \in DOMAIN c : Number(c[k]) \in Nat
  <2> SUFFICES ASSUME NEW k \in DOMAIN c PROVE Number(c[k]) \in Nat
    OBVIOUS
  <2>1. c[k] \in Line
    BY ElementOfSeq, LenProperties
  <2>2. QED
    BY <2>1, LoaderConstants DEF Number, Line
<1>4. FirstIn(B, s) \in Nat /\ (FirstIn(B, s) # 0 => FirstIn(B, s) \in B)
  BY <1>1, <1>2, FirstLine
<1>5. getddtime(c) = IF s = 0 THEN 0 ELSE FirstIn(B, s)
  BY DEF getddtime
<1> HIDE DEF s
<1>6. QED
  BY <1>3, <1>4, <1>5

LEMMA NextStation ==
  ASSUME NEW c \in Seq(Line), NEW k \in Nat
  PROVE  LET x == getcityid(c, k)
         IN /\ x \in Nat
            /\ x # 0 => x \in Stations(c) /\ x > k /\ \A m \in Stations(c) : m > k => x <= m
            /\ x = 0 => \A m \in Stations(c) : ~(m > k)
<1>1. Stations(c) \in SUBSET Nat
  BY LenProperties DEF Stations
<1>2. getcityid(c, k) = FirstIn(Stations(c), k)
  BY DEF getcityid, Stations
<1>3. PICK S : S = Stations(c)
  OBVIOUS
<1>4. S \in SUBSET Nat
  BY <1>1, <1>3
<1>5. LET x == FirstIn(S, k)
      IN /\ x \in Nat
         /\ x # 0 => x \in S /\ x > k /\ \A m \in S : m > k => x <= m
         /\ x = 0 => \A m \in S : ~(m > k)
  BY ONLY <1>4, k \in Nat, FirstLine
<1>6. QED
  BY ONLY <1>2, <1>3, <1>5

-----------------------------------------------------------------------------
(* The writers.                                                             *)

\* What a step of a writer makes of its file: once the writer is done it changes
\* nothing but the file on the FTP server.
Moves(f, d, t, r, w) ==
  /\ d \in -1..Len(content[f]) /\ t \in -1..Len(content[f]) /\ r \in 0..Len(content[f])
  /\ w \in WriterAt
  /\ disk' = [disk EXCEPT ![f] = d] /\ tmp' = [tmp EXCEPT ![f] = t]
  /\ remote' = [remote EXCEPT ![f] = r] /\ wpc' = [wpc EXCEPT ![f] = w]
  /\ wpc[f] = "done" => d = disk[f] /\ w = "done"
  /\ wpc[f] # "done" /\ w = "done" => d # -1
  /\ content[f] # <<>> /\ d = Len(content[f]) => w = "done"
  /\ w \in {"get", "put"} => t # -1
  /\ w = "recv" => d # -1

Moved(f) == \E d, t, r, w : Moves(f, d, t, r, w)

LEMMA FileTypes ==
  ASSUME LoaderTypes, NEW f \in Files
  PROVE  /\ disk[f] \in -1..Len(content[f]) /\ tmp[f] \in -1..Len(content[f])
         /\ remote[f] \in 0..Len(content[f]) /\ wpc[f] \in WriterAt
         /\ Len(content[f]) \in Nat /\ disk[f] \in Int /\ tmp[f] \in Int /\ remote[f] \in Int
         /\ disk = [disk EXCEPT ![f] = disk[f]] /\ tmp = [tmp EXCEPT ![f] = tmp[f]]
         /\ remote = [remote EXCEPT ![f] = remote[f]] /\ wpc = [wpc EXCEPT ![f] = wpc[f]]
         /\ content[f] # <<>> <=> Len(content[f]) # 0
<1>1. Len(content[f]) \in Nat /\ (content[f] # <<>> <=> Len(content[f]) # 0)
  BY ContentLines
<1>2. QED
  BY <1>1 DEF LoaderTypes, FilesTyped, WriterAt

LEMMA RenameMoves ==
  ASSUME LoaderTypes, WritersInv, NEW f \in Files,
         OpenForRename(f) \/ Fprintf(f) \/ CloseAndRename(f)
  PROVE  Moved(f)
<1> USE FileTypes
<1>1. CASE OpenForRename(f)
  <2>1. Moves(f, disk[f], 0, remote[f], "open")
    BY <1>1 DEF Moves, OpenForRename, Set, WritersInv, WriterAt
  <2>2. QED
    BY <2>1 DEF Moved
<1>2. CASE Fprintf(f)
  <2> DEFINE t == Least(tmp[f] + Piece, Len(content[f]))
  <2>1. t \in Int /\ -1 <= t /\ t <= Len(content[f])
    BY <1>2, LeastOf
  <2> HIDE DEF t
  <2>2. tmp' = [tmp EXCEPT ![f] = t]
    BY <1>2 DEF Fprintf, Set, t
  <2>3. UNCHANGED <<disk, remote, wpc>> /\ wpc[f] = "open"
    BY <1>2 DEF Fprintf
  <2>5. ~(content[f] # <<>> /\ disk[f] = Len(content[f]))
    BY <2>3 DEF WritersInv
  <2>6. Moves(f, disk[f], t, remote[f], "open")
    BY <2>1, <2>2, <2>3, <2>5 DEF Moves, WriterAt
  <2>4. QED
    BY <2>6 DEF Moved
<1>3. CASE CloseAndRename(f)
  <2>1. Moves(f, tmp[f], -1, remote[f], "done")
    BY <1>3 DEF Moves, CloseAndRename, Set, WriterAt
  <2>2. QED
    BY <2>1 DEF Moved
<1>4. QED
  BY <1>1, <1>2, <1>3

LEMMA SocketMoves ==
  ASSUME LoaderTypes, WritersInv, NEW f \in Files,
         (\E b \in BOOLEAN : RecvFile(f, b)) \/ SendFile(f)
  PROVE  Moved(f)
<1> USE FileTypes
<1>1. ASSUME NEW b \in BOOLEAN, RecvFile(f, b) PROVE Moved(f)
  <2>1. Moves(f, 0, tmp[f], remote[f], IF b THEN "done" ELSE "recv")
    BY <1>1 DEF Moves, RecvFile, Set, WriterAt
  <2>2. QED
    BY <2>1 DEF Moved
<1>2. CASE SendFile(f)
  <2> DEFINE d == Least(disk[f] + Piece, Len(content[f]))
  <2>1. d \in Int /\ -1 <= d /\ d <= Len(content[f])
    BY <1>2, LeastOf
  <2> HIDE DEF d
  <2>5. wpc[f] = "recv" /\ disk[f] # -1
    BY <1>2 DEF SendFile, WritersInv
  <2>2. /\ disk' = [disk EXCEPT ![f] = d] /\ UNCHANGED <<tmp, remote>>
        /\ wpc' = [wpc EXCEPT ![f] = IF d = Len(content[f]) THEN "done" ELSE "recv"]
    <3>1. disk' = [disk EXCEPT ![f] = d] /\ UNCHANGED <<tmp, remote>>
      BY <1>2 DEF SendFile, Set, d
    <3>2. wpc' = [wpc EXCEPT ![f] = IF d = Len(content[f]) THEN "done" ELSE "recv"]
      BY <1>2, Zenon DEF SendFile, Set, d
    <3>3. QED
      BY <3>1, <3>2
  <2>6. d # -1
    <3>1. disk[f] \in Int /\ disk[f] >= -1 /\ disk[f] <= d
      BY <1>2, LeastOf DEF d
    <3>2. QED
      BY <3>1, <2>5, <2>1
  <2>7. PICK w \in {"done", "recv"} : w = IF d = Len(content[f]) THEN "done" ELSE "recv"
    OBVIOUS
  <2>3. Moves(f, d, tmp[f], remote[f], w)
    BY <2>1, <2>2, <2>5, <2>6, <2>7 DEF Moves, WriterAt
  <2>4. QED
    BY <2>3 DEF Moved
<1>3. QED
  BY <1>1, <1>2

LEMMA FtpMoves ==
  ASSUME LoaderTypes, WritersInv, NEW f \in Files,
         RemoteGrows(f) \/ FtpGet(f) \/ FtpPut(f)
  PROVE  Moved(f)
<1> USE FileTypes
<1>1. CASE RemoteGrows(f)
  <2> DEFINE r == Least(remote[f] + Piece, Len(content[f]))
  <2>1. r \in Int /\ 0 <= r /\ r <= Len(content[f])
    BY <1>1, LeastOf
  <2> HIDE DEF r
  <2>2. remote' = [remote EXCEPT ![f] = r] /\ UNCHANGED <<disk, tmp, wpc>>
    BY <1>1 DEF RemoteGrows, Set, r
  <2>3. Moves(f, disk[f], tmp[f], r, wpc[f])
    BY <2>1, <2>2 DEF Moves, WritersInv
  <2>4. QED
    BY <2>3 DEF Moved
<1>2. CASE FtpGet(f)
  <2>1. PICK t \in {Least(Piece, remote[f]), remote[f]} : tmp' = [tmp EXCEPT ![f] = t]
    BY <1>2 DEF FtpGet, Set
  <2>2. t \in Int /\ 0 <= t /\ t <= remote[f]
    BY <1>2, <2>1, LoaderConstants DEF Least, FtpGet
  <2>3. Moves(f, disk[f], t, remote[f], "get")
    BY <1>2, <2>1, <2>2 DEF Moves, WriterAt, WritersInv, FtpGet, Set
  <2>4. QED
    BY <2>3 DEF Moved
<1>3. CASE FtpPut(f)
  <2>1. PICK t \in Lines(f) : tmp' = [tmp EXCEPT ![f] = t]
    BY <1>3 DEF FtpPut, Set
  <2>2. t \in 1..Len(content[f])
    BY <2>1, ContentLines DEF Lines
  <2>3. Moves(f, disk[f], t, remote[f], "put")
    BY <1>3, <2>1, <2>2 DEF Moves, WriterAt, WritersInv, FtpPut, Set
  <2>4. QED
    BY <2>3 DEF Moved
<1>4. QED
  BY <1>1, <1>2, <1>3

LEMMA FtpEndMoves ==
  ASSUME LoaderTypes, WritersInv, NEW f \in Files, NEW ok,
         FtpRename(f, ok), wpc[f] \in {"get", "put"}
  PROVE  Moved(f)
<1> USE FileTypes
<1>1. CASE ok
  <2>1. Moves(f, tmp[f], -1, remote[f], "done")
    BY <1>1 DEF Moves, FtpRename, Set, WriterAt, WritersInv
  <2>2. QED
    BY <2>1 DEF Moved
<1>2. CASE ~ok
  <2>1. Moves(f, disk[f], tmp[f], remote[f], "start")
    BY <1>2 DEF Moves, FtpRename, Set, WriterAt, WritersInv
  <2>2. QED
    BY <2>1 DEF Moved
<1>3. QED
  BY <1>1, <1>2

LEMMA WriterMoves ==
  ASSUME LoaderTypes, WritersInv, Writer
  PROVE  /\ \E f \in Files : Moved(f)
         /\ crashes' \in 0..MaxCrash
         /\ UNCHANGED <<content, lpc, list, cur, pos, ii, jj, ybsum, linked, txn, table,
                        failures, refused, again>>
<1>1. PICK f \in Files : \/ WriterStep(f) /\ UNCHANGED crashes
                         \/ WriterEnds(f) \/ SendBreaks(f)
  BY DEF Writer
<1>2. UNCHANGED <<content, lpc, list, cur, pos, ii, jj, ybsum, linked, txn, table,
                  failures, refused, again>>
  BY DEF Writer, loader, dbase, ghosts
<1>3. crashes' \in 0..MaxCrash
  BY <1>1, LoaderConstants DEF WriterEnds, SendBreaks, LoaderTypes, CountsTyped
<1>4. Moved(f)
  <2>1. CASE WriterStep(f)
    BY <2>1, RenameMoves, SocketMoves, FtpMoves, FtpEndMoves
       DEF WriterStep, FtpGetEnds, FtpPutEnds
  <2>2. CASE WriterEnds(f)
    <3>1. PICK t \in {tmp[f], -1} : tmp' = [tmp EXCEPT ![f] = t]
      BY <2>2, FileTypes DEF WriterEnds, Set
    <3>2. Moves(f, disk[f], t, remote[f], "start")
      BY <2>2, <3>1, FileTypes DEF WriterEnds, Set, Moves, WriterAt, WritersInv
    <3>3. QED
      BY <3>2 DEF Moved
  <2>3. CASE SendBreaks(f)
    <3>1. PICK w \in {"start", "done"} : wpc' = [wpc EXCEPT ![f] = w]
      BY <2>3 DEF SendBreaks, Set
    <3>2. UNCHANGED <<disk, tmp, remote>> /\ wpc[f] = "recv" /\ disk[f] # -1
      BY <2>3 DEF SendBreaks, WritersInv
    <3>3. ~(content[f] # <<>> /\ disk[f] = Len(content[f]))
      BY <3>2 DEF WritersInv
    <3>4. Moves(f, disk[f], tmp[f], remote[f], w)
      BY <3>1, <3>2, <3>3, FileTypes DEF Moves, WriterAt
    <3>5. QED
      BY <3>4 DEF Moved
  <2>4. QED
    BY <1>1, <2>1, <2>2, <2>3
<1>5. QED
  BY <1>2, <1>3, <1>4

LEMMA TableTypedSame ==
  ASSUME TableTyped, UNCHANGED <<content, table, refused, again>>
  PROVE  TableTyped'
<1>1. \A f \in Files : Lines(f)' = Lines(f)
  BY DEF Lines
<1>2. QED
  BY <1>1 DEF TableTyped

LEMMA WriterTypes ==
  ASSUME LoaderInv, NEW f \in Files, Moved(f), crashes' \in 0..MaxCrash,
         UNCHANGED <<content, lpc, list, cur, pos, ii, jj, ybsum, linked, txn, table,
                     failures, refused, again>>
  PROVE  LoaderTypes'
<1>1. PICK d, t, r, w : Moves(f, d, t, r, w)
  BY DEF Moved
<1>2. \A g \in Files : Len(content[g]) \in Nat
  BY ContentLines DEF LoaderInv
<1>3. /\ d \in Int /\ t \in Int /\ r \in Int
      /\ disk' \in [Files -> Int] /\ tmp' \in [Files -> Int] /\ remote' \in [Files -> Int]
  BY <1>1, <1>2 DEF Moves, LoaderInv, LoaderTypes, FilesTyped
<1>4. wpc' \in [Files -> WriterAt]
  BY <1>1 DEF Moves, LoaderInv, LoaderTypes, FilesTyped
<1>5. \A g \in Files : /\ disk'[g] \in -1..Len(content[g])
                       /\ tmp'[g] \in -1..Len(content[g])
                       /\ remote'[g] \in 0..Len(content[g])
  BY <1>1, <1>2 DEF Moves, LoaderInv, LoaderTypes, FilesTyped
<1>6. FilesTyped'
  BY <1>3, <1>4, <1>5 DEF LoaderInv, LoaderTypes, FilesTyped
<1>7. LoopTyped' /\ TxnTyped'
  BY DEF LoaderInv, LoaderTypes, LoopTyped, TxnTyped
<1>8. TableTyped'
  BY TableTypedSame DEF LoaderInv, LoaderTypes
<1>9. CountsTyped'
  BY DEF LoaderInv, LoaderTypes, CountsTyped
<1>10. QED
  BY <1>6, <1>7, <1>8, <1>9 DEF LoaderTypes

LEMMA WriterWriters ==
  ASSUME LoaderInv, NEW f \in Files, Moved(f), UNCHANGED content
  PROVE  /\ WritersInv'
         /\ \A g \in Files : Complete(g) => Complete(g)'
         /\ \A g \in Files : Gone(g)' <=> Gone(g)
<1>1. PICK d, t, r, w : Moves(f, d, t, r, w)
  BY DEF Moved
<1>2. \A g \in Files : g # f => disk'[g] = disk[g] /\ tmp'[g] = tmp[g] /\ wpc'[g] = wpc[g]
  BY <1>1 DEF Moves, LoaderInv, LoaderTypes, FilesTyped
<1>3. disk'[f] = d /\ tmp'[f] = t /\ wpc'[f] = w
  BY <1>1 DEF Moves, LoaderInv, LoaderTypes, FilesTyped
<1>4. \A g \in Files : Gone(g)' <=> Gone(g)
  BY <1>1, <1>2, <1>3 DEF Moves, Gone
<1>5. \A g \in Files : Complete(g) => Complete(g)'
  BY <1>1, <1>2, <1>3 DEF Moves, Complete, LoaderInv, WritersInv
<1>6. WritersInv'
  BY <1>1, <1>2, <1>3, <1>4 DEF Moves, WritersInv, LoaderInv
<1>7. QED
  BY <1>4, <1>5, <1>6

-----------------------------------------------------------------------------
(* What a step that leaves a part alone leaves true.                        *)

LEMMA WalkSame ==
  ASSUME WalkInv, UNCHANGED <<content, lpc, cur, pos, ii, jj, linked, txn>>
  PROVE  WalkInv'
BY DEF WalkInv

LEMMA TableSame ==
  ASSUME TableInv, UNCHANGED <<content, table, refused>>,
         \A f \in Files : again'[f] + Kept(f)' = again[f] + Kept(f)
  PROVE  TableInv'
<1>1. \A f \in Files : Lines(f)' = Lines(f)
  BY DEF Lines
<1>2. QED
  BY <1>1 DEF TableInv

LEMMA WriterKeeps ==
  ASSUME LoaderInv, Writer
  PROVE  LoaderInv'
<1>1. PICK f \in Files : Moved(f)
  BY WriterMoves DEF LoaderInv
<1>2. /\ crashes' \in 0..MaxCrash
      /\ UNCHANGED <<content, lpc, list, cur, pos, ii, jj, ybsum, linked, txn, table,
                     failures, refused, again>>
  BY WriterMoves DEF LoaderInv
<1>3. LoaderTypes'
  BY <1>1, <1>2, WriterTypes
<1>4. /\ WritersInv'
      /\ \A g \in Files : Complete(g) => Complete(g)'
      /\ \A g \in Files : Gone(g)' <=> Gone(g)
  BY <1>1, <1>2, WriterWriters
<1>5. ReadingInv'
  BY <1>2, <1>4 DEF ReadingInv, LoaderInv
<1>6. WalkInv'
  BY <1>2, WalkSame DEF LoaderInv
<1>7. TableInv'
  <2>1. \A g \in Files : again'[g] + Kept(g)' = again[g] + Kept(g)
    BY <1>2, <1>4 DEF Kept
  <2>2. QED
    BY <1>2, <2>1, TableSame DEF LoaderInv
<1>8. QED
  BY <1>3, <1>4, <1>5, <1>6, <1>7 DEF LoaderInv

-----------------------------------------------------------------------------
(* The loader.                                                              *)

LEMMA FilesTypedSame ==
  ASSUME FilesTyped, UNCHANGED <<content, disk, tmp, remote, wpc>>
  PROVE  FilesTyped'
BY DEF FilesTyped

LEMMA WritersSame ==
  ASSUME WritersInv, UNCHANGED <<content, disk, tmp, wpc>>
  PROVE  /\ WritersInv'
         /\ \A f \in Files : (Complete(f)' <=> Complete(f)) /\ (Gone(f)' <=> Gone(f))
<1>1. \A f \in Files : (Complete(f)' <=> Complete(f)) /\ (Gone(f)' <=> Gone(f))
  BY DEF Complete, Gone
<1>2. QED
  BY <1>1 DEF WritersInv

\* A step that leaves the files alone, is not about a commit or a file to be
\* removed, and ends where no transaction is open.
LEMMA AwayStep ==
  ASSUME LoaderInv, UNCHANGED <<content, disk, tmp, remote, wpc, table, refused, again>>,
         lpc # "remove", lpc' \in {"off", "connect", "opendir", "readdir", "check"},
         lpc' = "check" => cur' \in Files, txn' = {}, jj' = 0,
         list' \subseteq Files, cur' \in Files \cup {NoFile}, pos' \in Nat, ii' \in Nat,
         ybsum' \in Nat, linked' \in BOOLEAN, CountsTyped'
  PROVE  LoaderInv'
<1>1. LoaderTypes'
  <2>1. LoopTyped'
    BY DEF LoopTyped
  <2>2. TxnTyped'
    BY DEF TxnTyped
  <2>3. QED
    BY <2>1, <2>2, FilesTypedSame, TableTypedSame DEF LoaderInv, LoaderTypes
<1>2. WritersInv' /\ \A f \in Files : Gone(f)' <=> Gone(f)
  BY WritersSame DEF LoaderInv
<1>3. ReadingInv'
  BY DEF ReadingInv
<1>4. WalkInv'
  BY DEF WalkInv
<1>5. TableInv'
  <2>1. \A f \in Files : again'[f] + Kept(f)' = again[f] + Kept(f)
    BY <1>2 DEF Kept
  <2>2. QED
    BY <2>1, TableSame DEF LoaderInv
<1>6. QED
  BY <1>1, <1>2, <1>3, <1>4, <1>5 DEF LoaderInv

LEMMA AwaySteps ==
  ASSUME LoaderInv, Start \/ Connect \/ ConnectFails \/ OpenDir \/ ReadDir \/ ReadDirEnds
                    \/ InsertFails \/ (Crash /\ lpc # "remove")
  PROVE  LoaderInv'
<1>1. LoopTyped /\ CountsTyped /\ MaxFail \in Nat /\ MaxCrash \in Nat
  BY LoaderConstants DEF LoaderInv, LoaderTypes
<1>2. (lpc \notin {"station", "rows"} => txn = {}) /\ (lpc # "rows" => jj = 0)
  BY DEF LoaderInv, ReadingInv
<1>3. CASE Start \/ Connect \/ OpenDir \/ ReadDir
  <2>1. UNCHANGED <<content, disk, tmp, remote, wpc, table, refused, again, crashes, failures>>
    BY <1>3 DEF Start, Connect, OpenDir, ReadDir, writers, dbase, ghosts
  <2>2. /\ lpc # "remove" /\ lpc' \in {"off", "connect", "opendir", "readdir", "check"}
        /\ txn' = {} /\ jj' = 0 /\ pos' \in Nat /\ ii' \in Nat /\ ybsum' \in Nat
        /\ linked' \in BOOLEAN
    BY <1>1, <1>2, <1>3 DEF Start, Connect, OpenDir, ReadDir, dbase, LoopTyped
  <2>3. /\ list' \subseteq Files /\ cur' \in Files \cup {NoFile}
        /\ lpc' = "check" => cur' \in Files
    BY <1>1, <1>3 DEF Start, Connect, OpenDir, ReadDir, LoopTyped
  <2>4. CountsTyped'
    BY <1>1, <2>1 DEF CountsTyped
  <2>5. QED
    BY <2>1, <2>2, <2>3, <2>4, AwayStep
<1>4. CASE ConnectFails \/ ReadDirEnds \/ InsertFails \/ (Crash /\ lpc # "remove")
  <2>1. /\ UNCHANGED <<content, disk, tmp, remote, wpc, table, refused, again>>
        /\ Ends /\ lpc # "remove"
    BY <1>4 DEF ConnectFails, ReadDirEnds, InsertFails, Crash, writers, ghosts
  <2>2. CountsTyped'
    BY <1>1, <1>4 DEF ConnectFails, ReadDirEnds, InsertFails, Crash, DatabaseFails, CountsTyped
  <2>3. QED
    BY <2>1, <2>2, AwayStep DEF Ends
<1>5. QED
  BY <1>3, <1>4

-----------------------------------------------------------------------------
(* The walk through a file as it should be.                                 *)

LEMMA WellFormedFile ==
  ASSUME NEW c, WellFormed(c)
  PROVE  /\ getddtime(c) # 0
         /\ c[getddtime(c)] = [kind |-> "count", n |-> Cardinality(Stations(c))]
         /\ \A k \in Stations(c) : k > getddtime(c) /\ (k + 1)..(k + c[k].n) \subseteq RowsOf(c)
         /\ \A r \in RowsOf(c) : \E k \in Stations(c) : r \in (k + 1)..(k + c[k].n)
<1>1. getddtime(c) # 0
  BY Zenon DEF WellFormed
<1>2. c[getddtime(c)] = [kind |-> "count", n |-> Cardinality(Stations(c))]
  BY Zenon DEF WellFormed, Stations
<1>3. \A k \in Stations(c) : k > getddtime(c) /\ (k + 1)..(k + c[k].n) \subseteq RowsOf(c)
  BY Zenon DEF WellFormed, Stations
<1>4. \A r \in RowsOf(c) : \E k \in Stations(c) : r \in (k + 1)..(k + c[k].n)
  BY Zenon DEF WellFormed, Stations
<1>5. QED
  BY <1>1, <1>2, <1>3, <1>4

LEMMA FileLines ==
  ASSUME NEW c \in Seq(Line)
  PROVE  /\ Len(c) \in Nat /\ DOMAIN c = 1..Len(c)
         /\ \A k \in DOMAIN c : c[k] \in Line /\ c[k].n \in Nat
         /\ Stations(c) \in SUBSET Nat /\ RowsOf(c) \in SUBSET Nat
         /\ \A k \in Stations(c) : c[k].n \in Nat
         /\ IsFiniteSet(Stations(c)) /\ Stations(c) \cap RowsOf(c) = {}
<1>1. Len(c) \in Nat /\ DOMAIN c = 1..Len(c)
  BY LenProperties
<1>2. \A k \in DOMAIN c : c[k] \in Line /\ c[k].n \in Nat
  <2>1. \A k \in DOMAIN c : c[k] \in Line
    BY ElementOfSeq, <1>1
  <2>2. QED
    BY <2>1 DEF Line
<1>3. Stations(c) \in SUBSET (1..Len(c)) /\ RowsOf(c) \in SUBSET (1..Len(c))
  BY <1>1 DEF Stations, RowsOf
<1>4. IsFiniteSet(1..Len(c))
  BY <1>1, FS_Interval
<1>5. IsFiniteSet(Stations(c))
  BY <1>3, <1>4, FS_Subset
<1>6. Stations(c) \cap RowsOf(c) = {}
  BY DEF Stations, RowsOf
<1>7. QED
  BY <1>1, <1>2, <1>3, <1>5, <1>6

LEMMA WalkHead ==
  ASSUME NEW c \in Seq(Line), WellFormed(c), NEW h, h = getddtime(c), h \in Nat
  PROVE  /\ Walk(c, h, Number(c[h]), 0)
         /\ \A k \in RowsOf(c) : ~(k <= h)
<1>1. /\ c[h] = [kind |-> "count", n |-> Cardinality(Stations(c))]
      /\ \A k \in Stations(c) : k > h
      /\ \A r \in RowsOf(c) : \E k \in Stations(c) : r \in (k + 1)..(k + c[k].n)
  BY WellFormedFile
<1>2. Number(c[h]) = Cardinality(Stations(c))
  BY <1>1 DEF Number
<1>3. {k \in Stations(c) : k > h} = Stations(c)
  BY <1>1
<1>4. (h + 1)..(h + 0) = {}
  OBVIOUS
<1>5. \A k \in Stations(c) : ~(k <= h)
  BY <1>1, FileLines
<1>6. Walk(c, h, Number(c[h]), 0)
  BY <1>2, <1>3, <1>4, <1>5 DEF Walk
<1>7. ASSUME NEW r \in RowsOf(c), r <= h PROVE FALSE
  <2>1. PICK k \in Stations(c) : r \in (k + 1)..(k + c[k].n)
    BY <1>1
  <2>2. k > h /\ k \in Nat /\ r \in Nat /\ r >= k + 1
    BY <1>1, <2>1, FileLines
  <2>3. QED
    BY <1>7, <2>2
<1>8. QED
  BY <1>6, <1>7

LEMMA WalkStation ==
  ASSUME NEW c \in Seq(Line), WellFormed(c), NEW p \in Nat, NEW i \in Nat, i > 0,
         Walk(c, p, i, 0), NEW x, x = getcityid(c, p)
  PROVE  /\ x # 0 /\ Walk(c, x, i - 1, c[x].n)
         /\ \A k \in RowsOf(c) : k <= x => k <= p
<1> DEFINE S == {k \in Stations(c) : k > p}
<1>1. /\ Stations(c) \in SUBSET Nat /\ RowsOf(c) \in SUBSET Nat
      /\ \A k \in Stations(c) : c[k].n \in Nat
      /\ IsFiniteSet(Stations(c)) /\ IsFiniteSet(S)
  BY FileLines, FS_Subset
<1>2. /\ x \in Nat
      /\ x # 0 => x \in Stations(c) /\ x > p /\ \A m \in Stations(c) : m > p => x <= m
      /\ x = 0 => \A m \in Stations(c) : ~(m > p)
  BY NextStation
<1>3. Cardinality(S) = i /\ \A k \in Stations(c) : k <= p => k + c[k].n <= p + 0
  BY DEF Walk
<1>4. S # {}
  BY <1>3, FS_EmptySet
<1>5. x # 0 /\ x \in S
  BY <1>2, <1>4
<1>6. Cardinality(S \ {x}) = i - 1
  BY <1>1, <1>3, <1>5, FS_RemoveElement
<1>7. {k \in Stations(c) : k > x} = S \ {x}
  <2>1. ASSUME NEW k \in Stations(c), k > x PROVE k \in S \ {x}
    <3>1. k \in Nat /\ x \in Nat /\ x > p
      BY <1>1, <1>2, <1>5
    <3>2. k > p /\ k # x
      BY <2>1, <3>1
    <3>3. QED
      BY <3>2
  <2>2. ASSUME NEW k \in S \ {x} PROVE k > x
    <3>1. k \in Nat /\ x \in Nat /\ x <= k /\ k # x
      BY <1>1, <1>2, <1>5, <2>2
    <3>2. QED
      BY <3>1
  <2>3. QED
    BY <2>1, <2>2
<1>8. \A k \in Stations(c) : k <= x => k + c[k].n <= x + c[x].n
  <2> SUFFICES ASSUME NEW k \in Stations(c), k <= x PROVE k + c[k].n <= x + c[x].n
    OBVIOUS
  <2>1. PICK a, b : a = c[k].n /\ b = c[x].n
    OBVIOUS
  <2>2. a \in Nat /\ b \in Nat /\ k \in Nat /\ x > p
    BY <1>1, <1>2, <1>5, <2>1
  <2>3. (k <= p => k + a <= p + 0) /\ (k > p => x <= k)
    BY <1>2, <1>3, <1>5, <2>1
  <2>4. k = x => a = b
    BY <2>1
  <2>5. k + a <= x + b
    BY <1>2, <2>2, <2>3, <2>4
  <2>6. QED
    BY <2>1, <2>5
<1>9. (x + 1)..(x + c[x].n) \subseteq RowsOf(c)
  BY <1>5, WellFormedFile
<1>10. ASSUME NEW k \in RowsOf(c), k <= x PROVE k <= p
  <2>1. PICK s \in Stations(c) : k \in (s + 1)..(s + c[s].n)
    BY WellFormedFile
  <2>2. PICK a : a = c[s].n
    OBVIOUS
  <2>3. a \in Nat /\ s \in Nat /\ k \in Nat /\ s + 1 <= k /\ k <= s + a
    BY <1>1, <2>1, <2>2
  <2>4. (s <= p => s + a <= p + 0) /\ (s > p => x <= s)
    BY <1>2, <1>3, <1>5, <2>2
  <2>5. QED
    BY <1>2, <1>10, <2>3, <2>4
<1>11. Walk(c, x, i - 1, c[x].n)
  BY <1>6, <1>7, <1>8, <1>9 DEF Walk
<1>12. QED
  BY <1>5, <1>10, <1>11

LEMMA WalkRow ==
  ASSUME NEW c \in Seq(Line), NEW p \in Nat, NEW i, NEW j \in Nat, j > 0,
         p + 1 \in RowsOf(c), Walk(c, p, i, j)
  PROVE  Walk(c, p + 1, i, j - 1)
<1>1. Stations(c) \in SUBSET Nat /\ p + 1 \notin Stations(c) /\ p + j = (p + 1) + (j - 1)
  BY FileLines
<1>2. \A k \in Stations(c) : (k > p + 1 <=> k > p) /\ (k <= p + 1 <=> k <= p)
  <2> SUFFICES ASSUME NEW k \in Stations(c)
               PROVE  (k > p + 1 <=> k > p) /\ (k <= p + 1 <=> k <= p)
    OBVIOUS
  <2>1. k \in Nat /\ k # p + 1
    BY <1>1
  <2>2. QED
    BY <2>1
<1>3. {k \in Stations(c) : k > p + 1} = {k \in Stations(c) : k > p}
  BY <1>2
<1>4. ((p + 1) + 1)..((p + 1) + (j - 1)) \subseteq (p + 1)..(p + j)
  OBVIOUS
<1>5. QED
  BY <1>1, <1>2, <1>3, <1>4 DEF Walk

LEMMA WalkEnd ==
  ASSUME NEW c \in Seq(Line), WellFormed(c), NEW p \in Nat, Walk(c, p, 0, 0)
  PROVE  \A k \in RowsOf(c) : k <= p
<1> SUFFICES ASSUME NEW k \in RowsOf(c) PROVE k <= p
  OBVIOUS
<1>1. PICK s \in Stations(c) : k \in (s + 1)..(s + c[s].n)
  BY WellFormedFile
<1>2. PICK a : a = c[s].n
  OBVIOUS
<1>3. a \in Nat /\ s \in Nat /\ k \in Nat /\ k <= s + a
  BY <1>1, <1>2, FileLines
<1>4. {m \in Stations(c) : m > p} = {}
  <2>1. IsFiniteSet({m \in Stations(c) : m > p})
    BY FileLines, FS_Subset
  <2>2. QED
    BY <2>1, FS_EmptySet DEF Walk
<1>5. s <= p
  BY <1>3, <1>4
<1>6. s + a <= p + 0
  BY <1>2, <1>5 DEF Walk
<1>7. QED
  BY <1>3, <1>6

-----------------------------------------------------------------------------
(* The steps that read a file.                                              *)

LEMMA ReadStep ==
  ASSUME LoaderInv, UNCHANGED <<content, disk, tmp, remote, wpc, table, refused, again>>,
         lpc # "remove", lpc' # "remove", LoopTyped', TxnTyped', CountsTyped',
         ReadingInv', WalkInv'
  PROVE  LoaderInv'
<1>1. LoaderTypes'
  BY FilesTypedSame, TableTypedSame DEF LoaderInv, LoaderTypes
<1>2. WritersInv' /\ \A f \in Files : Gone(f)' <=> Gone(f)
  BY WritersSame DEF LoaderInv
<1>3. \A f \in Files : again'[f] + Kept(f)' = again[f] + Kept(f)
  BY <1>2 DEF Kept
<1>4. TableInv'
  BY <1>3, TableSame DEF LoaderInv
<1>5. QED
  BY <1>1, <1>2, <1>4 DEF LoaderInv

\* What holds of the file that is being read.
LEMMA CurFile ==
  ASSUME LoaderInv, cur \in Files
  PROVE  /\ content[cur] \in Seq(Line) /\ pos \in Nat /\ ii \in Nat /\ jj \in Nat
         /\ Len(content[cur]) \in Nat /\ RowsOf(content[cur]) \subseteq 1..Len(content[cur])
         /\ \A x \in txn : x = <<cur, x[2]>> /\ x[2] \in RowsOf(content[cur]) /\ x[2] <= pos
<1>1. content[cur] \in Seq(Line)
  BY DEF LoaderInv, LoaderTypes, FilesTyped
<1>2. Len(content[cur]) \in Nat /\ RowsOf(content[cur]) \subseteq 1..Len(content[cur])
  BY <1>1, FileLines DEF RowsOf
<1>3. \A x \in txn : x = <<cur, x[2]>>
  BY DEF LoaderInv, LoaderTypes, TxnTyped
<1>4. QED
  BY <1>1, <1>2, <1>3 DEF LoaderInv, LoaderTypes, LoopTyped, ReadingInv

\* The same after a step that reads lines up to pos'.
LEMMA TxnKept ==
  ASSUME LoaderInv, cur \in Files, UNCHANGED <<content, cur, txn>>, pos' \in Nat,
         \A k \in RowsOf(content[cur]) : k <= pos => k <= pos'
  PROVE  /\ TxnTyped'
         /\ \A x \in txn' : x[1] = cur' /\ x[2] \in RowsOf(content'[cur']) /\ x[2] <= pos'
<1>1. \A x \in txn : x = <<cur, x[2]>> /\ x[2] \in RowsOf(content[cur]) /\ x[2] <= pos'
  BY CurFile
<1>2. \A x \in txn : x = <<cur, x[2]>> /\ x[2] \in 1..pos'
  BY <1>1, CurFile
<1>3. TxnTyped'
  BY <1>2 DEF TxnTyped
<1>4. QED
  BY <1>1, <1>3

LEMMA OpenStep ==
  ASSUME LoaderInv, OpenForRead
  PROVE  LoaderInv'
<1>1. /\ lpc = "check" /\ cur \in Files /\ txn = {} /\ jj = 0
      /\ UNCHANGED <<content, disk, tmp, remote, wpc, table, refused, again, crashes, failures>>
  BY DEF OpenForRead, writers, ghosts, dbase, Ends, LoaderInv, ReadingInv
<1>2. LoopTyped /\ CountsTyped /\ CountsTyped' /\ LoaderTypes
  BY <1>1 DEF LoaderInv, LoaderTypes, CountsTyped
<1>3. CASE CheckFileEnd(cur) /\ getddtime(content[cur]) # 0
  <2>1. PICK h : h = getddtime(content[cur])
    OBVIOUS
  <2>2. content[cur] \in Seq(Line) /\ Complete(cur)
    BY <1>1, <1>2, <1>3, CurFile, FileEnd
  <2>3. h \in Nat /\ Number(content[cur][h]) \in Nat
    BY <1>2, <1>3, <2>1, <2>2, HeadLine
  <2>4. /\ lpc' = "station" /\ pos' = h /\ ii' = Number(content[cur][h])
        /\ UNCHANGED <<list, cur, jj, ybsum, linked, txn>>
    BY <1>3, <2>1 DEF OpenForRead, dbase
  <2>5. LoopTyped' /\ TxnTyped'
    BY <1>1, <1>2, <2>3, <2>4 DEF LoopTyped, TxnTyped
  <2>6. Complete(cur)'
    BY <1>1, <2>2, <2>4 DEF Complete
  <2>7. ReadingInv'
    BY <1>1, <2>4, <2>6 DEF ReadingInv
  <2>8. WellFormed(content[cur]) =>
          /\ Walk(content[cur], pos', ii', jj')
          /\ \A k \in RowsOf(content[cur]) : ~(k <= pos')
    BY <1>1, <2>1, <2>2, <2>3, <2>4, WalkHead
  <2>9. WalkInv'
    BY <1>1, <2>4, <2>8 DEF WalkInv
  <2>10. QED
    BY <1>1, <1>2, <2>4, <2>5, <2>7, <2>9, ReadStep
<1>4. CASE ~(CheckFileEnd(cur) /\ getddtime(content[cur]) # 0)
  <2>1. Ends
    BY <1>4 DEF OpenForRead
  <2>2. QED
    BY <1>1, <1>2, <2>1, AwayStep DEF Ends
<1>5. QED
  BY <1>3, <1>4

\* In the two loops of the loader.
LEMMA LoopFacts ==
  ASSUME LoaderInv, lpc \in {"station", "rows"}
  PROVE  /\ cur \in Files /\ Complete(cur) /\ (lpc # "rows" => jj = 0) /\ LoopTyped
         /\ WellFormed(content[cur]) =>
              /\ Walk(content[cur], pos, ii, jj)
              /\ linked => \A k \in RowsOf(content[cur]) : k <= pos => <<cur, k>> \in txn
BY DEF LoaderInv, LoaderTypes, ReadingInv, WalkInv

LEMMA LoopStep ==
  ASSUME LoaderInv, lpc \in {"station", "rows"}, lpc' \in {"station", "rows"},
         UNCHANGED <<content, disk, tmp, remote, wpc, list, cur, table, crashes, failures,
                     refused, again>>,
         pos' \in Nat, ii' \in Nat, jj' \in Nat, ybsum' \in Nat, linked' \in BOOLEAN,
         lpc' = "station" => jj' = 0, TxnTyped',
         \A x \in txn' : x[1] = cur /\ x[2] \in RowsOf(content[cur]) /\ x[2] <= pos',
         WellFormed(content[cur]) =>
           /\ Walk(content[cur], pos', ii', jj')
           /\ linked' => \A k \in RowsOf(content[cur]) : k <= pos' => <<cur, k>> \in txn'
  PROVE  LoaderInv'
<1>1. cur \in Files /\ Complete(cur) /\ LoopTyped /\ CountsTyped
  BY LoopFacts DEF LoaderInv, LoaderTypes
<1>2. LoopTyped' /\ CountsTyped'
  BY <1>1 DEF LoopTyped, CountsTyped
<1>3. Complete(cur)'
  BY <1>1 DEF Complete
<1>4. ReadingInv'
  BY <1>1, <1>3 DEF ReadingInv
<1>5. WalkInv'
  BY DEF WalkInv
<1>6. QED
  BY <1>2, <1>4, <1>5, ReadStep

LEMMA StationStep ==
  ASSUME LoaderInv, Station
  PROVE  LoaderInv'
<1> DEFINE c == content[cur]
<1>1. /\ lpc = "station" /\ lpc' = "rows" /\ ii > 0 /\ ii' = ii - 1
      /\ UNCHANGED <<content, disk, tmp, remote, wpc, list, cur, linked, txn, table,
                     crashes, failures, refused, again>>
  BY DEF Station, writers, ghosts, dbase
<1>2. /\ cur \in Files /\ jj = 0 /\ LoopTyped
      /\ WellFormed(c) =>
           /\ Walk(c, pos, ii, 0)
           /\ linked => \A k \in RowsOf(c) : k <= pos => <<cur, k>> \in txn
  BY <1>1, LoopFacts
<1>3. PICK x : x = getcityid(c, pos)
  OBVIOUS
<1>4. /\ c \in Seq(Line) /\ pos \in Nat /\ ii \in Nat /\ Len(c) \in Nat
      /\ RowsOf(c) \subseteq 1..Len(c)
  BY <1>2, CurFile
<1>5. x \in Nat /\ (x # 0 => x \in Stations(c) /\ x > pos)
  BY <1>3, <1>4, NextStation
<1>6. /\ pos' = IF x = 0 THEN Len(c) ELSE x
      /\ ybsum' = (IF x = 0 THEN ybsum ELSE c[x].n) /\ jj' = ybsum'
  BY <1>3 DEF Station
<1>7. x # 0 => c[x].n \in Nat
  BY <1>4, <1>5, FileLines
<1>8. pos' \in Nat /\ ii' \in Nat /\ jj' \in Nat /\ ybsum' \in Nat /\ linked' \in BOOLEAN
  BY <1>1, <1>2, <1>4, <1>5, <1>6, <1>7 DEF LoopTyped
<1>9. \A k \in RowsOf(c) : k <= pos => k <= pos'
  <2> SUFFICES ASSUME NEW k \in RowsOf(c), k <= pos PROVE k <= pos'
    OBVIOUS
  <2>1. k \in Nat /\ k <= Len(c)
    BY <1>4
  <2>2. QED
    BY <1>4, <1>5, <1>6, <2>1
<1>10. /\ TxnTyped'
       /\ \A y \in txn' : y[1] = cur /\ y[2] \in RowsOf(c) /\ y[2] <= pos'
  BY <1>1, <1>2, <1>8, <1>9, TxnKept
<1>11. ASSUME WellFormed(c)
       PROVE  /\ Walk(c, pos', ii', jj')
              /\ linked' => \A k \in RowsOf(c) : k <= pos' => <<cur, k>> \in txn'
  <2>1. /\ x # 0 /\ Walk(c, x, ii - 1, c[x].n)
        /\ \A k \in RowsOf(c) : k <= x => k <= pos
    BY <1>1, <1>2, <1>3, <1>4, <1>11, WalkStation
  <2>2. pos' = x /\ jj' = c[x].n
    BY <1>6, <2>1
  <2>3. QED
    BY <1>1, <1>2, <1>11, <2>1, <2>2
<1>12. QED
  <2> HIDE DEF c
  <2>1. c = content[cur]
    BY DEF c
  <2>2. QED
    BY <1>1, <1>8, <1>10, <1>11, <2>1, LoopStep

LEMMA RowsEndStep ==
  ASSUME LoaderInv, RowsEnd
  PROVE  LoaderInv'
<1>1. /\ lpc = "rows" /\ lpc' = "station" /\ jj = 0
      /\ UNCHANGED <<content, disk, tmp, remote, wpc, list, cur, pos, ii, jj, ybsum, linked,
                     txn, table, crashes, failures, refused, again>>
  BY DEF RowsEnd, writers, ghosts, dbase
<1>2. /\ cur \in Files /\ LoopTyped
      /\ WellFormed(content[cur]) =>
           /\ Walk(content[cur], pos, ii, jj)
           /\ linked => \A k \in RowsOf(content[cur]) : k <= pos => <<cur, k>> \in txn
  BY <1>1, LoopFacts
<1>3. pos' \in Nat /\ ii' \in Nat /\ jj' \in Nat /\ ybsum' \in Nat /\ linked' \in BOOLEAN
  BY <1>1, <1>2 DEF LoopTyped
<1>4. /\ TxnTyped'
      /\ \A y \in txn' : y[1] = cur /\ y[2] \in RowsOf(content[cur]) /\ y[2] <= pos'
  BY <1>1, <1>2, <1>3, TxnKept
<1>5. QED
  BY <1>1, <1>2, <1>3, <1>4, LoopStep

\* In a file as it should be the loader never meets such a line.
LEMMA BadLineStep ==
  ASSUME LoaderInv, BadLine
  PROVE  LoaderInv'
<1> DEFINE c == content[cur]
<1>1. /\ lpc = "rows" /\ lpc' = "rows" /\ jj > 0 /\ jj' = jj - 1 /\ pos + 1 \notin RowsOf(c)
      /\ pos' = Least(pos + 1, Len(c))
      /\ UNCHANGED <<content, disk, tmp, remote, wpc, list, cur, ii, ybsum, linked,
                     txn, table, crashes, failures, refused, again>>
  BY DEF BadLine, writers, ghosts, dbase
<1>2. cur \in Files /\ LoopTyped /\ (WellFormed(c) => Walk(c, pos, ii, jj))
  BY <1>1, LoopFacts
<1>3. pos \in Nat /\ jj \in Nat /\ Len(c) \in Nat /\ RowsOf(c) \subseteq 1..Len(c)
  BY <1>2, CurFile
<1>4. ~WellFormed(c)
  <2>1. pos + 1 \in (pos + 1)..(pos + jj)
    BY <1>1, <1>3
  <2>2. QED
    BY <1>1, <1>2, <2>1 DEF Walk
<1>5. pos' \in Nat /\ ii' \in Nat /\ jj' \in Nat /\ ybsum' \in Nat /\ linked' \in BOOLEAN
  BY <1>1, <1>2, <1>3 DEF LoopTyped, Least
<1>6. \A k \in RowsOf(c) : k <= pos => k <= pos'
  BY <1>1, <1>3 DEF Least
<1>7. /\ TxnTyped'
      /\ \A y \in txn' : y[1] = cur /\ y[2] \in RowsOf(content[cur]) /\ y[2] <= pos'
  BY <1>1, <1>2, <1>5, <1>6, TxnKept
<1>8. QED
  BY <1>1, <1>4, <1>5, <1>7, LoopStep

LEMMA InsertStep ==
  ASSUME LoaderInv, Insert
  PROVE  LoaderInv'
<1> DEFINE c == content[cur]
<1>1. /\ lpc = "rows" /\ lpc' = "rows" /\ jj > 0 /\ jj' = jj - 1 /\ pos + 1 \in RowsOf(c)
      /\ pos' = pos + 1 /\ txn' = txn \cup {<<cur, pos + 1>>} /\ linked
      /\ UNCHANGED <<content, disk, tmp, remote, wpc, list, cur, ii, ybsum, linked,
                     table, crashes, failures, refused, again>>
  BY DEF Insert, writers, ghosts, dbase
<1>2. /\ cur \in Files /\ LoopTyped
      /\ WellFormed(c) =>
           /\ Walk(c, pos, ii, jj)
           /\ linked => \A k \in RowsOf(c) : k <= pos => <<cur, k>> \in txn
  BY <1>1, LoopFacts
<1>3. /\ c \in Seq(Line) /\ pos \in Nat /\ jj \in Nat /\ Len(c) \in Nat
      /\ RowsOf(c) \subseteq 1..Len(c)
      /\ \A x \in txn : x = <<cur, x[2]>> /\ x[2] \in RowsOf(c) /\ x[2] <= pos
  BY <1>2, CurFile
<1>4. pos' \in Nat /\ ii' \in Nat /\ jj' \in Nat /\ ybsum' \in Nat /\ linked' \in BOOLEAN
  BY <1>1, <1>2, <1>3 DEF LoopTyped
<1>5. \A y \in txn' : y = <<cur, y[2]>> /\ y[1] = cur /\ y[2] \in RowsOf(c) /\ y[2] <= pos'
  <2>1. ASSUME NEW y \in txn
        PROVE  y = <<cur, y[2]>> /\ y[1] = cur /\ y[2] \in RowsOf(c) /\ y[2] <= pos'
    <3>1. y = <<cur, y[2]>> /\ y[2] \in RowsOf(c) /\ y[2] <= pos
      BY <1>3
    <3>2. y[2] \in Nat
      BY <1>3, <3>1
    <3>3. y[2] <= pos'
      BY <1>1, <1>3, <3>1, <3>2
    <3>4. QED
      BY <3>1, <3>3
  <2>2. QED
    BY <1>1, <1>3, <2>1
<1>6. TxnTyped'
  <2>1. \A y \in txn' : y[2] \in 1..pos'
    BY <1>3, <1>4, <1>5
  <2>2. QED
    BY <1>1, <1>2, <1>5, <2>1 DEF TxnTyped
<1>7. ASSUME WellFormed(c)
      PROVE  /\ Walk(c, pos', ii', jj')
             /\ linked' => \A k \in RowsOf(c) : k <= pos' => <<cur, k>> \in txn'
  <2>1. Walk(c, pos + 1, ii, jj - 1)
    BY <1>1, <1>2, <1>3, <1>7, WalkRow
  <2>2. \A k \in RowsOf(c) : k <= pos + 1 => k <= pos \/ k = pos + 1
    BY <1>3
  <2>3. QED
    BY <1>1, <1>2, <1>7, <2>1, <2>2
<1>8. QED
  BY <1>1, <1>4, <1>5, <1>6, <1>7, LoopStep

LEMMA LostStep ==
  ASSUME LoaderInv, LinkCut
  PROVE  LoaderInv'
<1>1. /\ linked' = FALSE /\ txn' = {} /\ failures < MaxFail /\ failures' = failures + 1
      /\ UNCHANGED <<content, disk, tmp, remote, wpc, lpc, list, cur, pos, ii, jj, ybsum,
                     table, crashes, refused, again>>
  BY DEF LinkCut, writers, ghosts, loader
<1>2. /\ LoopTyped /\ CountsTyped /\ ReadingInv /\ WalkInv /\ TableInv /\ MaxFail \in Nat
      /\ LoaderTypes
  BY LoaderConstants DEF LoaderInv, LoaderTypes
<1>3. LoopTyped' /\ TxnTyped' /\ CountsTyped'
  <2>1. LoopTyped'
    BY <1>1, <1>2 DEF LoopTyped
  <2>2. TxnTyped'
    BY <1>1 DEF TxnTyped
  <2>3. CountsTyped'
    BY <1>1, <1>2 DEF CountsTyped
  <2>4. QED
    BY <2>1, <2>2, <2>3
<1>4. WritersInv' /\ \A f \in Files : (Complete(f)' <=> Complete(f)) /\ (Gone(f)' <=> Gone(f))
  BY <1>1, WritersSame DEF LoaderInv
<1>5. LoaderTypes'
  BY <1>1, <1>2, <1>3, FilesTypedSame, TableTypedSame DEF LoaderTypes
<1>6. ReadingInv'
  BY <1>1, <1>2, <1>4 DEF ReadingInv
<1>7. WalkInv'
  BY <1>1, <1>2 DEF WalkInv
<1>8. TableInv'
  <2>1. \A f \in Files : again'[f] + Kept(f)' = again[f] + Kept(f)
    BY <1>1, <1>4 DEF Kept
  <2>2. QED
    BY <1>1, <1>2, <2>1, TableSame
<1>9. QED
  BY <1>4, <1>5, <1>6, <1>7, <1>8 DEF LoaderInv

-----------------------------------------------------------------------------
(* The commit, and what becomes of the file after it.                       *)

\* A step after which the loader has just loaded the file, or will read the next.
LEMMA AfterStep ==
  ASSUME LoaderInv, cur \in Files, Complete(cur)', WritersInv', FilesTyped', TableTyped',
         CountsTyped', TableInv', lpc' = "remove", txn' = {}, jj = 0,
         UNCHANGED <<list, cur, pos, ii, jj, ybsum, linked>>
  PROVE  LoaderInv'
<1>1. LoopTyped' /\ TxnTyped'
  BY DEF LoaderInv, LoaderTypes, LoopTyped, TxnTyped
<1>2. ReadingInv' /\ WalkInv'
  BY DEF ReadingInv, WalkInv
<1>3. QED
  BY <1>1, <1>2 DEF LoaderInv, LoaderTypes

LEMMA FileTable ==
  ASSUME LoaderInv, NEW f \in Files
  PROVE  /\ again[f] \in Nat /\ \A k \in Lines(f) : table[f][k] \in Nat
         /\ RowsOf(content[f]) \subseteq Lines(f)
         /\ Kept(f) \in 0..1 /\ (lpc = "station" /\ Complete(f) => Kept(f) = 0)
<1>1. again[f] \in Nat /\ \A k \in Lines(f) : table[f][k] \in Nat
  BY DEF LoaderInv, LoaderTypes, TableTyped
<1>2. RowsOf(content[f]) \subseteq Lines(f)
  BY DEF RowsOf, Lines
<1>3. lpc = "station" /\ Complete(f) => Kept(f) = 0
  <2> SUFFICES ASSUME lpc = "station", Complete(f) PROVE Kept(f) = 0
    OBVIOUS
  <2>1. Len(content[f]) \in Nat /\ disk[f] = Len(content[f])
    BY ContentLines DEF LoaderInv, Complete
  <2>2. ~Gone(f)
    BY <2>1 DEF Gone
  <2>3. QED
    BY <2>2 DEF Kept
<1>4. QED
  BY <1>1, <1>2, <1>3 DEF Kept

LEMMA LoaderCommitStep ==
  ASSUME LoaderInv, Commit
  PROVE  LoaderInv'
<1> DEFINE one(f, k) == IF <<f, k>> \in txn THEN 1 ELSE 0
<1>1. /\ lpc = "station" /\ lpc' = "remove" /\ ii = 0 /\ linked /\ txn' = {}
      /\ UNCHANGED <<content, disk, tmp, remote, wpc, list, cur, pos, ii, jj, ybsum, linked,
                     crashes, failures, refused, again>>
  BY DEF Commit, writers, ghosts
<1>2. table' = [f \in Files |-> [k \in Lines(f) |-> table[f][k] + one(f, k)]]
  BY DEF Commit
<1>3. /\ cur \in Files /\ Complete(cur) /\ jj = 0
      /\ WellFormed(content[cur]) =>
           /\ Walk(content[cur], pos, 0, 0)
           /\ \A k \in RowsOf(content[cur]) : k <= pos => <<cur, k>> \in txn
  BY <1>1, LoopFacts
<1>4. /\ content[cur] \in Seq(Line) /\ pos \in Nat
      /\ \A x \in txn : x = <<cur, x[2]>> /\ x[2] \in RowsOf(content[cur])
  BY <1>3, CurFile
<1>5. WritersInv' /\ \A f \in Files : (Complete(f)' <=> Complete(f)) /\ (Gone(f)' <=> Gone(f))
  BY <1>1, WritersSame DEF LoaderInv
<1>6. \A f \in Files : Lines(f)' = Lines(f)
  BY <1>1 DEF Lines
<1>7. \A f \in Files : \A k \in Lines(f) :
        table'[f][k] = table[f][k] + one(f, k) /\ one(f, k) \in 0..1
  BY <1>2
<1>8. TableTyped'
  <2>1. \A f \in Files : \A k \in Lines(f) : table[f][k] + one(f, k) \in Nat
    <3> SUFFICES ASSUME NEW f \in Files, NEW k \in Lines(f)
                 PROVE  table[f][k] + one(f, k) \in Nat
      OBVIOUS
    <3>1. table[f][k] \in Nat /\ one(f, k) \in Nat
      BY FileTable
    <3> HIDE DEF one
    <3>2. QED
      BY <3>1
  <2>2. \A f \in Files : table'[f] \in [Lines(f) -> Nat]
    BY <1>2, <2>1
  <2>3. DOMAIN table' = Files
    BY <1>2
  <2>4. QED
    BY <1>1, <1>6, <2>2, <2>3 DEF LoaderInv, LoaderTypes, TableTyped
<1>9. \A f \in Files : f # cur => Kept(f)' = Kept(f) /\ \A k \in Lines(f) : one(f, k) = 0
  <2>1. \A f \in Files : f # cur => Kept(f)' = Kept(f)
    BY <1>1, <1>5 DEF Kept
  <2>2. \A f \in Files : f # cur => \A k \in Lines(f) : <<f, k>> \notin txn
    BY <1>4
  <2>3. QED
    BY <2>1, <2>2
<1>10. Kept(cur) = 0
  BY <1>1, <1>3, FileTable
<1>11. WellFormed(content[cur]) => \A k \in RowsOf(content[cur]) : one(cur, k) = 1
  <2> SUFFICES ASSUME WellFormed(content[cur]), NEW k \in RowsOf(content[cur])
               PROVE  <<cur, k>> \in txn
    OBVIOUS
  <2>1. k <= pos
    BY <1>3, <1>4, WalkEnd
  <2>2. QED
    BY <1>3, <2>1
<1>12. \A k \in Lines(cur) : one(cur, k) > 0 => k \in RowsOf(content[cur])
  <2> SUFFICES ASSUME NEW k \in Lines(cur), <<cur, k>> \in txn
               PROVE  k \in RowsOf(content[cur])
    OBVIOUS
  <2>1. QED
    BY <1>4
<1> HIDE DEF one
<1>13. ASSUME NEW f \in Files
       PROVE  /\ \A k \in Lines(f) : /\ table'[f][k] > 0 => k \in RowsOf(content[f])
                                     /\ table'[f][k] <= again[f] + Kept(f)'
              /\ WellFormed(content[f]) =>
                   \A k, l \in RowsOf(content[f]) :
                     /\ table'[f][k] = table'[f][l]
                     /\ f \notin refused => table'[f][k] = again[f] + Kept(f)'
  <2>1. /\ \A k \in Lines(f) : /\ table[f][k] > 0 => k \in RowsOf(content[f])
                               /\ table[f][k] <= again[f] + Kept(f)
        /\ WellFormed(content[f]) =>
             \A k, l \in RowsOf(content[f]) :
               /\ table[f][k] = table[f][l]
               /\ f \notin refused => table[f][k] = again[f] + Kept(f)
    BY DEF LoaderInv, TableInv
  <2>2. /\ again[f] \in Nat /\ \A k \in Lines(f) : table[f][k] \in Nat
        /\ RowsOf(content[f]) \subseteq Lines(f)
    BY FileTable
  <2>3. \A k \in Lines(f) : table'[f][k] = table[f][k] + one(f, k) /\ one(f, k) \in 0..1
    BY <1>7
  <2>4. CASE f # cur
    <3>1. Kept(f)' = Kept(f) /\ \A k \in Lines(f) : table'[f][k] = table[f][k]
      BY <1>9, <2>2, <2>3, <2>4
    <3>2. QED
      BY <2>1, <2>2, <3>1
  <2>5. CASE f = cur
    <3>1. Kept(f) = 0 /\ Kept(f)' = 1
      <4>1. Kept(f) = 0
        BY <1>10, <2>5
      <4>2. Kept(f)' = 1
        BY <1>1, <2>5 DEF Kept
      <4>3. QED
        BY <4>1, <4>2
    <3>2. \A k \in Lines(f) : one(f, k) > 0 => k \in RowsOf(content[f])
      BY <1>12, <2>5
    <3>3. WellFormed(content[f]) => \A k \in RowsOf(content[f]) : one(f, k) = 1
      BY <1>11, <2>5
    <3>4. \A k \in Lines(f) : /\ table'[f][k] > 0 => k \in RowsOf(content[f])
                              /\ table'[f][k] <= again[f] + 1
      <4> SUFFICES ASSUME NEW k \in Lines(f)
                   PROVE  /\ table'[f][k] > 0 => k \in RowsOf(content[f])
                          /\ table'[f][k] <= again[f] + 1
        OBVIOUS
      <4>1. PICK a, b, t : a = again[f] /\ b = one(f, k) /\ t = table[f][k]
        OBVIOUS
      <4>2. a \in Nat /\ b \in 0..1 /\ t \in Nat /\ table'[f][k] = t + b /\ t <= a + 0
        BY <2>1, <2>2, <2>3, <3>1, <4>1
      <4>3. (t > 0 => k \in RowsOf(content[f])) /\ (b > 0 => k \in RowsOf(content[f]))
        BY <2>1, <3>2, <4>1
      <4>4. QED
        BY <4>1, <4>2, <4>3
    <3>5. ASSUME WellFormed(content[f]), NEW k \in RowsOf(content[f]),
                 NEW l \in RowsOf(content[f])
          PROVE  /\ table'[f][k] = table'[f][l]
                 /\ f \notin refused => table'[f][k] = again[f] + 1
      <4>1. k \in Lines(f) /\ l \in Lines(f) /\ one(f, k) = 1 /\ one(f, l) = 1
        BY <2>2, <3>3, <3>5
      <4>2. table'[f][k] = table[f][k] + 1 /\ table'[f][l] = table[f][l] + 1
        BY <2>3, <4>1
      <4>3. table[f][k] = table[f][l] /\ (f \notin refused => table[f][k] = again[f] + 0)
        BY <2>1, <3>1, <3>5
      <4>4. QED
        BY <2>2, <4>2, <4>3
    <3>6. QED
      BY <3>1, <3>4, <3>5
  <2>6. QED
    BY <2>4, <2>5
<1>14. TableInv'
  BY <1>1, <1>6, <1>13 DEF TableInv
<1>15. FilesTyped' /\ CountsTyped'
  BY <1>1, FilesTypedSame DEF LoaderInv, LoaderTypes, CountsTyped
<1>16. Complete(cur)'
  BY <1>1, <1>3 DEF Complete
<1>17. QED
  BY <1>1, <1>3, <1>5, <1>8, <1>14, <1>15, <1>16, AfterStep

LEMMA RefusedStep ==
  ASSUME LoaderInv, CommitFails
  PROVE  LoaderInv'
<1>1. /\ lpc = "station" /\ lpc' = "remove" /\ txn' = {} /\ refused' = refused \cup {cur}
      /\ UNCHANGED <<content, disk, tmp, remote, wpc, list, cur, pos, ii, jj, ybsum, linked,
                     table, crashes, again>>
  BY DEF CommitFails, writers
<1>2. CountsTyped'
  BY <1>1, LoaderConstants DEF CommitFails, DatabaseFails, LoaderInv, LoaderTypes, CountsTyped
<1>3. cur \in Files /\ Complete(cur) /\ jj = 0
  BY <1>1, LoopFacts
<1>4. WritersInv' /\ \A f \in Files : (Complete(f)' <=> Complete(f)) /\ (Gone(f)' <=> Gone(f))
  BY <1>1, WritersSame DEF LoaderInv
<1>5. \A f \in Files : Lines(f)' = Lines(f)
  BY <1>1 DEF Lines
<1>6. FilesTyped' /\ TableTyped'
  <2>1. FilesTyped'
    BY <1>1, FilesTypedSame DEF LoaderInv, LoaderTypes
  <2>2. TableTyped'
    BY <1>1, <1>3, <1>5 DEF LoaderInv, LoaderTypes, TableTyped
  <2>3. QED
    BY <2>1, <2>2
<1>7. ASSUME NEW f \in Files
      PROVE  /\ Kept(f)' \in 0..1 /\ Kept(f) \in 0..1 /\ Kept(f) <= Kept(f)'
             /\ f \notin refused' => Kept(f)' = Kept(f)
  <2>1. CASE f # cur
    <3>1. Kept(f)' = Kept(f)
      BY <1>1, <1>4, <2>1 DEF Kept
    <3>2. QED
      BY <3>1, FileTable
  <2>2. CASE f = cur
    <3>1. Kept(f) = 0 /\ f \in refused'
      BY <1>1, <1>3, <2>2, FileTable
    <3>2. Kept(f)' = 1
      BY <1>1, <2>2 DEF Kept
    <3>3. QED
      BY <3>1, <3>2
  <2>3. QED
    BY <2>1, <2>2
<1>8. TableInv'
  <2> SUFFICES ASSUME NEW f \in Files
        PROVE  /\ \A k \in Lines(f) : /\ table[f][k] > 0 => k \in RowsOf(content[f])
                                      /\ table[f][k] <= again[f] + Kept(f)'
               /\ WellFormed(content[f]) =>
                    \A k, l \in RowsOf(content[f]) :
                      /\ table[f][k] = table[f][l]
                      /\ f \notin refused' => table[f][k] = again[f] + Kept(f)'
    BY <1>1, <1>5 DEF TableInv
  <2>1. /\ \A k \in Lines(f) : /\ table[f][k] > 0 => k \in RowsOf(content[f])
                               /\ table[f][k] <= again[f] + Kept(f)
        /\ WellFormed(content[f]) =>
             \A k, l \in RowsOf(content[f]) :
               /\ table[f][k] = table[f][l]
               /\ f \notin refused => table[f][k] = again[f] + Kept(f)
    BY DEF LoaderInv, TableInv
  <2>2. again[f] \in Nat /\ \A k \in Lines(f) : table[f][k] \in Nat
    BY FileTable
  <2>3. \A k \in Lines(f) : table[f][k] <= again[f] + Kept(f)'
    <3> SUFFICES ASSUME NEW k \in Lines(f) PROVE table[f][k] <= again[f] + Kept(f)'
      OBVIOUS
    <3>1. PICK a, t, p, q : a = again[f] /\ t = table[f][k] /\ p = Kept(f) /\ q = Kept(f)'
      OBVIOUS
    <3>2. a \in Nat /\ t \in Nat /\ p \in 0..1 /\ q \in 0..1 /\ p <= q /\ t <= a + p
      BY <1>7, <2>1, <2>2, <3>1
    <3>3. t <= a + q
      BY <3>2
    <3>4. QED
      BY <3>1, <3>3
  <2>4. f \notin refused' => f \notin refused /\ Kept(f)' = Kept(f)
    BY <1>1, <1>7
  <2>5. QED
    BY <2>1, <2>3, <2>4
<1>9. Complete(cur)'
  BY <1>1, <1>3 DEF Complete
<1>10. QED
  BY <1>1, <1>2, <1>3, <1>4, <1>6, <1>8, <1>9, AfterStep

\* Steps at the removal: the file is gone, or left behind and may be loaded again.
LEMMA RemoveStep ==
  ASSUME LoaderInv, CloseAndRemove
  PROVE  LoaderInv'
<1>1. /\ lpc = "remove" /\ lpc' = "readdir" /\ disk' = [disk EXCEPT ![cur] = -1]
      /\ UNCHANGED <<content, tmp, remote, wpc, list, cur, pos, ii, jj, ybsum, linked, txn,
                     table, crashes, failures, refused, again>>
  BY DEF CloseAndRemove, Set, ghosts, dbase
<1>2. /\ cur \in Files /\ Complete(cur) /\ txn = {} /\ jj = 0 /\ LoaderTypes
      /\ wpc[cur] = "done"
  BY <1>1 DEF LoaderInv, ReadingInv, WritersInv, Complete
<1>3. disk'[cur] = -1 /\ \A f \in Files : f # cur => disk'[f] = disk[f]
  BY <1>1, <1>2 DEF LoaderTypes, FilesTyped
<1>4. FilesTyped'
  <2>1. disk' \in [Files -> Int]
    <3>1. disk \in [Files -> Int] /\ -1 \in Int /\ cur \in Files
      BY <1>2 DEF LoaderTypes, FilesTyped
    <3>2. disk' = [disk EXCEPT ![cur] = -1]
      BY <1>1
    <3>3. QED
      BY ONLY <3>1, <3>2
  <2>2. \A f \in Files : disk'[f] \in -1..Len(content[f])
    BY <1>2, <1>3, ContentLines DEF LoaderTypes, FilesTyped
  <2>3. QED
    BY <1>1, <1>2, <2>1, <2>2 DEF LoaderTypes, FilesTyped
<1>5. LoaderTypes'
  <2>1. LoopTyped'
    BY <1>1, <1>2 DEF LoaderTypes, LoopTyped
  <2>2. TxnTyped'
    BY <1>1, <1>2 DEF TxnTyped
  <2>3. CountsTyped'
    BY <1>1, <1>2 DEF LoaderTypes, CountsTyped
  <2>4. QED
    BY <1>1, <1>2, <1>4, <2>1, <2>2, <2>3, TableTypedSame DEF LoaderTypes
<1>6. Gone(cur)' /\ \A f \in Files : f # cur => (Gone(f)' <=> Gone(f))
  BY <1>1, <1>2, <1>3 DEF Gone
<1>7. WritersInv'
  <2> SUFFICES ASSUME NEW f \in Files
        PROVE  /\ content[f] # <<>> /\ disk'[f] = Len(content[f]) => wpc[f] = "done"
               /\ wpc[f] \in {"get", "put"} => tmp[f] # -1
               /\ wpc[f] = "recv" => disk'[f] # -1
               /\ Gone(f)' => content[f] # <<>> /\ content[f][Len(content[f])].kind = "end"
    BY <1>1 DEF WritersInv
  <2>1. /\ content[f] # <<>> /\ disk[f] = Len(content[f]) => wpc[f] = "done"
        /\ wpc[f] \in {"get", "put"} => tmp[f] # -1
        /\ wpc[f] = "recv" => disk[f] # -1
        /\ Gone(f) => content[f] # <<>> /\ content[f][Len(content[f])].kind = "end"
    BY DEF LoaderInv, WritersInv
  <2>2. CASE f # cur
    BY <1>3, <1>6, <2>1, <2>2
  <2>3. CASE f = cur
    BY <1>2, <2>1, <2>3 DEF Complete
  <2>4. QED
    BY <2>2, <2>3
<1>8. ReadingInv' /\ WalkInv'
  BY <1>1, <1>2 DEF ReadingInv, WalkInv
<1>9. \A f \in Files : again'[f] + Kept(f)' = again[f] + Kept(f)
  BY <1>1, <1>6 DEF Kept
<1>10. TableInv'
  BY <1>1, <1>9, TableSame DEF LoaderInv
<1>11. QED
  BY <1>5, <1>7, <1>8, <1>10 DEF LoaderInv

LEMMA LeftStep ==
  ASSUME LoaderInv, RemoveFails \/ (Crash /\ lpc = "remove")
  PROVE  LoaderInv'
<1>1. /\ lpc = "remove" /\ again' = [again EXCEPT ![cur] = @ + 1]
      /\ UNCHANGED <<content, disk, tmp, remote, wpc, table, refused>>
  <2>1. CASE RemoveFails
    BY <2>1 DEF RemoveFails, writers, dbase
  <2>2. CASE Crash /\ lpc = "remove"
    BY <2>2 DEF Crash, writers
  <2>3. QED
    BY <2>1, <2>2
<1>2. cur \in Files /\ Complete(cur) /\ txn = {} /\ jj = 0 /\ LoaderTypes
  BY <1>1 DEF LoaderInv, ReadingInv
<1>3. lpc' \in {"readdir", "off"} /\ LoopTyped' /\ txn' = {} /\ jj' = 0
  <2>1. CASE RemoveFails
    BY <1>2, <2>1 DEF RemoveFails, loader, dbase, LoaderTypes, LoopTyped
  <2>2. CASE Crash
    BY <1>2, <2>2 DEF Crash, Ends, LoaderTypes, LoopTyped
  <2>3. QED
    BY <2>1, <2>2
<1>4. TxnTyped'
  BY <1>3 DEF TxnTyped
<1>5. CountsTyped'
  <2>1. CASE RemoveFails
    BY <1>2, <2>1, LoaderConstants DEF RemoveFails, LoaderTypes, CountsTyped
  <2>2. CASE Crash
    BY <1>2, <2>2, LoaderConstants DEF Crash, LoaderTypes, CountsTyped
  <2>3. QED
    BY <2>1, <2>2
<1>6. again \in [Files -> Nat] /\ again' \in [Files -> Nat]
  BY <1>1, <1>2 DEF LoaderTypes, TableTyped
<1>7. TableTyped'
  <2>1. \A f \in Files : Lines(f)' = Lines(f)
    BY <1>1 DEF Lines
  <2>2. QED
    BY <1>1, <1>2, <1>6, <2>1 DEF LoaderTypes, TableTyped
<1>8. LoaderTypes'
  BY <1>1, <1>2, <1>3, <1>4, <1>5, <1>7, FilesTypedSame DEF LoaderTypes
<1>9. WritersInv' /\ \A f \in Files : Gone(f)' <=> Gone(f)
  BY <1>1, WritersSame DEF LoaderInv
<1>10. ReadingInv' /\ WalkInv'
  BY <1>3 DEF ReadingInv, WalkInv
<1>11. \A f \in Files : again'[f] + Kept(f)' = again[f] + Kept(f)
  <2> SUFFICES ASSUME NEW f \in Files PROVE again'[f] + Kept(f)' = again[f] + Kept(f)
    OBVIOUS
  <2>1. CASE f # cur
    <3>1. again'[f] = again[f]
      BY <1>1, <1>6, <2>1
    <3>2. Kept(f)' = Kept(f)
      BY <1>3, <1>9, <2>1 DEF Kept
    <3>3. QED
      BY <3>1, <3>2
  <2>2. CASE f = cur
    <3>1. again'[f] = again[f] + 1 /\ again[f] \in Nat
      BY <1>1, <1>6, <2>2
    <3>2. ~Gone(f)
      <4>1. disk[f] = Len(content[f]) /\ Len(content[f]) \in Nat
        BY <1>2, <2>2, ContentLines DEF Complete
      <4>2. QED
        BY <4>1 DEF Gone
    <3>3. Kept(f) = 1 /\ Kept(f)' = 0
      BY <1>1, <1>3, <1>9, <2>2, <3>2 DEF Kept
    <3>4. QED
      BY <3>1, <3>3
  <2>3. QED
    BY <2>1, <2>2
<1>12. TableInv'
  BY <1>1, <1>11, TableSame DEF LoaderInv
<1>13. QED
  BY <1>2, <1>8, <1>9, <1>10, <1>12 DEF LoaderInv

-----------------------------------------------------------------------------
(* The invariant of the loader.                                             *)

LEMMA LoaderStep ==
  ASSUME LoaderInv, LoadNext
  PROVE  LoaderInv'
<1>1. CASE Writer
  BY <1>1, WriterKeeps
<1>2. CASE Start \/ ConnectFails \/ InsertFails
  BY <1>2, AwaySteps
<1>3. CASE Load
  <2>1. CASE Connect \/ OpenDir \/ ReadDir \/ ReadDirEnds
    BY <2>1, AwaySteps
  <2>2. CASE OpenForRead
    BY <2>2, OpenStep
  <2>3. CASE Station
    BY <2>3, StationStep
  <2>4. CASE RowsEnd
    BY <2>4, RowsEndStep
  <2>5. CASE BadLine
    BY <2>5, BadLineStep
  <2>6. CASE Insert
    BY <2>6, InsertStep
  <2>7. CASE Commit
    BY <2>7, LoaderCommitStep
  <2>8. CASE CloseAndRemove
    BY <2>8, RemoveStep
  <2>9. QED
    BY <1>3, <2>1, <2>2, <2>3, <2>4, <2>5, <2>6, <2>7, <2>8 DEF Load
<1>4. CASE CommitFails
  BY <1>4, RefusedStep
<1>5. CASE RemoveFails
  BY <1>5, LeftStep
<1>6. CASE LinkCut
  BY <1>6, LostStep
<1>7. CASE Crash
  BY <1>7, AwaySteps, LeftStep
<1>8. QED
  BY <1>1, <1>2, <1>3, <1>4, <1>5, <1>6, <1>7 DEF LoadNext

LEMMA LoaderStutter ==
  ASSUME LoaderInv, UNCHANGED loadvars
  PROVE  LoaderInv'
<1>1. UNCHANGED <<content, disk, tmp, remote, wpc, lpc, list, cur, pos, ii, jj, ybsum, linked,
                  txn, table, crashes, failures, refused, again>>
  BY DEF loadvars, writers, loader, dbase, ghosts
<1>2. LoaderTypes'
  <2>1. LoopTyped' /\ TxnTyped' /\ CountsTyped'
    BY <1>1 DEF LoaderInv, LoaderTypes, LoopTyped, TxnTyped, CountsTyped
  <2>2. QED
    BY <1>1, <2>1, FilesTypedSame, TableTypedSame DEF LoaderInv, LoaderTypes
<1>3. WritersInv' /\ \A f \in Files : (Complete(f)' <=> Complete(f)) /\ (Gone(f)' <=> Gone(f))
  BY <1>1, WritersSame DEF LoaderInv
<1>4. ReadingInv'
  BY <1>1, <1>3 DEF LoaderInv, ReadingInv
<1>5. WalkInv'
  BY <1>1, WalkSame DEF LoaderInv
<1>6. \A f \in Files : again'[f] + Kept(f)' = again[f] + Kept(f)
  BY <1>1, <1>3 DEF Kept
<1>7. TableInv'
  BY <1>1, <1>6, TableSame DEF LoaderInv
<1>8. QED
  BY <1>2, <1>3, <1>4, <1>5, <1>7 DEF LoaderInv

LEMMA LoaderInit ==
  ASSUME LoadInit
  PROVE  LoaderInv
<1>1. content \in [Files -> UNION {Contents[f] : f \in Files}]
      /\ \A f \in Files : content[f] \in Contents[f]
  BY DEF LoadInit
<1>2. \A f \in Files : content[f] \in Seq(Line)
  BY <1>1, LoaderConstants
<1>3. content \in [Files -> Seq(Line)] /\ \A f \in Files : Len(content[f]) \in Nat
  BY <1>1, <1>2, LenProperties
<1>4. /\ disk = [f \in Files |-> -1] /\ tmp = [f \in Files |-> -1] /\ remote = [f \in Files |-> 0]
      /\ wpc = [f \in Files |-> "start"]
  BY DEF LoadInit
<1>5. /\ lpc = "off" /\ list = {} /\ cur = NoFile /\ pos = 0 /\ ii = 0 /\ jj = 0 /\ ybsum = 0
      /\ linked = FALSE /\ txn = {} /\ crashes = 0 /\ failures = 0 /\ refused = {}
      /\ again = [f \in Files |-> 0]
  BY DEF LoadInit
<1>6. table = [f \in Files |-> [k \in Lines(f) |-> 0]]
  BY DEF LoadInit
<1>7. FilesTyped
  BY <1>1, <1>3, <1>4 DEF FilesTyped, WriterAt
<1>8. LoopTyped /\ TxnTyped
  <2>1. LoopTyped
    BY <1>5 DEF LoopTyped
  <2>2. TxnTyped
    BY <1>5 DEF TxnTyped
  <2>3. QED
    BY <2>1, <2>2
<1>9. CountsTyped
  BY <1>5, LoaderConstants DEF CountsTyped
<1>10. TableTyped
  BY <1>5, <1>6 DEF TableTyped
<1>11. WritersInv
  BY <1>3, <1>4 DEF WritersInv, Gone
<1>12. ReadingInv /\ WalkInv
  BY <1>5 DEF ReadingInv, WalkInv
<1>13. TableInv
  <2>1. \A f \in Files : Kept(f) = 0
    BY <1>4, <1>5 DEF Kept, Gone
  <2>2. \A f \in Files : RowsOf(content[f]) \subseteq Lines(f)
    BY DEF RowsOf, Lines
  <2>3. \A f \in Files : again[f] = 0 /\ \A k \in Lines(f) : table[f][k] = 0
    BY <1>5, <1>6
  <2>4. QED
    BY <2>1, <2>2, <2>3 DEF TableInv
<1>14. QED
  BY <1>7, <1>8, <1>9, <1>10, <1>11, <1>12, <1>13 DEF LoaderInv, LoaderTypes

LEMMA LoaderInvExact == LoaderInv => LoadExact
<1> SUFFICES ASSUME LoaderInv PROVE LoadExact
  OBVIOUS
<1>1. LoaderTypes /\ TableInv /\ WritersInv
  BY DEF LoaderInv
<1>2. LoadTypeOK
  <2>1. FilesTyped /\ LoopTyped /\ TxnTyped /\ TableTyped /\ CountsTyped
    BY <1>1 DEF LoaderTypes
  <2>2. QED
    BY <2>1 DEF LoadTypeOK, FilesTyped, LoopTyped, TxnTyped, TableTyped, CountsTyped, WriterAt
<1>3. ASSUME NEW f \in Files
      PROVE  /\ \A k \in Lines(f) :
                  table[f][k] > 0 => k \in RowsOf(content[f]) /\ table[f][k] <= again[f] + 1
             /\ WellFormed(content[f]) =>
                  \A k, l \in RowsOf(content[f]) : table[f][k] = table[f][l]
             /\ Gone(f) => /\ content[f][Len(content[f])].kind = "end"
                           /\ WellFormed(content[f]) /\ f \notin refused
                                => \A k \in RowsOf(content[f]) : table[f][k] = again[f] + 1
  <2>1. /\ \A k \in Lines(f) : /\ table[f][k] > 0 => k \in RowsOf(content[f])
                               /\ table[f][k] <= again[f] + Kept(f)
        /\ WellFormed(content[f]) =>
             \A k, l \in RowsOf(content[f]) :
               /\ table[f][k] = table[f][l]
               /\ f \notin refused => table[f][k] = again[f] + Kept(f)
    BY <1>1 DEF TableInv
  <2>2. again[f] \in Nat /\ \A k \in Lines(f) : table[f][k] \in Nat
    BY FileTable
  <2>3. Kept(f) \in 0..1 /\ (Gone(f) => Kept(f) = 1)
    BY DEF Kept
  <2>4. \A k \in Lines(f) : table[f][k] <= again[f] + 1
    <3> SUFFICES ASSUME NEW k \in Lines(f) PROVE table[f][k] <= again[f] + 1
      OBVIOUS
    <3>1. PICK a, t, p : a = again[f] /\ t = table[f][k] /\ p = Kept(f)
      OBVIOUS
    <3>2. a \in Nat /\ t \in Nat /\ p \in 0..1 /\ t <= a + p
      BY <2>1, <2>2, <2>3, <3>1
    <3>3. t <= a + 1
      BY <3>2
    <3>4. QED
      BY <3>1, <3>3
  <2>5. Gone(f) => content[f][Len(content[f])].kind = "end"
    BY <1>1 DEF WritersInv
  <2>6. QED
    BY <2>1, <2>3, <2>4, <2>5
<1>4. QED
  BY <1>2, <1>3 DEF LoadExact

\* However often the loader is killed and started again, and whatever becomes of
\* its statements and commits: a well-formed file is in the table as a whole or not
\* at all, and as often as it was committed if no commit was refused; only whole files are removed, and
\* nothing but their rows gets into the table (pspccfiles.cpp 125-174).
THEOREM LoaderExact == LoadSpec => []LoadExact
<1>1. LoadInit => LoaderInv
  BY LoaderInit
<1>2. LoaderInv /\ [LoadNext]_loadvars => LoaderInv'
  BY LoaderStep, LoaderStutter
<1>3. LoaderInv => LoadExact
  BY LoaderInvExact
<1>4. QED
  BY <1>1, <1>2, <1>3, PTL DEF LoadSpec
=============================================================================
