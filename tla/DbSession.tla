----------------------------- MODULE DbSession -----------------------------
(***************************************************************************)
(* The classes connection and sqlstatement of freec++, which exist three   *)
(* times with the same interface: over the C client of MySQL               *)
(* (freec++/db/mysql), over OCI for Oracle (freec++/db/oracle, of which    *)
(* the bank server has a copy) and over libpq for PostgreSQL               *)
(* (freec++/db/postgresql).  A program is linked with one of them (drv)    *)
(* and calls the methods of one connection and of some statements in any   *)
(* order; "ret" is what the last call returned.                            *)
(*                                                                         *)
(* The server and the vendors' clients are external: a transaction, a      *)
(* link that may be lost, statements and commits that may be refused.      *)
(* Rows are numbers given in the order of insertion.  Error codes are      *)
(* reduced to those the code distinguishes; message texts and output       *)
(* buffers are left out.                                                   *)
(***************************************************************************)
EXTENDS Integers, Sequences, FiniteSets

CONSTANTS Drivers,    \* the libraries that are compared
          Stmts,      \* the program's sqlstatement objects
          Kinds,      \* Kinds[s]: the SQL texts that s is given
          MaxRow,     \* bound on the rows inserted
          MaxFault,   \* bound on lost links, refusals and uninitialised states
          MaxBind     \* bound on the calls of bindin per prepare

ASSUME DbAssumption ==
  /\ Drivers \subseteq {"mysql", "oracle", "postgresql"}
  /\ Kinds \in [Stmts -> SUBSET {"insert", "select"}]
  /\ MaxRow \in Nat /\ MaxFault \in Nat /\ MaxBind \in Nat

VARIABLES
  drv,     \* the library the program is linked with
  conn,    \* connection: m_state, its handle (m_conn or m_cxt), m_autocommitopt
  stmt,    \* each sqlstatement: m_state, m_handle, SQL, m_cda.rc, m_cda.rpc, ...
  db,      \* the server: link, open transaction, whether it failed, committed rows
  ret,     \* the last call and what it returned
  faults,  \* faults so far
  n,       \* rows inserted so far
  dead,    \* why a handle was used that does not exist, or "no"
  seen     \* for the properties only: what the program was told

vars == <<drv, conn, stmt, db, ret, faults, n, dead, seen>>

Params   == 1..2            \* the parameters of the INSERT
NoResult == -2              \* m_handle has no result, or it was not executed
AtEnd    == -1              \* the end of the result has been read
END_MYSQL == 100            \* MYSQL_NO_DATA
END_OTHER == 1403

-----------------------------------------------------------------------------
(* The server and the vendors' client libraries.                            *)

\* A call on the connection reaches the server.
Reaches == conn.h = "open" /\ db.link

\* The MySQL client refuses a command while another statement's rows are
\* unread ("commands out of sync"): results are not stored by the client.
InSync(s) == \A o \in Stmts \ {s} : stmt[o].left < 0

\* What the server answers to a statement or a COMMIT: one that it refuses is
\* a fault, and so is one in a transaction of PostgreSQL that has failed.
Refuses == faults < MaxFault /\ faults' = faults + 1
Accepts == faults' = faults

\* The rows a query returns now.
Visible == db.table \cup db.txn

Ended == [db EXCEPT !.txn = {}, !.failed = FALSE]
Committed == [Ended EXCEPT !.table = db.table \cup db.txn]

\* The link is lost: the server rolls the open transaction back.
LinkLost ==
  /\ dead = "no" /\ conn.state = 1 /\ db.link /\ faults < MaxFault
  /\ faults' = faults + 1
  /\ db' = [Ended EXCEPT !.link = FALSE]
  /\ UNCHANGED <<drv, conn, stmt, ret, n, dead, seen>>

-----------------------------------------------------------------------------
(* What a call leaves behind.                                               *)

Return(v) == ret' = v

\* A call that dereferences a handle which is null, freed or uninitialised.
Dies(why) ==
  /\ dead' = why
  /\ UNCHANGED <<drv, conn, stmt, db, ret, faults, n, seen>>

\* Statements lose their handles when their connection is closed.
Orphaned == [s \in Stmts |-> IF stmt[s].h = "open"
                             THEN [stmt[s] EXCEPT !.h = "stale"] ELSE stmt[s]]

\* With MySQL what such a statement has not fetched is gone with the link.
Detached == [s \in Stmts |-> [Orphaned[s] EXCEPT !.left = NoResult]]

\* Bookkeeping of the properties: commit answered 0, rollback or disconnect
\* answered 0, and a transaction whose end was answered with an error.
Told   == [seen EXCEPT !.told = @ \cup seen.owed, !.owed = {}, !.marred = FALSE,
                       !.lost = IF seen.marred THEN @ \cup seen.owed ELSE @]
Undone == [seen EXCEPT !.undone = @ \cup seen.owed, !.owed = {}, !.marred = FALSE]
Shut   == [Undone EXCEPT !.closed = TRUE]
Unsure == [seen EXCEPT !.owed = {}, !.failedEnd = TRUE, !.marred = FALSE]

-----------------------------------------------------------------------------
(* connection over MySQL (_mysql.cpp).                                      *)

My_connecttodb(a) ==
  \/ /\ conn.state = 1
     /\ Return(0) /\ UNCHANGED <<conn, db, faults>>
  \/ /\ conn.state = 0 /\ Refuses
     /\ conn' = [conn EXCEPT !.h = "null"]
     /\ Return(-1) /\ UNCHANGED db
  \/ /\ conn.state = 0 /\ Accepts
     /\ conn' = [state |-> 1, h |-> "open", auto |-> a]
     /\ db' = [Ended EXCEPT !.link = TRUE]
     /\ Return(0)

\* Mutant: m_state is not reset.
My_disconnectKeepsState ==
  /\ conn' = [conn EXCEPT !.h = "null"]
  /\ db' = Ended /\ stmt' = Detached

\* Rolls back and closes; the result of the rollback is not looked at.
My_disconnect ==
  /\ conn' = [conn EXCEPT !.state = 0, !.h = "null"]
  /\ db' = Ended /\ stmt' = Detached

\* mysql_commit or mysql_rollback failed: the connection is closed and its
\* handle set to NULL, but m_state remains 1.
My_CloseFailed ==
  /\ conn' = [conn EXCEPT !.h = "null"]
  /\ db' = Ended /\ stmt' = Detached
  /\ seen' = Unsure

My_rollback ==
  \/ /\ Reaches /\ InSync("")
     /\ db' = Ended /\ seen' = Undone
     /\ Return(0) /\ UNCHANGED <<conn, stmt>>
  \/ /\ ~(Reaches /\ InSync(""))
     /\ My_CloseFailed /\ Return(-1)

\* Mutant: the result of mysql_commit is not looked at.
My_commitUnchecked ==
  /\ Accepts
  /\ db' = IF Reaches /\ InSync("") THEN Committed ELSE db
  /\ seen' = Told /\ Return(0)
  /\ UNCHANGED <<conn, stmt>>

My_commit ==
  \/ /\ Reaches /\ InSync("") /\ Accepts
     /\ db' = Committed /\ seen' = Told
     /\ Return(0) /\ UNCHANGED <<conn, stmt>>
  \/ /\ IF Reaches /\ InSync("") THEN Refuses ELSE Accepts
     /\ My_CloseFailed /\ Return(-1)

-----------------------------------------------------------------------------
(* connection over OCI (_ooci.cpp).                                         *)

Oci_connecttodb(a) ==
  \/ /\ conn.state = 1
     /\ Return(0) /\ UNCHANGED <<conn, db, faults>>
  \/ /\ conn.state = 0 /\ Refuses
     /\ Return(-1) /\ UNCHANGED <<conn, db>>
  \/ /\ conn.state = 0 /\ Accepts
     /\ conn' = [state |-> 1, h |-> "open", auto |-> a]
     /\ db' = [Ended EXCEPT !.link = TRUE]
     /\ Return(0)

\* The environment is freed, and every handle made from it.
Oci_disconnect ==
  /\ conn' = [conn EXCEPT !.state = 0, !.h = "freed"]
  /\ db' = Ended /\ stmt' = Orphaned

Oci_rollback ==
  /\ UNCHANGED <<conn, stmt>>
  /\ \/ Reaches /\ db' = Ended /\ seen' = Undone /\ Return(0)
     \/ ~Reaches /\ UNCHANGED db /\ seen' = Unsure /\ Return(2)

Oci_commit ==
  /\ UNCHANGED <<conn, stmt>>
  /\ \/ /\ Reaches /\ Accepts
        /\ db' = Committed /\ seen' = Told /\ Return(0)
     \/ /\ IF Reaches THEN Refuses ELSE Accepts
        /\ db' = Ended /\ seen' = Unsure /\ Return(2)

-----------------------------------------------------------------------------
(* connection over libpq (_postgresql.cpp).                                 *)

\* beginwork reports into m_cda, which it clears first: its result replaces
\* the result of the COMMIT or ROLLBACK before it.
Pg_beginwork == IF conn.auto = 1 \/ Reaches THEN 0 ELSE -1

Pg_connecttodb(a) ==
  \/ /\ conn.state = 1
     /\ Return(0) /\ UNCHANGED <<conn, db, faults>>
  \/ /\ conn.state = 0 /\ Refuses
     /\ Return(-1) /\ UNCHANGED <<conn, db>>
  \/ /\ conn.state = 0 /\ Accepts
     /\ conn' = [state |-> 1, h |-> "open", auto |-> a]
     /\ db' = [Ended EXCEPT !.link = TRUE]
     /\ Return(0)

\* Statements keep working: they look the handle up in their connection.
Pg_disconnect ==
  /\ conn' = [conn EXCEPT !.state = 0, !.h = "null"]
  /\ db' = Ended /\ UNCHANGED stmt

Pg_rollbackwork ==
  /\ UNCHANGED <<conn, stmt>>
  /\ db' = IF conn.auto = 1 THEN db ELSE Ended
  /\ Return(Pg_beginwork)
  /\ seen' = IF Pg_beginwork = 0 THEN Undone ELSE Unsure

\* A failed transaction is rolled back by COMMIT, which does not report it,
\* and a COMMIT that was refused is reported as the BEGIN after it.
Pg_commitwork ==
  /\ UNCHANGED <<conn, stmt>>
  /\ \/ /\ conn.auto = 1 /\ Accepts /\ UNCHANGED db
     \/ /\ conn.auto = 0 /\ Accepts
        /\ db' = IF Reaches /\ ~db.failed THEN Committed ELSE Ended
     \/ /\ conn.auto = 0 /\ Reaches /\ Refuses
        /\ db' = Ended
  /\ Return(Pg_beginwork)
  /\ seen' = IF Pg_beginwork # 0 THEN Unsure
             ELSE IF faults' # faults THEN [Told EXCEPT !.lost = @ \cup seen.owed]
             ELSE Told

-----------------------------------------------------------------------------
(* The methods of connection, whichever library it is.                      *)

connecttodb(a) ==
  /\ dead = "no"
  /\ \/ drv = "mysql"      /\ My_connecttodb(a)
     \/ drv = "oracle"     /\ Oci_connecttodb(a)
     \/ drv = "postgresql" /\ Pg_connecttodb(a)
  /\ seen' = IF conn.state = 0 THEN [seen EXCEPT !.failedEnd = FALSE] ELSE seen
  /\ UNCHANGED <<drv, stmt, n, dead>>

\* disconnect, commit and rollback of a connection that is not open.
NotOpen(op) ==
  /\ dead = "no" /\ conn.state = 0
  /\ Return(-1)
  /\ UNCHANGED <<drv, conn, stmt, db, faults, n, dead, seen>>

\* MySQL: m_state says 1 but m_conn is NULL, since an earlier commit or
\* rollback failed.
NullHandle ==
  /\ dead = "no" /\ drv = "mysql" /\ conn.state = 1 /\ conn.h = "null"
  /\ Dies("null")

IsOpen == dead = "no" /\ conn.state = 1 /\ conn.h = "open"

disconnect ==
  /\ IsOpen
  /\ \/ drv = "mysql"      /\ My_disconnect
     \/ drv = "oracle"     /\ Oci_disconnect
     \/ drv = "postgresql" /\ Pg_disconnect
  /\ Return(0)
  /\ seen' = Shut
  /\ UNCHANGED <<drv, faults, n, dead>>

rollback ==
  /\ IsOpen
  /\ \/ drv = "mysql"      /\ My_rollback
     \/ drv = "oracle"     /\ Oci_rollback
     \/ drv = "postgresql" /\ Pg_rollbackwork
  /\ UNCHANGED <<drv, faults, n, dead>>

commit ==
  /\ IsOpen
  /\ \/ drv = "mysql"      /\ My_commit
     \/ drv = "oracle"     /\ Oci_commit
     \/ drv = "postgresql" /\ Pg_commitwork
  /\ UNCHANGED <<drv, n, dead>>

-----------------------------------------------------------------------------
(* sqlstatement: construction, connect, disconnect.                         *)

Closed == [state |-> 0, h |-> "none", kind |-> "none", sqltype |-> "none",
           rc |-> -1, rpc |-> 0, left |-> NoResult, calls |-> <<>>,
           frozen |-> <<>>, late |-> FALSE, got |-> 0, total |-> 0]

Opened == [Closed EXCEPT !.state = 1, !.h = "open", !.rc = 0]

\* connect: at once if the statement is connected, -1 if the connection is not.
stmtConnect(s) ==
  /\ dead = "no" /\ ~(drv = "mysql" /\ conn.state = 1 /\ conn.h = "null")
  /\ \/ stmt[s].state = 1 /\ UNCHANGED stmt /\ Return(0)
     \/ /\ stmt[s].state = 0 /\ conn.state = 0
        /\ stmt' = [stmt EXCEPT ![s].rc = -1] /\ Return(-1)
     \/ /\ stmt[s].state = 0 /\ conn.state = 1
        /\ stmt' = [stmt EXCEPT ![s] = Opened] /\ Return(0)
  /\ UNCHANGED <<drv, conn, db, faults, n, dead, seen>>

\* The constructor that takes a connection calls the other one on a temporary
\* object, so m_state is not initialised: if it happens to be 1, connect
\* returns at once and no handle is ever made.
stmtConstruct(s) ==
  /\ dead = "no" /\ stmt[s].state = 0 /\ Refuses
  /\ stmt' = [stmt EXCEPT ![s] = [Opened EXCEPT !.h = "wild"]]
  /\ Return(0)
  /\ UNCHANGED <<drv, conn, db, n, dead, seen>>

\* A method of a statement whose handle was never made, or with OCI was freed
\* with the environment of its connection.
DeadStatement(s) ==
  /\ dead = "no" /\ stmt[s].state = 1
  /\ \/ stmt[s].h = "wild" /\ Dies("wild")
     \/ drv = "oracle" /\ stmt[s].h = "stale" /\ Dies("stale")

Usable(s) ==
  /\ dead = "no" /\ stmt[s].state = 1 /\ stmt[s].h # "wild"
  /\ drv = "oracle" => stmt[s].h = "open"

\* disconnect of a statement, also by its destructor.
stmtDisconnect(s) ==
  /\ Usable(s)
  /\ stmt' = [stmt EXCEPT ![s] = Closed]
  /\ Return(0)
  /\ UNCHANGED <<drv, conn, db, faults, n, dead, seen>>

\* prepare, execute and next of a statement that is not connected.
NotConnected(s) ==
  /\ dead = "no" /\ stmt[s].state = 0
  /\ stmt' = [stmt EXCEPT ![s].rc = -1]
  /\ Return(-1)
  /\ UNCHANGED <<drv, conn, db, faults, n, dead, seen>>

-----------------------------------------------------------------------------
(* sqlstatement: prepare, bindin.                                           *)

Prepared(s, k) == [Opened EXCEPT !.h = stmt[s].h, !.kind = k, !.sqltype = k]

\* The server analyses the text; the old statement is given up first.
My_prepare(s, k) ==
  LET ok == Reaches /\ stmt[s].h = "open" /\ InSync(s)
  IN /\ stmt' = [stmt EXCEPT ![s] =
                   IF ok THEN Prepared(s, k)
                   ELSE [Prepared(s, "none") EXCEPT !.rc = 2]]
     /\ Return(IF ok THEN 0 ELSE 2)

\* OCIStmtPrepare does not reach the server: errors appear at execute.
Oci_prepare(s, k) ==
  stmt' = [stmt EXCEPT ![s] = Prepared(s, k)] /\ Return(0)

\* Nothing but the text is stored; m_sqltype is decided by execute.
Pg_prepare(s, k) ==
  /\ stmt' = [stmt EXCEPT ![s] = [Prepared(s, k) EXCEPT !.sqltype = stmt[s].sqltype]]
  /\ Return(0)

prepare(s, k) ==
  /\ Usable(s)
  /\ \/ drv = "mysql"      /\ My_prepare(s, k)
     \/ drv = "oracle"     /\ Oci_prepare(s, k)
     \/ drv = "postgresql" /\ Pg_prepare(s, k)
  /\ UNCHANGED <<drv, conn, db, faults, n, dead, seen>>

\* The program binds its p-th variable to the p-th parameter of the INSERT.
bindin(s, p) ==
  /\ Usable(s) /\ stmt[s].kind = "insert" /\ Len(stmt[s].calls) < MaxBind
  /\ stmt' = [stmt EXCEPT ![s].calls = Append(@, p),
                          ![s].late = @ \/ stmt[s].frozen # <<>>]
  /\ UNCHANGED <<drv, conn, db, ret, faults, n, dead, seen>>

\* The variable of each parameter, or 0 where none was bound.
ByPosition(calls) ==
  [p \in Params |-> IF \E i \in DOMAIN calls : calls[i] = p THEN p ELSE 0]

\* Mutant: the position is used as an index that starts at 0.
My_bindinFrom0(s) ==
  IF stmt[s].frozen = <<>>
  THEN [p \in Params |-> IF p > 1 THEN ByPosition(stmt[s].calls)[p - 1] ELSE 0]
  ELSE stmt[s].frozen

\* mysql_stmt_bind_param copies the bindings, and execute calls it only once.
My_bindin(s) ==
  IF stmt[s].frozen = <<>> THEN ByPosition(stmt[s].calls) ELSE stmt[s].frozen

\* OCIBindByPos: by position, whenever it is called.
Oci_bindin(s) == ByPosition(stmt[s].calls)

\* The position is ignored: each call of bindin adds a parameter.
Pg_bindin(s) == stmt[s].calls

\* The use that suits all three: every parameter once, in order, before the
\* first execute.
Tidy(s) == stmt[s].calls = <<1, 2>> /\ ~stmt[s].late

-----------------------------------------------------------------------------
(* sqlstatement: execute.                                                   *)

\* The server runs the INSERT with these bindings: row n + 1 is in the open
\* transaction, or committed at once if m_autocommitopt is 1.
Inserts(s, val) ==
  /\ stmt[s].kind = "insert" /\ n' = n + 1
  /\ db' = IF conn.auto = 1 THEN [db EXCEPT !.table = @ \cup {n + 1}]
           ELSE [db EXCEPT !.txn = @ \cup {n + 1}]
  /\ seen' = [seen EXCEPT
                !.told = IF conn.auto = 1 THEN @ \cup {n + 1} ELSE @,
                !.owed = IF conn.auto = 1 THEN @ ELSE @ \cup {n + 1},
                !.mixed = @ \/ (Tidy(s) /\ val # <<1, 2>>)]

\* The server runs the SELECT, or the call fails: no row is stored.
Selects(s) == stmt[s].kind = "select" /\ UNCHANGED <<n, db, seen>>
NoEffect   == UNCHANGED <<n, db, seen>>

\* Mutant: m_cda is not cleared, rpc counts on from the query before.
ExecutedCountsOn(s) ==
  IF stmt[s].kind = "insert"
  THEN [stmt[s] EXCEPT !.rc = 0, !.rpc = 1, !.left = NoResult]
  ELSE [stmt[s] EXCEPT !.rc = 0, !.got = 0,
                       !.left = Cardinality(Visible), !.total = Cardinality(Visible)]

\* m_cda is cleared; rpc is the number of rows changed, or 0 before the first
\* fetch.
Executed(s) ==
  IF stmt[s].kind = "insert"
  THEN [stmt[s] EXCEPT !.rc = 0, !.rpc = 1, !.left = NoResult]
  ELSE [stmt[s] EXCEPT !.rc = 0, !.rpc = 0, !.got = 0,
                       !.left = Cardinality(Visible), !.total = Cardinality(Visible)]

Failed(s, code) == [stmt[s] EXCEPT !.rc = code, !.rpc = 0, !.left = NoResult]

My_execute(s) ==
  LET val   == My_bindin(s)
      binds == stmt[s].kind = "insert"
      Bind(t) == [t EXCEPT !.frozen = IF binds THEN val ELSE @]
      runs  == Reaches /\ stmt[s].h = "open" /\ stmt[s].kind # "none" /\ InSync(s)
  IN \/ /\ runs /\ Accepts
        /\ Inserts(s, val) \/ Selects(s)
        /\ stmt' = [stmt EXCEPT ![s] = Bind(Executed(s))]
        /\ Return(0)
     \/ /\ IF runs THEN Refuses ELSE Accepts
        /\ stmt' = [stmt EXCEPT ![s] = Bind(Failed(s, 2))]
        /\ NoEffect /\ Return(2)

Oci_execute(s) ==
  LET val  == Oci_bindin(s)
      runs == /\ Reaches /\ stmt[s].kind # "none"
              /\ stmt[s].kind = "insert" => 0 \notin {val[p] : p \in Params}
  IN \/ /\ runs /\ Accepts
        /\ Inserts(s, val) \/ Selects(s)
        /\ stmt' = [stmt EXCEPT ![s] = [Executed(s) EXCEPT !.frozen = val]]
        /\ Return(0)
     \/ /\ IF runs THEN Refuses ELSE Accepts
        /\ stmt' = [stmt EXCEPT ![s] = Failed(s, 2)]
        /\ NoEffect /\ Return(2)

\* An error makes the open transaction of PostgreSQL a failed one.
Pg_execute(s) ==
  LET val  == Pg_bindin(s)
      runs == /\ Reaches /\ stmt[s].kind # "none" /\ ~db.failed
              /\ stmt[s].kind = "insert" => Len(val) = Cardinality(Params)
      Typed(t) == [t EXCEPT !.sqltype = stmt[s].kind]
      fails == Reaches /\ stmt[s].kind # "none" /\ conn.auto = 0
  IN \/ /\ runs /\ Accepts
        /\ Inserts(s, val) \/ Selects(s)
        /\ stmt' = [stmt EXCEPT ![s] = Typed([Executed(s) EXCEPT !.frozen = val])]
        /\ Return(0)
     \/ /\ IF runs THEN Refuses ELSE Accepts
        /\ stmt' = [stmt EXCEPT ![s] = Typed(Failed(s, -1))]
        /\ db' = [db EXCEPT !.failed = @ \/ fails]
        /\ seen' = [seen EXCEPT !.marred = @ \/ fails]
        /\ UNCHANGED n /\ Return(-1)

execute(s) ==
  /\ Usable(s) /\ (stmt[s].kind = "insert" => n < MaxRow)
  /\ \/ drv = "mysql"      /\ My_execute(s)
     \/ drv = "oracle"     /\ Oci_execute(s)
     \/ drv = "postgresql" /\ Pg_execute(s)
  /\ UNCHANGED <<drv, conn, dead>>

-----------------------------------------------------------------------------
(* sqlstatement: next.                                                      *)

\* A row is copied to the program's variables.
Fetched(s) == /\ stmt' = [stmt EXCEPT ![s].rpc = @ + 1, ![s].got = @ + 1, ![s].left = @ - 1]
              /\ Return(0)

\* next answers with an error that it also keeps in m_cda.rc.
Reports(s, code) ==
  stmt' = [stmt EXCEPT ![s].rc = code] /\ Return(code)

\* Not executed with success, or not a query; before the first prepare (with
\* libpq, execute) m_sqltype is not initialised and may say either.
NoRecordset(s) ==
  \/ stmt[s].rc # 0 /\ UNCHANGED stmt /\ Return(stmt[s].rc)
  \/ stmt[s].rc = 0 /\ stmt[s].sqltype # "select" /\ Reports(s, -1)

IsQuery(s) == stmt[s].rc = 0 /\ stmt[s].sqltype \in {"select", "none"}

\* The end is only returned, so that m_cda.rc stays 0.
My_next(s) ==
  /\ UNCHANGED <<conn, db, seen>>
  /\ \/ NoRecordset(s)
     \/ IsQuery(s) /\ stmt[s].left > 0 /\ Fetched(s)
     \/ /\ IsQuery(s) /\ stmt[s].left \in {0, AtEnd}
        /\ stmt' = [stmt EXCEPT ![s].left = AtEnd]
        /\ Return(END_MYSQL)
     \/ /\ IsQuery(s) /\ (stmt[s].left = NoResult \/ (stmt[s].left >= 0 /\ ~Reaches))
        /\ stmt' = [stmt EXCEPT ![s].rc = 2, ![s].left = NoResult]
        /\ Return(2)

\* An error that is neither the end nor a null or cut column (1405, 1406,
\* which count as success) closes the connection.
Oci_next(s) ==
  \/ NoRecordset(s) /\ UNCHANGED <<conn, db, seen>>
  \/ IsQuery(s) /\ stmt[s].left > 0 /\ Fetched(s) /\ UNCHANGED <<conn, db, seen>>
  \/ IsQuery(s) /\ stmt[s].left = 0 /\ Reports(s, END_OTHER) /\ UNCHANGED <<conn, db, seen>>
  \/ /\ IsQuery(s) /\ (stmt[s].left = NoResult \/ ~Reaches)
     /\ conn' = [conn EXCEPT !.state = 0, !.h = "freed"]
     /\ db' = Ended /\ seen' = Shut
     /\ stmt' = [Orphaned EXCEPT ![s].rc = 2]
     /\ Return(2)

\* m_cda.rpc is the position in the result, which libpq holds as a whole.
Pg_next(s) ==
  /\ UNCHANGED <<conn, db, seen>>
  /\ \/ NoRecordset(s)
     \/ IsQuery(s) /\ stmt[s].left # NoResult /\ stmt[s].rpc < stmt[s].total /\ Fetched(s)
     \/ /\ IsQuery(s) /\ (stmt[s].left = NoResult \/ stmt[s].rpc >= stmt[s].total)
        /\ Reports(s, END_OTHER)

next(s) ==
  /\ Usable(s)
  /\ \/ drv = "mysql"      /\ My_next(s)
     \/ drv = "oracle"     /\ Oci_next(s)
     \/ drv = "postgresql" /\ Pg_next(s)
  /\ UNCHANGED <<drv, faults, n, dead>>

-----------------------------------------------------------------------------

Init ==
  /\ drv \in Drivers
  /\ conn = [state |-> 0, h |-> "none", auto |-> 0]
  /\ stmt = [s \in Stmts |-> Closed]
  /\ db = [link |-> FALSE, txn |-> {}, failed |-> FALSE, table |-> {}]
  /\ ret = 0
  /\ faults = 0 /\ n = 0 /\ dead = "no"
  /\ seen = [told |-> {}, owed |-> {}, undone |-> {}, lost |-> {},
             marred |-> FALSE, failedEnd |-> FALSE, closed |-> FALSE,
             mixed |-> FALSE]

Next ==
  \/ \E a \in {0, 1} : connecttodb(a)
  \/ \E op \in {"disconnect", "rollback", "commit"} : NotOpen(op)
  \/ NullHandle \/ disconnect \/ rollback \/ commit \/ LinkLost
  \/ \E s \in Stmts :
       \/ stmtConnect(s) \/ stmtConstruct(s) \/ DeadStatement(s)
       \/ stmtDisconnect(s) \/ NotConnected(s)
       \/ \E k \in Kinds[s] : prepare(s, k)
       \/ \E p \in Params : bindin(s, p)
       \/ execute(s) \/ next(s)

Spec == Init /\ [][Next]_vars

-----------------------------------------------------------------------------
(* Properties.                                                              *)

Codes == {0, -1, 2, END_MYSQL, END_OTHER}

TypeOK ==
  /\ drv \in Drivers /\ faults \in 0..MaxFault /\ n \in 0..MaxRow
  /\ conn \in [state : {0, 1}, h : {"none", "open", "null", "freed"}, auto : {0, 1}]
  /\ db \in [link : BOOLEAN, txn : SUBSET (1..n), failed : BOOLEAN, table : SUBSET (1..n)]
  /\ ret \in Codes
  /\ \A s \in Stmts :
       /\ stmt[s].rc \in Codes /\ stmt[s].left \in NoResult..n
       /\ stmt[s].h \in {"none", "open", "stale", "wild"}

\* A row whose INSERT and whose commit were both answered 0 is in the table,
\* and one that was rolled back never is.  With PostgreSQL the row may be lost
\* in two ways that no return code shows: a statement of the transaction had
\* failed, or the COMMIT was refused (_postgresql.cpp 121-144).
TxnExact == /\ TypeOK
            /\ seen.told \ seen.lost \subseteq db.table
            /\ drv # "postgresql" => seen.lost = {}
            /\ seen.undone \cap db.table = {}

\* When next says that there is no more row, every row of the result has been
\* fetched, each once, and m_cda.rpc is their number.
FetchExact ==
  \A s \in Stmts :
    LET t == stmt[s] IN
      t.left # NoResult /\ (t.rc = END_OTHER \/ t.left = AtEnd)
        => t.got = t.total /\ t.rpc = t.got

\* Bound once each, in order, before the first execute, the parameters have
\* the values that the program bound to their positions.
BindExact == ~seen.mixed

\* The ways to a handle that does not exist: with MySQL a method of a
\* connection whose commit or rollback failed, with OCI a statement whose
\* connection was closed, by the program or by next.  Otherwise only the
\* uninitialised m_state leads there.
HandlesLive ==
  /\ dead = "null"  => drv = "mysql" /\ seen.failedEnd
  /\ dead = "stale" => drv = "oracle" /\ seen.closed
  /\ dead = "wild"  => faults > 0
=============================================================================
