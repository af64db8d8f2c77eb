----------------------------- MODULE BankServer -----------------------------
(***************************************************************************)
(* The bank server of freec++ (bankserver.cpp, bank.cpp): one thread per   *)
(* client, each request processed on a database connection taken from a    *)
(* pool of connections, each behind a mutex.                               *)
(*                                                                         *)
(* The database is external. It is modelled by what the server relies on:  *)
(* a connection has at most one open transaction; what it changed is seen  *)
(* by itself only, and its rows are locked, until it commits or rolls      *)
(* back; a query sees committed rows and those of its own transaction; a   *)
(* statement that needs a row locked by another connection waits, and one  *)
(* of a cycle of waiting statements fails. One statement (a BEGIN ... END  *)
(* block: the row of the account and a row of T_JYLOG) is atomic, and can  *)
(* fail for reasons of its own. So can a commit, which rolls back then;    *)
(* and when the link of a connection is lost, its transaction is rolled    *)
(* back and nothing succeeds on it any more. The server looks at the       *)
(* result of no commit and no rollback.                                    *)
(***************************************************************************)
EXTENDS Integers, Sequences, FiniteSets

CONSTANTS Clients,  \* connected clients, each with its thread
          NConn,    \* size of the pool of connections
          Accts,    \* account numbers
          Amounts,  \* amounts of money that are sent, whatever their sign
          InitBal,  \* the accounts that exist at first, and their balances
          Ops,      \* kinds of request sent in this instance
          MaxReq,   \* bound on the requests sent
          MaxFault  \* bound on the commits that fail and the links lost

AllOps == {"query", "open", "deposit", "withdraw", "transfer"}
Nobody == "nobody"

ASSUME BankConstants ==
  /\ NConn \in Nat \ {0} /\ MaxReq \in Nat /\ MaxFault \in Nat
  /\ Amounts \subseteq Int
  /\ DOMAIN InitBal \subseteq Accts
  /\ \A a \in DOMAIN InitBal : InitBal[a] \in Nat
  /\ Ops \subseteq AllOps
  /\ Nobody \notin Clients

Pool   == 0..(NConn - 1)
ReqIds == 1..MaxReq
Req    == [id : ReqIds, op : AllOps, userid : Accts, userid1 : Accts,
           je : Amounts \cup {0}]
NoReq  == [id |-> 0]
Stmt   == [req : ReqIds, op : AllOps, step : {"open", "debit", "credit"},
           acct : Accts, row : BOOLEAN, ye : Int]

VARIABLES ye,      \* committed balances
          users,   \* committed accounts
          trans,   \* trans[k]: statements of the open transaction of k
          lost,    \* connections whose link is lost
          faults,  \* commits failed and links lost so far
          mutex,   \* mutex[k]: the client whose thread holds it, or nobody
          sent,    \* requests sent so far
          pc,      \* where the thread of client t is
          req,     \* the request it processes
          iconn,   \* its index into the pool
          \* history
          asked,   \* asked[q]: the kind of request q
          via,     \* via[q]: the connection request q was processed on
          answer,  \* answer[q]: what the client of request q was told
          done,    \* statements that are committed
          unkept   \* requests with statements that a failed commit or a lost
                   \* link rolled back

dbVars   == <<ye, users, trans, lost, faults, done, unkept>>
progVars == <<mutex, sent, pc, req, iconn>>
histVars == <<asked, via, answer>>
vars == <<dbVars, progVars, histVars>>

Init ==
  /\ ye = [a \in Accts |-> IF a \in DOMAIN InitBal THEN InitBal[a] ELSE 0]
  /\ users = DOMAIN InitBal
  /\ trans = [k \in Pool |-> <<>>]
  /\ lost = {} /\ faults = 0
  /\ mutex = [k \in Pool |-> Nobody]
  /\ sent = 0
  /\ pc = [t \in Clients |-> "read"]
  /\ req = [t \in Clients |-> NoReq]
  /\ iconn = [t \in Clients |-> 0]
  /\ asked = [q \in ReqIds |-> "none"]
  /\ via = [q \in ReqIds |-> NConn]
  /\ answer = [q \in ReqIds |-> "none"]
  /\ done = {} /\ unkept = {}

-----------------------------------------------------------------------------
(* The database.                                                            *)

Stmts(k) == {trans[k][i] : i \in DOMAIN trans[k]}

\* What the open transaction of k adds to the balance of a.
Pending(k, a) ==
  LET sum[i \in 0..Len(trans[k])] ==
        IF i = 0 THEN 0
        ELSE sum[i - 1] + (IF trans[k][i].acct = a THEN trans[k][i].ye ELSE 0)
  IN sum[Len(trans[k])]

\* What a query on connection k finds.
Exists(k, a)  == a \in users
                 \/ \E s \in Stmts(k) : s.acct = a /\ s.step = "open"
Balance(k, a) == ye[a] + Pending(k, a)

Commit(k) ==
  /\ ye' = [a \in Accts |-> Balance(k, a)]
  /\ users' = {a \in Accts : Exists(k, a)}
  /\ done' = done \cup Stmts(k)
  /\ trans' = [trans EXCEPT ![k] = <<>>]
  /\ UNCHANGED <<lost, faults, unkept>>

Rollback(k) ==
  /\ trans' = [trans EXCEPT ![k] = <<>>]
  /\ UNCHANGED <<ye, users, done>>

\* The row of a is locked by the transaction of k: it inserted or updated it,
\* be it by 0.
Locks(k, a) == \E s \in Stmts(k) : s.acct = a /\ s.row

Fault == faults < MaxFault /\ faults' = faults + 1

\* The database rolls the transaction of k back of its own accord.
Drop(k) == Rollback(k) /\ unkept' = unkept \cup {s.req : s \in Stmts(k)}

\* The link of k is lost; nobody is told before the connection is used.
LinkLost(k) ==
  /\ k \notin lost /\ lost' = lost \cup {k} /\ Fault
  /\ Drop(k)
  /\ UNCHANGED <<progVars, histVars>>

-----------------------------------------------------------------------------
(* The thread of client t: pthid_main, procmessage.                         *)

Goto(t, p) == pc' = [pc EXCEPT ![t] = p]

\* TcpRead: the next request of the client (userid1 is sent in transfers
\* only, and otherwise the same as userid here; je is 0 where none is sent).
Read(t) ==
  /\ pc[t] = "read" /\ sent < MaxReq
  /\ \E o \in Ops, a, b \in Accts, n \in Amounts \cup {0} :
       /\ o # "transfer" => b = a
       /\ IF o \in {"query", "open"} THEN n = 0 ELSE n \in Amounts
       /\ req' = [req EXCEPT ![t] = [id |-> sent + 1, op |-> o, userid |-> a,
                                     userid1 |-> b, je |-> n]]
       /\ asked' = [asked EXCEPT ![sent + 1] = o]
  /\ sent' = sent + 1
  /\ Goto(t, "trylock")
  /\ UNCHANGED <<dbVars, mutex, iconn, via, answer>>

\* TcpRead or TcpWrite fails, or 80 seconds pass: the thread ends.
HangUp(t) ==
  /\ pc[t] = "read" /\ Goto(t, "gone")
  /\ UNCHANGED <<dbVars, mutex, sent, req, iconn, histVars>>

\* The first step of each kind of request (msgid 1, 3, 7 and 8 only query).
FirstStep == [query |-> "query", open |-> "open", deposit |-> "credit",
              withdraw |-> "check", transfer |-> "check"]

Locked(t) ==
  /\ mutex' = [mutex EXCEPT ![iconn[t]] = t]
  /\ via' = [via EXCEPT ![req[t].id] = iconn[t]]
  /\ Goto(t, FirstStep[req[t].op])

\* Mutant: the result of pthread_mutex_trylock is not looked at.
TryLock_Ignored(t) ==
  /\ pc[t] = "trylock" /\ iconn[t] < NConn /\ Locked(t)
  /\ UNCHANGED <<dbVars, sent, req, iconn, asked, answer>>

\* pthread_mutex_trylock(&mutex[iconn]), one after the other.
TryLock(t) ==
  /\ pc[t] = "trylock" /\ iconn[t] < NConn
  /\ \/ /\ mutex[iconn[t]] = Nobody
        /\ Locked(t) /\ UNCHANGED iconn
     \/ /\ mutex[iconn[t]] # Nobody
        /\ iconn' = [iconn EXCEPT ![t] = @ + 1]
        /\ UNCHANGED <<mutex, via, pc>>
  /\ UNCHANGED <<dbVars, sent, req, asked, answer>>

\* The loop of pthid_main starts over, with its buffers cleared.
NextRound(t) ==
  /\ req' = [req EXCEPT ![t] = NoReq]
  /\ iconn' = [iconn EXCEPT ![t] = 0]

\* The reply is composed, the thread goes on to p.
Told(t, r, p) ==
  /\ answer' = [answer EXCEPT ![req[t].id] = r]
  /\ Goto(t, p)

\* All are locked: the client is told that the system is busy.
Busy(t) ==
  /\ pc[t] = "trylock" /\ iconn[t] = NConn
  /\ Told(t, "busy", "read") /\ NextRound(t)
  /\ UNCHANGED <<dbVars, mutex, sent, asked, via>>

\* pthread_mutex_unlock(&mutex[iconn]); the reply is sent.
Unlock(t) ==
  /\ pc[t] = "unlock" /\ Goto(t, "read")
  /\ mutex' = [mutex EXCEPT ![iconn[t]] = Nobody]
  /\ NextRound(t)
  /\ UNCHANGED <<dbVars, sent, histVars>>

\* What is looked for is found or not; nothing is changed.
Query(t) ==
  /\ pc[t] = "query"
  /\ \E r \in {"ok", "fault"} :
       Told(t, r, "unlock") /\ (r = "ok" => iconn[t] \notin lost)
  /\ UNCHANGED <<dbVars, mutex, sent, req, iconn, asked, via>>

\* Mutant: a request that fails does not roll back.
Refuse_NoRollback(t, r) ==
  /\ Told(t, r, "unlock")
  /\ UNCHANGED <<dbVars, mutex, sent, req, iconn, asked, via>>

\* The reply that says why, after pconn->rollback() (when the link is lost,
\* it was rolled back by then).
Refuse(t, r) ==
  /\ Rollback(iconn[t]) /\ Told(t, r, "unlock")
  /\ UNCHANGED <<lost, faults, unkept, mutex, sent, req, iconn, asked, via>>

\* Mutant: the balance is not compared.
CheckBalance_Not(t) ==
  /\ pc[t] = "check" /\ iconn[t] \notin lost
  /\ IF req[t].op = "withdraw" THEN Goto(t, "debit") ELSE Goto(t, "checkto")
  /\ UNCHANGED <<dbVars, mutex, sent, req, iconn, histVars>>

\* select ye ... where userid; an account that does not exist has ye = 0.
CheckBalance(t) ==
  /\ pc[t] = "check" /\ iconn[t] \notin lost
  /\ LET r == req[t]
         k == iconn[t]
         found == IF Exists(k, r.userid) THEN Balance(k, r.userid) ELSE 0
     IN \/ /\ found < r.je /\ Refuse(t, "poor")
        \/ /\ found >= r.je
           /\ r.op = "withdraw" /\ Goto(t, "debit")
           /\ UNCHANGED <<dbVars, mutex, sent, req, iconn, histVars>>
        \/ /\ found >= r.je
           /\ r.op = "transfer" /\ Goto(t, "checkto")
           /\ UNCHANGED <<dbVars, mutex, sent, req, iconn, histVars>>

\* select rsts ... where userid1
CheckReceiver(t) ==
  /\ pc[t] = "checkto" /\ iconn[t] \notin lost
  /\ \/ /\ Exists(iconn[t], req[t].userid1) /\ Goto(t, "debit")
        /\ UNCHANGED <<dbVars, mutex, sent, req, iconn, histVars>>
     \/ ~Exists(iconn[t], req[t].userid1) /\ Refuse(t, "illegal")

\* The account the next statement of t is about: money goes out of userid, a
\* deposit comes in there too, a transfer at userid1.
Target(t) == IF pc[t] = "credit" /\ req[t].op = "transfer" THEN req[t].userid1
             ELSE req[t].userid

\* The connections whose row lock the statement of t waits for: an update
\* looks for committed rows only, an insert also meets those not committed.
Holders(t) ==
  {k \in Pool \ {iconn[t]} :
     /\ \/ pc[t] \in {"debit", "credit"} /\ Target(t) \in users
        \/ pc[t] = "open" /\ Target(t) \notin users
     /\ Locks(k, Target(t))}

\* A cycle of threads each of which waits for the connection of the next.
Deadlocked(t) ==
  \E S \in SUBSET Clients :
    /\ t \in S /\ \A u \in S : Holders(u) # {}
    /\ S = UNION {{mutex[k] : k \in Holders(u)} : u \in S}

\* The statement fails: it closes a cycle, it has an error of its own, it
\* inserts an account that exists, or the link is lost.
Fails(t) ==
  /\ pc[t] \in {"open", "check", "checkto", "debit", "credit"}
  /\ Holders(t) = {} \/ Deadlocked(t) \/ iconn[t] \in lost
  /\ Refuse(t, "fault")

\* The statement is executed on the connection of t; hits: there is a row of
\* the account, which it inserts or changes.
Execute(t, hits, change) ==
  /\ iconn[t] \notin lost /\ Holders(t) = {}
  /\ trans' = [trans EXCEPT ![iconn[t]] =
                 Append(@, [req |-> req[t].id, op |-> req[t].op,
                            step |-> pc[t], acct |-> Target(t), row |-> hits,
                            ye |-> IF hits THEN change ELSE 0])]
  /\ UNCHANGED <<ye, users, lost, faults, done, unkept, mutex, sent, req,
                 iconn, histVars>>

OpenAccount(t) ==
  /\ pc[t] = "open" /\ ~Exists(iconn[t], Target(t))
  /\ Execute(t, TRUE, 0) /\ Goto(t, "commit")

\* update ... set ye=ye-:1: no row is changed when there is none.
Debit(t) ==
  /\ pc[t] = "debit"
  /\ Execute(t, Exists(iconn[t], Target(t)), 0 - req[t].je)
  /\ Goto(t, IF req[t].op = "transfer" THEN "credit" ELSE "commit")

Credit(t) ==
  /\ pc[t] = "credit"
  /\ Execute(t, Exists(iconn[t], Target(t)), req[t].je)
  /\ Goto(t, "commit")

\* Mutant: deposits too are committed on the first connection of the pool.
CommitConn_First(t) == 0

\* Mutant: another connection than the first is committed.
CommitConn_Next(t) == IF req[t].op \in {"withdraw", "transfer"} THEN 1
                      ELSE iconn[t]

\* The connection that is committed: pconn for open and deposit, and conn,
\* the first of the pool, for withdraw and transfer.
CommitConn(t) == IF req[t].op \in {"withdraw", "transfer"} THEN 0 ELSE iconn[t]

CommitStep(t) ==
  /\ pc[t] = "commit" /\ CommitConn(t) \notin lost
  /\ Commit(CommitConn(t)) /\ Told(t, "ok", "unlock")
  /\ UNCHANGED <<mutex, sent, req, iconn, asked, via>>

\* The commit fails. Its result is not looked at: the answer is ok.
CommitFails(t) ==
  /\ pc[t] = "commit"
  /\ IF CommitConn(t) \in lost THEN UNCHANGED faults ELSE Fault
  /\ Drop(CommitConn(t)) /\ Told(t, "ok", "unlock")
  /\ UNCHANGED <<lost, mutex, sent, req, iconn, asked, via>>

Thread(t) == Read(t) \/ HangUp(t) \/ TryLock(t) \/ Busy(t) \/ Unlock(t)
             \/ Query(t) \/ CheckBalance(t) \/ CheckReceiver(t) \/ Fails(t)
             \/ OpenAccount(t) \/ Debit(t) \/ Credit(t)
             \/ CommitStep(t) \/ CommitFails(t)

Next == (\E t \in Clients : Thread(t)) \/ \E k \in Pool : LinkLost(k)

Spec == Init /\ [][Next]_vars

-----------------------------------------------------------------------------
(* Properties.                                                              *)

Working == {"query", "open", "check", "checkto", "debit", "credit", "commit",
            "unlock"}

TypeOK ==
  /\ ye \in [Accts -> Int] /\ users \subseteq Accts
  /\ trans \in [Pool -> Seq(Stmt)]
  /\ lost \subseteq Pool /\ faults \in 0..MaxFault
  /\ mutex \in [Pool -> Clients \cup {Nobody}]
  /\ sent \in 0..MaxReq
  /\ pc \in [Clients -> Working \cup {"read", "trylock", "gone"}]
  /\ req \in [Clients -> Req \cup {NoReq}]
  /\ iconn \in [Clients -> 0..NConn]
  /\ asked \in [ReqIds -> AllOps \cup {"none"}]
  /\ via \in [ReqIds -> 0..NConn]
  /\ answer \in [ReqIds -> {"none", "ok", "busy", "poor", "illegal", "fault"}]
  /\ done \subseteq Stmt /\ unkept \subseteq ReqIds

\* Only the thread that holds the mutex of a connection and works on it adds
\* to its open transaction or ends it. There is one exception, the commit of a
\* withdrawal or a transfer, which is that of the first connection whoever
\* holds that one (procmessage 283, 312); and a lost link ends it as well.
UnderMutex ==
  [][\A k \in Pool : trans'[k] # trans[k] =>
       \/ k \in lost' \ lost
       \/ \E t \in Clients : mutex[k] = t /\ iconn[t] = k /\ pc'[t] # pc[t]
       \/ \E t \in Clients :
            /\ k = 0 /\ pc[t] = "commit" /\ pc'[t] = "unlock"
            /\ req[t].op \in {"withdraw", "transfer"}]_vars

\* A connection nobody uses has an open transaction only with statements of
\* requests that were answered ok, and the first one has none.
IdleTrans ==
  \A k \in Pool : mutex[k] = Nobody =>
    \A s \in Stmts(k) : k # 0 /\ answer[s.req] = "ok"

\* Off the first connection a transfer is committed as a whole or not at all,
\* whoever commits it and when (procmessage 303-337, msgid_6).
TransferWhole ==
  \A s \in done : s.op = "transfer" /\ via[s.req] # 0 =>
    \E r \in done : r.req = s.req /\ r.step # s.step

\* Off the first connection nothing of a request that was refused, or has no
\* answer yet, is ever committed.
RefusedNoTrace ==
  \A s \in done : via[s.req] # 0 => answer[s.req] = "ok"

\* The statement of an opened account or a deposit that was answered ok is
\* committed, on whatever connection, unless a commit of that connection failed
\* or its link was lost in between: then the request is answered ok all the
\* same (procmessage 237, 265), and nothing of it is ever committed.
DepositKept ==
  \A q \in ReqIds :
    asked[q] \in {"open", "deposit"} /\ answer[q] = "ok"
      => ((\E s \in done : s.req = q) <=> q \notin unkept)

\* bank.cpp 92, 126: the answer 0 means success, so the money has moved.
AnsweredIsKept ==
  \A q \in ReqIds :
    asked[q] # "query" /\ answer[q] = "ok" => \E s \in done : s.req = q

\* Requests have been processed on the first connection only, as long as no
\* two clients asked at the same time: the one that is committed is the one
\* that was used (procmessage 189-198, 283, 312).
OnFirst == \A q \in ReqIds : via[q] \in {0, NConn}

\* Then the answer 0 means that the request is committed, unless its commit
\* failed or the link was lost, and any other answer, or none, that nothing of
\* it is (procmessage 237, 265, 283, 312).
AnswerIsExact ==
  \A q \in ReqIds : asked[q] # "query" =>
    ((\E s \in done : s.req = q) <=> answer[q] = "ok" /\ q \notin unkept)

\* And what an account does not cover is refused (bank.cpp 92-106), although
\* the balance is compared before it is changed: one is below zero only where
\* an amount below zero was paid in.
CoveredOrDrained ==
  \A a \in Accts :
    ye[a] < 0 => \E s \in done : s.acct = a /\ s.step = "credit" /\ s.ye < 0

FirstIsExact ==
  /\ TypeOK
  /\ OnFirst => AnswerIsExact /\ CoveredOrDrained

\* Then requests change the accounts at once or not at all, as the bank
\* promises (module Ledger).
L == INSTANCE Ledger WITH opened <- users, balance <- ye
ImplementsLedger == L!LedgerInit /\ [][OnFirst' => L!LedgerNext]_L!ledgerVars
=============================================================================
