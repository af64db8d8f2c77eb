-------------------------- MODULE BankServerProofs --------------------------
(***************************************************************************)
(* Proofs about BankServer, for every number of clients, connections,      *)
(* accounts and requests: what the pool of connections keeps apart, and    *)
(* what is committed of a request, although another connection than the    *)
(* one it was processed on may be committed in its place.                  *)
(***************************************************************************)
EXTENDS BankServer, TLAPS, WellFoundedInduction

\* The answers there are, and the threads that have a request.
Answers   == {"ok", "busy", "poor", "illegal", "fault"}
Active(t) == pc[t] \notin {"read", "gone"}
Works(t)  == pc[t] \in Working

\* A thread that works on a connection holds its mutex.
HoldsMutex ==
  \A t \in Clients : Works(t) => iconn[t] \in Pool /\ mutex[iconn[t]] = t

-----------------------------------------------------------------------------
(* The steps of a thread by what they do.                                   *)

\* The mutex of a connection is taken; or it is not free.
TakesConn(t) ==
  /\ pc[t] = "trylock" /\ iconn[t] \in Pool /\ mutex[iconn[t]] = Nobody
  /\ Locked(t)
  /\ UNCHANGED <<dbVars, sent, req, iconn, asked, answer>>
MissesConn(t) ==
  /\ pc[t] = "trylock" /\ iconn[t] \in Pool
  /\ iconn' = [iconn EXCEPT ![t] = @ + 1]
  /\ UNCHANGED <<dbVars, mutex, sent, pc, req, via, asked, answer>>

Statements == {"open", "check", "checkto", "debit", "credit"}

\* A request is refused in the course of it.
Refused(t) ==
  pc[t] \in Statements /\ \E r \in {"poor", "illegal", "fault"} : Refuse(t, r)

\* A query finds that it may go on.
Passed(t) ==
  /\ pc[t] \in {"check", "checkto"}
  /\ \E p \in {"checkto", "debit"} :
       Goto(t, p) /\ (p = "checkto" => req[t].op = "transfer")
  /\ UNCHANGED <<dbVars, mutex, sent, req, iconn, histVars>>

\* A statement changes something.
Executed(t) ==
  /\ pc[t] \in {"open", "debit", "credit"}
  /\ \E h \in BOOLEAN, n \in Int : Execute(t, h, n)
  /\ \E p \in {"credit", "commit"} :
       Goto(t, p) /\ (p = "credit" <=> pc[t] = "debit" /\ req[t].op = "transfer")

Step(t) == \/ Read(t) \/ HangUp(t) \/ TakesConn(t) \/ MissesConn(t) \/ Busy(t)
           \/ Unlock(t) \/ Query(t) \/ Refused(t) \/ Passed(t) \/ Executed(t)
           \/ CommitStep(t) \/ CommitFails(t)

-----------------------------------------------------------------------------
(* Types (of all but the balances: their sums are recursive).               *)

Types ==
  /\ trans \in [Pool -> Seq(Stmt)]
  /\ lost \subseteq Pool /\ faults \in 0..MaxFault /\ unkept \subseteq ReqIds
  /\ mutex \in [Pool -> Clients \cup {Nobody}]
  /\ sent \in 0..MaxReq
  /\ pc \in [Clients -> Working \cup {"read", "trylock", "gone"}]
  /\ req \in [Clients -> Req \cup {NoReq}]
  /\ iconn \in [Clients -> 0..NConn]
  /\ asked \in [ReqIds -> AllOps \cup {"none"}]
  /\ via \in [ReqIds -> 0..NConn]
  /\ answer \in [ReqIds -> Answers \cup {"none"}]
  /\ done \subseteq Stmt
  /\ \A t \in Clients : Active(t) => req[t] \in Req
  /\ \A t \in Clients : Works(t) => iconn[t] \in Pool

LEMMA Numbers ==
  /\ NConn \in Nat \ {0} /\ MaxReq \in Nat /\ MaxFault \in Nat
  /\ 0 \in Pool /\ 0 \in 0..NConn
  /\ \A k \in Pool : k \in 0..NConn /\ k \in Nat /\ k # NConn
  /\ \A k \in 0..NConn : k < NConn => k \in Pool
  /\ \A k \in Pool : k + 1 \in 0..NConn
  /\ (\A n \in Amounts \cup {0} : n \in Int) /\ Ops \subseteq AllOps
  /\ \A q \in ReqIds : q \in Nat
BY BankConstants DEF Pool, ReqIds

\* Every step of a thread is one of these.
LEMMA Steps ==
  ASSUME Types, NEW t \in Clients, Thread(t)
  PROVE  Step(t)
<1> USE Numbers DEF Types, Active, Works
<1>1. CASE TryLock(t)
  <2>1. iconn[t] \in Pool
    BY <1>1 DEF TryLock
  <2>2. QED
    BY <1>1, <2>1 DEF TryLock, TakesConn, MissesConn, Step
<1>2. CASE CheckBalance(t)
  BY <1>2 DEF CheckBalance, Refused, Passed, Statements, Step
<1>3. CASE CheckReceiver(t)
  BY <1>3 DEF CheckReceiver, Refused, Passed, Statements, Step
<1>4. CASE Fails(t)
  BY <1>4 DEF Fails, Refused, Statements, Step
<1>5. ASSUME pc[t] \in {"open", "debit", "credit"}
      PROVE  req[t].je \in Int
  <2>1. req[t] \in Req
    BY <1>5
  <2>2. req[t].je \in Amounts \cup {0}
    BY <2>1 DEF Req
  <2>3. QED
    BY <2>2
<1>6. CASE OpenAccount(t)
  BY <1>6 DEF OpenAccount, Executed, Step
<1>7. CASE Debit(t)
  <2>1. \E h \in BOOLEAN, n \in Int : Execute(t, h, n)
    <3>1. Exists(iconn[t], Target(t)) \in BOOLEAN
      BY DEF Exists
    <3>2. QED
      BY <1>5, <1>7, <3>1 DEF Debit
  <2>2. QED
    BY <1>7, <2>1 DEF Debit, Executed, Step
<1>8. CASE Credit(t)
  <2>1. \E h \in BOOLEAN, n \in Int : Execute(t, h, n)
    <3>1. Exists(iconn[t], Target(t)) \in BOOLEAN
      BY DEF Exists
    <3>2. QED
      BY <1>5, <1>8, <3>1 DEF Credit
  <2>2. QED
    BY <1>8, <2>1 DEF Credit, Executed, Step
<1>9. QED
  BY <1>1, <1>2, <1>3, <1>4, <1>6, <1>7, <1>8 DEF Thread, Step

\* A client sends a request of the next number.
LEMMA ReadEffect ==
  ASSUME Types, NEW t \in Clients, Read(t)
  PROVE  \E m \in Req : /\ m.id = sent + 1 /\ req' = [req EXCEPT ![t] = m]
                        /\ asked' = [asked EXCEPT ![sent + 1] = m.op]
                        /\ sent + 1 \in ReqIds
<1>1. PICK o \in Ops, a \in Accts, b \in Accts, n \in Amounts \cup {0} :
        /\ req' = [req EXCEPT ![t] = [id |-> sent + 1, op |-> o, userid |-> a,
                                      userid1 |-> b, je |-> n]]
        /\ asked' = [asked EXCEPT ![sent + 1] = o]
  BY DEF Read
<1>2. sent + 1 \in ReqIds
  BY Numbers DEF Read, ReqIds, Types
<1>3. o \in AllOps
  BY Numbers
<1>4. [id |-> sent + 1, op |-> o, userid |-> a, userid1 |-> b, je |-> n] \in Req
  BY <1>2, <1>3 DEF Req
<1>5. QED
  BY <1>1, <1>2, <1>4

LEMMA InitTypes == Init => Types
<1> SUFFICES ASSUME Init PROVE Types
  OBVIOUS
<1>1. <<>> \in Seq(Stmt)
  OBVIOUS
<1>2. QED
  BY <1>1, Numbers DEF Init, Types, Active, Works, Working, Answers

LEMMA StepTypes ==
  ASSUME Types, NEW t \in Clients, Step(t)
  PROVE  Types'
<1> USE Numbers DEF Types, Active, Works, Working, Answers, dbVars, progVars,
        histVars, Goto
<1>1. ASSUME Active(t) PROVE req[t] \in Req /\ req[t].id \in ReqIds
  <2>1. req[t] \in Req
    BY <1>1
  <2>2. QED
    BY <2>1 DEF Req
<1>2. CASE Read(t)
  <2>1. PICK m \in Req :
          /\ m.id = sent + 1 /\ req' = [req EXCEPT ![t] = m]
          /\ asked' = [asked EXCEPT ![sent + 1] = m.op]
    BY <1>2, ReadEffect
  <2>2. sent + 1 \in 0..MaxReq /\ m.op \in AllOps
    BY <1>2 DEF Read, Req
  <2>5. req' \in [Clients -> Req \cup {NoReq}] /\ req'[t] \in Req
    BY <2>1
  <2>6. asked' \in [ReqIds -> AllOps \cup {"none"}]
    BY <2>1, <2>2
  <2>7. /\ sent' = sent + 1 /\ pc' = [pc EXCEPT ![t] = "trylock"]
        /\ UNCHANGED <<dbVars, mutex, iconn, via, answer>>
    BY <1>2 DEF Read
  <2>8. \A u \in Clients : Active(u)' => req'[u] \in Req
    BY <2>1, <2>5, <2>7
  <2>9. QED
    BY <2>2, <2>5, <2>6, <2>7, <2>8
<1>3. CASE HangUp(t)
  BY <1>3 DEF HangUp
<1>4. CASE TakesConn(t)
  <2>1. FirstStep[req[t].op] \in Working
    <3>1. req[t].op \in AllOps
      BY <1>1, <1>4 DEF TakesConn, Req
    <3>2. QED
      BY <3>1 DEF AllOps, FirstStep
  <2>2. QED
    BY <1>1, <1>4, <2>1 DEF TakesConn, Locked
<1>5. CASE MissesConn(t)
  BY <1>5 DEF MissesConn
<1>6. CASE Busy(t)
  BY <1>1, <1>6 DEF Busy, Told, NextRound
<1>7. CASE Unlock(t)
  BY <1>7 DEF Unlock, NextRound
<1>8. CASE Query(t)
  BY <1>1, <1>8 DEF Query, Told
<1>9. CASE Refused(t)
  <2>1. PICK r \in {"poor", "illegal", "fault"} : Refuse(t, r)
    BY <1>9 DEF Refused
  <2>2. iconn[t] \in Pool /\ req[t].id \in ReqIds /\ req[t] \in Req
    BY <1>1, <1>9 DEF Refused, Statements
  <2>3. trans' \in [Pool -> Seq(Stmt)]
    <3>1. <<>> \in Seq(Stmt) /\ trans' = [trans EXCEPT ![iconn[t]] = <<>>]
      BY <2>1 DEF Refuse, Rollback
    <3>2. QED
      BY <3>1
  <2>4. /\ answer' = [answer EXCEPT ![req[t].id] = r]
        /\ pc' = [pc EXCEPT ![t] = "unlock"]
        /\ UNCHANGED <<done, lost, faults, unkept, mutex, sent, req, iconn,
                       asked, via>>
    BY <2>1 DEF Refuse, Told, Rollback
  <2>5. QED
    BY <2>2, <2>3, <2>4
<1>10. CASE Passed(t)
  BY <1>10 DEF Passed
<1>11. CASE Executed(t)
  <2>1. PICK h \in BOOLEAN, n \in Int : Execute(t, h, n)
    BY <1>11 DEF Executed
  <2>2. req[t] \in Req
    BY <1>1, <1>11 DEF Executed
  <2>3. Target(t) \in Accts
    BY <2>2 DEF Target, Req
  <2> DEFINE s == [req |-> req[t].id, op |-> req[t].op, step |-> pc[t],
                   acct |-> Target(t), row |-> h, ye |-> IF h THEN n ELSE 0]
  <2>4. s \in Stmt
    <3>1. pc[t] \in {"open", "debit", "credit"}
      BY <1>11 DEF Executed
    <3>2. req[t].id \in ReqIds /\ req[t].op \in AllOps
      BY <2>2 DEF Req
    <3>3. QED
      BY <2>3, <3>1, <3>2 DEF Stmt
  <2>5. iconn[t] \in Pool
    BY <1>11 DEF Executed
  <2>6. trans' \in [Pool -> Seq(Stmt)]
    <3> HIDE DEF s
    <3>1. trans' = [trans EXCEPT ![iconn[t]] = Append(@, s)]
      BY <2>1 DEF Execute, s
    <3>2. Append(trans[iconn[t]], s) \in Seq(Stmt)
      BY <2>4, <2>5
    <3>3. QED
      BY <2>5, <3>1, <3>2
  <2>7. UNCHANGED <<done, lost, faults, unkept, mutex, sent, req, iconn,
                    asked, via, answer>>
    BY <2>1 DEF Execute
  <2>8. PICK p \in {"credit", "commit"} : pc' = [pc EXCEPT ![t] = p]
    BY <1>11 DEF Executed
  <2>9. QED
    BY <1>11, <2>5, <2>6, <2>7, <2>8 DEF Executed
<1>12. CASE CommitStep(t)
  <2>1. CommitConn(t) \in Pool
    BY <1>12 DEF CommitStep, CommitConn
  <2>2. trans' \in [Pool -> Seq(Stmt)]
    BY <1>12, <2>1 DEF CommitStep, Commit
  <2>3. done' \subseteq Stmt
    BY <1>12, <2>1 DEF CommitStep, Commit, Stmts
  <2>4. UNCHANGED <<lost, faults, unkept>>
    BY <1>12 DEF CommitStep, Commit
  <2>5. QED
    BY <1>1, <1>12, <2>2, <2>3, <2>4 DEF CommitStep, Told
<1>13. CASE CommitFails(t)
  <2>1. PICK c \in Pool : c = CommitConn(t)
    BY <1>13 DEF CommitFails, CommitConn
  <2>2. trans' \in [Pool -> Seq(Stmt)] /\ UNCHANGED <<ye, users, done>>
    BY <1>13, <2>1 DEF CommitFails, Drop, Rollback
  <2>3. unkept' \subseteq ReqIds
    <3>1. \A s \in Stmts(c) : s.req \in ReqIds
      <4>1. \A s \in Stmts(c) : s \in Stmt
        BY DEF Stmts
      <4>2. QED
        BY <4>1 DEF Stmt
    <3>2. QED
      BY <1>13, <2>1, <3>1 DEF CommitFails, Drop
  <2>4. faults' \in 0..MaxFault
    <3>1. faults' = faults \/ (faults < MaxFault /\ faults' = faults + 1)
      BY <1>13 DEF CommitFails, Fault
    <3>2. QED
      BY <3>1
  <2>5. UNCHANGED <<lost, mutex, sent, req, iconn, asked, via>> /\ Told(t, "ok", "unlock")
    BY <1>13 DEF CommitFails
  <2>6. pc[t] = "commit"
    BY <1>13 DEF CommitFails
  <2>7. QED
    BY <1>1, <2>2, <2>3, <2>4, <2>5, <2>6 DEF Told
<1>14. QED
  BY <1>2, <1>3, <1>4, <1>5, <1>6, <1>7, <1>8, <1>9, <1>10, <1>11, <1>12, <1>13
     DEF Step

-----------------------------------------------------------------------------
(* Requests: a thread that has one is the only one that has it, has not      *)
(* answered it before it unlocks, and processes it on its own connection.    *)

OpOf(t) ==
  /\ pc[t] = "query" => req[t].op = "query"
  /\ pc[t] = "open" => req[t].op = "open"
  /\ pc[t] \in {"check", "debit"} => req[t].op \in {"withdraw", "transfer"}
  /\ pc[t] = "checkto" => req[t].op = "transfer"
  /\ pc[t] = "credit" => req[t].op \in {"deposit", "transfer"}
  /\ pc[t] = "commit" => req[t].op # "query"

RequestOf(t) ==
  Active(t) =>
    /\ req[t].id <= sent /\ asked[req[t].id] = req[t].op /\ OpOf(t)
    /\ \A u \in Clients \ {t} : Active(u) => req[u].id # req[t].id
    /\ pc[t] # "unlock" => answer[req[t].id] = "none"
    /\ pc[t] = "trylock" => via[req[t].id] = NConn
    /\ Works(t) => via[req[t].id] = iconn[t]

Unsent(q) == asked[q] = "none" /\ via[q] = NConn /\ answer[q] = "none"

Requests ==
  /\ \A t \in Clients : RequestOf(t)
  /\ \A q \in ReqIds : q > sent => Unsent(q)

LEMMA ActiveReq ==
  ASSUME Types, NEW t \in Clients, Active(t)
  PROVE  req[t] \in Req /\ req[t].id \in ReqIds /\ req[t].op \in AllOps
<1>1. req[t] \in Req
  BY DEF Types
<1>2. QED
  BY <1>1 DEF Req

LEMMA InitRequests == Init => Requests
BY Numbers DEF Init, Requests, RequestOf, Unsent, Active, Works, Working

LEMMA StepRequests ==
  ASSUME Types, Requests, HoldsMutex, NEW t \in Clients, Step(t)
  PROVE  Requests'
<1> USE Numbers DEF Types, Active, Works, Working, dbVars, progVars, histVars,
        Goto, Requests, RequestOf, Unsent, OpOf
<1>1. ASSUME NEW u \in Clients, Active(u)
      PROVE  req[u].id \in ReqIds /\ req[u].op \in AllOps
  BY <1>1, ActiveReq
<1>2. CASE Read(t)
  <2>1. PICK m \in Req :
          /\ m.id = sent + 1 /\ req' = [req EXCEPT ![t] = m]
          /\ asked' = [asked EXCEPT ![sent + 1] = m.op]
          /\ sent + 1 \in ReqIds
    BY <1>2, ReadEffect
  <2>2. sent \in Nat
    OBVIOUS
  <2>3. /\ sent' = sent + 1 /\ pc' = [pc EXCEPT ![t] = "trylock"]
        /\ UNCHANGED <<trans, done, mutex, iconn, via, answer>>
    BY <1>2 DEF Read, dbVars
  <2>4. req'[t] = m /\ pc'[t] = "trylock"
    BY <2>1, <2>3
  <2>5. \A u \in Clients \ {t} : req'[u] = req[u] /\ pc'[u] = pc[u]
    BY <2>1, <2>3
  <2>6. ASSUME NEW u \in Clients \ {t}, Active(u)
        PROVE  /\ req[u].id # sent + 1 /\ asked'[req[u].id] = asked[req[u].id]
               /\ req[u].id <= sent + 1
    <3>1. req[u].id \in Nat /\ req[u].id <= sent
      BY <1>1, <2>6
    <3>2. req[u].id # sent + 1
      BY <2>2, <3>1
    <3>3. QED
      BY <1>1, <2>1, <2>2, <2>6, <3>1, <3>2
  <2>7. \A q \in ReqIds : q > sent + 1 => asked'[q] = asked[q] /\ q > sent
    BY <2>1, <2>2
  <2>8. asked'[sent + 1] = m.op /\ via[sent + 1] = NConn /\ answer[sent + 1] = "none"
    BY <2>1, <2>2
  <2>9. RequestOf(t)'
    BY <2>1, <2>2, <2>3, <2>4, <2>5, <2>6, <2>8
  <2>10. ASSUME NEW u \in Clients \ {t} PROVE RequestOf(u)'
    BY <2>1, <2>2, <2>3, <2>4, <2>5, <2>6
  <2>11. QED
    BY <2>3, <2>7, <2>9, <2>10
<1>3. CASE HangUp(t)
  BY <1>3 DEF HangUp
<1>4. CASE TakesConn(t)
  <2>1. req[t].op \in AllOps /\ req[t].id \in ReqIds
    BY <1>1, <1>4 DEF TakesConn
  <2>2. /\ pc' = [pc EXCEPT ![t] = FirstStep[req[t].op]]
        /\ via' = [via EXCEPT ![req[t].id] = iconn[t]]
        /\ UNCHANGED <<sent, req, iconn, asked, answer>>
    BY <1>4 DEF TakesConn, Locked
  <2>3. FirstStep[req[t].op] \in Working \ {"unlock", "commit"}
    BY <2>1 DEF FirstStep, AllOps
  <2>4. OpOf(t)'
    BY <2>1, <2>2 DEF FirstStep, AllOps
  <2>5. \A u \in Clients \ {t} : Active(u) => via'[req[u].id] = via[req[u].id]
    BY <1>1, <1>4, <2>1, <2>2 DEF TakesConn
  <2>6. \A q \in ReqIds : q > sent => via'[q] = via[q]
    <3>1. req[t].id <= sent /\ req[t].id \in Nat
      BY <1>4, <2>1 DEF TakesConn
    <3>2. QED
      BY <2>1, <2>2, <3>1
  <2>7. pc[t] = "trylock" /\ via'[req[t].id] = iconn[t]
    BY <1>4, <2>1, <2>2 DEF TakesConn
  <2>8. \A u \in Clients \ {t} : pc'[u] = pc[u]
    BY <2>2
  <2>9. pc'[t] = FirstStep[req[t].op]
    BY <2>2
  <2>10. pc'[t] \in Working \ {"unlock"} /\ UNCHANGED <<sent, req, iconn, asked, answer>>
    BY <2>2, <2>3, <2>9
  <2>11. RequestOf(t) /\ Active(t)
    BY <2>7
  <2>12. RequestOf(t)'
    BY <2>4, <2>7, <2>8, <2>10, <2>11
  <2>13. ASSUME NEW u \in Clients \ {t} PROVE RequestOf(u)'
    <3>1. RequestOf(u) /\ pc'[u] = pc[u]
      BY <2>8
    <3>2. pc[u] \notin {"read", "gone"} => via'[req[u].id] = via[req[u].id]
      BY <2>5
    <3>3. \A v \in Clients : pc'[v] \notin {"read", "gone"} => pc[v] \notin {"read", "gone"}
      BY <2>7, <2>8
    <3>4. QED
      BY <2>10, <3>1, <3>2, <3>3
  <2>14. QED
    BY <2>6, <2>10, <2>12, <2>13
<1>5. CASE MissesConn(t)
  BY <1>5 DEF MissesConn
<1>6. ASSUME NEW r \in Answers, NEW p \in {"unlock", "read"}, Told(t, r, p),
             Active(t), pc[t] # "unlock",
             UNCHANGED <<sent, asked, via>>,
             p = "unlock" => Works(t) /\ UNCHANGED <<req, iconn>>,
             p = "read" => NextRound(t)
      PROVE  Requests'
  <2>1. req[t].id \in ReqIds /\ req[t].id <= sent
    BY <1>1, <1>6
  <2>2. /\ answer' = [answer EXCEPT ![req[t].id] = r]
        /\ pc' = [pc EXCEPT ![t] = p]
        /\ \A u \in Clients \ {t} : req'[u] = req[u] /\ iconn'[u] = iconn[u]
    BY <1>6 DEF Told, NextRound
  <2>3. \A u \in Clients \ {t} :
          Active(u) => answer'[req[u].id] = answer[req[u].id]
    BY <1>1, <1>6, <2>1, <2>2
  <2>4. \A q \in ReqIds : q > sent => answer'[q] = answer[q]
    BY <2>1, <2>2 DEF ReqIds
  <2>5. ASSUME NEW u \in Clients \ {t} PROVE RequestOf(u)'
    BY <1>6, <2>2, <2>3, SMTT(60)
  <2>6. RequestOf(t)'
    BY <1>6, <2>2
  <2>7. QED
    BY <1>6, <2>4, <2>5, <2>6
<1>7. CASE Busy(t)
  BY <1>6, <1>7 DEF Busy, Answers
<1>8. CASE Unlock(t)
  BY <1>8 DEF Unlock, NextRound
<1>9. CASE Query(t)
  BY <1>6, <1>9 DEF Query, Answers
<1>10. CASE Refused(t)
  BY <1>6, <1>10 DEF Refused, Statements, Refuse, Answers
<1>11. CASE Passed(t)
  <2>1. PICK p \in {"checkto", "debit"} :
          pc' = [pc EXCEPT ![t] = p] /\ (p = "checkto" => req[t].op = "transfer")
    BY <1>11 DEF Passed
  <2>2. UNCHANGED <<dbVars, mutex, sent, req, iconn, histVars>>
    BY <1>11 DEF Passed
  <2>3. QED
    BY <1>11, <2>1, <2>2 DEF Passed
<1>12. CASE Executed(t)
  <2>1. UNCHANGED <<done, mutex, sent, req, iconn, asked, via, answer>>
    BY <1>12 DEF Executed, Execute
  <2>2. PICK p \in {"credit", "commit"} :
          /\ pc' = [pc EXCEPT ![t] = p]
          /\ p = "credit" => req[t].op = "transfer"
    BY <1>12 DEF Executed
  <2>3. QED
    BY <1>12, <2>1, <2>2 DEF Executed
<1>13. CASE CommitStep(t)
  BY <1>6, <1>13 DEF CommitStep, Answers
<1>14. CASE CommitFails(t)
  BY <1>6, <1>14 DEF CommitFails, Answers
<1>15. QED
  BY <1>2, <1>3, <1>4, <1>5, <1>7, <1>8, <1>9, <1>10, <1>11, <1>12, <1>13, <1>14
     DEF Step

-----------------------------------------------------------------------------
(* The pool: a mutex is held by the one thread that works on its connection. *)

LEMMA StepPool ==
  ASSUME Types, HoldsMutex, NEW t \in Clients, Step(t)
  PROVE  HoldsMutex'
<1> USE Numbers DEF Types, HoldsMutex, Works, Goto
<1>1. Nobody \notin Clients
  BY BankConstants
<1>2. CASE TakesConn(t)
  <2>1. /\ mutex' = [mutex EXCEPT ![iconn[t]] = t]
        /\ \A u \in Clients \ {t} : pc'[u] = pc[u]
        /\ iconn[t] \in Pool /\ mutex[iconn[t]] = Nobody /\ iconn' = iconn
    BY <1>2 DEF TakesConn, Locked
  <2>2. ASSUME NEW u \in Clients \ {t}, pc[u] \in Working
        PROVE  iconn[u] # iconn[t]
    BY <1>1, <2>1, <2>2
  <2>3. QED
    BY <2>1, <2>2
<1>3. CASE Unlock(t)
  <2>1. /\ mutex' = [mutex EXCEPT ![iconn[t]] = Nobody]
        /\ pc' = [pc EXCEPT ![t] = "read"]
        /\ iconn' = [iconn EXCEPT ![t] = 0]
    BY <1>3 DEF Unlock, NextRound
  <2>2. pc[t] \in Working
    BY <1>3 DEF Unlock, Working
  <2>3. pc'[t] \notin Working
    BY <2>1 DEF Working
  <2>4. ASSUME NEW u \in Clients \ {t}, pc[u] \in Working
        PROVE  iconn[u] # iconn[t]
    BY <2>2, <2>4
  <2>5. QED
    BY <2>1, <2>3, <2>4
<1>4. ASSUME UNCHANGED <<mutex, iconn>>, NEW p, Goto(t, p),
             p \in Working => pc[t] \in Working
      PROVE  HoldsMutex'
  BY <1>4
<1>5. CASE Read(t)
  BY <1>4, <1>5 DEF Read, Working
<1>6. CASE HangUp(t)
  BY <1>4, <1>6 DEF HangUp, Working
<1>7. CASE MissesConn(t)
  BY <1>7 DEF MissesConn, Working
<1>8. CASE Busy(t)
  BY <1>8 DEF Busy, Told, NextRound, Working
<1>9. CASE Query(t)
  BY <1>4, <1>9 DEF Query, Told, Working
<1>10. CASE Refused(t)
  BY <1>4, <1>10 DEF Refused, Statements, Refuse, Told, Working
<1>11. CASE Passed(t)
  BY <1>4, <1>11 DEF Passed, Working
<1>12. CASE Executed(t)
  BY <1>4, <1>12 DEF Executed, Execute, Working
<1>13. CASE CommitStep(t)
  BY <1>4, <1>13 DEF CommitStep, Told, Working
<1>14. CASE CommitFails(t)
  BY <1>4, <1>14 DEF CommitFails, Told, Working
<1>15. QED
  BY <1>2, <1>3, <1>5, <1>6, <1>7, <1>8, <1>9, <1>10, <1>11, <1>12, <1>13, <1>14
     DEF Step

-----------------------------------------------------------------------------
(* What the steps do to the open transactions.                              *)

Keeps(k) == Stmts(k)' = Stmts(k)

LEMMA KeepsAll ==
  ASSUME UNCHANGED trans PROVE \A k \in Pool : Keeps(k)
BY DEF Keeps, Stmts

LEMMA EmptiesOne ==
  ASSUME Types, NEW c \in Pool, trans' = [trans EXCEPT ![c] = <<>>]
  PROVE  Stmts(c)' = {} /\ \A k \in Pool \ {c} : Keeps(k)
BY DEF Types, Keeps, Stmts

LEMMA AddsOne ==
  ASSUME Types, NEW t \in Clients, Executed(t)
  PROVE  /\ iconn[t] \in Pool
         /\ \E s \in Stmt :
              /\ s.req = req[t].id /\ s.op = req[t].op /\ s.step = pc[t]
              /\ Stmts(iconn[t])' = Stmts(iconn[t]) \cup {s}
         /\ \A k \in Pool \ {iconn[t]} : Keeps(k)
         /\ UNCHANGED <<done, unkept, mutex, sent, req, iconn, asked, via,
                        answer>>
<1>1. PICK h \in BOOLEAN, n \in Int : Execute(t, h, n)
  BY DEF Executed
<1>2. req[t] \in Req /\ req[t].id \in ReqIds /\ req[t].op \in AllOps
  BY ActiveReq DEF Executed, Active
<1>3. Target(t) \in Accts
  BY <1>2 DEF Target, Req
<1> DEFINE s == [req |-> req[t].id, op |-> req[t].op, step |-> pc[t],
                 acct |-> Target(t), row |-> h, ye |-> IF h THEN n ELSE 0]
<1>4. s \in Stmt
  BY <1>2, <1>3 DEF Executed, Stmt
<1>5. s.req = req[t].id /\ s.op = req[t].op /\ s.step = pc[t]
  OBVIOUS
<1>6. trans' = [trans EXCEPT ![iconn[t]] = Append(@, s)]
  BY <1>1 DEF Execute
<1>7. UNCHANGED <<done, unkept, mutex, sent, req, iconn, asked, via, answer>>
  BY <1>1 DEF Execute, histVars
<1>8. iconn[t] \in Pool
  BY DEF Executed, Types, Works, Working
<1> HIDE DEF s
<1>9. Stmts(iconn[t])' = Stmts(iconn[t]) \cup {s}
  <2> DEFINE q == trans[iconn[t]]
  <2>1. q \in Seq(Stmt) /\ trans'[iconn[t]] = Append(q, s)
    BY <1>6, <1>8 DEF Types
  <2>2. {Append(q, s)[i] : i \in DOMAIN Append(q, s)} = {q[i] : i \in DOMAIN q} \cup {s}
    <3> HIDE DEF q
    <3>1. /\ DOMAIN q = 1..Len(q) /\ DOMAIN Append(q, s) = 1..(Len(q) + 1)
          /\ Len(q) \in Nat
          /\ \A i \in 1..Len(q) : Append(q, s)[i] = q[i]
          /\ Append(q, s)[Len(q) + 1] = s
      BY <1>4, <2>1
    <3>2. 1..(Len(q) + 1) = 1..Len(q) \cup {Len(q) + 1}
      BY <3>1
    <3>3. QED
      BY <3>1, <3>2
  <2>3. QED
    BY <1>7, <2>1, <2>2 DEF Stmts
<1>10. \A k \in Pool \ {iconn[t]} : Keeps(k)
  BY <1>6, <1>8 DEF Types, Keeps, Stmts
<1>11. QED
  BY <1>4, <1>5, <1>7, <1>8, <1>9, <1>10

-----------------------------------------------------------------------------
(* Open transactions: a statement is of a request processed on this          *)
(* connection, and is one of the request its thread is processing, unless   *)
(* that request was answered ok, on another connection than the first.      *)

Mine(t, s) == Works(t) /\ pc[t] # "unlock" /\ req[t].id = s.req

Placed(k, s) ==
  /\ via[s.req] = k /\ asked[s.req] = s.op /\ s.op # "query"
  /\ s.op = "transfer" => s.step \in {"debit", "credit"}
  /\ \/ answer[s.req] = "ok" /\ k # 0
     \/ \E t \in Clients : Mine(t, s)

Transactions == \A k \in Pool : \A s \in Stmts(k) : Placed(k, s)

LEMMA StmtTypes ==
  ASSUME Types, NEW k \in Pool, NEW s \in Stmts(k)
  PROVE  s \in Stmt /\ s.req \in ReqIds
<1>1. trans[k] \in Seq(Stmt)
  BY DEF Types
<1>2. s \in Stmt
  BY <1>1 DEF Stmts
<1>3. QED
  BY <1>2 DEF Stmt

LEMMA InitTransactions == Init => Transactions
BY DEF Init, Transactions, Stmts

\* A statement of the request t is processing is on t's connection.
LEMMA OwnConn ==
  ASSUME Types, Requests, Transactions, NEW t \in Clients, Active(t),
         NEW k \in Pool, NEW s \in Stmts(k), s.req = req[t].id
  PROVE  Works(t) /\ k = iconn[t] /\ s.op = req[t].op
<1>1. via[req[t].id] = k /\ asked[req[t].id] = s.op
  BY DEF Transactions, Placed
<1>2. pc[t] # "trylock"
  BY <1>1, Numbers DEF Requests, RequestOf
<1>3. Works(t)
  BY <1>2 DEF Types, Active, Works
<1>4. QED
  BY <1>1, <1>3 DEF Requests, RequestOf

LEMMA StepTransactions ==
  ASSUME Types, Requests, Transactions, HoldsMutex, NEW t \in Clients, Step(t)
  PROVE  Transactions'
<1> USE Numbers DEF Goto
<1>1. ASSUME NEW u \in Clients, Active(u)
      PROVE  req[u].id \in ReqIds /\ req[u].op \in AllOps
  BY <1>1, ActiveReq
<1>2. ASSUME NEW k \in Pool, NEW s \in Stmts(k)
      PROVE  s.req \in ReqIds /\ Placed(k, s) /\ s.req <= sent
  <2>1. s.req \in ReqIds /\ Placed(k, s)
    BY <1>2, StmtTypes DEF Transactions
  <2>2. ~(s.req > sent)
    BY <1>2, <2>1 DEF Requests, Unsent, Placed
  <2>3. QED
    BY <2>1, <2>2 DEF Types
\* Steps that answer nothing and change no transaction.
<1>3. ASSUME UNCHANGED <<trans, answer>>,
             \A k \in Pool : \A s \in Stmts(k) :
               /\ via'[s.req] = via[s.req] /\ asked'[s.req] = asked[s.req]
               /\ \A u \in Clients : Mine(u, s) => Mine(u, s)'
      PROVE  Transactions'
  BY <1>3, KeepsAll DEF Transactions, Placed, Keeps
<1>4. ASSUME UNCHANGED <<trans, answer, asked, via, req>>, NEW p, Goto(t, p),
             p \in Working \ {"unlock"} \/ pc[t] \notin Working
      PROVE  Transactions'
  <2>1. ASSUME NEW k \in Pool, NEW s \in Stmts(k), NEW u \in Clients, Mine(u, s)
        PROVE  Mine(u, s)'
    BY <1>4, <2>1 DEF Mine, Works, Types
  <2>2. QED
    BY <1>3, <1>4, <2>1
<1>5. CASE Read(t)
  <2>1. PICK m \in Req :
          /\ req' = [req EXCEPT ![t] = m]
          /\ asked' = [asked EXCEPT ![sent + 1] = m.op]
    BY <1>5, ReadEffect
  <2>2. /\ pc' = [pc EXCEPT ![t] = "trylock"] /\ pc[t] = "read"
        /\ UNCHANGED <<trans, answer, via>>
    BY <1>5 DEF Read, dbVars
  <2>3. ASSUME NEW k \in Pool, NEW s \in Stmts(k)
        PROVE  asked'[s.req] = asked[s.req]
    BY <1>2, <2>1, <2>3 DEF Types, ReqIds
  <2>4. ASSUME NEW k \in Pool, NEW s \in Stmts(k), NEW u \in Clients, Mine(u, s)
        PROVE  Mine(u, s)'
    BY <2>1, <2>2, <2>4 DEF Mine, Works, Working, Types
  <2>5. QED
    BY <1>3, <2>2, <2>3, <2>4
<1>6. CASE HangUp(t)
  BY <1>4, <1>6 DEF HangUp, Working, dbVars, histVars
<1>7. CASE TakesConn(t)
  <2>1. /\ via' = [via EXCEPT ![req[t].id] = iconn[t]] /\ pc[t] = "trylock"
        /\ pc' = [pc EXCEPT ![t] = FirstStep[req[t].op]]
        /\ UNCHANGED <<trans, answer, asked, req>>
    BY <1>7 DEF TakesConn, Locked, dbVars
  <2>2. Active(t) /\ ~Works(t)
    BY <2>1 DEF Active, Works, Working
  <2>3. ASSUME NEW k \in Pool, NEW s \in Stmts(k)
        PROVE  via'[s.req] = via[s.req]
    <3>1. s.req # req[t].id
      BY <2>2, <2>3, OwnConn
    <3>2. QED
      BY <1>2, <2>1, <2>3, <3>1 DEF Types
  <2>4. ASSUME NEW k \in Pool, NEW s \in Stmts(k), NEW u \in Clients, Mine(u, s)
        PROVE  Mine(u, s)'
    BY <2>1, <2>2, <2>4 DEF Mine, Works, Types
  <2>5. QED
    BY <1>3, <2>1, <2>3, <2>4
<1>8. CASE MissesConn(t)
  <2>1. UNCHANGED <<trans, answer, asked, via, req, pc>>
    BY <1>8 DEF MissesConn, dbVars
  <2>2. QED
    BY <1>3, <2>1 DEF Mine, Works
<1>9. CASE Unlock(t)
  <2>1. /\ pc[t] = "unlock" /\ pc' = [pc EXCEPT ![t] = "read"]
        /\ req' = [req EXCEPT ![t] = NoReq]
        /\ UNCHANGED <<trans, answer, asked, via>>
    BY <1>9 DEF Unlock, NextRound, dbVars, histVars
  <2>2. ASSUME NEW k \in Pool, NEW s \in Stmts(k), NEW u \in Clients, Mine(u, s)
        PROVE  Mine(u, s)'
    BY <2>1, <2>2 DEF Mine, Works, Types
  <2>3. QED
    BY <1>3, <2>1, <2>2
\* Steps that answer: what stays in a transaction is of other requests, or
\* of the one that was answered ok.
<1>10. ASSUME Active(t), NEW r \in Answers, NEW p, Told(t, r, p),
              UNCHANGED <<asked, via>>,
              \A u \in Clients \ {t} : req'[u] = req[u],
              NEW k \in Pool, NEW s \in Stmts(k),
              s.req = req[t].id => r = "ok" /\ k # 0
       PROVE  Placed(k, s)'
  <2>1. /\ answer' = [answer EXCEPT ![req[t].id] = r]
        /\ pc' = [pc EXCEPT ![t] = p]
    BY <1>10 DEF Told, Goto
  <2>2. s.req \in ReqIds /\ Placed(k, s)
    BY <1>2, <1>10
  <2>3. CASE s.req = req[t].id
    BY <1>10, <2>1, <2>2, <2>3 DEF Placed, Types
  <2>4. CASE s.req # req[t].id
    <3>1. answer'[s.req] = answer[s.req]
      BY <2>1, <2>2, <2>4 DEF Types
    <3>2. ASSUME NEW u \in Clients, Mine(u, s) PROVE Mine(u, s)'
      BY <1>10, <2>1, <2>4, <3>2 DEF Mine, Works, Types
    <3>3. QED
      BY <1>10, <2>2, <3>1, <3>2 DEF Placed
  <2>5. QED
    BY <2>3, <2>4
<1>11. CASE Busy(t)
  <2>1. /\ Active(t) /\ ~Works(t) /\ Told(t, "busy", "read")
        /\ UNCHANGED <<trans, asked, via>>
        /\ \A u \in Clients \ {t} : req'[u] = req[u]
    BY <1>11 DEF Busy, NextRound, Active, Works, Working, dbVars, Types
  <2>2. ASSUME NEW k \in Pool, NEW s \in Stmts(k) PROVE Placed(k, s)'
    <3>1. s.req # req[t].id
      BY <2>1, <2>2, OwnConn
    <3>2. QED
      BY <1>10, <2>1, <2>2, <3>1 DEF Answers
  <2>3. QED
    BY <2>1, <2>2, KeepsAll DEF Transactions, Keeps
<1>12. CASE Query(t)
  <2>1. PICK r \in {"ok", "fault"} : Told(t, r, "unlock")
    BY <1>12 DEF Query
  <2>2. /\ Active(t) /\ req[t].op = "query"
        /\ UNCHANGED <<trans, asked, via, req>>
    BY <1>12 DEF Query, Active, dbVars, Requests, RequestOf, OpOf
  <2>3. ASSUME NEW k \in Pool, NEW s \in Stmts(k) PROVE Placed(k, s)'
    <3>1. s.req # req[t].id
      BY <1>2, <2>2, <2>3, OwnConn DEF Placed
    <3>2. QED
      BY <1>10, <2>1, <2>2, <2>3, <3>1 DEF Answers
  <2>4. QED
    BY <2>2, <2>3, KeepsAll DEF Transactions, Keeps
<1>13. CASE Refused(t)
  <2>1. PICK r \in {"poor", "illegal", "fault"} : Refuse(t, r)
    BY <1>13 DEF Refused
  <2>2. /\ trans' = [trans EXCEPT ![iconn[t]] = <<>>] /\ Told(t, r, "unlock")
        /\ UNCHANGED <<asked, via, req>>
    BY <2>1 DEF Refuse, Rollback
  <2>3. Active(t) /\ iconn[t] \in Pool
    BY <1>13 DEF Refused, Statements, Active, Types, Works, Working
  <2> PICK c \in Pool : c = iconn[t]
    BY <2>3
  <2>4. Stmts(c)' = {} /\ \A k \in Pool \ {c} : Keeps(k)
    BY <2>2, EmptiesOne
  <2>5. ASSUME NEW k \in Pool \ {c}, NEW s \in Stmts(k)
        PROVE  Placed(k, s)'
    <3>1. s.req # req[t].id
      BY <2>3, <2>5, OwnConn
    <3>2. QED
      BY <1>10, <2>2, <2>3, <2>5, <3>1 DEF Answers
  <2>6. QED
    BY <2>4, <2>5 DEF Transactions, Keeps
<1>14. CASE Passed(t)
  BY <1>4, <1>14 DEF Passed, Working, dbVars, histVars
<1>15. CASE Executed(t)
  <2>1. PICK s \in Stmt :
          /\ s.req = req[t].id /\ s.op = req[t].op /\ s.step = pc[t]
          /\ Stmts(iconn[t])' = Stmts(iconn[t]) \cup {s}
    BY <1>15, AddsOne
  <2>2. /\ iconn[t] \in Pool /\ \A k \in Pool \ {iconn[t]} : Keeps(k)
        /\ UNCHANGED <<done, mutex, sent, req, iconn, asked, via, answer>>
    BY <1>15, AddsOne
  <2>3. PICK p \in {"credit", "commit"} : pc' = [pc EXCEPT ![t] = p]
    BY <1>15 DEF Executed
  <2>4. ASSUME NEW u \in Clients, NEW v, Mine(u, v) PROVE Mine(u, v)'
    BY <2>2, <2>3, <2>4 DEF Mine, Works, Working, Types
  <2>5. ASSUME NEW k \in Pool, NEW v \in Stmts(k) PROVE Placed(k, v)'
    BY <1>2, <2>2, <2>4, <2>5 DEF Placed
  <2>6. Active(t) /\ Works(t)
    BY <1>15 DEF Executed, Active, Works, Working
  <2>7. Placed(iconn[t], s)'
    <3>1. via[s.req] = iconn[t] /\ asked[s.req] = s.op
      BY <2>1, <2>6 DEF Requests, RequestOf
    <3>2. s.op # "query" /\ (s.op = "transfer" => s.step \in {"debit", "credit"})
      BY <1>15, <2>1, <2>6 DEF Requests, RequestOf, OpOf, Executed
    <3>3. Mine(t, s)'
      BY <2>1, <2>2, <2>3 DEF Mine, Works, Working, Types
    <3>4. QED
      BY <2>2, <3>1, <3>2, <3>3 DEF Placed
  <2>8. QED
    BY <2>1, <2>2, <2>5, <2>7 DEF Transactions, Keeps
<1>16. CASE CommitStep(t) \/ CommitFails(t)
  <2>1. /\ trans' = [trans EXCEPT ![CommitConn(t)] = <<>>]
        /\ Told(t, "ok", "unlock") /\ UNCHANGED <<asked, via, req>>
    BY <1>16 DEF CommitStep, Commit, CommitFails, Drop, Rollback
  <2>6. pc[t] = "commit"
    BY <1>16 DEF CommitStep, CommitFails
  <2> PICK c \in Pool : c = CommitConn(t)
    BY <2>6 DEF CommitConn, Types, Works, Working
  <2>2. Active(t) /\ (c = 0 \/ c = iconn[t])
    BY <2>6 DEF CommitConn, Active
  <2>3. Stmts(c)' = {} /\ \A k \in Pool \ {c} : Keeps(k)
    BY <2>1, <2>2, EmptiesOne
  <2>4. ASSUME NEW k \in Pool \ {c}, NEW s \in Stmts(k) PROVE Placed(k, s)'
    <3>1. s.req = req[t].id => k # 0
      BY <2>2, <2>4, OwnConn
    <3>2. QED
      BY <1>10, <2>1, <2>2, <2>4, <3>1 DEF Answers
  <2>5. QED
    BY <2>3, <2>4 DEF Transactions, Keeps
<1>17. QED
  BY <1>5, <1>6, <1>7, <1>8, <1>9, <1>11, <1>12, <1>13, <1>14, <1>15, <1>16
     DEF Step

\* A connection is worked on by one thread: what is of a request under way in
\* its transaction is of the request of that thread.
LEMMA OneAtATime ==
  ASSUME Types, Requests, Transactions, HoldsMutex,
         NEW t \in Clients, Works(t), NEW k \in Pool, k = iconn[t],
         NEW s \in Stmts(k)
  PROVE  s.req = req[t].id \/ answer[s.req] = "ok"
<1>1. SUFFICES ASSUME NEW u \in Clients, Mine(u, s) PROVE u = t
  BY DEF Transactions, Placed, Mine
<1>2. Works(u) /\ Active(u)
  BY <1>1 DEF Mine, Works, Active, Working
<1>3. iconn[u] = k
  BY <1>1, <1>2 DEF Transactions, Placed, Mine, Requests, RequestOf
<1>4. QED
  BY <1>2, <1>3 DEF HoldsMutex, Works

\* The step that commits: a connection is emptied, into done, the first or
\* t's own, and its own for what is not a withdrawal or a transfer.
LEMMA CommitEffect ==
  ASSUME Types, NEW t \in Clients, CommitStep(t)
  PROVE  \E c \in Pool :
           /\ Stmts(c)' = {} /\ (\A k \in Pool \ {c} : Keeps(k))
           /\ done' = done \cup Stmts(c) /\ UNCHANGED unkept
           /\ c = IF req[t].op \in {"withdraw", "transfer"} THEN 0 ELSE iconn[t]
           /\ answer' = [answer EXCEPT ![req[t].id] = "ok"]
           /\ pc' = [pc EXCEPT ![t] = "unlock"]
           /\ UNCHANGED <<mutex, sent, req, iconn, asked, via>>
           /\ Works(t) /\ Active(t) /\ iconn[t] \in Pool /\ pc[t] = "commit"
<1>1. Works(t) /\ Active(t) /\ iconn[t] \in Pool /\ pc[t] = "commit"
  BY DEF CommitStep, Works, Active, Working, Types
<1>2. PICK c \in Pool : c = CommitConn(t)
  BY <1>1, Numbers DEF CommitConn
<1>3. /\ trans' = [trans EXCEPT ![c] = <<>>] /\ done' = done \cup Stmts(c)
      /\ UNCHANGED unkept
  BY <1>2 DEF CommitStep, Commit
<1>4. Stmts(c)' = {} /\ \A k \in Pool \ {c} : Keeps(k)
  BY <1>3, EmptiesOne
<1>5. QED
  BY <1>1, <1>2, <1>3, <1>4 DEF CommitStep, CommitConn, Told, Goto

\* The one that fails empties it as well, and what was there is not kept.
LEMMA CommitFailsEffect ==
  ASSUME Types, NEW t \in Clients, CommitFails(t)
  PROVE  \E c \in Pool :
           /\ Stmts(c)' = {} /\ (\A k \in Pool \ {c} : Keeps(k))
           /\ unkept' = unkept \cup {s.req : s \in Stmts(c)} /\ UNCHANGED done
           /\ c = IF req[t].op \in {"withdraw", "transfer"} THEN 0 ELSE iconn[t]
           /\ answer' = [answer EXCEPT ![req[t].id] = "ok"]
           /\ pc' = [pc EXCEPT ![t] = "unlock"]
           /\ UNCHANGED <<mutex, sent, req, iconn, asked, via>>
           /\ Works(t) /\ Active(t) /\ iconn[t] \in Pool /\ pc[t] = "commit"
<1>1. Works(t) /\ Active(t) /\ iconn[t] \in Pool /\ pc[t] = "commit"
  BY DEF CommitFails, Works, Active, Working, Types
<1>2. PICK c \in Pool : c = CommitConn(t)
  BY <1>1, Numbers DEF CommitConn
<1>3. /\ trans' = [trans EXCEPT ![c] = <<>>] /\ UNCHANGED done
      /\ unkept' = unkept \cup {s.req : s \in Stmts(c)}
  BY <1>2 DEF CommitFails, Drop, Rollback
<1>4. Stmts(c)' = {} /\ \A k \in Pool \ {c} : Keeps(k)
  BY <1>3, EmptiesOne
<1>5. QED
  BY <1>1, <1>2, <1>3, <1>4 DEF CommitFails, CommitConn, Told, Goto

\* A lost link does nothing else.
LEMMA LinkLostEffect ==
  ASSUME Types, NEW c \in Pool, LinkLost(c)
  PROVE  /\ Stmts(c)' = {} /\ (\A k \in Pool \ {c} : Keeps(k))
         /\ unkept' = unkept \cup {s.req : s \in Stmts(c)}
         /\ UNCHANGED <<ye, users, done, progVars, histVars>>
<1>1. /\ trans' = [trans EXCEPT ![c] = <<>>]
      /\ unkept' = unkept \cup {s.req : s \in Stmts(c)}
      /\ UNCHANGED <<ye, users, done, progVars, histVars>>
  BY DEF LinkLost, Drop, Rollback
<1>2. QED
  BY <1>1, EmptiesOne

LEMMA RefuseEffect ==
  ASSUME Types, NEW t \in Clients, Refused(t)
  PROVE  \E c \in Pool, r \in {"poor", "illegal", "fault"} :
           /\ Stmts(c)' = {} /\ (\A k \in Pool \ {c} : Keeps(k))
           /\ c = iconn[t]
           /\ answer' = [answer EXCEPT ![req[t].id] = r]
           /\ pc' = [pc EXCEPT ![t] = "unlock"]
           /\ UNCHANGED <<done, unkept, mutex, sent, req, iconn, asked, via>>
           /\ Works(t) /\ Active(t) /\ pc[t] # "unlock"
<1>1. PICK r \in {"poor", "illegal", "fault"} : Refuse(t, r)
  BY DEF Refused
<1>2. Works(t) /\ Active(t) /\ iconn[t] \in Pool /\ pc[t] # "unlock"
  BY DEF Refused, Statements, Works, Active, Working, Types
<1>3. PICK c \in Pool : c = iconn[t]
  BY <1>2
<1>4. trans' = [trans EXCEPT ![c] = <<>>]
  BY <1>1, <1>3 DEF Refuse, Rollback
<1>5. Stmts(c)' = {} /\ \A k \in Pool \ {c} : Keeps(k)
  BY <1>4, EmptiesOne
<1>6. QED
  BY <1>1, <1>2, <1>3, <1>5 DEF Refuse, Rollback, Told, Goto

\* A connection is taken by a thread whose request had none.
LEMMA TakeEffect ==
  ASSUME Types, Requests, NEW t \in Clients, TakesConn(t)
  PROVE  /\ via' = [via EXCEPT ![req[t].id] = iconn[t]]
         /\ via[req[t].id] = NConn /\ answer[req[t].id] = "none"
         /\ req[t].id \in ReqIds /\ NConn # 0
         /\ pc' = [pc EXCEPT ![t] = FirstStep[req[t].op]] /\ req[t].op \in AllOps
         /\ UNCHANGED <<dbVars, sent, req, iconn, asked, answer>>
<1>1. Active(t) /\ pc[t] = "trylock"
  BY DEF TakesConn, Active
<1>2. req[t].id \in ReqIds /\ req[t].op \in AllOps
  BY <1>1, ActiveReq
<1>3. QED
  BY <1>1, <1>2, Numbers DEF TakesConn, Locked, Goto, Requests, RequestOf

-----------------------------------------------------------------------------
(* What is committed off the first connection.                              *)

LEMMA StepRefused ==
  ASSUME Types, Requests, Transactions, HoldsMutex, RefusedNoTrace,
         NEW t \in Clients, Step(t)
  PROVE  RefusedNoTrace'
<1> USE DEF RefusedNoTrace
<1>1. \A s \in done : s.req \in ReqIds
  BY DEF Types, Stmt
<1>2. CASE UNCHANGED <<done, answer, via>>
  BY <1>2
<1>3. CASE TakesConn(t)
  <2>1. /\ via' = [via EXCEPT ![req[t].id] = iconn[t]]
        /\ via[req[t].id] # 0 /\ answer[req[t].id] # "ok"
        /\ UNCHANGED <<done, answer>>
    BY <1>3, TakeEffect DEF dbVars
  <2>2. \A s \in done : s.req # req[t].id
    BY <2>1
  <2>3. \A s \in done : via'[s.req] = via[s.req]
    BY <1>1, <2>1, <2>2 DEF Types
  <2>4. QED
    BY <2>1, <2>3
\* Answers that commit nothing: the request had none.
<1>4. ASSUME Active(t), pc[t] # "unlock", NEW r \in Answers,
             answer' = [answer EXCEPT ![req[t].id] = r],
             UNCHANGED <<done, via>>
      PROVE  RefusedNoTrace'
  <2>1. answer[req[t].id] = "none"
    BY <1>4 DEF Requests, RequestOf
  <2>2. QED
    BY <1>1, <1>4, <2>1 DEF Types
<1>5. CASE Busy(t)
  BY <1>4, <1>5 DEF Busy, Told, Active, Answers, dbVars
<1>6. CASE Query(t)
  BY <1>4, <1>6 DEF Query, Told, Active, Answers, dbVars
<1>7. CASE Refused(t)
  BY <1>4, <1>7, RefuseEffect DEF Answers
<1>8. CASE CommitStep(t)
  <2>1. PICK c \in Pool :
          /\ done' = done \cup Stmts(c)
          /\ c = 0 \/ c = iconn[t]
          /\ answer' = [answer EXCEPT ![req[t].id] = "ok"]
          /\ via' = via /\ Works(t)
    BY <1>8, CommitEffect
  <2>2. ASSUME NEW s \in Stmts(c), via[s.req] # 0 PROVE answer'[s.req] = "ok"
    <3>1. via[s.req] = c /\ s.req \in ReqIds
      BY <2>2, StmtTypes DEF Transactions, Placed
    <3>2. s.req = req[t].id \/ answer[s.req] = "ok"
      BY <2>1, <2>2, <3>1, OneAtATime
    <3>3. QED
      BY <2>1, <3>1, <3>2 DEF Types
  <2>3. ASSUME NEW s \in done, via[s.req] # 0 PROVE answer'[s.req] = "ok"
    BY <1>1, <2>1, <2>3 DEF Types
  <2>4. QED
    BY <2>1, <2>2, <2>3
<1>9. CASE CommitFails(t)
  BY <1>4, <1>9, CommitFailsEffect DEF Answers
<1>10. QED
  BY <1>2, <1>3, <1>5, <1>6, <1>7, <1>8, <1>9, AddsOne
     DEF Step, Read, HangUp, MissesConn, Unlock, Passed, dbVars, histVars

\* Nothing is open on a connection whose link is lost.
Dropped == \A k \in lost : trans[k] = <<>>

\* Off the first connection, a transfer that was answered ok is whole in the
\* open transaction, and one under way has the statements it should have, as
\* long as the link is not lost.
Other(S, s) == \E r \in S : r.req = s.req /\ r.step # s.step

HasStep(t, k, p) == \E s \in Stmts(k) : s.req = req[t].id /\ s.step = p

HalvesOf(t, k) ==
  Works(t) /\ iconn[t] = k /\ k \notin lost /\ req[t].op = "transfer" =>
    /\ pc[t] \in {"credit", "commit"} => HasStep(t, k, "debit")
    /\ pc[t] = "commit" => HasStep(t, k, "credit")

Halves ==
  /\ \A k \in Pool \ {0} : \A s \in Stmts(k) :
       s.op = "transfer" /\ answer[s.req] = "ok" => Other(Stmts(k), s)
  /\ \A t \in Clients, k \in Pool \ {0} : HalvesOf(t, k)

LEMMA StepWhole ==
  ASSUME Types, Requests, Transactions, HoldsMutex, Halves, TransferWhole,
         NEW t \in Clients, Step(t)
  PROVE  TransferWhole'
<1> USE DEF TransferWhole
<1>1. \A s \in done : s.req \in ReqIds
  BY DEF Types, Stmt
<1>2. CASE UNCHANGED <<done, via>>
  BY <1>2
<1>3. CASE TakesConn(t)
  <2>1. /\ via' = [via EXCEPT ![req[t].id] = iconn[t]]
        /\ via[req[t].id] # 0 /\ UNCHANGED done
    BY <1>3, TakeEffect DEF dbVars
  <2>2. \A s \in done : via'[s.req] # 0 => via[s.req] # 0
    BY <1>1, <2>1 DEF Types
  <2>3. QED
    BY <2>1, <2>2
<1>4. CASE CommitStep(t)
  <2>1. PICK c \in Pool :
          /\ done' = done \cup Stmts(c)
          /\ c = IF req[t].op \in {"withdraw", "transfer"} THEN 0 ELSE iconn[t]
          /\ via' = via /\ Works(t) /\ Active(t)
    BY <1>4, CommitEffect
  <2>2. ASSUME NEW s \in Stmts(c), s.op = "transfer", via[s.req] # 0
        PROVE  Other(Stmts(c), s)
    <3>1. c # 0
      BY <2>2 DEF Transactions, Placed
    <3>2. c = iconn[t] /\ req[t].op # "transfer"
      BY <2>1, <3>1
    <3>3. s.req # req[t].id
      BY <2>1, <2>2, <3>2, OwnConn
    <3>4. answer[s.req] = "ok"
      BY <2>1, <3>2, <3>3, OneAtATime
    <3>5. QED
      BY <2>2, <3>1, <3>4 DEF Halves
  <2>3. QED
    BY <2>1, <2>2 DEF Other
<1>5. QED
  BY <1>2, <1>3, <1>4, AddsOne, RefuseEffect, CommitFailsEffect
     DEF Step, Read, HangUp, MissesConn, Busy, Unlock, Query, Passed, Told,
         dbVars, histVars

LEMMA StepHalves ==
  ASSUME Types, Requests, Transactions, HoldsMutex, Halves, Dropped,
         NEW t \in Clients, Step(t)
  PROVE  Halves'
<1>0. UNCHANGED lost
  BY DEF Step, Read, HangUp, TakesConn, MissesConn, Busy, Unlock, Query, Refused,
     Refuse, Passed, Executed, Execute, CommitStep, Commit, CommitFails, dbVars
<1>1. \A k \in Pool : \A s \in Stmts(k) : s.req \in ReqIds
  BY StmtTypes
<1>2. ASSUME NEW k \in Pool \ {0}, NEW u \in Clients, Works(u), iconn[u] = k,
             Works(t), iconn[t] = k
      PROVE  u = t
  BY <1>2 DEF HoldsMutex, Works
\* What remains in a transaction remains whole if it is answered ok by now.
<1>3. ASSUME NEW k \in Pool \ {0}, Keeps(k), Active(t), NEW r \in Answers,
             answer' = [answer EXCEPT ![req[t].id] = r],
             r = "ok" => pc[t] \in {"query", "commit"},
             NEW s \in Stmts(k), s.op = "transfer", answer'[s.req] = "ok"
      PROVE  Other(Stmts(k), s)
  <2>1. CASE s.req # req[t].id
    BY <1>1, <1>3, <2>1 DEF Types, Halves
  <2>2. CASE s.req = req[t].id
    <3>1. Works(t) /\ k = iconn[t] /\ req[t].op = "transfer"
      BY <1>3, <2>2, OwnConn
    <3>2. r = "ok"
      BY <1>1, <1>3, <2>2 DEF Types
    <3>3. pc[t] = "commit"
      BY <1>3, <3>1, <3>2 DEF Requests, RequestOf, OpOf
    <3>4. HasStep(t, k, "debit") /\ HasStep(t, k, "credit")
      <4>1. k \notin lost
        BY <1>3 DEF Dropped, Stmts
      <4>2. QED
        BY <3>1, <3>3, <4>1 DEF Halves, HalvesOf
    <3>5. s.step \in {"debit", "credit"}
      BY <1>3 DEF Transactions, Placed
    <3>6. QED
      BY <2>2, <3>4, <3>5 DEF HasStep, Other
  <2>3. QED
    BY <2>1, <2>2
\* Threads that did not move.
<1>4. ASSUME NEW k \in Pool \ {0}, NEW u \in Clients, Stmts(k) \subseteq Stmts(k)',
             pc'[u] = pc[u], req'[u] = req[u], iconn'[u] = iconn[u]
      PROVE  HalvesOf(u, k)'
  <2>1. HalvesOf(u, k)
    BY <1>4 DEF Halves
  <2>2. ASSUME NEW p, HasStep(u, k, p) PROVE HasStep(u, k, p)'
    BY <1>4, <2>2 DEF HasStep
  <2>3. (HasStep(u, k, "debit") => HasStep(u, k, "debit")')
        /\ (HasStep(u, k, "credit") => HasStep(u, k, "credit")')
    BY <2>2
  <2>4. Works(u)' = Works(u)
    BY <1>4 DEF Works
  <2>5. QED
    BY <1>0, <1>4, <2>1, <2>3, <2>4 DEF HalvesOf
<1>5. ASSUME NEW k, Keeps(k) PROVE Stmts(k) \subseteq Stmts(k)'
  BY <1>5 DEF Keeps
\* Steps that leave transactions and answers, and t where nothing is needed.
<1>6. ASSUME UNCHANGED <<trans, answer>>,
             \A u \in Clients \ {t} : /\ pc'[u] = pc[u] /\ req'[u] = req[u]
                                      /\ iconn'[u] = iconn[u],
             \/ pc'[t] \notin {"credit", "commit"}
             \/ req'[t].op # "transfer"
             \/ UNCHANGED <<pc, req, iconn>>
             \/ ~Works(t)'
      PROVE  Halves'
  <2>1. \A k \in Pool : Keeps(k)
    BY <1>6, KeepsAll
  <2>2. ASSUME NEW k \in Pool \ {0}, NEW u \in Clients PROVE HalvesOf(u, k)'
    <3>1. CASE u # t \/ UNCHANGED <<pc, req, iconn>>
      BY <1>4, <1>5, <1>6, <2>1, <3>1
    <3>2. CASE u = t /\ ~UNCHANGED <<pc, req, iconn>>
      BY <1>6, <3>2 DEF HalvesOf
    <3>3. QED
      BY <3>1, <3>2
  <2>3. QED
    BY <1>6, <2>1, <2>2 DEF Halves, Keeps
<1>7. CASE Read(t)
  <2>1. PICK m \in Req : req' = [req EXCEPT ![t] = m]
    BY <1>7, ReadEffect
  <2>2. /\ pc' = [pc EXCEPT ![t] = "trylock"]
        /\ UNCHANGED <<trans, answer, iconn>>
    BY <1>7 DEF Read, Goto, dbVars
  <2>3. QED
    BY <1>6, <2>1, <2>2 DEF Types
<1>8. CASE HangUp(t)
  BY <1>6, <1>8 DEF HangUp, Goto, dbVars, histVars, Types
<1>9. CASE TakesConn(t)
  <2>1. /\ pc' = [pc EXCEPT ![t] = FirstStep[req[t].op]] /\ req[t].op \in AllOps
        /\ UNCHANGED <<trans, req, iconn, answer>>
    BY <1>9, TakeEffect DEF dbVars
  <2>2. FirstStep[req[t].op] \in {"credit", "commit"} => req[t].op # "transfer"
    BY <2>1 DEF AllOps, FirstStep
  <2>3. QED
    BY <1>6, <2>1, <2>2 DEF Types
<1>10. CASE MissesConn(t)
  BY <1>6, <1>10 DEF MissesConn, dbVars, Types, Works, Working
<1>11. CASE Unlock(t)
  BY <1>6, <1>11 DEF Unlock, NextRound, Goto, dbVars, histVars, Types
<1>12. CASE Passed(t)
  BY <1>6, <1>12 DEF Passed, Goto, dbVars, histVars, Types
<1>13. ASSUME Active(t), NEW r \in Answers, NEW p \in {"read", "unlock"},
              Told(t, r, p), UNCHANGED trans,
              r = "ok" => pc[t] \in {"query", "commit"},
              \A u \in Clients \ {t} : req'[u] = req[u] /\ iconn'[u] = iconn[u]
       PROVE  Halves'
  <2>1. \A k \in Pool : Keeps(k)
    BY <1>13, KeepsAll
  <2>2. /\ answer' = [answer EXCEPT ![req[t].id] = r]
        /\ pc' = [pc EXCEPT ![t] = p]
    BY <1>13 DEF Told, Goto
  <2>3. ASSUME NEW k \in Pool \ {0}, NEW u \in Clients PROVE HalvesOf(u, k)'
    <3>1. CASE u # t
      BY <1>4, <1>5, <1>13, <2>1, <2>2, <3>1 DEF Types
    <3>2. CASE u = t
      BY <2>2, <3>2 DEF HalvesOf, Types
    <3>3. QED
      BY <3>1, <3>2
  <2>4. QED
    BY <1>3, <1>13, <2>1, <2>2, <2>3 DEF Halves, Keeps
<1>14. CASE Busy(t)
  BY <1>13, <1>14 DEF Busy, NextRound, Active, Answers, dbVars, Types
<1>15. CASE Query(t)
  BY <1>13, <1>15 DEF Query, Active, Answers, dbVars
\* Steps that empty the transaction of t's own connection, or of the first.
<1>16. ASSUME NEW c \in Pool, NEW r \in Answers,
              Stmts(c)' = {}, \A k \in Pool \ {c} : Keeps(k),
              c = 0 \/ c = iconn[t], Works(t), Active(t),
              answer' = [answer EXCEPT ![req[t].id] = r],
              r = "ok" => pc[t] = "commit",
              pc' = [pc EXCEPT ![t] = "unlock"], UNCHANGED <<req, iconn>>
       PROVE  Halves'
  <2>1. ASSUME NEW k \in Pool \ {0}, NEW u \in Clients PROVE HalvesOf(u, k)'
    <3>1. CASE u = t
      BY <1>16, <3>1 DEF HalvesOf, Types
    <3>2. CASE u # t /\ k # c
      BY <1>4, <1>5, <1>16, <3>2 DEF Types
    <3>3. CASE u # t /\ k = c
      <4>1. ~(Works(u) /\ iconn[u] = k)
        BY <1>2, <1>16, <3>3
      <4>2. pc'[u] = pc[u] /\ iconn'[u] = iconn[u]
        BY <1>16, <3>3 DEF Types
      <4>3. QED
        BY <1>0, <4>1, <4>2 DEF HalvesOf, Works
    <3>4. QED
      BY <3>1, <3>2, <3>3
  <2>2. ASSUME NEW k \in Pool \ {0}, NEW s \in Stmts(k)',
               s.op = "transfer", answer'[s.req] = "ok"
        PROVE  Other(Stmts(k), s)'
    <3>1. k # c /\ Keeps(k) /\ s \in Stmts(k)
      BY <1>16, <2>2 DEF Keeps
    <3>2. Other(Stmts(k), s)
      BY <1>3, <1>16, <2>2, <3>1
    <3>3. QED
      BY <3>1, <3>2 DEF Other, Keeps
  <2>3. QED
    BY <2>1, <2>2 DEF Halves
<1>17. CASE Refused(t)
  BY <1>16, <1>17, RefuseEffect DEF Answers
<1>18. CASE CommitStep(t) \/ CommitFails(t)
  BY <1>16, <1>18, CommitEffect, CommitFailsEffect DEF Answers
<1>19. CASE Executed(t)
  <2>1. /\ iconn[t] \in Pool /\ \A k \in Pool \ {iconn[t]} : Keeps(k)
        /\ UNCHANGED <<done, mutex, sent, req, iconn, asked, via, answer>>
    BY <1>19, AddsOne
  <2>2. PICK n \in Stmt :
          /\ n.req = req[t].id /\ n.op = req[t].op /\ n.step = pc[t]
          /\ Stmts(iconn[t])' = Stmts(iconn[t]) \cup {n}
    BY <1>19, AddsOne
  <2>3. PICK c \in Pool : c = iconn[t]
    BY <2>1
  <2>4. Stmts(c)' = Stmts(c) \cup {n}
    BY <2>1, <2>2, <2>3
  <2>5. PICK p \in {"credit", "commit"} :
          /\ pc' = [pc EXCEPT ![t] = p]
          /\ p = "credit" <=> pc[t] = "debit" /\ req[t].op = "transfer"
    BY <1>19 DEF Executed, Goto
  <2>6. Works(t) /\ Active(t) /\ pc[t] \in {"open", "debit", "credit"}
    BY <1>19 DEF Executed, Works, Working, Active
  <2>7. answer[n.req] = "none"
    BY <2>2, <2>6 DEF Requests, RequestOf
  <2>8. ASSUME NEW k \in Pool \ {0}, NEW s \in Stmts(k)',
               s.op = "transfer", answer'[s.req] = "ok"
        PROVE  Other(Stmts(k), s)'
    <3>1. s \in Stmts(k) /\ Stmts(k) \subseteq Stmts(k)'
      BY <2>1, <2>3, <2>4, <2>7, <2>8 DEF Keeps
    <3>2. Other(Stmts(k), s)
      BY <2>1, <2>8, <3>1 DEF Halves
    <3>3. QED
      BY <3>1, <3>2 DEF Other
  <2>9. ASSUME NEW k \in Pool \ {0}, NEW u \in Clients PROVE HalvesOf(u, k)'
    <3>1. Stmts(k) \subseteq Stmts(k)'
      BY <2>1, <2>3, <2>4 DEF Keeps
    <3>2. CASE u # t
      BY <1>4, <2>1, <2>5, <3>1, <3>2 DEF Types
    <3>3. CASE u = t /\ k = c /\ req[t].op = "transfer"
      <4>1. n \in Stmts(k)' /\ pc'[t] = p
        BY <2>4, <2>5, <3>3 DEF Types
      <4>2. CASE pc[t] = "debit"
        BY <2>1, <2>2, <2>5, <3>3, <4>1, <4>2 DEF HalvesOf, HasStep
      <4>3. CASE pc[t] = "credit"
        <5>1. HasStep(t, k, "debit")
          <6>1. k \notin lost
            BY <1>19, <2>3, <3>3 DEF Executed, Execute
          <6>2. QED
            BY <2>3, <2>6, <3>3, <4>3, <6>1 DEF Halves, HalvesOf
        <5>2. HasStep(t, k, "debit")' /\ HasStep(t, k, "credit")'
          BY <2>1, <2>2, <3>1, <4>1, <4>3, <5>1 DEF HasStep
        <5>3. QED
          BY <3>3, <5>2 DEF HalvesOf
      <4>4. CASE pc[t] = "open"
        BY <2>6, <3>3, <4>4 DEF Requests, RequestOf, OpOf
      <4>5. QED
        BY <2>6, <4>2, <4>3, <4>4
    <3>4. CASE u = t /\ (k # c \/ req[t].op # "transfer")
      BY <2>1, <2>3, <3>4 DEF HalvesOf
    <3>5. QED
      BY <3>2, <3>3, <3>4
  <2>10. QED
    BY <2>8, <2>9 DEF Halves
<1>20. QED
  BY <1>7, <1>8, <1>9, <1>10, <1>11, <1>12, <1>14, <1>15, <1>17, <1>18, <1>19
     DEF Step

\* The statement of a request about to be committed is still there, or was
\* committed in the place of another one, or rolled back by the database.
StmtsOf(q, S) == \E s \in S : s.req = q

Left(k, q) == StmtsOf(q, Stmts(k) \cup done) \/ q \in unkept

Deposits ==
  \A t \in Clients, k \in Pool : pc[t] = "commit" /\ iconn[t] = k =>
    Left(k, req[t].id)

\* What a connection that is emptied leaves of a request, when its statements
\* are committed or rolled back by the database.
LEMMA EmptiedLeft ==
  ASSUME NEW c \in Pool, \A k \in Pool \ {c} : Keeps(k),
         done \subseteq done', unkept \subseteq unkept',
         \/ Stmts(c) \subseteq done'
         \/ \A s \in Stmts(c) : s.req \in unkept',
         NEW k \in Pool, NEW q, Left(k, q)
  PROVE  Left(k, q)'
<1>1. CASE k = c
  BY <1>1 DEF Left, StmtsOf
<1>2. CASE k # c
  BY <1>2 DEF Left, StmtsOf, Keeps
<1>3. QED
  BY <1>1, <1>2

LEMMA StepDeposits ==
  ASSUME Types, Requests, HoldsMutex, Deposits, NEW t \in Clients, Step(t)
  PROVE  Deposits'
<1> USE DEF Deposits
<1>1. ASSUME \A k \in Pool, q \in ReqIds : Left(k, q) => Left(k, q)',
             \A u \in Clients : pc'[u] = "commit" =>
               pc[u] = "commit" /\ req'[u] = req[u] /\ iconn'[u] = iconn[u]
      PROVE  Deposits'
  <2>1. \A u \in Clients : pc[u] = "commit" => req[u].id \in ReqIds
    BY ActiveReq DEF Active
  <2>2. QED
    BY <1>1, <2>1
<1>2. ASSUME UNCHANGED <<trans, done, unkept>>
      PROVE  \A k \in Pool, q \in ReqIds : Left(k, q) => Left(k, q)'
  BY <1>2, KeepsAll DEF Keeps, Left, StmtsOf
<1>3. CASE Read(t)
  <2>1. PICK m \in Req : req' = [req EXCEPT ![t] = m]
    BY <1>3, ReadEffect
  <2>2. /\ pc' = [pc EXCEPT ![t] = "trylock"]
        /\ UNCHANGED <<trans, done, unkept, iconn>>
    BY <1>3 DEF Read, Goto, dbVars
  <2>3. QED
    BY <1>1, <1>2, <2>1, <2>2 DEF Types
<1>4. CASE HangUp(t)
  BY <1>1, <1>2, <1>4 DEF HangUp, Goto, dbVars, Types
<1>5. CASE TakesConn(t)
  <2>1. /\ pc' = [pc EXCEPT ![t] = FirstStep[req[t].op]] /\ req[t].op \in AllOps
        /\ UNCHANGED <<trans, done, unkept, req, iconn>>
    BY <1>5, TakeEffect DEF dbVars
  <2>2. FirstStep[req[t].op] # "commit"
    BY <2>1 DEF AllOps, FirstStep
  <2>3. QED
    BY <1>1, <1>2, <2>1, <2>2 DEF Types
<1>6. CASE MissesConn(t)
  BY <1>1, <1>2, <1>6 DEF MissesConn, dbVars, Types
<1>7. CASE Busy(t)
  BY <1>1, <1>2, <1>7 DEF Busy, Told, Goto, NextRound, dbVars, Types
<1>8. CASE Unlock(t)
  BY <1>1, <1>2, <1>8 DEF Unlock, Goto, NextRound, dbVars, Types
<1>9. CASE Query(t)
  BY <1>1, <1>2, <1>9 DEF Query, Told, Goto, dbVars, Types
<1>10. CASE Passed(t)
  BY <1>1, <1>2, <1>10 DEF Passed, Goto, dbVars, Types
<1>11. CASE Refused(t)
  <2>1. PICK c \in Pool :
          /\ \A k \in Pool \ {c} : Keeps(k)
          /\ c = iconn[t] /\ Works(t)
          /\ pc' = [pc EXCEPT ![t] = "unlock"]
          /\ UNCHANGED <<done, unkept, mutex, sent, req, iconn, asked, via>>
    BY <1>11, RefuseEffect
  <2>2. ASSUME NEW u \in Clients, NEW k \in Pool,
               pc'[u] = "commit", iconn'[u] = k
        PROVE  Left(k, req[u].id)'
    <3>1. u # t /\ pc[u] = "commit" /\ iconn[u] = k
      BY <2>1, <2>2 DEF Types
    <3>2. k # c
      BY <2>1, <3>1 DEF HoldsMutex, Works, Working
    <3>3. Left(k, req[u].id)
      BY <3>1
    <3>4. QED
      BY <2>1, <3>2, <3>3 DEF Keeps, Left, StmtsOf
  <2>3. QED
    BY <2>2
<1>12. CASE Executed(t)
  <2>1. PICK n \in Stmt : /\ n.req = req[t].id
                          /\ Stmts(iconn[t])' = Stmts(iconn[t]) \cup {n}
    BY <1>12, AddsOne
  <2>2. /\ \A k \in Pool \ {iconn[t]} : Keeps(k)
        /\ UNCHANGED <<done, unkept, req, iconn>>
    BY <1>12, AddsOne
  <2>3. PICK p : pc' = [pc EXCEPT ![t] = p]
    BY <1>12 DEF Executed, Goto
  <2>4. PICK c : c = iconn[t]
    OBVIOUS
  <2>5. Stmts(c)' = Stmts(c) \cup {n}
    BY <2>1, <2>2, <2>4
  <2>6. ASSUME NEW u \in Clients, NEW k \in Pool,
               pc'[u] = "commit", iconn'[u] = k
        PROVE  Left(k, req[u].id)'
    <3>1. CASE u = t
      <4>1. k = c
        BY <2>2, <2>4, <2>6, <3>1
      <4>2. n \in Stmts(k)' /\ n.req = req'[u].id
        BY <2>1, <2>2, <2>5, <3>1, <4>1
      <4>3. QED
        BY <4>2 DEF Left, StmtsOf
    <3>2. CASE u # t
      <4>1. pc[u] = "commit" /\ iconn[u] = k
        BY <2>2, <2>3, <2>6, <3>2 DEF Types
      <4>2. Left(k, req[u].id)
        BY <4>1
      <4>3. Stmts(k) \cup done \subseteq (Stmts(k) \cup done)'
        BY <2>2, <2>4, <2>5 DEF Keeps
      <4>4. QED
        BY <2>2, <4>2, <4>3 DEF Left, StmtsOf
    <3>3. QED
      BY <3>1, <3>2
  <2>7. QED
    BY <2>6
<1>13. CASE CommitStep(t) \/ CommitFails(t)
  <2>1. PICK c \in Pool :
          /\ \A k \in Pool \ {c} : Keeps(k)
          /\ done \subseteq done' /\ unkept \subseteq unkept'
          /\ \/ Stmts(c) \subseteq done'
             \/ \A s \in Stmts(c) : s.req \in unkept'
          /\ pc' = [pc EXCEPT ![t] = "unlock"]
          /\ UNCHANGED <<req, iconn>>
    <3>1. CASE CommitStep(t)
      BY <3>1, CommitEffect
    <3>2. CASE CommitFails(t)
      BY <3>2, CommitFailsEffect
    <3>3. QED
      BY <1>13, <3>1, <3>2
  <2>2. \A k \in Pool, q \in ReqIds : Left(k, q) => Left(k, q)'
    BY <2>1, EmptiedLeft
  <2>3. QED
    BY <1>1, <2>1, <2>2 DEF Types
<1>14. QED
  BY <1>3, <1>4, <1>5, <1>6, <1>7, <1>8, <1>9, <1>10, <1>11, <1>12, <1>13
     DEF Step

Kept ==
  \A q \in ReqIds :
    asked[q] \in {"open", "deposit"} /\ answer[q] = "ok" =>
      StmtsOf(q, done) \/ q \in unkept

LEMMA StepKept ==
  ASSUME Types, Requests, Deposits, Kept, NEW t \in Clients, Step(t)
  PROVE  Kept'
<1> USE DEF Kept, StmtsOf
<1>1. CASE UNCHANGED <<asked, answer, done, unkept>>
  BY <1>1
<1>2. CASE Read(t)
  <2>1. PICK m \in Req : asked' = [asked EXCEPT ![sent + 1] = m.op]
    BY <1>2, ReadEffect
  <2>2. /\ sent + 1 \in ReqIds /\ UNCHANGED <<answer, done, unkept>>
    BY <1>2, ReadEffect DEF Read, dbVars
  <2>3. answer[sent + 1] # "ok"
    <3>1. sent + 1 > sent
      BY DEF Types
    <3>2. QED
      BY <2>2, <3>1 DEF Requests, Unsent
  <2>4. QED
    BY <2>1, <2>2, <2>3 DEF Types
\* Answers to requests that commit nothing.
<1>3. ASSUME NEW r, answer' = [answer EXCEPT ![req[t].id] = r],
             UNCHANGED <<asked, done, unkept>>,
             r # "ok" \/ asked[req[t].id] = "query"
      PROVE  Kept'
  BY <1>3 DEF Types
<1>4. CASE Busy(t)
  BY <1>3, <1>4 DEF Busy, Told, dbVars
<1>5. CASE Query(t)
  <2>1. asked[req[t].id] = "query"
    BY <1>5 DEF Query, Requests, RequestOf, OpOf, Active
  <2>2. QED
    BY <1>3, <1>5, <2>1 DEF Query, Told, dbVars
<1>6. CASE Refused(t)
  BY <1>3, <1>6, RefuseEffect
<1>7. CASE CommitStep(t) \/ CommitFails(t)
  <2>1. PICK c \in Pool :
          /\ \/ done' = done \cup Stmts(c) /\ unkept' = unkept
             \/ done' = done /\ unkept' = unkept \cup {s.req : s \in Stmts(c)}
          /\ c = IF req[t].op \in {"withdraw", "transfer"} THEN 0 ELSE iconn[t]
          /\ answer' = [answer EXCEPT ![req[t].id] = "ok"]
          /\ asked' = asked
          /\ pc[t] = "commit" /\ Active(t)
    <3>1. CASE CommitStep(t)
      BY <3>1, CommitEffect
    <3>2. CASE CommitFails(t)
      BY <3>2, CommitFailsEffect
    <3>3. QED
      BY <1>7, <3>1, <3>2
  <2>2. ASSUME NEW q \in ReqIds, asked[q] \in {"open", "deposit"},
               answer'[q] = "ok"
        PROVE  StmtsOf(q, done') \/ q \in unkept'
    <3>1. CASE q = req[t].id
      <4>1. asked[q] = req[t].op
        BY <2>1, <3>1 DEF Requests, RequestOf
      <4>2. c = iconn[t]
        BY <2>1, <2>2, <4>1
      <4>3. StmtsOf(q, Stmts(c) \cup done) \/ q \in unkept
        BY <2>1, <3>1, <4>2 DEF Deposits, Left
      <4>4. QED
        BY <2>1, <4>3
    <3>2. CASE q # req[t].id
      BY <2>1, <2>2, <3>2 DEF Types
    <3>3. QED
      BY <3>1, <3>2
  <2>3. QED
    BY <2>1, <2>2
<1>8. QED
  BY <1>1, <1>2, <1>4, <1>5, <1>6, <1>7, AddsOne
     DEF Step, HangUp, TakesConn, Locked, MissesConn, Unlock, Passed, dbVars,
         histVars

\* A request leaves nothing before its first statement, and the only statement
\* of an opened account or a deposit is in one place at a time.
Trace(q) ==
  StmtsOf(q, done) \/ q \in unkept \/ \E k \in Pool : StmtsOf(q, Stmts(k))

Before(t) ==
  Active(t) /\ (pc[t] \in {"trylock", "query", "open", "check", "checkto", "debit"}
                \/ (pc[t] = "credit" /\ req[t].op = "deposit"))

Apart(q) ==
  /\ ~(StmtsOf(q, done) /\ q \in unkept)
  /\ \A k \in Pool : StmtsOf(q, Stmts(k)) => q \notin unkept /\ ~StmtsOf(q, done)

Once ==
  /\ \A q \in ReqIds : q > sent => ~Trace(q)
  /\ \A t \in Clients : Before(t) => ~Trace(req[t].id)
  /\ \A q \in ReqIds : asked[q] \in {"open", "deposit"} => Apart(q)

\* No request has more traces than before, in no more places.
NoMore == \A q \in ReqIds : (Trace(q)' => Trace(q)) /\ (Apart(q) => Apart(q)')

LEMMA NoMoreSame ==
  ASSUME UNCHANGED <<trans, done, unkept>>
  PROVE  NoMore
BY DEF NoMore, Trace, Apart, StmtsOf, Stmts

\* A connection is emptied: what was there goes to one place, or nowhere.
LEMMA NoMoreEmptied ==
  ASSUME Types, Transactions, NEW c \in Pool, Stmts(c)' = {},
         \A k \in Pool \ {c} : Keeps(k),
         \/ done' = done \cup Stmts(c) /\ unkept' = unkept
         \/ done' = done /\ unkept' = unkept \cup {s.req : s \in Stmts(c)}
         \/ UNCHANGED <<done, unkept>>
  PROVE  NoMore
<1> USE DEF StmtsOf
<1> SUFFICES ASSUME NEW q \in ReqIds
             PROVE  (Trace(q)' => Trace(q)) /\ (Apart(q) => Apart(q)')
  BY DEF NoMore
<1>1. /\ ~StmtsOf(q, Stmts(c))'
      /\ \A k \in Pool \ {c} : StmtsOf(q, Stmts(k))' <=> StmtsOf(q, Stmts(k))
  BY DEF Keeps
<1>2. /\ StmtsOf(q, done)' => StmtsOf(q, done) \/ StmtsOf(q, Stmts(c))
      /\ q \in unkept' => q \in unkept \/ StmtsOf(q, Stmts(c))
  OBVIOUS
<1>3. Trace(q)' => Trace(q)
  BY <1>1, <1>2 DEF Trace
<1>4. ASSUME StmtsOf(q, Stmts(c)), NEW k \in Pool \ {c} PROVE ~StmtsOf(q, Stmts(k))
  <2>1. ASSUME NEW b \in Pool, StmtsOf(q, Stmts(b)) PROVE via[q] = b
    BY <2>1 DEF Transactions, Placed
  <2>2. QED
    BY <1>4, <2>1
<1>5. ASSUME Apart(q) PROVE Apart(q)'
  <2>1. ~(StmtsOf(q, done)' /\ q \in unkept')
    BY <1>2, <1>5 DEF Apart
  <2>2. ASSUME NEW k \in Pool, StmtsOf(q, Stmts(k))'
        PROVE  q \notin unkept' /\ ~StmtsOf(q, done)'
    <3>1. k # c /\ StmtsOf(q, Stmts(k))
      BY <1>1, <2>2
    <3>2. ~StmtsOf(q, Stmts(c))
      BY <1>4, <3>1
    <3>3. QED
      BY <1>2, <1>5, <3>1, <3>2 DEF Apart
  <2>3. QED
    BY <2>1, <2>2 DEF Apart
<1>6. QED
  BY <1>3, <1>5

LEMMA StepOnce ==
  ASSUME Types, Requests, Transactions, Once, NEW t \in Clients, Step(t)
  PROVE  Once'
<1>1. \A u \in Clients : Before(u) => req[u].id \in ReqIds
  BY ActiveReq DEF Before
\* Steps that start nothing.
<1>2. ASSUME NoMore, UNCHANGED <<sent, asked>>,
             \A u \in Clients : Before(u)' => Before(u) /\ req'[u] = req[u]
      PROVE  Once'
  BY <1>1, <1>2 DEF Once, NoMore
<1>3. ASSUME \A u \in Clients \ {t} : UNCHANGED <<pc[u], req[u]>>,
             Before(t)' => Before(t) /\ req'[t] = req[t]
      PROVE  \A u \in Clients : Before(u)' => Before(u) /\ req'[u] = req[u]
  BY <1>3 DEF Before, Active
<1> USE DEF Types, Goto, dbVars, histVars
<1>4. CASE Read(t)
  <2>1. PICK m \in Req :
          /\ m.id = sent + 1 /\ req' = [req EXCEPT ![t] = m]
          /\ asked' = [asked EXCEPT ![sent + 1] = m.op]
          /\ sent + 1 \in ReqIds
    BY <1>4, ReadEffect
  <2>2. /\ sent' = sent + 1 /\ pc' = [pc EXCEPT ![t] = "trylock"]
        /\ UNCHANGED <<trans, done, unkept>>
    BY <1>4 DEF Read
  <2>3. \A q \in ReqIds : (Trace(q)' => Trace(q)) /\ (Apart(q) => Apart(q)')
    BY <2>2, NoMoreSame DEF NoMore
  <2>4. sent \in Nat /\ ~Trace(sent + 1)
    BY <2>1 DEF Once
  <2>5. ASSUME NEW q \in ReqIds, q > sent' PROVE ~Trace(q)'
    BY <2>2, <2>3, <2>4, <2>5 DEF Once, ReqIds
  <2>6. ASSUME NEW u \in Clients, Before(u)' PROVE ~Trace(req[u].id)'
    <3>1. CASE u = t
      BY <2>1, <2>3, <2>4, <3>1
    <3>2. CASE u # t
      <4>1. Before(u) /\ req'[u] = req[u]
        BY <2>1, <2>2, <2>6, <3>2 DEF Before, Active
      <4>2. QED
        BY <1>1, <2>3, <4>1 DEF Once
    <3>3. QED
      BY <3>1, <3>2
  <2>7. ASSUME NEW q \in ReqIds, asked'[q] \in {"open", "deposit"} PROVE Apart(q)'
    <3>1. CASE q = sent + 1
      BY <2>3, <2>4, <3>1 DEF Apart, Trace
    <3>2. CASE q # sent + 1
      BY <2>1, <2>3, <2>7, <3>2 DEF Once
    <3>3. QED
      BY <3>1, <3>2
  <2>8. QED
    BY <2>5, <2>6, <2>7 DEF Once
<1>5. CASE HangUp(t)
  BY <1>2, <1>3, <1>5, NoMoreSame DEF HangUp, Before, Active
<1>6. CASE TakesConn(t)
  <2>1. Before(t) /\ UNCHANGED <<trans, done, unkept, sent, asked, req>>
    BY <1>6 DEF TakesConn, Before, Active
  <2>2. \A u \in Clients \ {t} : UNCHANGED <<pc[u], req[u]>>
    BY <1>6 DEF TakesConn, Locked
  <2>3. QED
    BY <1>2, <1>3, <2>1, <2>2, NoMoreSame
<1>7. CASE MissesConn(t)
  BY <1>2, <1>3, <1>7, NoMoreSame DEF MissesConn, Before, Active
<1>8. CASE Busy(t)
  BY <1>2, <1>3, <1>8, NoMoreSame DEF Busy, Told, NextRound, Before, Active
<1>9. CASE Unlock(t)
  BY <1>2, <1>3, <1>9, NoMoreSame DEF Unlock, NextRound, Before, Active
<1>10. CASE Query(t)
  BY <1>2, <1>3, <1>10, NoMoreSame DEF Query, Told, Before, Active
<1>11. CASE Passed(t)
  <2>1. Before(t) /\ UNCHANGED <<trans, done, unkept, sent, asked, req>>
    BY <1>11 DEF Passed, Before, Active
  <2>2. \A u \in Clients \ {t} : UNCHANGED <<pc[u], req[u]>>
    BY <1>11 DEF Passed
  <2>3. QED
    BY <1>2, <1>3, <2>1, <2>2, NoMoreSame
<1>12. ASSUME NEW c \in Pool, Stmts(c)' = {}, \A k \in Pool \ {c} : Keeps(k),
              \/ done' = done \cup Stmts(c) /\ unkept' = unkept
              \/ done' = done /\ unkept' = unkept \cup {s.req : s \in Stmts(c)}
              \/ UNCHANGED <<done, unkept>>,
              pc' = [pc EXCEPT ![t] = "unlock"], UNCHANGED <<sent, asked, req>>
       PROVE  Once'
  <2>1. NoMore
    BY <1>12, NoMoreEmptied
  <2>2. /\ \A u \in Clients \ {t} : UNCHANGED <<pc[u], req[u]>>
        /\ ~Before(t)'
    BY <1>12 DEF Before
  <2>3. QED
    BY <1>2, <1>3, <1>12, <2>1, <2>2
<1>13. CASE Refused(t)
  BY <1>12, <1>13, RefuseEffect
<1>14. CASE CommitStep(t)
  BY <1>12, <1>14, CommitEffect
<1>15. CASE CommitFails(t)
  BY <1>12, <1>15, CommitFailsEffect
<1>16. CASE Executed(t)
  <2>1. PICK n \in Stmt : /\ n.req = req[t].id
                          /\ Stmts(iconn[t])' = Stmts(iconn[t]) \cup {n}
    BY <1>16, AddsOne
  <2>2. /\ \A k \in Pool \ {iconn[t]} : Keeps(k)
        /\ UNCHANGED <<done, unkept, sent, asked, req, iconn>>
    BY <1>16, AddsOne
  <2>3. PICK p \in {"credit", "commit"} :
          /\ pc' = [pc EXCEPT ![t] = p]
          /\ p = "credit" <=> pc[t] = "debit" /\ req[t].op = "transfer"
    BY <1>16 DEF Executed
  <2>4. /\ Active(t) /\ req[t].id \in ReqIds /\ req[t].id <= sent
        /\ asked[req[t].id] = req[t].op /\ OpOf(t)
    BY <1>16, ActiveReq DEF Executed, Active, Requests, RequestOf
  <2>5. \A k \in Pool : Stmts(k)' = Stmts(k) \/ Stmts(k)' = Stmts(k) \cup {n}
    BY <2>1, <2>2 DEF Keeps
  <2>6. ASSUME NEW q \in ReqIds, q # req[t].id
        PROVE  (Trace(q)' <=> Trace(q)) /\ (Apart(q)' <=> Apart(q))
    <3>1. ASSUME NEW k \in Pool
          PROVE  StmtsOf(q, Stmts(k))' <=> StmtsOf(q, Stmts(k))
      <4>1. CASE Stmts(k)' = Stmts(k)
        BY <4>1 DEF StmtsOf
      <4>2. CASE Stmts(k)' = Stmts(k) \cup {n}
        BY <2>1, <2>6, <4>2 DEF StmtsOf
      <4>3. QED
        BY <2>5, <4>1, <4>2
    <3>2. StmtsOf(q, done)' <=> StmtsOf(q, done)
      BY <2>2 DEF StmtsOf
    <3>3. QED
      BY <2>2, <3>1, <3>2 DEF Trace, Apart
  <2>7. ~Before(t)'
    BY <2>2, <2>3 DEF Before
  <2>8. ASSUME NEW u \in Clients, Before(u)' PROVE ~Trace(req[u].id)'
    <3>1. u # t /\ Before(u) /\ req'[u] = req[u] /\ Active(u)
      BY <2>2, <2>3, <2>7, <2>8 DEF Before, Active
    <3>2. req[u].id # req[t].id
      BY <2>4, <3>1 DEF Requests, RequestOf
    <3>3. QED
      BY <1>1, <2>6, <3>1, <3>2 DEF Once
  <2>9. ASSUME asked[req[t].id] \in {"open", "deposit"} PROVE Apart(req[t].id)'
    <3>1. Before(t)
      BY <1>16, <2>4, <2>9 DEF Executed, Before, OpOf
    <3>2. ~StmtsOf(req[t].id, done) /\ req[t].id \notin unkept
      BY <3>1 DEF Once, Trace
    <3>3. ~StmtsOf(req[t].id, done)' /\ req'[t].id \notin unkept' /\ req' = req
      BY <2>2, <3>2 DEF StmtsOf
    <3>4. QED
      BY <3>3 DEF Apart
  <2>10. ASSUME NEW q \in ReqIds, q > sent' PROVE ~Trace(q)'
    <3>1. q # req[t].id
      BY <2>2, <2>4, <2>10, Numbers
    <3>2. QED
      BY <2>2, <2>6, <2>10, <3>1 DEF Once
  <2>11. ASSUME NEW q \in ReqIds, asked'[q] \in {"open", "deposit"} PROVE Apart(q)'
    BY <2>2, <2>6, <2>9, <2>11 DEF Once
  <2>12. QED
    BY <2>8, <2>10, <2>11 DEF Once
<1>17. QED
  BY <1>4, <1>5, <1>6, <1>7, <1>8, <1>9, <1>10, <1>11, <1>13, <1>14, <1>15, <1>16
     DEF Step

LEMMA StepDropped ==
  ASSUME Types, Dropped, NEW t \in Clients, Step(t)
  PROVE  Dropped'
<1> USE DEF Types, Dropped
<1>1. CASE UNCHANGED <<trans, lost>>
  BY <1>1
<1>2. ASSUME NEW c, trans' = [trans EXCEPT ![c] = <<>>], UNCHANGED lost
      PROVE  Dropped'
  BY <1>2
<1>3. CASE Refused(t)
  BY <1>2, <1>3 DEF Refused, Refuse, Rollback
<1>4. CASE CommitStep(t)
  BY <1>2, <1>4 DEF CommitStep, Commit
<1>5. CASE CommitFails(t)
  BY <1>2, <1>5 DEF CommitFails, Drop, Rollback
<1>6. CASE Executed(t)
  <2>1. \A k \in lost : trans'[k] = trans[k]
    BY <1>6 DEF Executed, Execute
  <2>2. lost' = lost
    BY <1>6 DEF Executed, Execute
  <2>3. QED
    BY <2>1, <2>2
<1>7. QED
  BY <1>1, <1>3, <1>4, <1>5, <1>6 DEF Step, Read, HangUp, TakesConn, MissesConn,
     Busy, Unlock, Query, Passed, dbVars

-----------------------------------------------------------------------------
(* The inductive invariant, and what follows from it.                       *)

BankInv ==
  /\ Types /\ Requests /\ HoldsMutex /\ Transactions
  /\ RefusedNoTrace /\ Halves /\ TransferWhole
  /\ Deposits /\ Kept /\ Once /\ Dropped

LEMMA InitInv == Init => BankInv
<1> SUFFICES ASSUME Init PROVE BankInv
  OBVIOUS
<1>1. Types /\ Requests /\ Transactions
  BY InitTypes, InitRequests, InitTransactions
<1>2. HoldsMutex
  BY DEF Init, HoldsMutex, Works, Working
<1>3. done = {} /\ unkept = {} /\ lost = {} /\ \A k \in Pool : Stmts(k) = {}
  BY DEF Init, Stmts
<1>4. \A t \in Clients : pc[t] = "read"
  BY DEF Init
<1>5. Halves /\ Deposits
  BY <1>3, <1>4 DEF Halves, HalvesOf, Works, Working, Deposits
<1>6. RefusedNoTrace /\ TransferWhole
  BY <1>3 DEF RefusedNoTrace, TransferWhole
<1>7. Kept
  BY DEF Init, Kept
<1>8. Once /\ Dropped
  BY <1>3, <1>4 DEF Once, Trace, Apart, StmtsOf, Before, Active, Dropped
<1>9. QED
  BY <1>1, <1>2, <1>5, <1>6, <1>7, <1>8 DEF BankInv

\* A link is lost: an open transaction is gone, and nothing else changes.
LEMMA LostInv ==
  ASSUME BankInv, NEW c \in Pool, LinkLost(c)
  PROVE  BankInv'
<1> USE DEF BankInv
<1>1. /\ Stmts(c)' = {} /\ (\A k \in Pool \ {c} : Keeps(k))
      /\ unkept' = unkept \cup {s.req : s \in Stmts(c)}
      /\ UNCHANGED <<ye, users, done, progVars, histVars>>
  BY LinkLostEffect
<1>2. UNCHANGED <<done, mutex, sent, pc, req, iconn, asked, via, answer>>
  BY <1>1 DEF progVars, histVars
<1>3. \A k \in Pool : Stmts(k)' \subseteq Stmts(k)
  BY <1>1 DEF Keeps
<1>4. Types'
  <2>1. trans' \in [Pool -> Seq(Stmt)] /\ lost' \subseteq Pool
    <3>1. <<>> \in Seq(Stmt)
      OBVIOUS
    <3>2. QED
      BY <3>1 DEF LinkLost, Drop, Rollback, Types
  <2>2. unkept' \subseteq ReqIds
    BY <1>1, StmtTypes DEF Types
  <2>3. faults' \in 0..MaxFault
    <3>1. faults < MaxFault /\ faults' = faults + 1 /\ faults \in 0..MaxFault
      BY DEF LinkLost, Fault, Types
    <3>2. QED
      BY <3>1, Numbers
  <2>4. QED
    BY <1>2, <2>1, <2>2, <2>3 DEF Types, Active, Works
<1>5. Requests' /\ HoldsMutex'
  BY <1>2 DEF Requests, RequestOf, OpOf, Unsent, HoldsMutex, Active, Works
<1>6. Transactions'
  BY <1>2, <1>3 DEF Transactions, Placed, Mine, Works
<1>7. RefusedNoTrace' /\ TransferWhole'
  BY <1>2 DEF RefusedNoTrace, TransferWhole
<1>8. Halves'
  <2>1. ASSUME NEW k \in Pool \ {0}, NEW s \in Stmts(k)', s.op = "transfer",
               answer'[s.req] = "ok"
        PROVE  Other(Stmts(k), s)'
    <3>1. Stmts(k)' = Stmts(k)
      BY <1>1, <2>1 DEF Keeps
    <3>2. QED
      BY <1>2, <2>1, <3>1 DEF Halves, Other
  <2>2. ASSUME NEW u \in Clients, NEW k \in Pool \ {0} PROVE HalvesOf(u, k)'
    <3>1. lost' = lost \cup {c}
      BY DEF LinkLost
    <3>2. CASE k = c
      BY <3>1, <3>2 DEF HalvesOf
    <3>3. CASE k # c
      <4>1. HalvesOf(u, k) /\ Stmts(k)' = Stmts(k)
        BY <1>1, <3>3 DEF Halves, Keeps
      <4>2. QED
        BY <1>2, <3>1, <4>1 DEF HalvesOf, HasStep, Works
    <3>4. QED
      BY <3>2, <3>3
  <2>3. QED
    BY <2>1, <2>2 DEF Halves
<1>9. Deposits'
  <2>1. \A k \in Pool, q \in ReqIds : Left(k, q) => Left(k, q)'
    BY <1>1, EmptiedLeft
  <2>2. \A u \in Clients : pc[u] = "commit" => req[u].id \in ReqIds
    BY ActiveReq DEF Active
  <2>3. QED
    BY <1>2, <2>1, <2>2 DEF Deposits
<1>10. Kept'
  BY <1>1, <1>2 DEF Kept, StmtsOf
<1>11. Once'
  <2>1. NoMore
    BY <1>1, <1>2, NoMoreEmptied
  <2>2. \A u \in Clients : Before(u)' => Before(u) /\ req'[u] = req[u]
                                        /\ req[u].id \in ReqIds
    BY <1>2, ActiveReq DEF Before, Active
  <2>3. QED
    BY <1>2, <2>1, <2>2 DEF Once, NoMore
<1>12. Dropped'
  BY DEF LinkLost, Drop, Rollback, Dropped, Types
<1>13. QED
  BY <1>4, <1>5, <1>6, <1>7, <1>8, <1>9, <1>10, <1>11, <1>12

LEMMA NextInv == BankInv /\ [Next]_vars => BankInv'
<1> SUFFICES ASSUME BankInv, [Next]_vars PROVE BankInv'
  OBVIOUS
<1> USE DEF BankInv
<1>1. ASSUME NEW t \in Clients, Thread(t) PROVE BankInv'
  <2>1. Step(t)
    BY <1>1, Steps
  <2>2. Types' /\ Requests' /\ HoldsMutex' /\ Transactions'
    BY <2>1, StepTypes, StepRequests, StepPool, StepTransactions
  <2>3. RefusedNoTrace' /\ Halves' /\ TransferWhole'
    BY <2>1, StepRefused, StepHalves, StepWhole
  <2>4. Deposits' /\ Kept' /\ Once' /\ Dropped'
    BY <2>1, StepDeposits, StepKept, StepOnce, StepDropped
  <2>5. QED
    BY <2>2, <2>3, <2>4
<1>2. CASE UNCHANGED vars
  <2> USE <1>2 DEF vars, dbVars, progVars, histVars
  <2>1. Types' /\ HoldsMutex'
    BY DEF Types, HoldsMutex, Active, Works
  <2>2. Requests'
    BY DEF Requests, RequestOf, OpOf, Active, Works, Unsent
  <2>3. \A k \in Pool : Stmts(k)' = Stmts(k)
    BY DEF Stmts
  <2>4. Transactions'
    BY <2>3 DEF Transactions, Placed, Mine, Works
  <2>5. RefusedNoTrace' /\ TransferWhole' /\ Kept' /\ Dropped'
    BY DEF RefusedNoTrace, TransferWhole, Kept, StmtsOf, Dropped
  <2>6. Halves'
    BY <2>3 DEF Halves, HalvesOf, HasStep, Other, Works
  <2>7. Deposits'
    BY <2>3 DEF Deposits, Left, StmtsOf
  <2>8. Once'
    BY <2>3 DEF Once, Before, Active, Trace, Apart, StmtsOf
  <2>9. QED
    BY <2>1, <2>2, <2>4, <2>5, <2>6, <2>7, <2>8
<1>3. QED
  BY <1>1, <1>2, LostInv DEF Next

\* What holds in every reachable state for every value of the constants.
LEMMA BankInvariant == Spec => []BankInv
BY InitInv, NextInv, PTL DEF Spec

\* A step that changes the open transaction of a connection is one of the
\* thread that holds its mutex, or the commit of a withdrawal or a transfer,
\* which is that of the first connection (procmessage 191-198, 283, 312), or
\* the loss of its link.
THEOREM BankPool == Spec => UnderMutex
<1>1. ASSUME BankInv, [Next]_vars, NEW k \in Pool, trans'[k] # trans[k]
      PROVE  \/ k \in lost' \ lost
             \/ \E t \in Clients : mutex[k] = t /\ iconn[t] = k /\ pc'[t] # pc[t]
             \/ \E t \in Clients :
                  /\ k = 0 /\ pc[t] = "commit" /\ pc'[t] = "unlock"
                  /\ req[t].op \in {"withdraw", "transfer"}
  <2>1. Types /\ HoldsMutex
    BY <1>1 DEF BankInv
  <2>2. /\ trans \in [Pool -> Seq(Stmt)]
        /\ pc \in [Clients -> Working \cup {"read", "trylock", "gone"}]
    BY <2>1 DEF Types
  <2>3. CASE \E c \in Pool : LinkLost(c)
    BY <1>1, <2>2, <2>3 DEF LinkLost, Drop, Rollback
  <2>4. ASSUME NEW t \in Clients, Thread(t)
        PROVE  \/ mutex[k] = t /\ iconn[t] = k /\ pc'[t] # pc[t]
               \/ /\ k = 0 /\ pc[t] = "commit" /\ pc'[t] = "unlock"
                  /\ req[t].op \in {"withdraw", "transfer"}
    <3>1. Step(t)
      BY <2>1, <2>4, Steps
    <3>2. CASE Refused(t)
      <4>1. pc[t] \in Statements /\ pc'[t] = "unlock" /\ k = iconn[t]
        BY <1>1, <2>2, <3>2 DEF Refused, Refuse, Rollback, Told, Goto
      <4>2. QED
        BY <2>1, <4>1 DEF HoldsMutex, Works, Working, Statements
    <3>3. CASE CommitStep(t) \/ CommitFails(t)
      <4>1. pc[t] = "commit" /\ pc'[t] = "unlock" /\ k = CommitConn(t)
        BY <1>1, <2>2, <3>3 DEF CommitStep, CommitFails, Commit, Drop, Rollback, Told, Goto
      <4>2. QED
        BY <2>1, <4>1 DEF CommitConn, HoldsMutex, Works, Working
    <3>4. CASE Executed(t)
      <4>1. pc[t] \in {"open", "debit", "credit"} /\ k = iconn[t]
        BY <1>1, <2>2, <3>4 DEF Executed, Execute
      <4>2. pc'[t] # pc[t]
        BY <2>2, <3>4 DEF Executed, Goto
      <4>3. QED
        BY <2>1, <4>1, <4>2 DEF HoldsMutex, Works, Working
    <3>5. CASE UNCHANGED trans
      BY <1>1, <3>5
    <3>6. QED
      BY <3>1, <3>2, <3>3, <3>4, <3>5 DEF Step, Read, HangUp, TakesConn, MissesConn,
         Busy, Unlock, Query, Passed, dbVars
  <2>5. ~UNCHANGED vars
    BY <1>1 DEF vars, dbVars
  <2>6. QED
    BY <1>1, <2>3, <2>4, <2>5 DEF Next
<1> DEFINE Worked ==
      \A k \in Pool : trans'[k] # trans[k] =>
        \/ k \in lost' \ lost
        \/ \E t \in Clients : mutex[k] = t /\ iconn[t] = k /\ pc'[t] # pc[t]
        \/ \E t \in Clients :
             /\ k = 0 /\ pc[t] = "commit" /\ pc'[t] = "unlock"
             /\ req[t].op \in {"withdraw", "transfer"}
<1>2. BankInv /\ [Next]_vars => [Worked]_vars
  BY <1>1
<1>3. Spec => [][Worked]_vars
  <2> HIDE DEF Worked
  <2>1. QED
    BY <1>2, BankInvariant, PTL DEF Spec
<1>4. QED
  BY <1>3 DEF UnderMutex

\* A connection nobody holds has no statement of a request under way or
\* refused, and the first one has none: its threads commit or roll back what
\* they did before they unlock it, or leave it answered ok.
THEOREM BankIdle == Spec => []IdleTrans
<1>1. BankInv => IdleTrans
  <2> SUFFICES ASSUME BankInv, NEW k \in Pool, mutex[k] = Nobody,
                      NEW s \in Stmts(k)
               PROVE  k # 0 /\ answer[s.req] = "ok"
    BY DEF IdleTrans
  <2>1. Placed(k, s)
    BY DEF BankInv, Transactions
  <2>2. ASSUME NEW t \in Clients, Mine(t, s) PROVE FALSE
    <3>1. Works(t) /\ Active(t) /\ req[t].id = s.req
      BY <2>2 DEF Mine, Works, Active, Working
    <3>2. iconn[t] = k
      BY <2>1, <3>1 DEF BankInv, Requests, RequestOf, Placed
    <3>3. mutex[k] = t
      BY <3>1, <3>2 DEF BankInv, HoldsMutex, Works
    <3>4. QED
      BY <3>3, BankConstants
  <2>3. QED
    BY <2>1, <2>2 DEF Placed
<1>2. QED
  BY <1>1, BankInvariant, PTL

\* Nothing of a request refused off the first connection, or not answered
\* yet, is ever committed, although whoever commits a connection commits
\* what others left on it (procmessage 275-368).
THEOREM BankRefused == Spec => []RefusedNoTrace
<1>1. BankInv => RefusedNoTrace
  BY DEF BankInv
<1>2. QED
  BY <1>1, BankInvariant, PTL

\* Off the first connection, the two halves of a transfer are committed
\* together, whoever commits them (procmessage 303-337).
THEOREM BankTransfers == Spec => []TransferWhole
<1>1. BankInv => TransferWhole
  BY DEF BankInv
<1>2. QED
  BY <1>1, BankInvariant, PTL

\* An account that was opened, and a deposit, that was answered ok is
\* committed, on whatever connection, unless the commit failed or the link was
\* lost, and exactly then nothing of it ever is (procmessage 233-273).
THEOREM BankDeposits == Spec => []DepositKept
<1>1. BankInv => DepositKept
  <2> SUFFICES ASSUME BankInv, NEW q \in ReqIds,
                      asked[q] \in {"open", "deposit"}, answer[q] = "ok"
               PROVE  StmtsOf(q, done) <=> q \notin unkept
    BY DEF DepositKept, StmtsOf
  <2>1. StmtsOf(q, done) \/ q \in unkept
    BY DEF BankInv, Kept
  <2>2. Apart(q)
    BY DEF BankInv, Once
  <2>3. QED
    BY <2>1, <2>2 DEF Apart
<1>2. QED
  BY <1>1, BankInvariant, PTL

-----------------------------------------------------------------------------
(* What the open transaction of a connection adds to a balance.             *)

\* The sums of the first 0, 1, ... of N integers.
SumsTo(N, c, f) ==
  \A i \in 0..N : f[i] = IF i = 0 THEN 0 ELSE f[i - 1] + c[i]

\* A set of naturals that is not empty has a least member.
LEMMA Least ==
  ASSUME NEW S \in SUBSET Nat, S # {}
  PROVE  \E m \in S : \A j \in S : m <= j
<1> DEFINE R == {p \in Nat \X Nat : p[1] < p[2]}
<1>1. IsWellFoundedOn(R, Nat)
  BY NatLessThanWellFounded DEF OpToRel
<1>2. PICK m \in S : \A j \in S : ~(<<j, m>> \in R)
  <2> HIDE DEF R
  <2>1. QED
    BY <1>1, WFMin
<1>3. ASSUME NEW j \in S PROVE m <= j
  <2>1. ~(j < m) /\ j \in Nat /\ m \in Nat
    BY <1>2
  <2>2. QED
    BY <2>1
<1>4. QED
  BY <1>3

LEMMA SumsExist ==
  ASSUME NEW N \in Nat, NEW c, \A i \in 1..N : c[i] \in Int
  PROVE  \E f \in [0..N -> Int] : SumsTo(N, c, f)
<1> DEFINE S == {m \in 0..N : ~ \E f \in [0..m -> Int] : SumsTo(m, c, f)}
<1>1. CASE N \notin S
  BY <1>1
<1>2. CASE N \in S
  <2>1. PICK m \in S : \A j \in S : m <= j
    <3>1. S \in SUBSET Nat /\ S # {}
      BY <1>2
    <3> HIDE DEF S
    <3>2. QED
      BY <3>1, Least
  <2>2. m \in 0..N /\ ~ \E f \in [0..m -> Int] : SumsTo(m, c, f)
    BY <2>1
  <2>3. CASE m = 0
    <3> DEFINE f == [i \in 0..0 |-> 0]
    <3>1. f \in [0..0 -> Int] /\ SumsTo(0, c, f)
      BY DEF SumsTo
    <3>2. QED
      BY <2>2, <2>3, <3>1
  <2>4. CASE m # 0
    <3>1. m - 1 \in 0..N /\ m - 1 < m /\ m \in 1..N /\ m - 1 \in 0..(m - 1)
      BY <2>2, <2>4
    <3>2. m - 1 \notin S
      BY <2>1, <2>2, <3>1
    <3>3. PICK g \in [0..(m - 1) -> Int] : SumsTo(m - 1, c, g)
      BY <3>1, <3>2
    <3> DEFINE f == [i \in 0..m |-> IF i = m THEN g[m - 1] + c[m] ELSE g[i]]
    <3>4. \A i \in 0..m : i # m => i \in 0..(m - 1)
      BY <3>1
    <3>5. g[m - 1] + c[m] \in Int
      BY <3>1, <3>3
    <3>6. f \in [0..m -> Int]
      BY <3>3, <3>4, <3>5
    <3>7. SumsTo(m, c, f)
      <4> SUFFICES ASSUME NEW i \in 0..m
                   PROVE  f[i] = IF i = 0 THEN 0 ELSE f[i - 1] + c[i]
        BY DEF SumsTo
      <4>1. CASE i = m
        BY <2>4, <3>1, <4>1
      <4>2. CASE i # m
        <5>1. i \in 0..(m - 1) /\ (i # 0 => (i - 1 \in 0..m /\ i - 1 # m))
          BY <3>1, <3>4, <4>2
        <5>2. f[i] = g[i] /\ (i # 0 => f[i - 1] = g[i - 1])
          BY <4>2, <5>1
        <5>3. QED
          BY <3>3, <5>1, <5>2 DEF SumsTo
      <4>3. QED
        BY <4>1, <4>2
    <3>8. QED
      BY <2>2, <3>6, <3>7
  <2>5. QED
    BY <2>3, <2>4
<1>3. QED
  BY <1>1, <1>2

\* The recursive function of Pending is the one of these sums.
LEMMA SumsUnique ==
  ASSUME NEW N \in Nat, NEW c, NEW f, NEW g, SumsTo(N, c, f), SumsTo(N, c, g)
  PROVE  \A i \in 0..N : f[i] = g[i]
<1> DEFINE S == {i \in 0..N : f[i] # g[i]}
<1>1. CASE S = {}
  BY <1>1
<1>2. CASE S # {}
  <2>1. PICK m \in S : \A j \in S : m <= j
    <3>1. S \in SUBSET Nat
      OBVIOUS
    <3> HIDE DEF S
    <3>2. QED
      BY <1>2, <3>1, Least
  <2>2. m \in 0..N /\ f[m] # g[m]
    BY <2>1
  <2>3. m # 0
    BY <2>2 DEF SumsTo
  <2>4. m - 1 \in 0..N /\ m - 1 < m
    BY <2>2, <2>3
  <2>5. f[m - 1] = g[m - 1]
    BY <2>1, <2>2, <2>4
  <2>6. QED
    BY <2>2, <2>3, <2>5 DEF SumsTo
<1>3. QED
  BY <1>1, <1>2

\* The statements of k that are about account a.
Changes(k, a) == [i \in 1..Len(trans[k]) |->
                    IF trans[k][i].acct = a THEN trans[k][i].ye ELSE 0]

LEMMA PendingSums ==
  ASSUME Types, NEW k \in Pool, NEW a
  PROVE  \E f \in [0..Len(trans[k]) -> Int] :
           /\ SumsTo(Len(trans[k]), Changes(k, a), f)
           /\ Pending(k, a) = f[Len(trans[k])]
<1> DEFINE N == Len(trans[k])
           c == Changes(k, a)
           g == CHOOSE h : h = [i \in 0..N |->
                  IF i = 0 THEN 0
                  ELSE h[i - 1] + (IF trans[k][i].acct = a THEN trans[k][i].ye ELSE 0)]
<1>1. trans[k] \in Seq(Stmt) /\ N \in Nat
  BY DEF Types
<1>2. \A i \in 1..N : c[i] \in Int
  <2>1. \A i \in 1..N : trans[k][i] \in Stmt
    BY <1>1
  <2>2. \A i \in 1..N : trans[k][i].ye \in Int
    BY <2>1 DEF Stmt
  <2>3. QED
    BY <2>2 DEF Changes
<1>3. PICK f \in [0..N -> Int] : SumsTo(N, c, f)
  <2> HIDE DEF N, c
  <2>1. QED
    BY <1>1, <1>2, SumsExist
<1>4. \A i \in 0..N : i # 0 =>
        c[i] = IF trans[k][i].acct = a THEN trans[k][i].ye ELSE 0
  BY <1>1 DEF Changes
<1>5. f = [i \in 0..N |->
             IF i = 0 THEN 0
             ELSE f[i - 1] + (IF trans[k][i].acct = a THEN trans[k][i].ye ELSE 0)]
  <2> HIDE DEF N, c
  <2>1. QED
    BY <1>1, <1>3, <1>4 DEF SumsTo
<1>6. g = [i \in 0..N |->
             IF i = 0 THEN 0
             ELSE g[i - 1] + (IF trans[k][i].acct = a THEN trans[k][i].ye ELSE 0)]
  <2> HIDE DEF N
  <2>1. QED
    BY <1>5
<1>7. Pending(k, a) = g[N]
  BY DEF Pending
<1> HIDE DEF g, c, N
<1>8. SumsTo(N, c, g)
  BY <1>1, <1>4, <1>6 DEF SumsTo
<1>9. g[N] = f[N]
  BY <1>1, <1>3, <1>8, SumsUnique
<1>10. QED
  BY <1>3, <1>7, <1>9 DEF N, c

LEMMA PendingInt ==
  ASSUME Types, NEW k \in Pool, NEW a
  PROVE  Pending(k, a) \in Int
<1>1. trans[k] \in Seq(Stmt) /\ Len(trans[k]) \in Nat
  BY DEF Types
<1>2. QED
  BY <1>1, PendingSums

\* No statement, one, and two.
LEMMA PendingFew ==
  ASSUME Types, NEW k \in Pool, NEW a
  PROVE  /\ trans[k] = <<>> => Pending(k, a) = 0
         /\ \A x \in Stmt : trans[k] = <<x>> =>
              Pending(k, a) = IF x.acct = a THEN x.ye ELSE 0
         /\ \A x, y \in Stmt : trans[k] = <<x, y>> =>
              Pending(k, a) = (IF x.acct = a THEN x.ye ELSE 0)
                              + (IF y.acct = a THEN y.ye ELSE 0)
<1> DEFINE q == trans[k]
<1>1. PICK f \in [0..Len(q) -> Int] :
        SumsTo(Len(q), Changes(k, a), f) /\ Pending(k, a) = f[Len(q)]
  BY PendingSums
<1>2. \A i \in 1..Len(q) : Changes(k, a)[i] = IF q[i].acct = a THEN q[i].ye ELSE 0
  BY DEF Changes
<1>3. q = <<>> => Pending(k, a) = 0
  BY <1>1 DEF SumsTo
<1>4. ASSUME NEW x \in Stmt, q = <<x>>
      PROVE  Pending(k, a) = IF x.acct = a THEN x.ye ELSE 0
  <2>1. Len(q) = 1 /\ q[1] = x /\ 1 \in 1..Len(q)
    BY <1>4
  <2>2. f[0] = 0 /\ f[1] = f[0] + Changes(k, a)[1]
    BY <1>1, <2>1 DEF SumsTo
  <2>3. x.ye \in Int
    BY DEF Stmt
  <2> HIDE DEF q
  <2>4. QED
    BY <1>1, <1>2, <2>1, <2>2, <2>3
<1>5. ASSUME NEW x \in Stmt, NEW y \in Stmt, q = <<x, y>>
      PROVE  Pending(k, a) = (IF x.acct = a THEN x.ye ELSE 0)
                             + (IF y.acct = a THEN y.ye ELSE 0)
  <2>1. Len(q) = 2 /\ q[1] = x /\ q[2] = y /\ 1 \in 1..Len(q) /\ 2 \in 1..Len(q)
    BY <1>5
  <2>2. f[0] = 0 /\ f[1] = f[0] + Changes(k, a)[1] /\ f[2] = f[1] + Changes(k, a)[2]
    BY <1>1, <2>1 DEF SumsTo
  <2>3. x.ye \in Int /\ y.ye \in Int
    BY DEF Stmt
  <2> HIDE DEF q
  <2>4. QED
    BY <1>1, <1>2, <2>1, <2>2, <2>3
<1>6. QED
  BY <1>3, <1>4, <1>5

-----------------------------------------------------------------------------
(* As long as requests have been processed on the first connection only,    *)
(* one thread works at a time, and the open transaction is what its request *)
(* has done so far, unless the link is lost.                                *)

Money == ye \in [Accts -> Int] /\ users \subseteq Accts

\* The statement of the request of t that step p executed; h: it hit a row.
Wrote(t, p, a, h, y) ==
  [req |-> req[t].id, op |-> req[t].op, step |-> p, acct |-> a, row |-> h,
   ye |-> IF h THEN y ELSE 0]

Opened(t)   == Wrote(t, "open", req[t].userid, TRUE, 0)
Debited(t)  == Wrote(t, "debit", req[t].userid, req[t].userid \in users,
                     0 - req[t].je)
Credited(t) == Wrote(t, "credit", req[t].userid1, TRUE, req[t].je)
Paid(t)     == Wrote(t, "credit", req[t].userid, req[t].userid \in users,
                     req[t].je)

\* An account that does not exist covers what is not above 0.
Covered(t) == IF req[t].userid \in users THEN ye[req[t].userid] >= req[t].je
              ELSE 0 >= req[t].je

\* Nothing is executed yet; or money is taken, after it was found to be there,
\* and not brought yet; or it only has to be committed.
Clean(t) == pc[t] \in {"query", "open", "check", "checkto", "debit", "unlock"}
            \/ (pc[t] = "credit" /\ req[t].op = "deposit")

Takes(t) == pc[t] \in {"checkto", "debit"}
            \/ (pc[t] \in {"credit", "commit"} /\ req[t].op \in {"withdraw", "transfer"})

Stage(t) ==
  /\ pc[t] # "unlock" => req[t].id \notin unkept
  /\ Clean(t) => trans[0] = <<>>
  /\ Takes(t) => Covered(t)
  /\ (pc[t] \in {"debit", "credit", "commit"} /\ req[t].op = "transfer") =>
       req[t].userid1 \in users
  /\ (pc[t] = "credit" /\ req[t].op = "transfer") => trans[0] = <<Debited(t)>>
  /\ (pc[t] = "commit" /\ req[t].op = "open") =>
       (trans[0] = <<Opened(t)>> /\ req[t].userid \notin users)
  /\ (pc[t] = "commit" /\ req[t].op = "deposit") => trans[0] = <<Paid(t)>>
  /\ (pc[t] = "commit" /\ req[t].op = "withdraw") => trans[0] = <<Debited(t)>>
  /\ (pc[t] = "commit" /\ req[t].op = "transfer") =>
       trans[0] = <<Debited(t), Credited(t)>>

Exact ==
  OnFirst => /\ CoveredOrDrained /\ AnswerIsExact
             /\ \A t \in Clients : Works(t) /\ 0 \notin lost => Stage(t)

\* A request about money has an amount that was sent.
SumsSent == \A t \in Clients :
          Active(t) /\ req[t].op \notin {"query", "open"} => req[t].je \in Amounts

ExactInv == BankInv /\ SumsSent /\ Money /\ Exact

LEMMA ReqFields ==
  ASSUME Types, NEW t \in Clients, Active(t)
  PROVE  /\ req[t].id \in ReqIds /\ req[t].op \in AllOps
         /\ req[t].userid \in Accts /\ req[t].userid1 \in Accts
         /\ req[t].je \in Int
<1>1. req[t] \in Req
  BY DEF Types
<1>2. req[t].je \in Amounts \cup {0}
  BY <1>1 DEF Req
<1>3. QED
  BY <1>1, <1>2, Numbers DEF Req

LEMMA StepSumsSent ==
  ASSUME Types, SumsSent, NEW t \in Clients, Step(t)
  PROVE  SumsSent'
<1> USE DEF Types, Active, Goto
<1>1. ASSUME \A u \in Clients : Active(u)' => Active(u) /\ req'[u] = req[u]
      PROVE  SumsSent'
  BY <1>1 DEF SumsSent
<1>2. CASE Read(t)
  <2>1. PICK o \in Ops, a \in Accts, b \in Accts, n \in Amounts \cup {0} :
          /\ IF o \in {"query", "open"} THEN n = 0 ELSE n \in Amounts
          /\ req' = [req EXCEPT ![t] = [id |-> sent + 1, op |-> o, userid |-> a,
                                        userid1 |-> b, je |-> n]]
    BY <1>2 DEF Read
  <2>2. req'[t].op = o /\ req'[t].je = n
    BY <2>1
  <2>3. \A u \in Clients \ {t} : req'[u] = req[u] /\ pc'[u] = pc[u]
    BY <1>2, <2>1 DEF Read
  <2>4. QED
    BY <2>1, <2>2, <2>3 DEF SumsSent
<1>3. CASE req' = req /\ Active(t) /\ \A u \in Clients \ {t} : pc'[u] = pc[u]
  BY <1>1, <1>3
<1>4. QED
  BY <1>1, <1>2, <1>3 DEF Step, HangUp, TakesConn, Locked, MissesConn, Busy,
     Unlock, NextRound, Query, Refused, Refuse, Passed, Executed, Execute,
     CommitStep, CommitFails, Told, Statements

LEMMA Workers == \A t \in Clients : Works(t) => Active(t)
BY DEF Works, Active, Working

\* The statements that Stage names.
LEMMA WroteTypes ==
  ASSUME Types, NEW t \in Clients, Works(t)
  PROVE  /\ Opened(t) \in Stmt /\ Debited(t) \in Stmt
         /\ Credited(t) \in Stmt /\ Paid(t) \in Stmt
<1>1. /\ req[t].id \in ReqIds /\ req[t].op \in AllOps
      /\ req[t].userid \in Accts /\ req[t].userid1 \in Accts
      /\ req[t].je \in Int /\ 0 - req[t].je \in Int
  BY Workers, ReqFields
<1>2. ASSUME NEW p \in {"open", "debit", "credit"}, NEW a \in Accts,
             NEW h \in BOOLEAN, NEW y \in Int
      PROVE  Wrote(t, p, a, h, y) \in Stmt
  <2>1. (IF h THEN y ELSE 0) \in Int
    OBVIOUS
  <2>2. QED
    BY <1>1, <2>1 DEF Wrote, Stmt
<1>3. Opened(t) \in Stmt /\ Credited(t) \in Stmt
  <2>1. TRUE \in BOOLEAN /\ 0 \in Int
    OBVIOUS
  <2>2. QED
    BY <1>1, <1>2, <2>1, Zenon DEF Opened, Credited
<1>4. Debited(t) \in Stmt /\ Paid(t) \in Stmt
  <2>1. (req[t].userid \in users) \in BOOLEAN
    OBVIOUS
  <2>2. QED
    BY <1>1, <1>2, <2>1, Zenon DEF Debited, Paid
<1>5. QED
  BY <1>3, <1>4

\* Whoever works does so on the first connection, and alone.
LEMMA Alone ==
  ASSUME BankInv, OnFirst, NEW t \in Clients, Works(t)
  PROVE  /\ iconn[t] = 0 /\ mutex[0] = t
         /\ \A u \in Clients : Works(u) => u = t
<1>1. \A u \in Clients : Works(u) => iconn[u] = 0
  <2> SUFFICES ASSUME NEW u \in Clients, Works(u) PROVE iconn[u] = 0
    OBVIOUS
  <2>1. Active(u) /\ req[u].id \in ReqIds
    BY Workers, ReqFields DEF BankInv
  <2>2. via[req[u].id] = iconn[u] /\ iconn[u] \in Pool
    BY <2>1 DEF BankInv, Requests, RequestOf, Types
  <2>3. QED
    BY <2>1, <2>2, Numbers DEF OnFirst
<1>2. \A u \in Clients : Works(u) => mutex[0] = u
  BY <1>1 DEF BankInv, HoldsMutex, Works
<1>3. QED
  BY <1>1, <1>2

\* Only its statements are open there.
LEMMA OfWorker ==
  ASSUME BankInv, OnFirst, NEW k \in Pool, NEW s \in Stmts(k)
  PROVE  k = 0 /\ \E t \in Clients : Mine(t, s)
<1>1. via[s.req] = k /\ s.req \in ReqIds
  BY StmtTypes DEF BankInv, Transactions, Placed
<1>2. k = 0
  BY <1>1, Numbers DEF OnFirst
<1>3. QED
  BY <1>2 DEF BankInv, Transactions, Placed

\* A connection that is free has nothing of a request under way; the first
\* one has nothing at all.
LEMMA FreeEmpty ==
  ASSUME BankInv, mutex[0] = Nobody
  PROVE  trans[0] = <<>>
<1>1. 0 \in Pool /\ trans[0] \in Seq(Stmt)
  BY Numbers DEF BankInv, Types
<1>2. \A s \in Stmts(0) : FALSE
  <2> SUFFICES ASSUME NEW s \in Stmts(0) PROVE FALSE
    OBVIOUS
  <2>1. PICK t \in Clients : Mine(t, s)
    BY <1>1 DEF BankInv, Transactions, Placed
  <2>2. Works(t) /\ Active(t) /\ req[t].id = s.req
    BY <2>1 DEF Mine, Works, Active, Working
  <2>3. iconn[t] = 0
    BY <1>1, <2>2, OwnConn DEF BankInv
  <2>4. QED
    BY <2>2, <2>3, BankConstants DEF BankInv, HoldsMutex, Works
<1>3. Len(trans[0]) = 0
  <2>1. CASE Len(trans[0]) # 0
    <3>1. 1 \in DOMAIN trans[0]
      BY <1>1, <2>1
    <3>2. QED
      BY <1>2, <3>1 DEF Stmts
  <2>2. QED
    BY <2>1
<1>4. QED
  BY <1>1, <1>3

LEMMA OnFirstBefore ==
  ASSUME BankInv, NEW t \in Clients, Step(t), OnFirst'
  PROVE  OnFirst
<1>1. CASE TakesConn(t)
  BY <1>1, TakeEffect DEF OnFirst, BankInv, Types
<1>2. CASE UNCHANGED via
  BY <1>2 DEF OnFirst
<1>3. QED
  BY <1>1, <1>2 DEF Step, Read, HangUp, MissesConn, Busy, Unlock, Query, Refused, Refuse,
     Passed, Executed, Execute, CommitStep, CommitFails, histVars

LEMMA StepMoney ==
  ASSUME BankInv, Money, NEW t \in Clients, Step(t)
  PROVE  Money' /\ (UNCHANGED <<ye, users>> \/ CommitStep(t))
<1>1. CASE CommitStep(t)
  <2>1. CommitConn(t) \in Pool
    BY <1>1, Numbers DEF CommitConn, CommitStep, BankInv, Types, Works, Working
  <2>2. PICK k \in Pool : Commit(k)
    BY <1>1, <2>1 DEF CommitStep
  <2>3. \A a \in Accts : Balance(k, a) \in Int
    <3>1. \A a \in Accts : ye[a] \in Int /\ Pending(k, a) \in Int
      BY PendingInt DEF Money, BankInv
    <3>2. QED
      BY <3>1 DEF Balance
  <2>4. QED
    BY <1>1, <2>2, <2>3 DEF Commit, Money
<1>2. CASE UNCHANGED <<ye, users>>
  BY <1>2 DEF Money
<1>3. QED
  BY <1>1, <1>2 DEF Step, Read, HangUp, TakesConn, MissesConn, Busy, Unlock, Query,
     Refused, Refuse, Rollback, Passed, Executed, Execute, CommitFails, Drop, dbVars

\* What is seen on the first connection while nothing is open there.
LEMMA SeenClean ==
  ASSUME BankInv, Money, trans[0] = <<>>, NEW a \in Accts
  PROVE  (Exists(0, a) <=> a \in users) /\ Balance(0, a) = ye[a]
<1>1. Stmts(0) = {}
  BY DEF Stmts
<1>2. Pending(0, a) = 0
  BY Numbers, PendingFew DEF BankInv
<1>3. ye[a] \in Int
  BY DEF Money
<1>4. QED
  BY <1>1, <1>2, <1>3 DEF Exists, Balance

LEMMA StageTaken ==
  ASSUME BankInv, Exact, NEW t \in Clients, TakesConn(t), OnFirst', BankInv'
  PROVE  Stage(t)'
<1>1. /\ req[t].op \in AllOps /\ req' = req /\ trans' = trans /\ iconn' = iconn
      /\ pc' = [pc EXCEPT ![t] = FirstStep[req[t].op]] /\ unkept' = unkept
  BY TakeEffect DEF BankInv, dbVars
<1>2. pc'[t] = FirstStep[req[t].op]
  BY <1>1 DEF BankInv, Types
<1>3. /\ req[t].op = "query" => pc'[t] = "query"
      /\ req[t].op = "open" => pc'[t] = "open"
      /\ req[t].op = "deposit" => pc'[t] = "credit"
      /\ req[t].op = "withdraw" => pc'[t] = "check"
      /\ req[t].op = "transfer" => pc'[t] = "check"
  BY <1>2 DEF FirstStep
<1>4. Works(t)'
  BY <1>1, <1>3 DEF Works, Working, AllOps
<1>5. iconn'[t] = 0
  <2>1. Active(t) /\ req[t].id \in ReqIds /\ via'[req[t].id] = iconn[t] /\ iconn[t] \in Pool
    <3>1. Active(t) /\ iconn[t] \in Pool
      BY DEF TakesConn, Active
    <3>2. req[t].id \in ReqIds /\ via \in [ReqIds -> 0..NConn]
      BY <3>1, ActiveReq DEF BankInv, Types
    <3>3. QED
      BY <3>1, <3>2 DEF TakesConn, Locked
  <2>2. iconn[t] \in {0, NConn} /\ iconn[t] # NConn
    BY <2>1, Numbers DEF OnFirst
  <2>3. QED
    BY <1>1, <2>2
<1>6. trans'[0] = <<>>
  <2>1. mutex[0] = Nobody
    BY <1>1, <1>5 DEF TakesConn
  <2>2. QED
    BY <1>1, <2>1, FreeEmpty
<1>7. req[t].id \notin unkept
  <2>1. Before(t)
    BY DEF TakesConn, Before, Active
  <2>2. QED
    BY <2>1 DEF BankInv, Once, Trace
<1>8. QED
  BY <1>1, <1>3, <1>6, <1>7 DEF Stage, Clean, Takes, AllOps

\* A balance is compared while nothing is open.
LEMMA StageChecked ==
  ASSUME BankInv, Money, Exact, NEW t \in Clients, Works(t), OnFirst,
         CheckBalance(t) \/ CheckReceiver(t)
  PROVE  \/ Refused(t)
         \/ /\ trans[0] = <<>> /\ Covered(t) /\ req[t].op \in {"withdraw", "transfer"}
            /\ \/ pc' = [pc EXCEPT ![t] = "debit"] /\ req[t].op = "withdraw"
               \/ pc' = [pc EXCEPT ![t] = "checkto"] /\ req[t].op = "transfer"
               \/ /\ pc' = [pc EXCEPT ![t] = "debit"] /\ req[t].op = "transfer"
                  /\ req[t].userid1 \in users
            /\ UNCHANGED <<dbVars, mutex, sent, req, iconn, histVars>>
<1>1. /\ iconn[t] = 0 /\ Stage(t) /\ Clean(t) /\ trans[0] = <<>>
  <2>1. pc[t] \in {"check", "checkto"} /\ iconn[t] \notin lost
    BY DEF CheckBalance, CheckReceiver
  <2>2. iconn[t] = 0 /\ Stage(t) /\ Clean(t)
    BY <2>1, Alone DEF Exact, Clean
  <2>3. QED
    BY <2>2 DEF Stage
<1>2. /\ req[t].userid \in Accts /\ req[t].userid1 \in Accts
      /\ req[t].je \in Int
  BY Workers, ReqFields DEF BankInv
<1>3. CASE CheckBalance(t)
  <2>1. /\ Exists(0, req[t].userid) <=> req[t].userid \in users
        /\ Balance(0, req[t].userid) = ye[req[t].userid]
    BY <1>1, <1>2, SeenClean
  <2> DEFINE found == IF Exists(0, req[t].userid) THEN Balance(0, req[t].userid) ELSE 0
  <2>2. found >= req[t].je => Covered(t)
    BY <1>2, <2>1 DEF Covered
  <2>3. \/ Refuse(t, "poor")
        \/ /\ found >= req[t].je /\ req[t].op = "withdraw" /\ Goto(t, "debit")
           /\ UNCHANGED <<dbVars, mutex, sent, req, iconn, histVars>>
        \/ /\ found >= req[t].je /\ req[t].op = "transfer" /\ Goto(t, "checkto")
           /\ UNCHANGED <<dbVars, mutex, sent, req, iconn, histVars>>
    BY <1>1, <1>3 DEF CheckBalance
  <2> HIDE DEF found
  <2>4. Refuse(t, "poor") => Refused(t)
    BY <1>3 DEF CheckBalance, Refused, Statements
  <2>5. QED
    BY <1>1, <2>2, <2>3, <2>4 DEF Goto
<1>4. CASE CheckReceiver(t)
  <2>1. pc[t] = "checkto" /\ req[t].op = "transfer" /\ Covered(t)
    BY <1>1, <1>4, Workers DEF CheckReceiver, Stage, Takes, BankInv, Requests,
       RequestOf, OpOf
  <2>2. Exists(0, req[t].userid1) <=> req[t].userid1 \in users
    BY <1>1, <1>2, SeenClean
  <2>3. Refuse(t, "illegal") => Refused(t)
    BY <2>1 DEF Refused, Statements
  <2>4. QED
    BY <1>1, <1>4, <2>1, <2>2, <2>3 DEF CheckReceiver, Goto
<1>5. QED
  BY <1>3, <1>4

\* What a statement adds to the transaction of the first connection.
LEMMA WritesFirst ==
  ASSUME BankInv, NEW t \in Clients, iconn[t] = 0, NEW h, NEW y,
         Execute(t, h, y)
  PROVE  /\ trans'[0] = Append(trans[0], Wrote(t, pc[t], Target(t), h, y))
         /\ UNCHANGED <<ye, users, done, unkept, lost, mutex, sent, req, iconn,
                        histVars>>
BY Numbers DEF Execute, BankInv, Types, Wrote

LEMMA AppendTwo == \A x, y : Append(<<x>>, y) = <<x, y>>
<1> SUFFICES ASSUME NEW x, NEW y PROVE Append(<<x>>, y) = <<x, y>>
  OBVIOUS
<1> DEFINE S == {x, y}
           p == <<x>>
           q == Append(p, y)
           r == <<x, y>>
<1>1. p \in Seq(S) /\ Len(p) = 1 /\ p[1] = x
  OBVIOUS
<1>2. r \in [1..2 -> S] /\ r[1] = x /\ r[2] = y
  OBVIOUS
<1>3. y \in S
  OBVIOUS
<1> HIDE DEF p, S
<1>4. q \in Seq(S)
  BY <1>1, <1>3
<1>5. Len(q) = 2 /\ q[1] = x /\ q[2] = y
  <2>1. \A t \in Seq(S) : /\ Len(Append(t, y)) = Len(t) + 1
                          /\ \A i \in 1..Len(t) : Append(t, y)[i] = t[i]
                          /\ Append(t, y)[Len(t) + 1] = y
    BY <1>3
  <2>2. Len(q) = Len(p) + 1 /\ q[Len(p) + 1] = y /\ \A i \in 1..Len(p) : q[i] = p[i]
    BY <1>1, <2>1
  <2> HIDE DEF q
  <2>3. QED
    BY <1>1, <2>2
<1> HIDE DEF q, r
<1>6. q \in [1..2 -> S]
  BY <1>4, <1>5
<1>7. \A i \in 1..2 : q[i] = r[i]
  BY <1>2, <1>5
<1>8. \A f, g \in [1..2 -> S] : (\A i \in 1..2 : f[i] = g[i]) => f = g
  OBVIOUS
<1>9. q = r
  BY <1>2, <1>6, <1>7, <1>8
<1>10. QED
  BY <1>9 DEF p, q, r

LEMMA StageWritten ==
  ASSUME BankInv, Money, Exact, NEW t \in Clients, Works(t), OnFirst,
         OpenAccount(t) \/ Debit(t) \/ Credit(t)
  PROVE  Stage(t)'
<1>1. /\ iconn[t] = 0 /\ Stage(t) /\ OpOf(t)
      /\ req[t].id \notin unkept
  <2>1. iconn[t] \notin lost /\ pc[t] # "unlock"
    BY DEF OpenAccount, Debit, Credit, Execute
  <2>2. iconn[t] = 0 /\ Stage(t)
    BY <2>1, Alone DEF Exact
  <2>3. QED
    BY <2>1, <2>2, Workers DEF BankInv, Requests, RequestOf, Stage
<1>2. /\ req[t].userid \in Accts /\ req[t].userid1 \in Accts /\ req[t].op \in AllOps
      /\ pc \in [Clients -> Working \cup {"read", "trylock", "gone"}]
  BY Workers, ReqFields DEF BankInv, Types
<1>3. CASE OpenAccount(t)
  <2>1. pc[t] = "open" /\ req[t].op = "open" /\ trans[0] = <<>>
    BY <1>1, <1>3 DEF OpenAccount, Stage, Clean, OpOf
  <2>2. Target(t) = req[t].userid
    BY <2>1 DEF Target
  <2>3. req[t].userid \notin users
    BY <1>1, <1>2, <1>3, <2>1, <2>2, SeenClean DEF OpenAccount
  <2>4. trans'[0] = <<Opened(t)>> /\ UNCHANGED <<ye, users, unkept, req>>
    <3>1. PICK h, y : h = TRUE /\ y = 0 /\ Execute(t, h, y)
      BY <1>3 DEF OpenAccount
    <3>2. Wrote(t, pc[t], Target(t), h, y) = Opened(t)
      BY <2>1, <2>2, <3>1 DEF Opened
    <3>3. /\ trans'[0] = Append(trans[0], Wrote(t, pc[t], Target(t), h, y))
          /\ UNCHANGED <<ye, users, unkept, req>>
      BY <1>1, <3>1, WritesFirst
    <3>4. QED
      BY <2>1, <3>2, <3>3
  <2>5. pc'[t] = "commit"
    BY <1>2, <1>3 DEF OpenAccount, Goto
  <2>6. QED
    BY <1>1, <2>1, <2>3, <2>4, <2>5 DEF Stage, Clean, Takes, Opened, Wrote
<1>4. CASE Debit(t)
  <2>1. /\ pc[t] = "debit" /\ req[t].op \in {"withdraw", "transfer"}
        /\ trans[0] = <<>> /\ Covered(t)
        /\ req[t].op = "transfer" => req[t].userid1 \in users
    BY <1>1, <1>4 DEF Debit, Stage, Clean, Takes, OpOf
  <2>2. Target(t) = req[t].userid
    BY <2>1 DEF Target
  <2>3. Exists(0, Target(t)) = (req[t].userid \in users)
    <3>1. Exists(0, Target(t)) <=> req[t].userid \in users
      BY <1>2, <2>1, <2>2, SeenClean
    <3>2. QED
      BY <3>1 DEF Exists
  <2>4. Execute(t, req[t].userid \in users, 0 - req[t].je)
    BY <1>1, <1>4, <2>3 DEF Debit
  <2>5. trans'[0] = <<Debited(t)>> /\ UNCHANGED <<ye, users, unkept, req>>
    BY <1>1, <2>1, <2>2, <2>4, WritesFirst DEF Debited
  <2>6. pc'[t] = IF req[t].op = "transfer" THEN "credit" ELSE "commit"
    BY <1>2, <1>4 DEF Debit, Goto
  <2>7. Covered(t)'
    BY <2>1, <2>5 DEF Covered
  <2>8. Debited(t)' = Debited(t)
    BY <2>5 DEF Debited, Wrote
  <2>9. QED
    BY <1>1, <2>1, <2>5, <2>6, <2>7, <2>8 DEF Stage, Clean, Takes
<1>5. CASE Credit(t) /\ req[t].op = "deposit"
  <2>1. pc[t] = "credit" /\ trans[0] = <<>>
    BY <1>1, <1>5 DEF Credit, Stage, Clean
  <2>2. Target(t) = req[t].userid
    BY <1>5, <2>1 DEF Target
  <2>3. Execute(t, req[t].userid \in users, req[t].je)
    <3>1. Exists(0, Target(t)) <=> req[t].userid \in users
      BY <1>2, <2>1, <2>2, SeenClean
    <3>2. Exists(0, Target(t)) = (req[t].userid \in users)
      BY <3>1 DEF Exists
    <3>3. QED
      BY <1>1, <1>5, <3>2 DEF Credit
  <2>4. trans'[0] = <<Paid(t)>> /\ UNCHANGED <<ye, users, unkept, req>>
    BY <1>1, <2>1, <2>2, <2>3, WritesFirst DEF Paid
  <2>5. pc'[t] = "commit"
    BY <1>2, <1>5 DEF Credit, Goto
  <2>6. Paid(t)' = Paid(t)
    BY <2>4 DEF Paid, Wrote
  <2>7. QED
    BY <1>1, <1>5, <2>4, <2>5, <2>6 DEF Stage, Clean, Takes
<1>6. CASE Credit(t) /\ req[t].op = "transfer"
  <2>1. /\ pc[t] = "credit" /\ trans[0] = <<Debited(t)>> /\ Covered(t)
        /\ req[t].userid1 \in users
    BY <1>1, <1>6 DEF Credit, Stage, Takes
  <2>2. Target(t) = req[t].userid1
    BY <1>6, <2>1 DEF Target
  <2>3. Execute(t, TRUE, req[t].je)
    <3>1. Exists(0, Target(t)) = TRUE
      BY <2>1, <2>2 DEF Exists
    <3>2. QED
      BY <1>1, <1>6, <3>1 DEF Credit
  <2>4. /\ trans'[0] = Append(<<Debited(t)>>, Credited(t))
        /\ UNCHANGED <<ye, users, unkept, req>>
    <3>1. Wrote(t, pc[t], Target(t), TRUE, req[t].je) = Credited(t)
      BY <2>1, <2>2 DEF Credited
    <3>2. /\ trans'[0] = Append(trans[0], Wrote(t, pc[t], Target(t), TRUE, req[t].je))
          /\ UNCHANGED <<ye, users, unkept, req>>
      BY <1>1, <2>3, WritesFirst, Zenon
    <3>3. QED
      BY <2>1, <3>1, <3>2
  <2>5. trans'[0] = <<Debited(t), Credited(t)>>
    BY <2>4, AppendTwo
  <2>6. pc'[t] = "commit"
    BY <1>2, <1>6 DEF Credit, Goto
  <2>7. Covered(t)' /\ Debited(t)' = Debited(t) /\ Credited(t)' = Credited(t)
    BY <2>1, <2>4 DEF Covered, Debited, Credited, Wrote
  <2>8. QED
    BY <1>1, <1>6, <2>1, <2>4, <2>5, <2>6, <2>7 DEF Stage, Clean, Takes
<1>7. Credit(t) => req[t].op \in {"deposit", "transfer"}
  BY <1>1 DEF Credit, OpOf
<1>8. QED
  BY <1>3, <1>4, <1>5, <1>6, <1>7

\* The transaction is ended: the reply is composed.
LEMMA StageEnded ==
  ASSUME BankInv, NEW t \in Clients, Works(t), OnFirst,
         Refused(t) \/ CommitStep(t) \/ CommitFails(t)
  PROVE  Stage(t)'
<1>1. iconn[t] = 0 /\ pc' = [pc EXCEPT ![t] = "unlock"] /\ pc'[t] = "unlock"
  <2>1. iconn[t] = 0
    BY Alone
  <2>2. QED
    BY <2>1 DEF Refused, Refuse, CommitStep, CommitFails, Told, Goto, BankInv, Types
<1>2. trans' = [trans EXCEPT ![0] = <<>>]
  BY <1>1 DEF Refused, Refuse, Rollback, CommitStep, Commit, CommitFails, Drop,
     CommitConn
<1>3. trans'[0] = <<>>
  BY <1>2, Numbers DEF BankInv, Types
<1>4. QED
  BY <1>1, <1>3 DEF Stage, Clean, Takes

LEMMA StepStage ==
  ASSUME ExactInv, NEW t \in Clients, Thread(t), OnFirst', BankInv', Works(t)',
         0 \notin lost
  PROVE  Stage(t)'
<1> USE DEF ExactInv
<1>1. Step(t)
  BY Steps DEF BankInv
<1>2. OnFirst
  BY <1>1, OnFirstBefore
<1>3. CASE TakesConn(t)
  BY <1>3, StageTaken
<1>4. CASE Works(t)
  <2>1. pc \in [Clients -> Working \cup {"read", "trylock", "gone"}] /\ Stage(t)
    BY <1>2, <1>4 DEF BankInv, Types, Exact
  <2>2. CASE CheckBalance(t) \/ CheckReceiver(t)
    <3>1. CASE Refused(t)
      BY <1>2, <1>4, <3>1, StageEnded
    <3>2. CASE /\ trans[0] = <<>> /\ Covered(t)
               /\ \/ pc' = [pc EXCEPT ![t] = "debit"] /\ req[t].op = "withdraw"
                  \/ pc' = [pc EXCEPT ![t] = "checkto"] /\ req[t].op = "transfer"
                  \/ /\ pc' = [pc EXCEPT ![t] = "debit"] /\ req[t].op = "transfer"
                     /\ req[t].userid1 \in users
               /\ UNCHANGED <<dbVars, mutex, sent, req, iconn, histVars>>
      <4>1. Covered(t)' /\ trans'[0] = <<>> /\ UNCHANGED <<req, users, unkept>>
        BY <3>2 DEF Covered, dbVars
      <4>2. \/ pc'[t] = "debit" /\ req[t].op = "withdraw"
            \/ pc'[t] = "checkto" /\ req[t].op = "transfer"
            \/ pc'[t] = "debit" /\ req[t].op = "transfer" /\ req[t].userid1 \in users
        BY <2>1, <3>2
      <4>3. req[t].id \notin unkept
        BY <2>1, <2>2 DEF Stage, CheckBalance, CheckReceiver
      <4>4. QED
        BY <4>1, <4>2, <4>3 DEF Stage, Clean, Takes
    <3>3. QED
      BY <1>2, <1>4, <2>2, <3>1, <3>2, StageChecked
  <2>3. CASE OpenAccount(t) \/ Debit(t) \/ Credit(t)
    BY <1>2, <1>4, <2>3, StageWritten
  <2>4. CASE Fails(t)
    <3>1. Refused(t)
      BY <2>4 DEF Fails, Refused, Statements
    <3>2. QED
      BY <1>2, <1>4, <3>1, StageEnded
  <2>5. CASE CommitStep(t) \/ CommitFails(t)
    BY <1>2, <1>4, <2>5, StageEnded
  <2>6. CASE Query(t)
    <3>1. pc[t] = "query" /\ pc'[t] = "unlock" /\ trans' = trans
      BY <2>1, <2>6 DEF Query, Told, Goto, dbVars
    <3>2. trans'[0] = <<>>
      BY <2>1, <3>1 DEF Stage, Clean
    <3>3. QED
      BY <3>1, <3>2 DEF Stage, Clean, Takes
  <2>7. ~Read(t) /\ ~HangUp(t) /\ ~TryLock(t) /\ ~Busy(t)
    BY <1>4 DEF Read, HangUp, TryLock, Busy, Works, Working
  <2>8. ~Unlock(t)
    BY <2>1 DEF Unlock, Goto, Works, Working
  <2>9. QED
    BY <2>2, <2>3, <2>4, <2>5, <2>6, <2>7, <2>8 DEF Thread
<1>5. CASE ~Works(t) /\ ~TakesConn(t)
  <2>1. pc \in [Clients -> Working \cup {"read", "trylock", "gone"}]
    BY DEF BankInv, Types
  <2>2. pc'[t] \notin Working
    BY <1>1, <1>5, <2>1 DEF Step, Read, HangUp, MissesConn, Busy, Unlock, Query, Refused,
       Passed, Executed, CommitStep, CommitFails, Told, Goto, Works, Working, Statements
  <2>3. QED
    BY <2>2 DEF Works
<1>6. QED
  BY <1>3, <1>4, <1>5

\* The statements of a short transaction.
LEMMA FewStmts ==
  ASSUME Types
  PROVE  /\ \A x : trans[0] = <<x>> => Stmts(0) = {x}
         /\ \A x, y : trans[0] = <<x, y>> => Stmts(0) = {x, y}
<1>1. ASSUME NEW x, trans[0] = <<x>> PROVE Stmts(0) = {x}
  <2> DEFINE q == trans[0]
  <2>1. DOMAIN q = {1} /\ q[1] = x
    BY <1>1
  <2> HIDE DEF q
  <2>2. {q[i] : i \in DOMAIN q} = {x}
    BY <2>1
  <2>3. QED
    BY <2>2 DEF Stmts, q
<1>2. ASSUME NEW x, NEW y, trans[0] = <<x, y>> PROVE Stmts(0) = {x, y}
  <2> DEFINE q == trans[0]
  <2>1. DOMAIN q = {1, 2} /\ q[1] = x /\ q[2] = y
    BY <1>2
  <2> HIDE DEF q
  <2>2. {q[i] : i \in DOMAIN q} = {x, y}
    BY <2>1
  <2>3. QED
    BY <2>2 DEF Stmts, q
<1>3. QED
  BY <1>1, <1>2

\* Balances after one change.
LEMMA AddOne ==
  ASSUME NEW f \in [Accts -> Int], NEW g \in [Accts -> Int],
         NEW x \in Accts, NEW n \in Int,
         \A a \in Accts : g[a] = f[a] + (IF x = a THEN n ELSE 0)
  PROVE  g = [f EXCEPT ![x] = f[x] + n]
<1> DEFINE h == [f EXCEPT ![x] = f[x] + n]
<1>1. \A a \in Accts : f[a] \in Int
  OBVIOUS
<1>2. h \in [Accts -> Int]
  BY <1>1
<1>3. \A a \in Accts : h[a] = f[a] + (IF x = a THEN n ELSE 0)
  BY <1>1
<1> HIDE DEF h
<1>4. \A a \in Accts : g[a] = h[a]
  BY <1>3
<1>5. g = h
  BY <1>2, <1>4
<1>6. QED
  BY <1>5 DEF h

\* What a commit does to the accounts.
Drains(t, a) ==
  req[t].je < 0 => \E s \in done' : s.acct = a /\ s.step = "credit" /\ s.ye < 0

OpensOne(t) ==
  /\ req[t].userid \notin users /\ users' = users \cup {req[t].userid} /\ ye' = ye
DepositsOne(t, a) ==
  /\ a \in users /\ users' = users
  /\ ye' = [ye EXCEPT ![a] = @ + req[t].je]
  /\ Drains(t, a)
WithdrawsOne(t) ==
  /\ req[t].userid \in users /\ Covered(t) /\ users' = users
  /\ ye' = [ye EXCEPT ![req[t].userid] = @ - req[t].je]
TransfersOne(t) ==
  /\ req[t].userid \in users /\ Covered(t) /\ req[t].userid1 \in users
  /\ users' = users
  /\ ye' = [[ye EXCEPT ![req[t].userid] = @ - req[t].je]
                EXCEPT ![req[t].userid1] = @ + req[t].je]
  /\ Drains(t, req[t].userid1)

\* A transfer from an account that does not exist is a deposit (of an amount
\* that is not above 0).
LEMMA CommitLedger ==
  ASSUME ExactInv, OnFirst, NEW t \in Clients, CommitStep(t)
  PROVE  /\ \/ OpensOne(t) \/ UNCHANGED <<ye, users>>
            \/ /\ req[t].op \notin {"query", "open"}
               /\ \/ \E a \in {req[t].userid, req[t].userid1} : DepositsOne(t, a)
                  \/ WithdrawsOne(t) \/ TransfersOne(t)
         /\ StmtsOf(req[t].id, done') /\ req[t].id \notin unkept
<1> USE DEF ExactInv
<1>1. Works(t) /\ Active(t) /\ pc[t] = "commit"
  BY DEF CommitStep, Works, Active, Working
<1>2. /\ iconn[t] = 0 /\ Stage(t) /\ req[t].op \in AllOps \ {"query"}
      /\ req[t].id \notin unkept
  <2>1. OpOf(t) /\ iconn[t] = 0
    BY <1>1, Alone DEF BankInv, Requests, RequestOf
  <2>2. 0 \notin lost
    BY <2>1 DEF CommitStep, CommitConn
  <2>3. Stage(t)
    BY <1>1, <2>2 DEF Exact
  <2>4. QED
    BY <1>1, <2>1, <2>3, ReqFields DEF BankInv, OpOf, Stage
<1>3. /\ req[t].userid \in Accts /\ req[t].userid1 \in Accts /\ req[t].je \in Int
      /\ ye \in [Accts -> Int] /\ users \subseteq Accts /\ Types /\ 0 \in Pool
  BY <1>1, ReqFields, Numbers DEF BankInv, Money
<1>4. /\ ye' = [a \in Accts |-> ye[a] + Pending(0, a)]
      /\ users' = {a \in Accts : Exists(0, a)} /\ done' = done \cup Stmts(0)
      /\ ye' \in [Accts -> Int]
  <2>1. Step(t)
    BY DEF Step
  <2>2. Money'
    BY <2>1, StepMoney
  <2>3. QED
    BY <1>2, <2>2 DEF CommitStep, CommitConn, Commit, Balance, Money
<1>5. /\ Opened(t) \in Stmt /\ Debited(t) \in Stmt
      /\ Credited(t) \in Stmt /\ Paid(t) \in Stmt
  BY <1>1, WroteTypes DEF BankInv
<1>6. ASSUME \A s \in Stmts(0) : s.step # "open" PROVE users' = users
  BY <1>3, <1>4, <1>6 DEF Exists
<1>7. CASE req[t].op = "open"
  <2> DEFINE s == Opened(t)
  <2>1. trans[0] = <<s>> /\ req[t].userid \notin users
    BY <1>1, <1>2, <1>7 DEF Stage
  <2>2. s \in Stmt /\ s.req = req[t].id /\ s.step = "open" /\ s.acct = req[t].userid
        /\ s.ye = 0
    BY <1>5 DEF Opened, Wrote
  <2> HIDE DEF s
  <2>3. Stmts(0) = {s} /\ \A a : Pending(0, a) = 0
    BY <1>3, <2>1, <2>2, FewStmts, PendingFew
  <2>4. ye' = ye
    BY <1>3, <1>4, <2>3
  <2>5. users' = users \cup {req[t].userid}
    BY <1>3, <1>4, <2>2, <2>3 DEF Exists
  <2>6. QED
    BY <1>2, <1>4, <2>1, <2>2, <2>3, <2>4, <2>5 DEF OpensOne, StmtsOf
<1>8. CASE req[t].op = "deposit"
  <2> DEFINE s == Paid(t)
  <2>1. trans[0] = <<s>>
    BY <1>1, <1>2, <1>8 DEF Stage
  <2>2. /\ s \in Stmt /\ s.req = req[t].id /\ s.step = "credit"
        /\ s.acct = req[t].userid
        /\ s.ye = IF req[t].userid \in users THEN req[t].je ELSE 0
    BY <1>5 DEF Paid, Wrote
  <2> HIDE DEF s
  <2>3. /\ Stmts(0) = {s}
        /\ \A a : Pending(0, a) = IF s.acct = a THEN s.ye ELSE 0
    BY <1>3, <2>1, <2>2, FewStmts, PendingFew
  <2>4. users' = users
    BY <1>6, <2>2, <2>3
  <2>5. ye' = [ye EXCEPT ![req[t].userid] = @ + s.ye]
    <3>1. s.ye \in Int
      BY <1>3, <2>2
    <3>2. \A a \in Accts : ye'[a] = ye[a] + (IF s.acct = a THEN s.ye ELSE 0)
      BY <1>4, <2>3
    <3>3. ye' = [ye EXCEPT ![s.acct] = ye[s.acct] + s.ye]
      <4>1. s.acct \in Accts /\ ye' \in [Accts -> Int] /\ ye \in [Accts -> Int]
        BY <1>3, <1>4, <2>2
      <4>2. QED
        BY <3>1, <3>2, <4>1, AddOne
    <3>4. QED
      BY <1>3, <2>2, <3>3
  <2>6. CASE req[t].userid \in users
    <3>1. s \in done' /\ StmtsOf(req[t].id, done')
      BY <1>4, <2>2, <2>3 DEF StmtsOf
    <3>2. DepositsOne(t, req[t].userid)
      BY <2>2, <2>4, <2>5, <2>6, <3>1 DEF DepositsOne, Drains
    <3>3. QED
      BY <1>2, <1>8, <3>1, <3>2
  <2>7. CASE req[t].userid \notin users
    <3>1. ye' = ye
      BY <1>3, <2>2, <2>5, <2>7
    <3>2. QED
      BY <1>2, <1>4, <2>2, <2>3, <2>4, <3>1 DEF StmtsOf
  <2>8. QED
    BY <2>6, <2>7
<1>9. CASE req[t].op = "withdraw"
  <2> DEFINE s == Debited(t)
  <2>1. trans[0] = <<s>> /\ Covered(t)
    BY <1>1, <1>2, <1>9 DEF Stage, Takes
  <2>2. /\ s \in Stmt /\ s.req = req[t].id /\ s.step = "debit"
        /\ s.acct = req[t].userid
        /\ s.ye = IF req[t].userid \in users THEN 0 - req[t].je ELSE 0
    BY <1>5 DEF Debited, Wrote
  <2> HIDE DEF s
  <2>3. /\ Stmts(0) = {s}
        /\ \A a : Pending(0, a) = IF s.acct = a THEN s.ye ELSE 0
    BY <1>3, <2>1, <2>2, FewStmts, PendingFew
  <2>4. users' = users /\ StmtsOf(req[t].id, done')
    BY <1>4, <1>6, <2>2, <2>3 DEF StmtsOf
  <2>5. ye' = [ye EXCEPT ![req[t].userid] = ye[req[t].userid] + s.ye]
    <3>1. s.ye \in Int /\ s.acct \in Accts
      BY <1>3, <2>2
    <3>2. \A a \in Accts : ye'[a] = ye[a] + (IF s.acct = a THEN s.ye ELSE 0)
      BY <1>4, <2>3
    <3>3. ye' \in [Accts -> Int] /\ ye \in [Accts -> Int]
      BY <1>3, <1>4
    <3>4. ye' = [ye EXCEPT ![s.acct] = ye[s.acct] + s.ye]
      BY <3>1, <3>2, <3>3, AddOne
    <3>5. QED
      BY <2>2, <3>4
  <2>6. CASE req[t].userid \in users
    <3>1. ye[req[t].userid] + s.ye = ye[req[t].userid] - req[t].je
      BY <1>3, <2>2, <2>6
    <3>2. WithdrawsOne(t)
      BY <2>1, <2>4, <2>5, <2>6, <3>1 DEF WithdrawsOne
    <3>3. QED
      BY <1>2, <1>9, <2>4, <3>2
  <2>7. CASE req[t].userid \notin users
    <3>1. ye' = ye
      BY <1>3, <2>2, <2>5, <2>7
    <3>2. QED
      BY <1>2, <2>4, <3>1
  <2>8. QED
    BY <2>6, <2>7
<1>10. CASE req[t].op = "transfer"
  <2> DEFINE s == Debited(t)
             r == Credited(t)
  <2>1. trans[0] = <<s, r>> /\ Covered(t) /\ req[t].userid1 \in users
    BY <1>1, <1>2, <1>10 DEF Stage, Takes
  <2>2. /\ s \in Stmt /\ s.req = req[t].id /\ s.step = "debit"
        /\ s.acct = req[t].userid
        /\ s.ye = IF req[t].userid \in users THEN 0 - req[t].je ELSE 0
    BY <1>5 DEF Debited, Wrote
  <2>3. /\ r \in Stmt /\ r.step = "credit"
        /\ r.acct = req[t].userid1 /\ r.ye = req[t].je
    BY <1>5 DEF Credited, Wrote
  <2> HIDE DEF s, r
  <2>4. /\ Stmts(0) = {s, r}
        /\ \A a : Pending(0, a) = (IF s.acct = a THEN s.ye ELSE 0)
                                  + (IF r.acct = a THEN r.ye ELSE 0)
    <3>1. Stmts(0) = {s, r}
      BY <1>3, <2>1, FewStmts
    <3>2. ASSUME NEW a
          PROVE  Pending(0, a) = (IF s.acct = a THEN s.ye ELSE 0)
                                 + (IF r.acct = a THEN r.ye ELSE 0)
      BY <1>3, <2>1, <2>2, <2>3, PendingFew
    <3>3. QED
      BY <3>1, <3>2
  <2>5. /\ users' = users /\ StmtsOf(req[t].id, done')
        /\ Drains(t, req[t].userid1)
    <3>1. s \in done' /\ r \in done'
      BY <1>4, <2>4
    <3>2. users' = users
      BY <1>6, <2>2, <2>3, <2>4
    <3>3. QED
      BY <2>2, <2>3, <3>1, <3>2 DEF StmtsOf, Drains
  <2> DEFINE h == [ye EXCEPT ![req[t].userid] = ye[req[t].userid] + s.ye]
  <2>6. h \in [Accts -> Int] /\ ye' = [h EXCEPT ![req[t].userid1] = @ + req[t].je]
    <3>1. s.ye \in Int /\ s.acct \in Accts /\ r.ye \in Int /\ r.acct \in Accts
      BY <1>3, <2>2, <2>3
    <3>2. \A a \in Accts : ye'[a] = ye[a] + ((IF s.acct = a THEN s.ye ELSE 0)
                                              + (IF r.acct = a THEN r.ye ELSE 0))
      BY <1>4, <2>4
    <3>3. \A a \in Accts : ye[a] \in Int
      BY <1>3
    <3>4. h \in [Accts -> Int]
      BY <1>3, <2>2, <3>1
    <3>5. \A a \in Accts : h[a] = ye[a] + (IF s.acct = a THEN s.ye ELSE 0)
      BY <1>3, <2>2, <3>1, <3>3
    <3> HIDE DEF h
    <3>6. \A a \in Accts : ye'[a] = h[a] + (IF r.acct = a THEN r.ye ELSE 0)
      BY <3>1, <3>2, <3>3, <3>5
    <3>7. ye' \in [Accts -> Int]
      BY <1>4
    <3>8. ye' = [h EXCEPT ![r.acct] = h[r.acct] + r.ye]
      BY <3>1, <3>4, <3>6, <3>7, AddOne
    <3>9. QED
      BY <2>3, <3>4, <3>8
  <2>7. CASE req[t].userid \in users
    <3>1. ye[req[t].userid] + s.ye = ye[req[t].userid] - req[t].je
      BY <1>3, <2>2, <2>7
    <3>2. h = [ye EXCEPT ![req[t].userid] = @ - req[t].je]
      BY <3>1
    <3>3. TransfersOne(t)
      <4> HIDE DEF h
      <4>1. QED
        BY <2>1, <2>5, <2>6, <2>7, <3>2 DEF TransfersOne
    <3>4. QED
      BY <1>2, <1>10, <2>5, <3>3
  <2>8. CASE req[t].userid \notin users
    <3>1. h = ye
      BY <1>3, <2>2, <2>8
    <3>2. DepositsOne(t, req[t].userid1)
      <4> HIDE DEF h
      <4>1. QED
        BY <2>1, <2>5, <2>6, <3>1 DEF DepositsOne
    <3>3. QED
      BY <1>2, <1>10, <2>5, <3>2
  <2>9. QED
    BY <2>7, <2>8
<1>11. QED
  BY <1>2, <1>7, <1>8, <1>9, <1>10 DEF AllOps

LEMMA StepCovered ==
  ASSUME ExactInv, NEW t \in Clients, Step(t), OnFirst
  PROVE  CoveredOrDrained'
<1>1. CoveredOrDrained /\ ye \in [Accts -> Int]
  BY DEF ExactInv, Exact, Money
<1> DEFINE Drained(a) == \E s \in done' : s.acct = a /\ s.step = "credit" /\ s.ye < 0
<1>2. done \subseteq done'
  BY CommitEffect, CommitFailsEffect, RefuseEffect, AddsOne DEF ExactInv, BankInv, Step,
     Read, HangUp, TakesConn, MissesConn, Busy, Unlock, Query, Passed, dbVars
<1>3. ASSUME NEW a \in Accts, ye[a] < 0 PROVE Drained(a)
  BY <1>1, <1>2, <1>3 DEF CoveredOrDrained
<1> SUFFICES ASSUME NEW a \in Accts, ye'[a] < 0, ye[a] >= 0 PROVE Drained(a)
  BY <1>1, <1>3 DEF CoveredOrDrained
<1>4. CommitStep(t)
  <2>1. ye[a] \in Int
    BY <1>1
  <2>2. ye'[a] # ye[a]
    BY <2>1
  <2>3. QED
    BY <2>2, StepMoney DEF ExactInv
<1>5. /\ req[t].userid \in Accts /\ req[t].userid1 \in Accts /\ req[t].je \in Int
      /\ ye[a] \in Int
  BY <1>1, <1>4, ReqFields DEF ExactInv, BankInv, CommitStep, Active
<1>6. ASSUME NEW b \in Accts, DepositsOne(t, b) PROVE Drained(a)
  <2>1. a = b /\ req[t].je < 0
    BY <1>1, <1>5, <1>6 DEF DepositsOne
  <2>2. QED
    BY <1>6, <2>1 DEF DepositsOne, Drains
<1>7. CASE WithdrawsOne(t)
  BY <1>1, <1>5, <1>7 DEF WithdrawsOne, Covered
<1>8. CASE TransfersOne(t)
  <2> DEFINE h == [ye EXCEPT ![req[t].userid] = @ - req[t].je]
  <2>1. h[a] \in Int /\ h[a] >= 0 /\ a \in DOMAIN h
    BY <1>1, <1>5, <1>8 DEF TransfersOne, Covered
  <2>2. ye' = [h EXCEPT ![req[t].userid1] = @ + req[t].je]
    BY <1>8 DEF TransfersOne
  <2> HIDE DEF h
  <2>3. a = req[t].userid1 /\ req[t].je < 0
    BY <1>5, <2>1, <2>2
  <2>4. QED
    BY <1>8, <2>3 DEF TransfersOne, Drains
<1>9. ~OpensOne(t) /\ ye' # ye
  BY <1>5 DEF OpensOne
<1>10. QED
  BY <1>4, <1>5, <1>6, <1>7, <1>8, <1>9, CommitLedger

\* What AnswerIsExact says of one request.
Exactly(q) ==
  asked[q] # "query" =>
    (StmtsOf(q, done) <=> answer[q] = "ok" /\ q \notin unkept)

LEMMA EachExactly == AnswerIsExact <=> \A q \in ReqIds : Exactly(q)
BY DEF AnswerIsExact, Exactly, StmtsOf

LEMMA StepAnswered ==
  ASSUME ExactInv, NEW t \in Clients, Step(t), OnFirst
  PROVE  AnswerIsExact'
<1> USE DEF ExactInv
<1>1. BankInv /\ Types /\ Requests /\ \A q \in ReqIds : Exactly(q)
  BY EachExactly DEF Exact, BankInv
<1>2. /\ answer \in [ReqIds -> Answers \cup {"none"}]
      /\ asked \in [ReqIds -> AllOps \cup {"none"}]
  BY <1>1 DEF Types
<1> SUFFICES \A q \in ReqIds : Exactly(q)'
  BY DEF AnswerIsExact, Exactly, StmtsOf
<1>3. CASE UNCHANGED <<done, unkept, asked, answer>>
  BY <1>1, <1>3 DEF Exactly, StmtsOf
<1>4. CASE Read(t)
  <2>1. PICK m \in Req : asked' = [asked EXCEPT ![sent + 1] = m.op]
    BY <1>1, <1>4, ReadEffect
  <2>2. sent + 1 \in ReqIds /\ sent + 1 > sent /\ UNCHANGED <<done, unkept, answer>>
    <3>1. sent \in Nat
      BY <1>1, Numbers DEF Types
    <3>2. sent + 1 \in ReqIds
      BY <1>1, <1>4, ReadEffect
    <3>3. QED
      BY <1>4, <3>1, <3>2 DEF Read, dbVars
  <2>3. answer[sent + 1] = "none" /\ ~StmtsOf(sent + 1, done)
    BY <1>1, <2>2 DEF Requests, Unsent, BankInv, Once, Trace
  <2>4. QED
    BY <1>1, <1>2, <2>1, <2>2, <2>3 DEF Exactly, StmtsOf
\* Answers that are not ok, of requests that had none.
<1>5. ASSUME Active(t), pc[t] # "unlock", UNCHANGED <<done, unkept, asked>>,
             NEW r, answer' = [answer EXCEPT ![req[t].id] = r],
             r # "ok" \/ asked[req[t].id] = "query"
      PROVE  \A q \in ReqIds : Exactly(q)'
  <2>1. answer[req[t].id] = "none"
    BY <1>1, <1>5 DEF Requests, RequestOf
  <2>2. QED
    BY <1>1, <1>2, <1>5, <2>1 DEF Exactly, StmtsOf
<1>6. CASE Busy(t)
  BY <1>5, <1>6 DEF Busy, Told, Active, dbVars
<1>7. CASE Refused(t)
  BY <1>1, <1>5, <1>7, RefuseEffect
<1>8. CASE Query(t)
  <2>1. Active(t) /\ pc[t] = "query"
    BY <1>8 DEF Query, Active
  <2>2. asked[req[t].id] = "query"
    BY <1>1, <2>1 DEF Requests, RequestOf, OpOf
  <2>3. QED
    BY <1>5, <1>8, <2>1, <2>2 DEF Query, Told, dbVars
\* A commit takes what the request of t has open, and nothing else.
<1>9. CASE CommitStep(t) \/ CommitFails(t)
  <2>1. /\ Works(t) /\ Active(t) /\ iconn[t] = 0 /\ req[t].id \in ReqIds
        /\ answer' = [answer EXCEPT ![req[t].id] = "ok"] /\ asked' = asked
        /\ pc[t] = "commit"
    <3>1. CASE CommitStep(t)
      BY <1>1, <3>1, CommitEffect, Alone, ActiveReq
    <3>2. CASE CommitFails(t)
      BY <1>1, <3>2, CommitFailsEffect, Alone, ActiveReq
    <3>3. QED
      BY <1>9, <3>1, <3>2
  <2>2. \A k \in Pool : \A s \in Stmts(k) : k = 0 /\ s.req = req[t].id
    <3> SUFFICES ASSUME NEW k \in Pool, NEW s \in Stmts(k)
                 PROVE  k = 0 /\ s.req = req[t].id
      OBVIOUS
    <3>1. PICK u \in Clients : k = 0 /\ Mine(u, s)
      BY <1>1, OfWorker
    <3>2. u = t
      BY <1>1, <2>1, <3>1, Alone DEF Mine
    <3>3. QED
      BY <3>1, <3>2 DEF Mine
  <2>3. CASE CommitStep(t)
    <3>1. PICK c \in Pool : done' = done \cup Stmts(c) /\ unkept' = unkept
      BY <1>1, <2>3, CommitEffect
    <3>2. StmtsOf(req[t].id, done') /\ req[t].id \notin unkept
      BY <2>3, CommitLedger
    <3>3. ASSUME NEW q \in ReqIds, q # req[t].id
          PROVE  (StmtsOf(q, done') <=> StmtsOf(q, done)) /\ answer'[q] = answer[q]
      BY <1>2, <2>1, <2>2, <3>1, <3>3 DEF StmtsOf
    <3>4. ASSUME NEW q \in ReqIds PROVE Exactly(q)'
      <4>1. CASE q = req[t].id
        BY <1>2, <2>1, <3>1, <3>2, <4>1 DEF Exactly
      <4>2. CASE q # req[t].id
        BY <1>1, <2>1, <3>1, <3>3, <4>2 DEF Exactly
      <4>3. QED
        BY <4>1, <4>2
    <3>5. QED
      BY <3>4
  <2>4. CASE CommitFails(t)
    <3>1. PICK c \in Pool : /\ done' = done
                            /\ unkept' = unkept \cup {s.req : s \in Stmts(c)}
                            /\ c = 0
      BY <1>1, <2>1, <2>4, CommitFailsEffect
    <3>2. answer[req[t].id] = "none" /\ asked[req[t].id] # "query"
      BY <1>1, <2>1 DEF Requests, RequestOf, OpOf
    <3>3. ~StmtsOf(req[t].id, done)
      BY <1>1, <2>1, <3>2 DEF Exactly
    <3>4. req[t].id \in unkept'
      <4>1. StmtsOf(req[t].id, Stmts(c) \cup done) \/ req[t].id \in unkept
        BY <1>1, <2>1, <3>1 DEF BankInv, Deposits, Left
      <4>2. QED
        BY <3>1, <3>3, <4>1 DEF StmtsOf
    <3>5. ASSUME NEW q \in ReqIds, q # req[t].id
          PROVE  (q \in unkept' <=> q \in unkept) /\ answer'[q] = answer[q]
      BY <1>2, <2>1, <2>2, <3>1, <3>5
    <3>6. ASSUME NEW q \in ReqIds PROVE Exactly(q)'
      <4>1. CASE q = req[t].id
        BY <3>1, <3>3, <3>4, <4>1 DEF Exactly, StmtsOf
      <4>2. CASE q # req[t].id
        BY <1>1, <2>1, <3>1, <3>5, <4>2 DEF Exactly, StmtsOf
      <4>3. QED
        BY <4>1, <4>2
    <3>7. QED
      BY <3>6
  <2>5. QED
    BY <1>9, <2>3, <2>4
<1>10. CASE Executed(t)
  BY <1>1, <1>3, <1>10, AddsOne
<1>11. QED
  BY <1>3, <1>4, <1>6, <1>7, <1>8, <1>9, <1>10 DEF Step, HangUp, TakesConn,
     MissesConn, Unlock, Passed, histVars, dbVars

LEMMA StepExact ==
  ASSUME ExactInv, NEW t \in Clients, Thread(t), BankInv'
  PROVE  Exact'
<1> SUFFICES ASSUME OnFirst'
             PROVE  CoveredOrDrained' /\ AnswerIsExact'
                    /\ \A u \in Clients : Works(u)' /\ 0 \notin lost' => Stage(u)'
  BY DEF Exact
<1>1. Step(t) /\ OnFirst
  BY Steps, OnFirstBefore DEF ExactInv, BankInv
<1>2. CoveredOrDrained' /\ AnswerIsExact'
  BY <1>1, StepCovered, StepAnswered
<1>3. ASSUME NEW u \in Clients, Works(u)', 0 \notin lost' PROVE Stage(u)'
  <2>0. 0 \notin lost
    BY <1>1, <1>3 DEF Step, Read, HangUp, TakesConn, MissesConn, Busy, Unlock, Query,
       Refused, Refuse, Passed, Executed, Execute, CommitStep, Commit, CommitFails, dbVars
  <2>1. CASE u = t
    BY <1>3, <2>0, <2>1, StepStage
  <2>2. CASE u # t
    <3>1. pc'[u] = pc[u] /\ req'[u] = req[u]
      <4> USE DEF Goto, Told, ExactInv, BankInv, Types
      <4>1. CASE Refused(t) \/ CommitStep(t) \/ CommitFails(t) \/ Executed(t)
        BY <2>2, <4>1 DEF Refused, Refuse, CommitStep, CommitFails, Executed, Execute
      <4>2. CASE Read(t) \/ Busy(t) \/ Unlock(t)
        BY <2>2, <4>2 DEF Read, Busy, Unlock, NextRound
      <4>3. QED
        BY <1>1, <2>2, <4>1, <4>2 DEF Step, HangUp, TakesConn, Locked, MissesConn,
           Query, Passed
    <3>2. Works(u) /\ Stage(u)
      BY <1>1, <1>3, <2>0, <3>1 DEF Works, ExactInv, Exact
    <3>3. mutex[0] = u /\ ~Works(t)
      BY <1>1, <2>2, <3>2, Alone DEF ExactInv
    <3>4. ~TakesConn(t)
      <4>1. SUFFICES ASSUME TakesConn(t) PROVE FALSE
        OBVIOUS
      <4>2. /\ req[t].id \in ReqIds /\ via' = [via EXCEPT ![req[t].id] = iconn[t]]
            /\ via \in [ReqIds -> 0..NConn]
        BY <4>1, TakeEffect DEF ExactInv, BankInv, Types
      <4>3. iconn[t] \in {0, NConn} /\ iconn[t] \in Pool
        BY <4>1, <4>2 DEF OnFirst, TakesConn
      <4>4. iconn[t] = 0
        BY <4>3, Numbers
      <4>5. QED
        BY <3>3, <4>1, <4>4, BankConstants DEF TakesConn
    <3>5. UNCHANGED dbVars
      BY <1>1, <3>3, <3>4 DEF Step, Read, HangUp, MissesConn, Busy, Unlock, Query, Refused,
         Passed, Executed, CommitStep, CommitFails, Works, Working, Statements
    <3>6. QED
      BY <3>1, <3>2, <3>5 DEF Stage, Clean, Takes, Covered, Wrote, Opened, Debited, Credited,
         Paid, dbVars
  <2>3. QED
    BY <2>1, <2>2
<1>4. QED
  BY <1>2, <1>3

\* A link is lost: it takes what the request under way has done, if anything.
LEMMA LostExact ==
  ASSUME ExactInv, NEW c \in Pool, LinkLost(c)
  PROVE  SumsSent' /\ Money' /\ Exact'
<1> USE DEF ExactInv
<1>1. /\ Stmts(c)' = {} /\ (\A k \in Pool \ {c} : Keeps(k))
      /\ unkept' = unkept \cup {s.req : s \in Stmts(c)}
      /\ UNCHANGED <<ye, users, done, pc, req, asked, via, answer>>
  BY LinkLostEffect DEF BankInv, progVars, histVars
<1>2. SumsSent' /\ Money'
  BY <1>1 DEF SumsSent, Money, Active
<1>3. ASSUME OnFirst, CoveredOrDrained, AnswerIsExact,
             \A t \in Clients : Works(t) /\ 0 \notin lost => Stage(t)
      PROVE  CoveredOrDrained' /\ AnswerIsExact'
             /\ \A t \in Clients : Works(t)' /\ 0 \notin lost' => Stage(t)'
  <2>1. CoveredOrDrained'
    BY <1>1, <1>3 DEF CoveredOrDrained
  <2>2. ASSUME NEW q \in ReqIds PROVE Exactly(q)'
    <3>1. Exactly(q)
      BY <1>3, EachExactly
    <3>2. ASSUME NEW s \in Stmts(c), s.req = q PROVE answer[q] = "none"
      <4>1. PICK t \in Clients : Mine(t, s)
        BY <1>3, OfWorker
      <4>2. QED
        BY <3>2, <4>1, Workers DEF Mine, BankInv, Requests, RequestOf
    <3>3. QED
      BY <1>1, <3>1, <3>2 DEF Exactly, StmtsOf
  <2>3. AnswerIsExact'
    BY <2>2 DEF AnswerIsExact, Exactly, StmtsOf
  <2>4. ASSUME NEW t \in Clients, Works(t)', 0 \notin lost' PROVE Stage(t)'
    <3>1. lost' = lost \cup {c} /\ trans' = [trans EXCEPT ![c] = <<>>]
      BY DEF LinkLost, Drop, Rollback
    <3>2. c # 0 /\ Stage(t)
      BY <1>1, <1>3, <2>4, <3>1 DEF Works
    <3>3. trans'[0] = trans[0]
      BY <3>1, <3>2 DEF BankInv, Types
    <3>4. unkept' = unkept
      <4>1. \A s \in Stmts(c) : FALSE
        BY <1>3, <3>2, OfWorker
      <4>2. QED
        BY <1>1, <4>1
    <3>5. QED
      BY <1>1, <3>2, <3>3, <3>4 DEF Stage, Clean, Takes, Covered, Wrote, Opened, Debited,
         Credited, Paid
  <2>5. QED
    BY <2>1, <2>3, <2>4
<1>4. OnFirst' <=> OnFirst
  BY <1>1 DEF OnFirst
<1>5. QED
  BY <1>2, <1>3, <1>4 DEF Exact

\* The inductive invariant.
LEMMA ExactInvariant == Spec => []ExactInv
<1>1. Init => ExactInv
  <2> SUFFICES ASSUME Init PROVE ExactInv
    OBVIOUS
  <2>1. BankInv
    BY InitInv
  <2>2. \A a \in DOMAIN InitBal : InitBal[a] \in Nat /\ InitBal[a] \in Int /\ a \in Accts
    BY BankConstants
  <2>3. \A a \in Accts : ye[a] \in Int /\ ye[a] >= 0
    BY <2>2 DEF Init
  <2>4. Money
    BY <2>2 DEF Init, Money
  <2>5. AnswerIsExact /\ SumsSent /\ \A t \in Clients : ~Works(t)
    BY DEF Init, AnswerIsExact, SumsSent, Active, Works, Working
  <2>6. QED
    BY <2>1, <2>3, <2>4, <2>5 DEF ExactInv, Exact, CoveredOrDrained
<1>2. ExactInv /\ [Next]_vars => ExactInv'
  <2> SUFFICES ASSUME ExactInv, [Next]_vars PROVE ExactInv'
    OBVIOUS
  <2>1. BankInv'
    BY NextInv DEF ExactInv
  <2>2. ASSUME NEW t \in Clients, Thread(t) PROVE ExactInv'
    <3>1. Money' /\ SumsSent'
      BY <2>2, Steps, StepMoney, StepSumsSent DEF ExactInv, BankInv
    <3>2. Exact'
      BY <2>1, <2>2, StepExact
    <3>3. QED
      BY <2>1, <3>1, <3>2 DEF ExactInv
  <2>3. CASE UNCHANGED vars
    <3> USE <2>3 DEF vars, dbVars, progVars, histVars
    <3>1. Money' /\ SumsSent' /\ (OnFirst' <=> OnFirst)
      BY DEF ExactInv, Money, SumsSent, Active, OnFirst
    <3>2. (CoveredOrDrained' <=> CoveredOrDrained) /\ (AnswerIsExact' <=> AnswerIsExact)
      BY DEF CoveredOrDrained, AnswerIsExact
    <3>3. \A t \in Clients : (Works(t)' <=> Works(t)) /\ (Stage(t)' <=> Stage(t))
      BY DEF Works, Stage, Clean, Takes, Covered, Wrote, Opened, Debited, Credited, Paid
    <3>4. QED
      BY <2>1, <3>1, <3>2, <3>3 DEF ExactInv, Exact
  <2>4. CASE \E c \in Pool : LinkLost(c)
    BY <2>1, <2>4, LostExact DEF ExactInv
  <2>5. QED
    BY <2>2, <2>3, <2>4 DEF Next
<1>3. QED
  BY <1>1, <1>2, PTL DEF Spec

\* Types of every variable, and on the first connection: the answer 0 means
\* that the request is committed, unless its commit failed or the link was
\* lost, and any other answer that nothing of it is (procmessage 237, 265, 283,
\* 312); what an account does not cover is refused, although the balance is
\* compared before it is changed, and only amounts below zero, which nobody
\* refuses, take one below zero (bank.cpp 92-106, procmessage 216).
THEOREM BankFirst == Spec => []FirstIsExact
<1>1. ExactInv => FirstIsExact
  <2> SUFFICES ASSUME ExactInv PROVE FirstIsExact
    OBVIOUS
  <2>1. TypeOK
    BY DEF ExactInv, BankInv, Types, Money, TypeOK, Answers
  <2>2. QED
    BY <2>1 DEF ExactInv, Exact, FirstIsExact
<1>2. QED
  BY <1>1, ExactInvariant, PTL

LEMMA LedgerStep ==
  ExactInv /\ [Next]_vars => [OnFirst' => L!LedgerNext]_L!ledgerVars
<1> SUFFICES ASSUME ExactInv, [Next]_vars, OnFirst', ~UNCHANGED <<ye, users>>
             PROVE  L!LedgerNext
  BY DEF L!ledgerVars
<1>1. PICK t \in Clients : Thread(t)
  <2>1. ASSUME NEW c \in Pool, LinkLost(c) PROVE FALSE
    BY <2>1 DEF LinkLost, Drop, Rollback
  <2>2. QED
    BY <2>1 DEF Next, vars, dbVars
<1>2. Step(t) /\ OnFirst
  BY <1>1, Steps, OnFirstBefore DEF ExactInv, BankInv
<1>3. CommitStep(t)
  BY <1>2, StepMoney DEF ExactInv
<1>4. \/ OpensOne(t)
      \/ /\ req[t].op \notin {"query", "open"}
         /\ \/ \E a \in {req[t].userid, req[t].userid1} : DepositsOne(t, a)
            \/ WithdrawsOne(t) \/ TransfersOne(t)
  BY <1>2, <1>3, CommitLedger
<1>5. /\ req[t].userid \in Accts /\ req[t].userid1 \in Accts
      /\ req[t].op \notin {"query", "open"} => req[t].je \in Amounts
  BY <1>3, ReqFields DEF ExactInv, BankInv, SumsSent, CommitStep, Active
<1>6. CASE OpensOne(t)
  <2>1. L!Open(req[t].userid)
    BY <1>6 DEF OpensOne, L!Open
  <2>2. QED
    BY <1>5, <2>1 DEF L!LedgerNext
<1>7. ASSUME req[t].je \in Amounts,
             NEW a \in {req[t].userid, req[t].userid1}, DepositsOne(t, a)
      PROVE  L!LedgerNext
  <2>1. L!Deposit(a, req[t].je)
    BY <1>7 DEF DepositsOne, L!Deposit
  <2>2. a \in Accts
    BY <1>5
  <2>3. QED
    BY <1>7, <2>1, <2>2 DEF L!LedgerNext
<1>8. CASE req[t].je \in Amounts /\ WithdrawsOne(t)
  <2>1. L!Withdraw(req[t].userid, req[t].je)
    BY <1>8 DEF WithdrawsOne, Covered, L!Withdraw
  <2>2. QED
    BY <1>5, <1>8, <2>1 DEF L!LedgerNext
<1>9. CASE req[t].je \in Amounts /\ TransfersOne(t)
  <2>1. L!Transfer(req[t].userid, req[t].userid1, req[t].je)
    BY <1>9 DEF TransfersOne, Covered, L!Transfer
  <2>2. QED
    BY <1>5, <1>9, <2>1 DEF L!LedgerNext
<1>10. QED
  BY <1>4, <1>5, <1>6, <1>7, <1>8, <1>9

\* As long as requests have been processed on the first connection only, the
\* accounts change as the bank promises: each request at once or not at all,
\* and covered (bank.cpp 92-170, procmessage 275-368).
THEOREM BankLedger == Spec => ImplementsLedger
<1>1. Init => L!LedgerInit
  BY DEF Init, L!LedgerInit
<1>2. QED
  BY <1>1, LedgerStep, ExactInvariant, PTL DEF Spec, ImplementsLedger
=============================================================================
