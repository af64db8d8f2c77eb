---------------------------- MODULE MCBankServer ----------------------------
(***************************************************************************)
(* Instances of BankServer for TLC: two accounts, of which both or only    *)
(* one exist at first, and a pool of two connections (the first, which the *)
(* code commits by mistake, and another).  Three clients exhaust it; they  *)
(* are interchangeable in a run of invariants. Nothing keeps a client from *)
(* sending an amount below zero.                                           *)
(***************************************************************************)
EXTENDS BankServer, TLC

CONSTANTS t1, t2, t3, acc, sav

MCTwo    == {t1, t2}
MCThree  == {t1, t2, t3}
MCSwap   == Permutations(MCThree)
MCAccts  == {acc, sav}
MCBoth   == [a \in {acc, sav} |-> 1]
MCFirst  == [a \in {acc} |-> 1]
MCAmounts == {-1, 1}

\* Three threads are at work together only while no commit has failed, no link
\* is lost and no amount below zero is asked for; otherwise two. Such an amount
\* is not asked for after a failure.
\* What follows once a client is gone can happen just as well while it only
\* sends nothing more, and is looked at there.
MCAtWork == {t \in Clients : pc[t] # "read"}
MCBelow  == \E t \in MCAtWork : pc[t] # "unlock" /\ req[t].je < 0
MCFew    == /\ \A t \in Clients : pc[t] # "gone"
            /\ MCBelow => faults = 0
            /\ faults > 0 \/ MCBelow => Cardinality(MCAtWork) <= 2

\* States are told apart by what a step or a property depends on. A request
\* with its answer is no more than its answer, and one that only asks is never
\* more than its kind; a request that is refused, and leaves nothing, is none;
\* a committed statement is its part in its request, or drains an account.
MCRequest(t) ==
  CASE pc[t] \in {"read", "unlock", "gone"} -> 0
    [] req[t].op = "query" -> "query"
    [] OTHER -> req[t]
MCOpen ==
  {q \in ReqIds : /\ asked[q] # "query"
                  /\ answer[q] \in {"none", "ok"} \/ \E s \in done : s.req = q}
MCDone == {<<s.req, s.op, s.step>> : s \in done}
MCDrained ==
  {s.acct : s \in {r \in done : r.step = "credit" /\ r.ye < 0}}
MCView ==
  <<ye, users, trans, lost, faults, MCDone, MCDrained, unkept, mutex, sent, pc,
    [t \in Clients |-> MCRequest(t)], iconn, OnFirst,
    [q \in MCOpen |-> <<asked[q], via[q], answer[q]>>]>>
=============================================================================
