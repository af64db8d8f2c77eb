------------------------------- MODULE Ledger -------------------------------
(***************************************************************************)
(* What the bank promises: accounts that are opened, and deposits,         *)
(* withdrawals and transfers that each happen at once or not at all, and   *)
(* only while they are covered. Amounts are taken as they come, whatever   *)
(* their sign. Module BankServer is shown to do so as long as its requests *)
(* are processed on its first connection, whatever commits fail.           *)
(***************************************************************************)
EXTENDS Integers

CONSTANTS Accts,    \* account numbers
          Amounts,  \* amounts of money
          InitBal   \* the accounts that exist at first, and their balances

VARIABLES opened,   \* the accounts there are
          balance   \* balance[a], 0 where there is no account

ledgerVars == <<opened, balance>>

LedgerInit ==
  /\ opened = DOMAIN InitBal
  /\ balance = [a \in Accts |-> IF a \in DOMAIN InitBal THEN InitBal[a] ELSE 0]

Open(a) ==
  /\ a \notin opened
  /\ opened' = opened \cup {a}
  /\ balance' = balance

Deposit(a, n) ==
  /\ a \in opened
  /\ balance' = [balance EXCEPT ![a] = @ + n]
  /\ opened' = opened

Withdraw(a, n) ==
  /\ a \in opened /\ balance[a] >= n
  /\ balance' = [balance EXCEPT ![a] = @ - n]
  /\ opened' = opened

Transfer(a, b, n) ==
  /\ {a, b} \subseteq opened /\ balance[a] >= n
  /\ balance' = [[balance EXCEPT ![a] = @ - n] EXCEPT ![b] = @ + n]
  /\ opened' = opened

LedgerNext ==
  \E a \in Accts :
    \/ Open(a)
    \/ \E n \in Amounts :
         \/ Deposit(a, n)
         \/ Withdraw(a, n)
         \/ \E b \in Accts : Transfer(a, b, n)

LedgerSpec == LedgerInit /\ [][LedgerNext]_ledgerVars
=============================================================================
