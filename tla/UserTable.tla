----------------------------- MODULE UserTable -----------------------------
(***************************************************************************)
(* What the list of logged-in users promises: a sequence of entries, the   *)
(* newest first, to which one is added at the front, and from which the    *)
(* newest entry of a name is removed.                                      *)
(***************************************************************************)
EXTENDS Naturals, SequencesExt

CONSTANTS Entries,  \* entries that may be added, each once
          NameOf    \* their names

VARIABLE table

Added(e)   == table' = <<e>> \o table
Removed(n) ==
  \E i \in DOMAIN table :
    /\ NameOf[table[i]] = n
    /\ \A j \in 1..(i - 1) : NameOf[table[j]] # n
    /\ table' = RemoveAt(table, i)

TableInit == table = <<>>
TableNext ==
  \/ \E e \in Entries : (\A i \in DOMAIN table : table[i] # e) /\ Added(e)
  \/ \E e \in Entries : Removed(NameOf[e])

TableSpec == TableInit /\ [][TableNext]_table
=============================================================================
