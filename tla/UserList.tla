------------------------------ MODULE UserList ------------------------------
(***************************************************************************)
(* The linked list of logged-in users (linklist.c), one pointer access at  *)
(* a time. It has no lock: the accept loop inserts a node for every client *)
(* and starts its thread, and the threads search and, at their end, remove *)
(* a node of their user's name.                                            *)
(*                                                                         *)
(* Memory is a set of cells. free() puts a link of its own over the first  *)
(* bytes of a cell, so no name is found there until malloc() gives the     *)
(* cell out again; the pointer at its end stays. free() of a cell that is  *)
(* free aborts the process. Clients are numbered in the order of their     *)
(* nodes, a cell holds the number of the client it was filled for.         *)
(***************************************************************************)
EXTENDS Naturals, Sequences

CONSTANTS MaxConn,  \* bound on the clients that log in
          Cells,    \* number of cells malloc() gives out
          Names,    \* user names searched for
          NameOf    \* NameOf[c]: the name of client c

ASSUME UserListConstants ==
  MaxConn \in Nat /\ Cells \in Nat \ {0} /\ NameOf \in [1..MaxConn -> Names]

Conns == 1..MaxConn
NULL  == 0
Head0 == Cells + 1            \* the list head g_pList, no user's node
Nodes == 1..Cells

VARIABLES next,    \* next[a]: the pointer in cell a
          user,    \* user[a]: the client cell a was filled for, 0: no name
          heap,    \* cells in use
          aborted, \* the process has ended by a free() of a free cell
          logins,  \* clients whose insertNode has begun
          ipc,     \* where the accept loop is in insertNode
          newNode,
          wpc,     \* where the thread of client c is in searchName, delNode
          name,    \* the name it looks for
          pre, p,  \* its pointers
          rest,    \* p->next, read by it for pre->next
          \* history
          expect,  \* the client its search was to find when it began, or 0
          overlap  \* a removal ran at the same time as another operation

memory   == <<next, user, heap, aborted>>
insertV  == <<logins, ipc, newNode>>
workerV  == <<wpc, name, pre, p, rest>>
vars == <<memory, insertV, workerV, expect, overlap>>

Init ==
  /\ next = [a \in Nodes \cup {Head0} |-> NULL]
  /\ user = [a \in Nodes |-> 0]
  /\ heap = {} /\ aborted = FALSE
  /\ logins = 0 /\ ipc = "idle" /\ newNode = NULL
  /\ wpc = [c \in Conns |-> "none"]
  /\ name = [c \in Conns |-> NameOf[c]]
  /\ pre = [c \in Conns |-> NULL]
  /\ p = [c \in Conns |-> NULL]
  /\ rest = [c \in Conns |-> NULL]
  /\ expect = [c \in Conns |-> 0]
  /\ overlap = FALSE

-----------------------------------------------------------------------------
(* What can be reached from the head (at most every cell once).             *)

Reached == LET at[k \in 0..Cells] == IF k = 0 THEN next[Head0]
                                     ELSE IF at[k - 1] = NULL THEN NULL
                                     ELSE next[at[k - 1]]
           IN at

\* The clients in the list, from its head to its end.
Listed == LET end == {k \in 0..Cells : Reached[k] = NULL}
              len == IF end = {} THEN Cells
                     ELSE CHOOSE k \in end : \A l \in end : k <= l
          IN [k \in 1..len |-> user[Reached[k - 1]]]

Searching(c) == wpc[c] \in {"search", "skip", "result"}
Removing(c)  == wpc[c] \in {"find", "pass", "found", "unlink", "free"}

\* A removal that begins, or is under way when something else begins.
Overlap(removal) ==
  overlap' = \/ overlap
             \/ \E c \in Conns : Removing(c)
             \/ removal /\ (ipc # "idle" \/ \E c \in Conns : Searching(c))

-----------------------------------------------------------------------------
(* insertNode, on the accept loop; then the client's thread starts.         *)

Malloc ==
  /\ ipc = "idle" /\ logins < MaxConn
  /\ \E a \in Nodes \ heap :
       /\ heap' = heap \cup {a} /\ newNode' = a
       /\ user' = [user EXCEPT ![a] = logins + 1]
  /\ logins' = logins + 1 /\ ipc' = "next"
  /\ Overlap(FALSE)
  /\ UNCHANGED <<next, aborted, workerV, expect>>

\* newNode->next = head->next
SetNext ==
  /\ ipc = "next" /\ ipc' = "head"
  /\ next' = [next EXCEPT ![newNode] = next[Head0]]
  /\ UNCHANGED <<user, heap, aborted, logins, newNode, workerV, expect, overlap>>

\* head->next = newNode
SetHead ==
  /\ ipc = "head" /\ ipc' = "idle"
  /\ next' = [next EXCEPT ![Head0] = newNode]
  /\ wpc' = [wpc EXCEPT ![logins] = "read"]
  /\ UNCHANGED <<user, heap, aborted, logins, newNode, name, pre, p, rest,
                 expect, overlap>>

-----------------------------------------------------------------------------
(* searchName and delNode, on the thread of client c.                       *)

Goto(c, pc) == wpc' = [wpc EXCEPT ![c] = pc]

\* Linklist *pre = head, *p = head->next
Begin(c, pc, n) ==
  /\ wpc[c] = "read" /\ Goto(c, pc)
  /\ name' = [name EXCEPT ![c] = n]
  /\ pre' = [pre EXCEPT ![c] = Head0]
  /\ p' = [p EXCEPT ![c] = next[Head0]]
  /\ expect' = [expect EXCEPT ![c] =
                  LET found == {i \in DOMAIN Listed :
                                  Listed[i] \in Conns /\ NameOf[Listed[i]] = n}
                  IN IF found = {} THEN 0
                     ELSE Listed[CHOOSE i \in found : \A j \in found : i <= j]]
  /\ UNCHANGED <<memory, insertV, rest>>

BeginSearch(c) == (\E n \in Names : Begin(c, "search", n)) /\ Overlap(FALSE)
BeginRemove(c) == Begin(c, "find", NameOf[c]) /\ Overlap(TRUE)

\* Mutant: strcmp() is taken for a test of equality.
Matches_NotZero(c) == user[p[c]] # 0 /\ NameOf[user[p[c]]] # name[c]

Matches(c) == user[p[c]] # 0 /\ NameOf[user[p[c]]] = name[c]

\* strcmp(p->name, name) finds another name.
Differs(c) ==
  /\ p[c] # NULL /\ ~Matches(c)
  /\ \/ wpc[c] = "search" /\ Goto(c, "skip")
     \/ wpc[c] = "find" /\ Goto(c, "pass")
  /\ UNCHANGED <<memory, insertV, name, pre, p, rest, expect, overlap>>

\* pre = p, p = p->next
Advance(c) ==
  /\ \/ wpc[c] = "skip" /\ Goto(c, "search")
     \/ wpc[c] = "pass" /\ Goto(c, "find")
  /\ pre' = [pre EXCEPT ![c] = p[c]]
  /\ p' = [p EXCEPT ![c] = next[p[c]]]
  /\ UNCHANGED <<memory, insertV, name, rest, expect, overlap>>

\* The search ends, at a node of the name or at the end of the list.
EndSearch(c) ==
  /\ wpc[c] = "search" /\ (p[c] # NULL => Matches(c))
  /\ Goto(c, "result")
  /\ UNCHANGED <<memory, insertV, name, pre, p, rest, expect, overlap>>

\* The caller has used the result.
Use(c) ==
  /\ wpc[c] = "result" /\ Goto(c, "read")
  /\ UNCHANGED <<memory, insertV, name, pre, p, rest, expect, overlap>>

EndFind(c) ==
  /\ wpc[c] = "find"
  /\ \/ p[c] = NULL /\ Goto(c, "over")
     \/ p[c] # NULL /\ Matches(c) /\ Goto(c, "found")
  /\ UNCHANGED <<memory, insertV, name, pre, p, rest, expect, overlap>>

\* pre->next = p->next, a read and a write.
ReadRest(c) ==
  /\ wpc[c] = "found" /\ Goto(c, "unlink")
  /\ rest' = [rest EXCEPT ![c] = next[p[c]]]
  /\ UNCHANGED <<memory, insertV, name, pre, p, expect, overlap>>

\* Mutant: the head is taken for the predecessor.
Unlink_Head(c) ==
  /\ wpc[c] = "unlink" /\ Goto(c, "free")
  /\ next' = [next EXCEPT ![Head0] = rest[c]]
  /\ UNCHANGED <<user, heap, aborted, insertV, name, pre, p, rest, expect,
                 overlap>>

Unlink(c) ==
  /\ wpc[c] = "unlink" /\ Goto(c, "free")
  /\ next' = [next EXCEPT ![pre[c]] = rest[c]]
  /\ UNCHANGED <<user, heap, aborted, insertV, name, pre, p, rest, expect,
                 overlap>>

\* free(p)
Free(c) ==
  /\ wpc[c] = "free" /\ Goto(c, "over")
  /\ IF p[c] \in heap
     THEN /\ heap' = heap \ {p[c]} /\ aborted' = aborted
          /\ user' = [user EXCEPT ![p[c]] = 0]
     ELSE aborted' = TRUE /\ UNCHANGED <<heap, user>>
  /\ UNCHANGED <<next, insertV, name, pre, p, rest, expect, overlap>>

Insert    == Malloc \/ SetNext \/ SetHead
Thread(c) == BeginSearch(c) \/ BeginRemove(c) \/ Differs(c) \/ Advance(c)
             \/ EndSearch(c) \/ Use(c) \/ EndFind(c) \/ ReadRest(c)
             \/ Unlink(c) \/ Free(c)

Next == ~aborted /\ (Insert \/ \E c \in Conns : Thread(c))

Spec == Init /\ [][Next]_vars

-----------------------------------------------------------------------------
(* Properties.                                                              *)

TypeOK ==
  /\ next \in [Nodes \cup {Head0} -> Nodes \cup {NULL}]
  /\ user \in [Nodes -> 0..MaxConn] /\ heap \subseteq Nodes
  /\ aborted \in BOOLEAN /\ overlap \in BOOLEAN
  /\ logins \in 0..MaxConn /\ ipc \in {"idle", "next", "head"}
  /\ newNode \in Nodes \cup {NULL}
  /\ wpc \in [Conns -> {"none", "read", "search", "skip", "result", "find",
                        "pass", "found", "unlink", "free", "over"}]
  /\ name \in [Conns -> Names] /\ expect \in [Conns -> 0..MaxConn]
  /\ p \in [Conns -> Nodes \cup {NULL}] /\ rest \in [Conns -> Nodes \cup {NULL}]
  /\ pre \in [Conns -> Nodes \cup {NULL, Head0}]
  /\ \A c \in Conns : wpc[c] \in {"found", "unlink", "free"} => p[c] # NULL

\* While no removal overlaps anything, the list ends, and its nodes are just
\* the cells in use, less the one being inserted or the one being freed.
ListIntact ==
  /\ TypeOK
  /\ ~overlap =>
    /\ \E k \in 0..Cells : Reached[k] = NULL
    /\ {Reached[k] : k \in 0..Cells} \ {NULL} =
         heap \ ((IF ipc # "idle" THEN {newNode} ELSE {})
                 \cup {p[c] : c \in {d \in Conns : wpc[d] = "free"}})

\* A search finds the newest node the name had when it began, if it had one,
\* although nodes are inserted meanwhile (searchName 74-87, insertNode 27-28).
SearchExact ==
  ~overlap => \A c \in Conns : wpc[c] = "result" =>
    IF p[c] = NULL THEN expect[c] = 0
    ELSE p[c] \in heap /\ user[p[c]] = expect[c]

\* Without an overlap the list is a table to which entries are added at the
\* front and from which the newest of a name is removed (module UserTable).
T == INSTANCE UserTable WITH Entries <- Conns, table <- Listed
ImplementsTable == T!TableInit /\ [][~overlap' => T!TableNext]_Listed
=============================================================================
