--------------------------- MODULE UserListProofs ---------------------------
(***************************************************************************)
(* Proofs about UserList, for every number of clients and cells: while no  *)
(* removal overlaps anything the pointers form a list of the cells in use, *)
(* a search finds the newest node of a name, and the list is the table of  *)
(* module UserTable. The last part is about ThreadPool, the other          *)
(* structure of linked cells: the order in which jobs are taken.           *)
(***************************************************************************)
EXTENDS UserList, ThreadPool, TLAPS, FiniteSetTheorems, WellFoundedInduction

\* A set of naturals that is not empty has a least member.
LEMMA Least ==
  ASSUME NEW S \in SUBSET Nat, S # {}
  PROVE  \E m \in S : \A j \in S : m <= j
<1> DEFINE R == {x \in Nat \X Nat : x[1] < x[2]}
<1>1. IsWellFoundedOn(R, Nat)
  BY NatLessThanWellFounded DEF OpToRel
<1>2. PICK m \in S : \A j \in S : ~(<<j, m>> \in R)
  <2> HIDE DEF R
  <2>1. QED
    BY <1>1, WFMin
<1>3. ASSUME NEW j \in S PROVE m <= j
  <2>1. ~(j < m) /\ j \in Nat /\ m \in Nat
    BY <1>2
  <2>2. QED
    BY <2>1
<1>4. QED
  BY <1>3

LEMMA Numbers ==
  /\ MaxConn \in Nat /\ Cells \in Nat \ {0} /\ NameOf \in [Conns -> Names]
  /\ NULL \notin Nodes /\ Head0 \notin Nodes /\ Head0 # NULL /\ NULL \notin Conns
  /\ NULL = 0 /\ Nodes = 1..Cells /\ Conns = 1..MaxConn
BY UserListConstants DEF Conns, Nodes, Head0, NULL

-----------------------------------------------------------------------------
(* Lists in memory. Their nodes are numbered from the end, so that a node   *)
(* keeps its number when another is put in front: f[n] is the first node,   *)
(* f[1] the last one, and f[0] is NULL.                                     *)

Chain(nx, n, f) ==
  /\ n \in 0..Cells /\ f \in [0..n -> Nodes \cup {NULL}] /\ f[0] = NULL
  /\ \A i \in 1..n : f[i] \in Nodes
  /\ \A i, j \in 1..n : f[i] = f[j] => i = j
  /\ nx[Head0] = f[n]
  /\ \A i \in 1..n : nx[f[i]] = f[i - 1]

\* There are no more nodes than cells.
LEMMA Pigeons ==
  ASSUME NEW n \in Nat, NEW f, \A i \in 1..n : f[i] \in Nodes,
         \A i, j \in 1..n : f[i] = f[j] => i = j
  PROVE  n <= Cells
<1> DEFINE g == [i \in 1..n |-> f[i]]
<1>1. g \in [1..n -> Nodes] /\ \A i, j \in 1..n : g[i] = g[j] => i = j
  OBVIOUS
<1>2. g \in Injection(1..n, Nodes)
  BY <1>1 DEF Injection, IsInjective
<1>3. /\ IsFiniteSet(Nodes) /\ Cardinality(Nodes) = Cells
      /\ Cardinality(1..n) = n
  BY Numbers, FS_Interval
<1> HIDE DEF g
<1>4. Cardinality(1..n) <= Cardinality(Nodes)
  BY <1>2, <1>3, FS_Injection
<1>5. QED
  BY <1>3, <1>4

\* Reached and Listed for a memory.
ReachedIn(nx) == LET at[k \in 0..Cells] == IF k = 0 THEN nx[Head0]
                                           ELSE IF at[k - 1] = NULL THEN NULL
                                           ELSE nx[at[k - 1]]
                 IN at

ListedIn(nx, us) ==
  LET end == {k \in 0..Cells : ReachedIn(nx)[k] = NULL}
      len == IF end = {} THEN Cells
             ELSE CHOOSE k \in end : \A l \in end : k <= l
  IN [k \in 1..len |-> us[ReachedIn(nx)[k - 1]]]

LEMMA ListedNow ==
  /\ Reached = ReachedIn(next) /\ Reached' = ReachedIn(next')
  /\ Listed = ListedIn(next, user) /\ Listed' = ListedIn(next', user')
BY DEF Reached, ReachedIn, Listed, ListedIn

\* What is reached from the head of a list.
LEMMA ReachedChain ==
  ASSUME NEW nx, NEW n, NEW f, Chain(nx, n, f)
  PROVE  \A k \in 0..Cells : ReachedIn(nx)[k] = IF k <= n THEN f[n - k] ELSE NULL
<1> DEFINE r == [k \in 0..Cells |-> IF k <= n THEN f[n - k] ELSE NULL]
           g == CHOOSE h : h = [k \in 0..Cells |->
                  IF k = 0 THEN nx[Head0]
                  ELSE IF h[k - 1] = NULL THEN NULL ELSE nx[h[k - 1]]]
<1>1. r = [k \in 0..Cells |-> IF k = 0 THEN nx[Head0]
                              ELSE IF r[k - 1] = NULL THEN NULL ELSE nx[r[k - 1]]]
  <2>1. \A k \in 0..Cells : r[k] = IF k = 0 THEN nx[Head0]
                              ELSE IF r[k - 1] = NULL THEN NULL ELSE nx[r[k - 1]]
    <3> SUFFICES ASSUME NEW k \in 0..Cells
                 PROVE  r[k] = IF k = 0 THEN nx[Head0]
                               ELSE IF r[k - 1] = NULL THEN NULL ELSE nx[r[k - 1]]
      OBVIOUS
    <3>1. n \in Nat /\ k \in Nat /\ Cells \in Nat
      BY Numbers DEF Chain
    <3>2. r[k] = IF k <= n THEN f[n - k] ELSE NULL
      OBVIOUS
    <3>3. k # 0 => k - 1 \in 0..Cells
      BY <3>1
    <3>4. k # 0 => r[k - 1] = IF k - 1 <= n THEN f[n - (k - 1)] ELSE NULL
      BY <3>3
    <3> HIDE DEF r
    <3>5. CASE k = 0
      BY <3>1, <3>2, <3>5 DEF Chain
    <3>6. CASE k # 0 /\ k <= n
      <4>1. n - (k - 1) \in 1..n /\ (n - (k - 1)) - 1 = n - k
        BY <3>1, <3>6
      <4>2. r[k - 1] = f[n - (k - 1)]
        BY <3>1, <3>4, <3>6
      <4>3. f[n - (k - 1)] \in Nodes /\ nx[f[n - (k - 1)]] = f[n - k]
        BY <4>1 DEF Chain
      <4>4. QED
        BY <3>2, <3>6, <4>2, <4>3, Numbers
    <3>7. CASE k = n + 1
      <4>1. r[k - 1] = f[0] /\ r[k] = NULL
        BY <3>1, <3>2, <3>4, <3>7
      <4>2. QED
        BY <3>1, <3>7, <4>1 DEF Chain
    <3>8. CASE k > n + 1
      <4>1. r[k - 1] = NULL /\ r[k] = NULL
        BY <3>1, <3>2, <3>4, <3>8
      <4>2. QED
        BY <3>1, <3>8, <4>1
    <3>9. QED
      BY <3>1, <3>5, <3>6, <3>7, <3>8
  <2>2. r = [k \in 0..Cells |-> r[k]]
    OBVIOUS
  <2> HIDE DEF r
  <2>3. QED
    BY <2>1, <2>2
<1>2. g = [k \in 0..Cells |-> IF k = 0 THEN nx[Head0]
                              ELSE IF g[k - 1] = NULL THEN NULL ELSE nx[g[k - 1]]]
  <2> HIDE DEF r
  <2>1. QED
    BY <1>1
<1>3. ReachedIn(nx) = g
  BY DEF ReachedIn
<1> HIDE DEF g
<1>4. \A k \in 0..Cells : g[k] = r[k]
  <2> HIDE DEF r
  <2> DEFINE S == {k \in 0..Cells : g[k] # r[k]}
  <2>1. CASE S # {}
    <3>1. S \in SUBSET Nat
      BY Numbers
    <3>2. PICK k \in S : \A j \in S : k <= j
      <4> HIDE DEF S
      <4>1. QED
        BY <2>1, <3>1, Least
    <3>3. k \in 0..Cells /\ g[k] # r[k]
      OBVIOUS
    <3>4. k # 0 => k - 1 \in 0..Cells /\ k - 1 \notin S
      BY <3>2, <3>3, Numbers
    <3>5. k # 0 => g[k - 1] = r[k - 1]
      BY <3>4
    <3> HIDE DEF S
    <3>6. r[k] = IF k = 0 THEN nx[Head0]
                 ELSE IF r[k - 1] = NULL THEN NULL ELSE nx[r[k - 1]]
      BY <1>1, <3>3
    <3>7. g[k] = IF k = 0 THEN nx[Head0]
                 ELSE IF g[k - 1] = NULL THEN NULL ELSE nx[g[k - 1]]
      BY <1>2, <3>3
    <3>8. QED
      BY <3>3, <3>5, <3>6, <3>7
  <2>2. CASE S = {}
    BY <2>2
  <2>3. QED
    BY <2>1, <2>2
<1>5. QED
  BY <1>3, <1>4

\* The clients in a list, from its head to its end.
Listing(us, n, f) == [k \in 1..n |-> us[f[n + 1 - k]]]

LEMMA ListedChain ==
  ASSUME NEW nx, NEW us, NEW n, NEW f, Chain(nx, n, f)
  PROVE  ListedIn(nx, us) = Listing(us, n, f)
<1> DEFINE end == {k \in 0..Cells : ReachedIn(nx)[k] = NULL}
           len == IF end = {} THEN Cells
                  ELSE CHOOSE k \in end : \A l \in end : k <= l
<1>1. n \in Nat /\ n <= Cells /\ Cells \in Nat
  BY Numbers DEF Chain
<1>2. \A k \in 0..Cells : ReachedIn(nx)[k] = IF k <= n THEN f[n - k] ELSE NULL
  BY ReachedChain
<1>3. \A k \in 0..Cells : k \in end <=> k >= n
  <2> SUFFICES ASSUME NEW k \in 0..Cells PROVE k \in end <=> k >= n
    OBVIOUS
  <2>1. CASE k >= n
    <3>1. k = n \/ ~(k <= n)
      BY <1>1, <2>1
    <3>2. QED
      BY <1>1, <1>2, <2>1, <3>1 DEF Chain
  <2>2. CASE ~(k >= n)
    <3>1. n - k \in 1..n /\ k <= n
      BY <1>1, <2>2
    <3>2. f[n - k] # NULL
      BY <3>1, Numbers DEF Chain
    <3>3. QED
      BY <1>2, <2>2, <3>1, <3>2
  <2>3. QED
    BY <2>1, <2>2
<1>4. n \in end /\ (\A l \in end : n <= l) /\ end \subseteq 0..Cells
  BY <1>1, <1>3
<1>5. ListedIn(nx, us) = [k \in 1..len |-> us[ReachedIn(nx)[k - 1]]]
  BY DEF ListedIn
<1> HIDE DEF end
<1>6. len = n
  <2>1. \A k \in end : (\A l \in end : k <= l) => k = n
    BY <1>1, <1>4
  <2>2. QED
    BY <1>4, <2>1
<1> HIDE DEF len
<1>7. \A k \in 1..n : ReachedIn(nx)[k - 1] = f[n + 1 - k]
  <2> SUFFICES ASSUME NEW k \in 1..n PROVE ReachedIn(nx)[k - 1] = f[n + 1 - k]
    OBVIOUS
  <2>1. k - 1 \in 0..Cells /\ k - 1 <= n /\ n - (k - 1) = n + 1 - k
    BY <1>1
  <2>2. QED
    BY <1>2, <2>1
<1>8. QED
  BY <1>5, <1>6, <1>7 DEF Listing

LEMMA ListedLength ==
  ASSUME NEW nx, NEW us
  PROVE  \E m \in Nat : DOMAIN ListedIn(nx, us) = 1..m
<1> DEFINE end == {k \in 0..Cells : ReachedIn(nx)[k] = NULL}
           len == IF end = {} THEN Cells
                  ELSE CHOOSE k \in end : \A l \in end : k <= l
<1>1. end \subseteq 0..Cells /\ Cells \in Nat
  BY Numbers
<1>2. DOMAIN ListedIn(nx, us) = 1..len
  BY DEF ListedIn
<1> HIDE DEF end
<1>3. CASE end # {}
  <2>1. \E k \in end : \A l \in end : k <= l
    BY <1>1, <1>3, Least
  <2>2. len \in end
    BY <1>3, <2>1
  <2> HIDE DEF len
  <2>3. len \in Nat
    BY <1>1, <2>2
  <2>4. QED
    BY <1>2, <2>3
<1>4. CASE end = {}
  BY <1>1, <1>2, <1>4
<1>5. QED
  BY <1>3, <1>4

\* The first client of a name in a listing, or 0.
Found(L, nm) == {i \in DOMAIN L : L[i] \in Conns /\ NameOf[L[i]] = nm}

Expected(L, nm) ==
  IF Found(L, nm) = {} THEN 0
  ELSE L[CHOOSE i \in Found(L, nm) : \A j \in Found(L, nm) : i <= j]

LEMMA FirstFound ==
  ASSUME NEW L, NEW m \in Nat, DOMAIN L = 1..m, NEW nm, Found(L, nm) # {}
  PROVE  \E i \in Found(L, nm) :
           Expected(L, nm) = L[i] /\ \A j \in Found(L, nm) : i <= j
<1>1. Found(L, nm) \in SUBSET Nat
  BY DEF Found
<1>2. \E i \in Found(L, nm) : \A j \in Found(L, nm) : i <= j
  BY <1>1, Least
<1>3. QED
  BY <1>2 DEF Expected

LEMMA ExpectedType ==
  ASSUME NEW nx, NEW us, NEW nm
  PROVE  Expected(ListedIn(nx, us), nm) \in 0..MaxConn
<1> DEFINE L == ListedIn(nx, us)
<1> SUFFICES Expected(L, nm) \in 0..MaxConn
  OBVIOUS
<1>1. PICK m \in Nat : DOMAIN L = 1..m
  BY ListedLength
<1> HIDE DEF L
<1>2. CASE Found(L, nm) = {}
  BY <1>2, Numbers DEF Expected
<1>3. CASE Found(L, nm) # {}
  <2>1. PICK i \in Found(L, nm) : Expected(L, nm) = L[i]
    BY <1>1, <1>3, FirstFound
  <2>2. Expected(L, nm) \in Conns
    BY <2>1 DEF Found
  <2>3. QED
    BY <2>2, Numbers
<1>4. QED
  BY <1>2, <1>3

\* Client e, if any, is that of the newest of the nodes 1 to i with this name.
NoneOf(us, f, S, nm) == \A j \in S : NameOf[us[f[j]]] # nm

Best(us, f, i, nm, e) ==
  \/ e = 0 /\ NoneOf(us, f, 1..i, nm)
  \/ \E j \in 1..i : /\ us[f[j]] = e /\ e \in Conns /\ NameOf[e] = nm
                     /\ NoneOf(us, f, (j + 1)..i, nm)

LEMMA ExpectedBest ==
  ASSUME NEW nx, NEW us, NEW n, NEW f, Chain(nx, n, f),
         \A i \in 1..n : us[f[i]] \in Conns, NEW nm
  PROVE  Best(us, f, n, nm, Expected(ListedIn(nx, us), nm))
<1> DEFINE L == Listing(us, n, f)
           e == Expected(ListedIn(nx, us), nm)
<1>1. n \in Nat
  BY Numbers DEF Chain
<1>2. e = Expected(L, nm)
  BY ListedChain
<1>3. DOMAIN L = 1..n /\ \A k \in 1..n : L[k] = us[f[n + 1 - k]]
  BY DEF Listing
<1>4. \A j \in 1..n : n + 1 - j \in 1..n /\ n + 1 - (n + 1 - j) = j
  BY <1>1
<1> HIDE DEF L, e
<1>5. \A j \in 1..n : L[n + 1 - j] = us[f[j]]
  BY <1>3, <1>4
<1>6. \A j \in 1..n : NameOf[us[f[j]]] = nm => n + 1 - j \in Found(L, nm)
  BY <1>3, <1>4, <1>5 DEF Found
<1>7. CASE Found(L, nm) = {}
  <2>1. e = 0
    BY <1>2, <1>7 DEF Expected
  <2>2. NoneOf(us, f, 1..n, nm)
    BY <1>6, <1>7 DEF NoneOf
  <2>3. QED
    BY <2>1, <2>2 DEF Best, e
<1>8. CASE Found(L, nm) # {}
  <2>1. PICK k \in Found(L, nm) : e = L[k] /\ \A l \in Found(L, nm) : k <= l
    BY <1>1, <1>2, <1>3, <1>8, FirstFound
  <2>2. k \in 1..n /\ L[k] \in Conns /\ NameOf[L[k]] = nm
    BY <1>3 DEF Found
  <2>3. PICK j \in 1..n : j = n + 1 - k
    BY <1>4, <2>2
  <2>4. us[f[j]] = e /\ e \in Conns /\ NameOf[e] = nm
    BY <1>3, <2>1, <2>2, <2>3
  <2>5. NoneOf(us, f, (j + 1)..n, nm)
    <3> SUFFICES ASSUME NEW l \in (j + 1)..n, NameOf[us[f[l]]] = nm PROVE FALSE
      BY DEF NoneOf
    <3>1. l \in 1..n /\ n + 1 - l < k
      BY <1>1, <2>2, <2>3
    <3>2. k <= n + 1 - l
      BY <1>6, <2>1, <3>1
    <3>3. QED
      BY <1>1, <2>2, <3>1, <3>2
  <2>6. QED
    BY <2>4, <2>5 DEF Best, e
<1>9. QED
  BY <1>7, <1>8

-----------------------------------------------------------------------------
(* Types.                                                                   *)

TypeInv ==
  /\ TypeOK
  /\ ipc # "idle" => newNode \in Nodes /\ logins \in Conns
  /\ \A c \in Conns : wpc[c] \in {"skip", "pass"} => p[c] # NULL

LEMMA InitTypes == Init => TypeInv
<1> SUFFICES ASSUME Init PROVE TypeInv
  OBVIOUS
<1>1. /\ \A c \in Conns : NameOf[c] \in Names
      /\ 0 \in 0..MaxConn /\ NULL \in Nodes \cup {NULL}
  BY Numbers
<1>2. /\ next \in [Nodes \cup {Head0} -> Nodes \cup {NULL}]
      /\ user \in [Nodes -> 0..MaxConn] /\ heap \subseteq Nodes
      /\ logins \in 0..MaxConn /\ newNode \in Nodes \cup {NULL}
  BY <1>1 DEF Init
<1>3. /\ wpc \in [Conns -> {"none", "read", "search", "skip", "result", "find",
                            "pass", "found", "unlink", "free", "over"}]
      /\ name \in [Conns -> Names] /\ expect \in [Conns -> 0..MaxConn]
      /\ \A c \in Conns : wpc[c] = "none"
  BY <1>1 DEF Init
<1>4. /\ p \in [Conns -> Nodes \cup {NULL}] /\ rest \in [Conns -> Nodes \cup {NULL}]
      /\ pre \in [Conns -> Nodes \cup {NULL, Head0}]
  BY <1>1 DEF Init
<1>5. QED
  BY <1>2, <1>3, <1>4 DEF Init, TypeInv, TypeOK

\* A search or a removal begins with what the list holds then.
LEMMA BeginEffect ==
  ASSUME TypeInv, NEW c \in Conns, NEW pc, NEW n, Begin(c, pc, n)
  PROVE  /\ wpc[c] = "read" /\ wpc' = [wpc EXCEPT ![c] = pc]
         /\ name' = [name EXCEPT ![c] = n]
         /\ pre' = [pre EXCEPT ![c] = Head0]
         /\ p' = [p EXCEPT ![c] = next[Head0]]
         /\ expect' = [expect EXCEPT ![c] = Expected(ListedIn(next, user), n)]
         /\ Expected(ListedIn(next, user), n) \in 0..MaxConn
         /\ UNCHANGED <<memory, insertV, rest>>
<1>1. expect' = [expect EXCEPT ![c] = Expected(Listed, n)]
  BY DEF Begin, Expected, Found
<1>2. QED
  BY <1>1, ListedNow, ExpectedType DEF Begin, Goto

LEMMA NextTypes == TypeInv /\ [Next]_vars => TypeInv'
<1> SUFFICES ASSUME TypeInv, [Next]_vars PROVE TypeInv'
  OBVIOUS
<1> USE Numbers
<1>1. CASE Malloc
  <2>1. logins + 1 \in Conns /\ logins + 1 \in 0..MaxConn
    BY <1>1 DEF Malloc, TypeInv, TypeOK
  <2>2. overlap' \in BOOLEAN
    BY <1>1 DEF Malloc, Overlap, TypeInv, TypeOK
  <2>3. QED
    BY <1>1, <2>1, <2>2 DEF Malloc, workerV, TypeInv, TypeOK
<1>2. CASE SetNext
  BY <1>2 DEF SetNext, workerV, TypeInv, TypeOK
<1>3. CASE SetHead
  BY <1>3 DEF SetHead, TypeInv, TypeOK
<1>4. ASSUME NEW c \in Conns, NEW pc \in {"search", "find"}, NEW n \in Names,
             Begin(c, pc, n), overlap' \in BOOLEAN
      PROVE  TypeInv'
  <2>1. next[Head0] \in Nodes \cup {NULL}
    BY DEF TypeInv, TypeOK
  <2>2. /\ wpc' = [wpc EXCEPT ![c] = pc] /\ name' = [name EXCEPT ![c] = n]
        /\ pre' = [pre EXCEPT ![c] = Head0] /\ p' = [p EXCEPT ![c] = next[Head0]]
        /\ \E e \in 0..MaxConn : expect' = [expect EXCEPT ![c] = e]
        /\ UNCHANGED <<memory, insertV, rest>>
    BY <1>4, BeginEffect
  <2>3. QED
    BY <1>4, <2>1, <2>2 DEF memory, insertV, TypeInv, TypeOK
<1>5. ASSUME NEW c \in Conns, BeginSearch(c) PROVE TypeInv'
  <2>1. PICK n \in Names : Begin(c, "search", n)
    BY <1>5 DEF BeginSearch
  <2>2. overlap' \in BOOLEAN
    BY <1>5 DEF BeginSearch, Overlap, TypeInv, TypeOK
  <2>3. QED
    BY <1>4, <2>1, <2>2
<1>6. ASSUME NEW c \in Conns, BeginRemove(c) PROVE TypeInv'
  <2>1. Begin(c, "find", NameOf[c]) /\ NameOf[c] \in Names
    BY <1>6 DEF BeginRemove
  <2>2. overlap' \in BOOLEAN
    BY <1>6 DEF BeginRemove, Overlap, TypeInv, TypeOK
  <2>3. QED
    BY <1>4, <2>1, <2>2
<1>7. ASSUME NEW c \in Conns, Differs(c) PROVE TypeInv'
  BY <1>7 DEF Differs, Goto, memory, insertV, TypeInv, TypeOK
<1>8. ASSUME NEW c \in Conns, Advance(c) PROVE TypeInv'
  <2>1. p[c] \in Nodes
    BY <1>8 DEF Advance, TypeInv, TypeOK
  <2>2. next[p[c]] \in Nodes \cup {NULL}
    BY <2>1 DEF TypeInv, TypeOK
  <2>3. QED
    BY <1>8, <2>1, <2>2 DEF Advance, Goto, memory, insertV, TypeInv, TypeOK
<1>9. ASSUME NEW c \in Conns, EndSearch(c) \/ Use(c) PROVE TypeInv'
  BY <1>9 DEF EndSearch, Use, Goto, memory, insertV, TypeInv, TypeOK
<1>10. ASSUME NEW c \in Conns, EndFind(c) PROVE TypeInv'
  BY <1>10 DEF EndFind, Goto, memory, insertV, TypeInv, TypeOK
<1>11. ASSUME NEW c \in Conns, ReadRest(c) PROVE TypeInv'
  <2>1. next[p[c]] \in Nodes \cup {NULL}
    BY <1>11 DEF ReadRest, TypeInv, TypeOK
  <2>2. QED
    BY <1>11, <2>1 DEF ReadRest, Goto, memory, insertV, TypeInv, TypeOK
<1>12. ASSUME NEW c \in Conns, Unlink(c) PROVE TypeInv'
  <2>1. rest[c] \in Nodes \cup {NULL}
    BY DEF TypeInv, TypeOK
  <2>2. /\ next' \in [Nodes \cup {Head0} -> Nodes \cup {NULL}]
        /\ wpc' = [wpc EXCEPT ![c] = "free"] /\ wpc[c] = "unlink"
    BY <1>12, <2>1 DEF Unlink, Goto, TypeInv, TypeOK
  <2>3. UNCHANGED <<user, heap, aborted, logins, ipc, newNode, name, pre, p, rest,
                    expect, overlap>>
    BY <1>12 DEF Unlink, insertV
  <2>4. QED
    BY <2>2, <2>3 DEF TypeInv, TypeOK
<1>13. ASSUME NEW c \in Conns, Free(c) PROVE TypeInv'
  <2>1. heap' \subseteq Nodes /\ aborted' \in BOOLEAN /\ user' \in [Nodes -> 0..MaxConn]
    <3>1. /\ heap \subseteq Nodes /\ aborted \in BOOLEAN
          /\ user \in [Nodes -> 0..MaxConn] /\ 0 \in 0..MaxConn
      BY DEF TypeInv, TypeOK
    <3>2. CASE p[c] \in heap
      BY <1>13, <3>1, <3>2 DEF Free
    <3>3. CASE p[c] \notin heap
      BY <1>13, <3>1, <3>3 DEF Free
    <3>4. QED
      BY <3>2, <3>3
  <2>2. QED
    BY <1>13, <2>1 DEF Free, Goto, insertV, TypeInv, TypeOK
<1>14. CASE UNCHANGED vars
  BY <1>14 DEF vars, memory, insertV, workerV, TypeInv, TypeOK
<1>15. QED
  BY <1>1, <1>2, <1>3, <1>5, <1>6, <1>7, <1>8, <1>9, <1>10, <1>11, <1>12, <1>13, <1>14
  DEF Next, Insert, Thread

-----------------------------------------------------------------------------
(* The list, and where the threads are in it, while no removal has          *)
(* overlapped anything.                                                     *)

Solo ==
  \A c \in Conns : Removing(c) =>
    ipc = "idle" /\ \A d \in Conns \ {c} : ~Removing(d) /\ ~Searching(d)

\* The node that is being inserted.
Inserts ==
  ipc # "idle" => /\ newNode \in heap /\ user[newNode] = logins
                  /\ ipc = "head" => next[newNode] = next[Head0]

Holds(n, f) ==
  \A a \in Nodes :
    (\E i \in 1..n : f[i] = a) <=>
      /\ a \in heap /\ ~(ipc # "idle" /\ a = newNode)
      /\ \A c \in Conns : wpc[c] = "free" => p[c] # a

Known(n, f) ==
  \A i \in 1..n : user[f[i]] \in 1..logins /\ (ipc # "idle" => user[f[i]] # logins)

\* The nodes a search has passed were not of the name, and those in front of
\* where it began do not matter; a removal has passed all those in front.
SearchAt(c, n, f) ==
  \E i \in 0..n : p[c] = f[i] /\ Best(user, f, i, name[c], expect[c])

RemovalAt(c, n, f) ==
  \E i \in 0..n :
    /\ p[c] = f[i] /\ pre[c] = (IF i = n THEN Head0 ELSE f[i + 1])
    /\ NoneOf(user, f, (i + 1)..n, name[c])
    /\ wpc[c] = "unlink" => rest[c] = f[i - 1]

Place(c, n, f) ==
  /\ wpc[c] \in {"search", "skip"} => SearchAt(c, n, f)
  /\ wpc[c] = "result" => IF p[c] = NULL THEN expect[c] = 0
                          ELSE p[c] \in heap /\ user[p[c]] = expect[c]
  /\ wpc[c] \in {"find", "pass", "found", "unlink"} => RemovalAt(c, n, f)
  /\ wpc[c] \in {"skip", "pass"} => ~Matches(c)
  /\ wpc[c] \in {"found", "unlink"} => Matches(c)

Shape(n, f) ==
  /\ Chain(next, n, f) /\ Holds(n, f) /\ Known(n, f)
  /\ \A c \in Conns : Place(c, n, f)

ListInv ==
  TypeInv /\ (~overlap => Solo /\ Inserts /\ \E n, f : Shape(n, f))

LEMMA InitList == Init => ListInv
<1> SUFFICES ASSUME Init PROVE ListInv
  OBVIOUS
<1>1. TypeInv
  BY InitTypes
<1>2. Solo /\ Inserts /\ \A c \in Conns : wpc[c] = "none"
  BY DEF Init, Solo, Removing, Inserts
<1> DEFINE f == [i \in 0..0 |-> NULL]
<1>3. Chain(next, 0, f)
  <2>1. next[Head0] = NULL
    BY DEF Init
  <2>2. 0 \in 0..Cells /\ 0 \in 0..0 /\ 1..0 = {}
    BY Numbers
  <2>3. QED
    BY <2>1, <2>2 DEF Chain
<1>4. 1..0 = {}
  OBVIOUS
<1> HIDE DEF f
<1>5. Holds(0, f) /\ Known(0, f)
  BY <1>4 DEF Init, Holds, Known
<1>6. \A c \in Conns : Place(c, 0, f)
  BY <1>2 DEF Place
<1>7. Shape(0, f)
  BY <1>3, <1>5, <1>6 DEF Shape
<1>8. QED
  BY <1>1, <1>2, <1>7 DEF ListInv

\* The node searched for is the one found, and no node that is passed.
LEMMA BestFound ==
  ASSUME NEW us, NEW f, NEW i \in Nat, NEW nm, NEW e, Best(us, f, i, nm, e)
  PROVE  /\ i = 0 => e = 0
         /\ i # 0 /\ NameOf[us[f[i]]] = nm => us[f[i]] = e
<1>1. CASE e = 0 /\ NoneOf(us, f, 1..i, nm)
  <2>1. i # 0 => i \in 1..i
    OBVIOUS
  <2>2. QED
    BY <1>1, <2>1 DEF NoneOf
<1>2. CASE \E j \in 1..i : /\ us[f[j]] = e /\ e \in Conns /\ NameOf[e] = nm
                           /\ NoneOf(us, f, (j + 1)..i, nm)
  <2>1. PICK j \in 1..i : us[f[j]] = e /\ NoneOf(us, f, (j + 1)..i, nm)
    BY <1>2
  <2>2. i # 0 /\ (j # i => i \in (j + 1)..i)
    BY <2>1
  <2>3. QED
    BY <2>1, <2>2 DEF NoneOf
<1>3. QED
  BY <1>1, <1>2 DEF Best

LEMMA BestPasses ==
  ASSUME NEW us, NEW f, NEW i \in Nat, NEW nm, NEW e, Best(us, f, i, nm, e),
         i # 0, NameOf[us[f[i]]] # nm
  PROVE  Best(us, f, i - 1, nm, e)
<1>1. CASE e = 0 /\ NoneOf(us, f, 1..i, nm)
  <2>1. \A j \in 1..(i - 1) : j \in 1..i
    OBVIOUS
  <2>2. NoneOf(us, f, 1..(i - 1), nm)
    BY <1>1, <2>1 DEF NoneOf
  <2>3. QED
    BY <1>1, <2>2 DEF Best
<1>2. CASE \E j \in 1..i : /\ us[f[j]] = e /\ e \in Conns /\ NameOf[e] = nm
                           /\ NoneOf(us, f, (j + 1)..i, nm)
  <2>1. PICK j \in 1..i : /\ us[f[j]] = e /\ e \in Conns /\ NameOf[e] = nm
                          /\ NoneOf(us, f, (j + 1)..i, nm)
    BY <1>2
  <2>2. j # i
    BY <2>1
  <2>3. j \in 1..(i - 1) /\ \A l \in (j + 1)..(i - 1) : l \in (j + 1)..i
    BY <2>2
  <2>4. NoneOf(us, f, (j + 1)..(i - 1), nm)
    BY <2>1, <2>3 DEF NoneOf
  <2>5. QED
    BY <2>1, <2>3, <2>4 DEF Best
<1>3. QED
  BY <1>1, <1>2 DEF Best

Agree(us, f, vs, g, i) == \A j \in 1..i : vs[g[j]] = us[f[j]]

LEMMA BestSame ==
  ASSUME NEW us, NEW vs, NEW f, NEW g, NEW i \in Nat, NEW nm, NEW e,
         Agree(us, f, vs, g, i), Best(us, f, i, nm, e)
  PROVE  Best(vs, g, i, nm, e)
<1>1. \A j \in 1..i : \A l \in (j + 1)..i : l \in 1..i
  OBVIOUS
<1>2. QED
  BY <1>1 DEF Agree, Best, NoneOf

-----------------------------------------------------------------------------
(* The steps of a thread that leave the memory alone.                       *)

Kept(n, f) == Solo /\ Inserts /\ Shape(n, f)

LEMMA OverlapStays == [Next]_vars => (overlap => overlap')
BY DEF Next, Insert, Thread, Malloc, SetNext, SetHead, BeginSearch, BeginRemove,
       Overlap, Differs, Advance, EndSearch, Use, EndFind, ReadRest, Unlink, Free,
       vars

Private(c) ==
  /\ UNCHANGED <<memory, insertV>>
  /\ \A d \in Conns \ {c} :
       /\ wpc'[d] = wpc[d] /\ name'[d] = name[d] /\ pre'[d] = pre[d]
       /\ p'[d] = p[d] /\ rest'[d] = rest[d] /\ expect'[d] = expect[d]

LEMMA PrivateKeeps ==
  ASSUME NEW n, NEW f, Kept(n, f), NEW c \in Conns, Private(c),
         wpc[c] # "free", wpc'[c] # "free", Solo', Place(c, n, f)'
  PROVE  Kept(n, f)'
<1>1. /\ next' = next /\ user' = user /\ heap' = heap
      /\ logins' = logins /\ ipc' = ipc /\ newNode' = newNode
  BY DEF Private, memory, insertV
<1>2. Inserts'
  BY <1>1 DEF Kept, Inserts
<1>3. Chain(next, n, f)' /\ Known(n, f)'
  BY <1>1 DEF Kept, Shape, Chain, Known
<1>4. Holds(n, f)'
  <2>1. \A d \in Conns, a \in Nodes :
          (wpc'[d] = "free" => p'[d] # a) <=> (wpc[d] = "free" => p[d] # a)
    BY DEF Private
  <2>2. Holds(n, f)
    BY DEF Kept, Shape
  <2>3. QED
    BY <1>1, <2>1, <2>2 DEF Holds
<1>5. ASSUME NEW d \in Conns PROVE Place(d, n, f)'
  <2>1. CASE d = c
    BY <2>1
  <2>2. CASE d # c
    <3>1. /\ wpc'[d] = wpc[d] /\ name'[d] = name[d] /\ pre'[d] = pre[d]
          /\ p'[d] = p[d] /\ rest'[d] = rest[d] /\ expect'[d] = expect[d]
      BY <2>2 DEF Private
    <3>2. Place(d, n, f)
      BY DEF Kept, Shape
    <3>3. /\ SearchAt(d, n, f)' <=> SearchAt(d, n, f)
          /\ RemovalAt(d, n, f)' <=> RemovalAt(d, n, f)
          /\ Matches(d)' <=> Matches(d)
      BY <1>1, <3>1 DEF SearchAt, RemovalAt, Matches
    <3>4. QED
      BY <1>1, <3>1, <3>2, <3>3 DEF Place
  <2>3. QED
    BY <2>1, <2>2
<1>6. QED
  BY <1>2, <1>3, <1>4, <1>5 DEF Kept, Shape

\* Nobody but the one thread begins to search or to remove.
LEMMA SoloStays ==
  ASSUME Solo, NEW c \in Conns, Private(c),
         Removing(c)' => Removing(c), Searching(c)' => Searching(c)
  PROVE  Solo'
<1>1. ipc' = ipc
  BY DEF Private, insertV
<1>2. \A d \in Conns : /\ Removing(d)' => Removing(d)
                       /\ Searching(d)' => Searching(d)
  BY DEF Private, Removing, Searching
<1>3. QED
  BY <1>1, <1>2 DEF Solo

\* The nodes of the list are those of clients.
LEMMA UsersKnown ==
  ASSUME NEW n, NEW f, TypeInv, Kept(n, f)
  PROVE  /\ Chain(next, n, f) /\ n \in Nat
         /\ \A i \in 1..n : user[f[i]] \in Conns /\ user[f[i]] # 0
<1>1. Chain(next, n, f) /\ \A i \in 1..n : user[f[i]] \in 1..logins
  BY DEF Kept, Shape, Known
<1>2. logins \in 0..MaxConn
  BY DEF TypeInv, TypeOK
<1>3. \A u \in 1..logins : u \in Conns /\ u # 0
  BY <1>2, Numbers
<1>4. QED
  BY <1>1, <1>3, Numbers DEF Chain

LEMMA BeginSearchKeeps ==
  ASSUME NEW n, NEW f, TypeInv, Kept(n, f), ~overlap',
         NEW c \in Conns, BeginSearch(c)
  PROVE  Kept(n, f)'
<1>1. PICK nm \in Names : Begin(c, "search", nm)
  BY DEF BeginSearch
<1>2. \A d \in Conns : ~Removing(d)
  BY DEF BeginSearch, Overlap
<1> DEFINE e == Expected(ListedIn(next, user), nm)
<1>3. /\ wpc[c] = "read" /\ wpc' = [wpc EXCEPT ![c] = "search"]
      /\ name' = [name EXCEPT ![c] = nm] /\ pre' = [pre EXCEPT ![c] = Head0]
      /\ p' = [p EXCEPT ![c] = next[Head0]]
      /\ expect' = [expect EXCEPT ![c] = e]
      /\ UNCHANGED <<memory, insertV, rest>>
  BY <1>1, BeginEffect
<1> HIDE DEF e
<1>4. Private(c) /\ wpc'[c] = "search"
  BY <1>3 DEF Private, TypeInv, TypeOK
<1>5. Solo'
  BY <1>2, <1>4 DEF Solo, Removing, Private
<1>6. SearchAt(c, n, f)'
  <2>1. Chain(next, n, f) /\ \A i \in 1..n : user[f[i]] \in Conns
    BY UsersKnown
  <2>2. Best(user, f, n, nm, e)
    BY <2>1, ExpectedBest DEF e
  <2>3. p'[c] = f[n] /\ name'[c] = nm /\ expect'[c] = e /\ user' = user
    BY <1>3, <2>1 DEF Chain, memory, TypeInv, TypeOK
  <2>4. n \in 0..n
    BY <2>1, Numbers DEF Chain
  <2>5. QED
    BY <2>2, <2>3, <2>4 DEF SearchAt
<1>7. Place(c, n, f)'
  BY <1>4, <1>6 DEF Place
<1>8. QED
  BY <1>3, <1>4, <1>5, <1>7, PrivateKeeps

LEMMA BeginRemoveKeeps ==
  ASSUME NEW n, NEW f, TypeInv, Kept(n, f), ~overlap',
         NEW c \in Conns, BeginRemove(c)
  PROVE  Kept(n, f)'
<1> DEFINE nm == NameOf[c]
<1>1. \A d \in Conns : ~Removing(d) /\ ~Searching(d)
  BY DEF BeginRemove, Overlap
<1>2. ipc = "idle"
  BY DEF BeginRemove, Overlap
<1>3. /\ wpc[c] = "read" /\ wpc' = [wpc EXCEPT ![c] = "find"]
      /\ name' = [name EXCEPT ![c] = nm] /\ pre' = [pre EXCEPT ![c] = Head0]
      /\ p' = [p EXCEPT ![c] = next[Head0]]
      /\ \E e : expect' = [expect EXCEPT ![c] = e]
      /\ UNCHANGED <<memory, insertV, rest>>
  BY BeginEffect DEF BeginRemove
<1>4. Private(c) /\ wpc'[c] = "find"
  BY <1>3 DEF Private, TypeInv, TypeOK
<1>5. Solo'
  BY <1>1, <1>2, <1>4 DEF Solo, Removing, Searching, Private, insertV
<1>6. RemovalAt(c, n, f)'
  <2>1. Chain(next, n, f)
    BY DEF Kept, Shape
  <2>2. p'[c] = f[n] /\ pre'[c] = Head0 /\ wpc'[c] = "find"
    BY <1>3, <2>1 DEF Chain, TypeInv, TypeOK
  <2>3. n \in 0..n /\ (n + 1)..n = {}
    BY <2>1, Numbers DEF Chain
  <2>4. QED
    BY <2>2, <2>3 DEF RemovalAt, NoneOf
<1>7. Place(c, n, f)'
  BY <1>4, <1>6 DEF Place
<1>8. QED
  BY <1>3, <1>4, <1>5, <1>7, PrivateKeeps

\* Steps that change nothing of a thread but where it is.
Moves(c, pc) == wpc' = [wpc EXCEPT ![c] = pc]
                /\ UNCHANGED <<memory, insertV, name, pre, p, rest, expect>>

LEMMA MovesKeeps ==
  ASSUME NEW n, NEW f, TypeInv, Kept(n, f), NEW c \in Conns, NEW pc, Moves(c, pc)
  PROVE  /\ Private(c) /\ wpc'[c] = pc
         /\ SearchAt(c, n, f) => SearchAt(c, n, f)'
         /\ pc # "unlink" /\ RemovalAt(c, n, f) => RemovalAt(c, n, f)'
         /\ Matches(c)' <=> Matches(c)
<1>1. Private(c) /\ wpc'[c] = pc
  BY DEF Moves, Private, TypeInv, TypeOK
<1>2. UNCHANGED <<user, name, pre, p, rest, expect>>
  BY DEF Moves, memory
<1>3. QED
  BY <1>1, <1>2 DEF SearchAt, RemovalAt, Matches

LEMMA DiffersKeeps ==
  ASSUME NEW n, NEW f, TypeInv, Kept(n, f), NEW c \in Conns, Differs(c)
  PROVE  Kept(n, f)'
<1>1. Place(c, n, f) /\ Solo
  BY DEF Kept, Shape
<1>2. CASE wpc[c] = "search" /\ Moves(c, "skip")
  <2>1. /\ Private(c) /\ wpc'[c] = "skip"
        /\ SearchAt(c, n, f) => SearchAt(c, n, f)'
        /\ Matches(c)' <=> Matches(c)
    BY <1>2, MovesKeeps
  <2>2. Place(c, n, f)'
    BY <1>1, <1>2, <2>1 DEF Place, Differs
  <2>3. Solo'
    BY <1>1, <1>2, <2>1, SoloStays DEF Removing, Searching
  <2>4. QED
    BY <1>2, <2>1, <2>2, <2>3, PrivateKeeps
<1>3. CASE wpc[c] = "find" /\ Moves(c, "pass")
  <2>1. /\ Private(c) /\ wpc'[c] = "pass"
        /\ RemovalAt(c, n, f) => RemovalAt(c, n, f)'
        /\ Matches(c)' <=> Matches(c)
    BY <1>3, MovesKeeps
  <2>2. Place(c, n, f)'
    BY <1>1, <1>3, <2>1 DEF Place, Differs
  <2>3. Solo'
    BY <1>1, <1>3, <2>1, SoloStays DEF Removing, Searching
  <2>4. QED
    BY <1>3, <2>1, <2>2, <2>3, PrivateKeeps
<1>4. QED
  BY <1>2, <1>3 DEF Differs, Moves, Goto

LEMMA EndSearchKeeps ==
  ASSUME NEW n, NEW f, TypeInv, Kept(n, f), NEW c \in Conns, EndSearch(c)
  PROVE  Kept(n, f)'
<1>1. Place(c, n, f) /\ Solo /\ Holds(n, f)
  BY DEF Kept, Shape
<1>2. wpc[c] = "search" /\ Moves(c, "result") /\ (p[c] # NULL => Matches(c))
  BY DEF EndSearch, Goto, Moves
<1>3. Private(c) /\ wpc'[c] = "result"
  BY <1>2, MovesKeeps
<1>4. UNCHANGED <<user, heap, p, expect>>
  BY <1>2 DEF Moves, memory
<1>5. IF p[c] = NULL THEN expect[c] = 0 ELSE p[c] \in heap /\ user[p[c]] = expect[c]
  <2>1. PICK i \in 0..n : p[c] = f[i] /\ Best(user, f, i, name[c], expect[c])
    BY <1>1, <1>2 DEF Place, SearchAt
  <2>2. n \in Nat /\ f[0] = NULL /\ \A j \in 1..n : f[j] \in Nodes
    BY UsersKnown DEF Chain
  <2>3. i \in Nat /\ (i # 0 => i \in 1..n)
    BY <2>2
  <2>4. i # 0 <=> p[c] # NULL
    BY <2>1, <2>2, <2>3, Numbers
  <2>5. \A e, nm : Best(user, f, i, nm, e) =>
          /\ i = 0 => e = 0
          /\ i # 0 /\ NameOf[user[f[i]]] = nm => user[f[i]] = e
    BY <2>3, BestFound
  <2>6. i # 0 => NameOf[user[f[i]]] = name[c]
    BY <1>2, <2>1, <2>4 DEF Matches
  <2>7. i # 0 => p[c] \in heap
    BY <1>1, <2>1, <2>2, <2>3 DEF Holds
  <2>8. QED
    BY <2>1, <2>4, <2>5, <2>6, <2>7
<1>6. Place(c, n, f)'
  BY <1>3, <1>4, <1>5 DEF Place
<1>7. Solo'
  BY <1>1, <1>2, <1>3, SoloStays DEF Removing, Searching
<1>8. QED
  BY <1>2, <1>3, <1>6, <1>7, PrivateKeeps

LEMMA UseKeeps ==
  ASSUME NEW n, NEW f, TypeInv, Kept(n, f), NEW c \in Conns, Use(c)
  PROVE  Kept(n, f)'
<1>1. wpc[c] = "result" /\ Moves(c, "read")
  BY DEF Use, Goto, Moves
<1>2. Private(c) /\ wpc'[c] = "read"
  BY <1>1, MovesKeeps
<1>3. Place(c, n, f)'
  BY <1>2 DEF Place
<1>4. Solo'
  BY <1>1, <1>2, SoloStays DEF Kept, Removing, Searching
<1>5. QED
  BY <1>1, <1>2, <1>3, <1>4, PrivateKeeps

LEMMA EndFindKeeps ==
  ASSUME NEW n, NEW f, TypeInv, Kept(n, f), NEW c \in Conns, EndFind(c)
  PROVE  Kept(n, f)'
<1>1. Place(c, n, f) /\ Solo
  BY DEF Kept, Shape
<1>2. wpc[c] = "find"
  BY DEF EndFind
<1>3. CASE Moves(c, "over")
  <2>1. Private(c) /\ wpc'[c] = "over"
    BY <1>3, MovesKeeps
  <2>2. Place(c, n, f)'
    BY <2>1 DEF Place
  <2>3. Solo'
    BY <1>1, <1>2, <2>1, SoloStays DEF Removing, Searching
  <2>4. QED
    BY <1>2, <2>1, <2>2, <2>3, PrivateKeeps
<1>4. CASE Matches(c) /\ Moves(c, "found")
  <2>1. /\ Private(c) /\ wpc'[c] = "found"
        /\ RemovalAt(c, n, f) => RemovalAt(c, n, f)'
        /\ Matches(c)' <=> Matches(c)
    BY <1>4, MovesKeeps
  <2>2. Place(c, n, f)'
    BY <1>1, <1>2, <1>4, <2>1 DEF Place
  <2>3. Solo'
    BY <1>1, <1>2, <2>1, SoloStays DEF Removing, Searching
  <2>4. QED
    BY <1>2, <2>1, <2>2, <2>3, PrivateKeeps
<1>5. QED
  BY <1>3, <1>4 DEF EndFind, Goto, Moves

LEMMA AdvanceKeeps ==
  ASSUME NEW n, NEW f, TypeInv, Kept(n, f), NEW c \in Conns, Advance(c)
  PROVE  Kept(n, f)'
<1>1. Place(c, n, f) /\ Solo
  BY DEF Kept, Shape
<1>2. /\ n \in Nat /\ f[0] = NULL /\ \A j \in 1..n : f[j] \in Nodes
      /\ \A j \in 1..n : next[f[j]] = f[j - 1]
      /\ \A j \in 1..n : user[f[j]] # 0
  BY UsersKnown DEF Chain
<1>3. p[c] # NULL /\ ~Matches(c)
  BY <1>1 DEF Advance, Place, TypeInv
<1>4. /\ UNCHANGED <<memory, insertV, name, rest, expect>>
      /\ \A d \in Conns \ {c} : wpc'[d] = wpc[d] /\ pre'[d] = pre[d] /\ p'[d] = p[d]
      /\ pre'[c] = p[c] /\ p'[c] = next[p[c]]
  BY DEF Advance, Goto, TypeInv, TypeOK
<1>5. Private(c) /\ user' = user
  BY <1>4 DEF Private, memory
<1>6. CASE wpc[c] = "skip" /\ wpc'[c] = "search"
  <2>1. PICK i \in 0..n : p[c] = f[i] /\ Best(user, f, i, name[c], expect[c])
    BY <1>1, <1>6 DEF Place, SearchAt
  <2>2. i # 0 /\ i \in 1..n /\ i \in Nat /\ i - 1 \in 0..n
    BY <1>2, <1>3, <2>1
  <2>3. NameOf[user[f[i]]] # name[c]
    BY <1>2, <1>3, <2>1, <2>2 DEF Matches
  <2>4. Best(user, f, i - 1, name[c], expect[c])
    BY <2>1, <2>2, <2>3, BestPasses
  <2>5. p'[c] = f[i - 1]
    BY <1>2, <1>4, <2>1, <2>2
  <2>6. SearchAt(c, n, f)'
    BY <1>4, <1>5, <2>2, <2>4, <2>5 DEF SearchAt
  <2>7. Place(c, n, f)'
    BY <1>6, <2>6 DEF Place
  <2>8. Solo'
    BY <1>1, <1>5, <1>6, SoloStays DEF Removing, Searching
  <2>9. QED
    BY <1>5, <1>6, <2>7, <2>8, PrivateKeeps
<1>7. CASE wpc[c] = "pass" /\ wpc'[c] = "find"
  <2>1. PICK i \in 0..n : p[c] = f[i] /\ NoneOf(user, f, (i + 1)..n, name[c])
    BY <1>1, <1>7 DEF Place, RemovalAt
  <2>2. i # 0 /\ i \in 1..n /\ i - 1 \in 0..n /\ i - 1 # n /\ (i - 1) + 1 = i
    BY <1>2, <1>3, <2>1
  <2>3. NameOf[user[f[i]]] # name[c]
    BY <1>2, <1>3, <2>1, <2>2 DEF Matches
  <2>4. NoneOf(user, f, i..n, name[c])
    <3>1. \A j \in i..n : j = i \/ j \in (i + 1)..n
      BY <1>2, <2>2
    <3>2. QED
      BY <2>1, <2>3, <3>1 DEF NoneOf
  <2>5. p'[c] = f[i - 1] /\ pre'[c] = f[i]
    BY <1>2, <1>4, <2>1, <2>2
  <2>6. RemovalAt(c, n, f)'
    BY <1>4, <1>5, <1>7, <2>2, <2>4, <2>5 DEF RemovalAt
  <2>7. Place(c, n, f)'
    <3>1. wpc'[c] = "find"
      BY <1>7
    <3>2. QED
      BY <2>6, <3>1 DEF Place
  <2>8. Solo'
    BY <1>1, <1>5, <1>7, SoloStays DEF Removing, Searching
  <2>9. QED
    BY <1>5, <1>7, <2>7, <2>8, PrivateKeeps
<1>8. QED
  BY <1>6, <1>7 DEF Advance, Goto, TypeInv, TypeOK

LEMMA ReadRestKeeps ==
  ASSUME NEW n, NEW f, TypeInv, Kept(n, f), NEW c \in Conns, ReadRest(c)
  PROVE  Kept(n, f)'
<1>1. Place(c, n, f) /\ Solo /\ wpc[c] = "found"
  BY DEF Kept, Shape, ReadRest
<1>2. /\ n \in Nat /\ f[0] = NULL
      /\ \A j \in 1..n : f[j] \in Nodes /\ next[f[j]] = f[j - 1]
  BY UsersKnown DEF Chain
<1>3. /\ UNCHANGED <<memory, insertV, name, pre, p, expect>>
      /\ \A d \in Conns \ {c} : wpc'[d] = wpc[d] /\ rest'[d] = rest[d]
      /\ wpc'[c] = "unlink" /\ rest'[c] = next[p[c]]
  BY DEF ReadRest, Goto, TypeInv, TypeOK
<1>4. Private(c) /\ user' = user
  BY <1>3 DEF Private, memory
<1>5. PICK i \in 0..n :
        /\ p[c] = f[i] /\ pre[c] = (IF i = n THEN Head0 ELSE f[i + 1])
        /\ NoneOf(user, f, (i + 1)..n, name[c])
  BY <1>1 DEF Place, RemovalAt
<1>6. p[c] # NULL
  BY <1>1 DEF TypeInv, TypeOK
<1>7. i \in 1..n
  BY <1>2, <1>5, <1>6
<1>8. rest'[c] = f[i - 1]
  BY <1>2, <1>3, <1>5, <1>7
<1>9. RemovalAt(c, n, f)'
  BY <1>3, <1>4, <1>5, <1>8 DEF RemovalAt
<1>10. Matches(c)'
  BY <1>1, <1>3, <1>4 DEF Place, Matches
<1>11. Place(c, n, f)'
  BY <1>3, <1>9, <1>10 DEF Place
<1>12. Solo'
  BY <1>1, <1>3, <1>4, SoloStays DEF Removing, Searching
<1>13. QED
  BY <1>1, <1>3, <1>4, <1>11, <1>12, PrivateKeeps

-----------------------------------------------------------------------------
(* insertNode.                                                              *)

\* A node of the list is in use, and is not the one being inserted.
LEMMA NodesHeld ==
  ASSUME NEW n, NEW f, TypeInv, Kept(n, f), NEW i \in 1..n
  PROVE  f[i] \in heap /\ f[i] \in Nodes /\ (ipc # "idle" => f[i] # newNode)
<1>1. f[i] \in Nodes
  BY UsersKnown DEF Chain
<1>2. QED
  BY <1>1 DEF Kept, Shape, Holds

\* While nobody removes, a thread stays where it is when the list grows.
LEMMA PlaceKeeps ==
  ASSUME NEW n, NEW f, TypeInv, Kept(n, f), NEW c \in Conns, ~Removing(c),
         wpc'[c] = wpc[c], p'[c] = p[c], name'[c] = name[c], expect'[c] = expect[c],
         NEW m \in Nat, n <= m, NEW g, \A j \in 0..n : g[j] = f[j],
         heap \subseteq heap', \A a \in heap : user'[a] = user[a]
  PROVE  Place(c, m, g)'
<1>1. Place(c, n, f) /\ n \in Nat
  BY UsersKnown DEF Kept, Shape
<1>2. wpc'[c] \notin {"find", "pass", "found", "unlink", "free"}
  BY DEF Removing
<1>3. ASSUME wpc[c] \in {"search", "skip"} PROVE SearchAt(c, m, g)'
  <2>1. PICK i \in 0..n : p[c] = f[i] /\ Best(user, f, i, name[c], expect[c])
    BY <1>1, <1>3 DEF Place, SearchAt
  <2>2. i \in Nat /\ i \in 0..m /\ p[c] = g[i]
    BY <1>1, <2>1
  <2>3. Agree(user, f, user', g, i)
    <3>1. \A j \in 1..i : j \in 1..n /\ j \in 0..n
      BY <1>1
    <3>2. QED
      BY <3>1, NodesHeld DEF Agree
  <2>4. Best(user', g, i, name[c], expect[c])
    BY <2>1, <2>2, <2>3, BestSame
  <2>5. QED
    BY <2>2, <2>4 DEF SearchAt
<1>4. ASSUME wpc[c] = "skip" PROVE ~Matches(c)'
  <2>1. ~Matches(c) /\ p[c] # NULL
    BY <1>1, <1>4 DEF Place, TypeInv
  <2>2. p[c] \in heap
    <3>1. PICK i \in 0..n : p[c] = f[i]
      BY <1>1, <1>4 DEF Place, SearchAt
    <3>2. i \in 1..n
      BY <1>1, <2>1, <3>1, UsersKnown DEF Chain
    <3>3. QED
      BY <3>1, <3>2, NodesHeld
  <2>3. QED
    BY <2>1, <2>2 DEF Matches
<1>5. wpc[c] = "result" => IF p'[c] = NULL THEN expect'[c] = 0
                           ELSE p'[c] \in heap' /\ user'[p'[c]] = expect'[c]
  BY <1>1 DEF Place
<1>6. QED
  BY <1>2, <1>3, <1>4, <1>5 DEF Place

LEMMA MallocKeeps ==
  ASSUME NEW n, NEW f, TypeInv, Kept(n, f), ~overlap', Malloc
  PROVE  Kept(n, f)'
<1>1. \A c \in Conns : ~Removing(c)
  BY DEF Malloc, Overlap
<1>2. PICK a \in Nodes \ heap : /\ heap' = heap \cup {a} /\ newNode' = a
                                /\ user' = [user EXCEPT ![a] = logins + 1]
  BY DEF Malloc
<1>3. /\ ipc = "idle" /\ ipc' = "next" /\ logins' = logins + 1
      /\ UNCHANGED <<next, wpc, name, pre, p, rest, expect>>
  BY DEF Malloc, workerV
<1>4. user'[a] = logins + 1 /\ \A b \in heap : user'[b] = user[b]
  BY <1>2 DEF TypeInv, TypeOK
<1>5. Solo' /\ \A c \in Conns : wpc'[c] # "free"
  BY <1>1, <1>3 DEF Solo, Removing
<1>6. Inserts'
  BY <1>2, <1>3, <1>4 DEF Inserts
<1>7. n \in Nat /\ Chain(next, n, f)'
  BY <1>3, UsersKnown DEF Chain
<1>8. Holds(n, f)'
  BY <1>1, <1>2, <1>3, <1>5 DEF Kept, Shape, Holds, Removing
<1>9. Known(n, f)'
  <2>1. \A u \in 1..logins : u \in 1..logins' /\ u # logins'
    BY <1>3 DEF TypeInv, TypeOK
  <2>2. \A i \in 1..n : user'[f[i]] = user[f[i]] /\ user[f[i]] \in 1..logins
    BY <1>4, NodesHeld DEF Kept, Shape, Known
  <2>3. QED
    BY <2>1, <2>2 DEF Known
<1>10. \A c \in Conns : Place(c, n, f)'
  <2>1. heap \subseteq heap'
    BY <1>2
  <2>2. QED
    BY <1>1, <1>3, <1>4, <1>7, <2>1, PlaceKeeps
<1>11. QED
  BY <1>5, <1>6, <1>7, <1>8, <1>9, <1>10 DEF Kept, Shape

\* While a node is being inserted nobody removes.
LEMMA NobodyRemoves ==
  ASSUME Solo, ipc # "idle"
  PROVE  \A c \in Conns : ~Removing(c)
BY DEF Solo

LEMMA SetNextKeeps ==
  ASSUME NEW n, NEW f, TypeInv, Kept(n, f), SetNext
  PROVE  Kept(n, f)'
<1>1. /\ ipc = "next" /\ ipc' = "head"
      /\ UNCHANGED <<user, heap, logins, newNode, wpc, name, pre, p, rest, expect>>
  BY DEF SetNext, workerV
<1>2. \A c \in Conns : ~Removing(c)
  BY <1>1, NobodyRemoves DEF Kept
<1>3. newNode \in Nodes /\ newNode # Head0
  BY <1>1, Numbers DEF TypeInv
<1>4. next'[newNode] = next[Head0] /\ \A a \in Nodes \cup {Head0} :
                                        a # newNode => next'[a] = next[a]
  BY <1>3 DEF SetNext, TypeInv, TypeOK
<1>5. Solo'
  BY <1>1, <1>2 DEF Solo, Removing
<1>6. Inserts'
  BY <1>1, <1>3, <1>4 DEF Kept, Inserts
<1>7. n \in Nat /\ Chain(next, n, f)'
  <2>1. \A i \in 1..n : f[i] \in Nodes /\ f[i] # newNode
    BY <1>1, NodesHeld
  <2>2. next'[Head0] = next[Head0] /\ \A i \in 1..n : next'[f[i]] = next[f[i]]
    BY <1>3, <1>4, <2>1
  <2>3. QED
    BY <2>2, UsersKnown DEF Chain
<1>8. Holds(n, f)' /\ Known(n, f)'
  BY <1>1 DEF Kept, Shape, Holds, Known
<1>9. \A c \in Conns : Place(c, n, f)'
  BY <1>1, <1>2, <1>7, PlaceKeeps
<1>10. QED
  BY <1>5, <1>6, <1>7, <1>8, <1>9 DEF Kept, Shape

\* The list with the new node in front.
Longer(n, f) == [i \in 0..(n + 1) |-> IF i = n + 1 THEN newNode ELSE f[i]]

LEMMA SetHeadKeeps ==
  ASSUME NEW n, NEW f, TypeInv, Kept(n, f), SetHead, NEW g, g = Longer(n, f)
  PROVE  Kept(n + 1, g)'
<1>1. /\ ipc = "head" /\ ipc' = "idle" /\ wpc' = [wpc EXCEPT ![logins] = "read"]
      /\ next' = [next EXCEPT ![Head0] = newNode]
      /\ UNCHANGED <<user, heap, logins, newNode, name, pre, p, rest, expect>>
  BY DEF SetHead
<1>2. \A c \in Conns : ~Removing(c)
  BY <1>1, NobodyRemoves DEF Kept
<1>3. newNode \in Nodes /\ newNode # Head0 /\ newNode \in heap
      /\ user[newNode] = logins /\ logins \in Conns /\ next[newNode] = next[Head0]
  BY <1>1, Numbers DEF TypeInv, Kept, Inserts
<1>4. wpc'[logins] = "read" /\ \A c \in Conns \ {logins} : wpc'[c] = wpc[c]
  BY <1>1, <1>3 DEF TypeInv, TypeOK
<1>5. next'[Head0] = newNode /\ \A a \in Nodes : next'[a] = next[a]
  BY <1>1, Numbers DEF TypeInv, TypeOK
<1>6. Chain(next, n, f) /\ n \in Nat /\ n + 1 \in Nat
  BY UsersKnown
<1>7. g[n + 1] = newNode /\ \A i \in 0..n : g[i] = f[i]
  BY <1>6 DEF Longer
<1>8. \A i \in 1..n : f[i] \in Nodes /\ f[i] # newNode
  BY <1>1, NodesHeld
<1>9. \A i \in 1..(n + 1) : i = n + 1 \/ i \in 1..n
  BY <1>6
<1>10. Solo'
  BY <1>2, <1>4 DEF Solo, Removing
<1>11. Inserts'
  BY <1>1 DEF Inserts
<1>12. Chain(next, n + 1, g)'
  <2>1. \A i \in 1..(n + 1) : g[i] \in Nodes
    BY <1>3, <1>6, <1>7, <1>8, <1>9
  <2>2. \A i, j \in 1..(n + 1) : g[i] = g[j] => i = j
    <3>1. \A i \in 1..n : i \in 0..n
      BY <1>6
    <3>2. \A i, j \in 1..n : f[i] = f[j] => i = j
      BY <1>6 DEF Chain
    <3>3. \A i \in 1..n : g[i] = f[i] /\ g[i] # newNode
      BY <1>7, <1>8, <3>1
    <3>4. QED
      BY <1>7, <1>9, <3>2, <3>3
  <2>3. n + 1 \in 0..Cells
    <3>1. \A k \in Nat : k = n + 1 => k <= Cells
      BY <2>1, <2>2, Pigeons
    <3>2. QED
      BY <1>6, <3>1, Numbers
  <2>4. g[0] = NULL
    BY <1>6, <1>7 DEF Chain
  <2>5. g \in [0..(n + 1) -> Nodes \cup {NULL}]
    <3>1. \A i \in 0..(n + 1) : i = 0 \/ i \in 1..(n + 1)
      BY <1>6
    <3>2. g = [i \in 0..(n + 1) |-> g[i]]
      BY DEF Longer
    <3>3. \A i \in 0..(n + 1) : g[i] \in Nodes \cup {NULL}
      BY <2>1, <2>4, <3>1
    <3>4. QED
      BY <3>2, <3>3
  <2>6. \A i \in 1..(n + 1) : next'[g[i]] = g[i - 1]
    <3>1. next'[g[n + 1]] = g[(n + 1) - 1]
      <4>1. (n + 1) - 1 = n /\ n \in 0..n
        BY <1>6
      <4>2. QED
        BY <1>3, <1>5, <1>6, <1>7, <4>1 DEF Chain
    <3>2. ASSUME NEW i \in 1..n PROVE next'[g[i]] = g[i - 1]
      <4>1. i \in 0..n /\ i - 1 \in 0..n
        BY <1>6
      <4>2. g[i] = f[i] /\ g[i - 1] = f[i - 1]
        BY <1>7, <4>1
      <4>3. QED
        BY <1>5, <1>6, <1>8, <4>2 DEF Chain
    <3>3. QED
      BY <1>9, <3>1, <3>2
  <2>7. QED
    BY <1>5, <1>7, <2>1, <2>2, <2>3, <2>4, <2>5, <2>6 DEF Chain
<1>13. Holds(n + 1, g)'
  <2>1. \A a \in Nodes :
          (\E i \in 1..(n + 1) : g[i] = a) <=> a = newNode \/ \E i \in 1..n : f[i] = a
    <3>1. \A i \in 1..n : i \in 0..n /\ i \in 1..(n + 1)
      BY <1>6
    <3>2. n + 1 \in 1..(n + 1)
      BY <1>6
    <3>3. QED
      BY <1>7, <1>9, <3>1, <3>2
  <2>2. \A c \in Conns : wpc[c] # "free" /\ wpc'[c] # "free"
    BY <1>2, <1>4 DEF Removing
  <2>3. \A a \in Nodes : (\E i \in 1..n : f[i] = a) <=> a \in heap /\ a # newNode
    BY <1>1, <2>2 DEF Kept, Shape, Holds
  <2>4. QED
    BY <1>1, <1>3, <2>1, <2>2, <2>3 DEF Holds
<1>14. Known(n + 1, g)'
  <2>1. logins \in 1..logins
    BY <1>3, Numbers
  <2>2. \A i \in 1..n : i \in 0..n
    BY <1>6
  <2>3. \A i \in 1..n : user[g[i]] \in 1..logins
    BY <1>7, <2>2 DEF Kept, Shape, Known
  <2>4. QED
    BY <1>1, <1>3, <1>7, <1>9, <2>1, <2>3 DEF Known
<1>15. ASSUME NEW c \in Conns PROVE Place(c, n + 1, g)'
  <2>1. CASE c = logins
    BY <1>4, <2>1 DEF Place
  <2>2. CASE c # logins
    <3>1. n <= n + 1
      BY <1>6
    <3>2. wpc'[c] = wpc[c]
      BY <1>4, <2>2
    <3>3. QED
      BY <1>1, <1>2, <1>6, <1>7, <3>1, <3>2, PlaceKeeps
  <2>3. QED
    BY <2>1, <2>2
<1>16. QED
  BY <1>10, <1>11, <1>12, <1>13, <1>14, <1>15 DEF Kept, Shape

-----------------------------------------------------------------------------
(* delNode.                                                                 *)

\* Whoever removes a node is alone.
LEMMA Alone ==
  ASSUME NEW n, NEW f, Kept(n, f), NEW c \in Conns, Removing(c)
  PROVE  ipc = "idle" /\ \A d \in Conns \ {c} : ~Removing(d) /\ ~Searching(d)
BY DEF Kept, Solo

\* The node to unlink, and the pointers that were read for it.
LEMMA UnlinkPlace ==
  ASSUME NEW n, NEW f, TypeInv, Kept(n, f), NEW c \in Conns, Unlink(c)
  PROVE  \E i \in 1..n :
           /\ p[c] = f[i] /\ pre[c] = (IF i = n THEN Head0 ELSE f[i + 1])
           /\ rest[c] = f[i - 1] /\ Matches(c)
           /\ NoneOf(user, f, (i + 1)..n, name[c])
<1>1. wpc[c] = "unlink" /\ Place(c, n, f)
  BY DEF Unlink, Kept, Shape
<1>2. PICK i \in 0..n :
        /\ p[c] = f[i] /\ pre[c] = (IF i = n THEN Head0 ELSE f[i + 1])
        /\ NoneOf(user, f, (i + 1)..n, name[c]) /\ rest[c] = f[i - 1]
  BY <1>1 DEF Place, RemovalAt
<1>3. p[c] # NULL
  BY <1>1 DEF TypeInv, TypeOK
<1>4. i \in 1..n
  BY <1>2, <1>3, UsersKnown DEF Chain
<1>5. QED
  BY <1>1, <1>2, <1>4 DEF Place

\* The list without node i.
Skips(i, j) == IF j < i THEN j ELSE j + 1
Shorter(n, f, i) == [j \in 0..(n - 1) |-> f[Skips(i, j)]]

LEMMA SkipsTo ==
  ASSUME NEW n \in Nat, NEW i \in 1..n
  PROVE  /\ \A j \in 0..(n - 1) : Skips(i, j) \in 0..n /\ Skips(i, j) # i
         /\ \A j \in 1..(n - 1) : Skips(i, j) \in 1..n
         /\ \A j, k \in 0..(n - 1) : Skips(i, j) = Skips(i, k) => j = k
         /\ \A l \in 1..n : l # i => \E j \in 1..(n - 1) : Skips(i, j) = l
         /\ n - 1 \in Nat /\ 0 \in 0..(n - 1) /\ Skips(i, 0) = 0
<1>1. i \in Nat /\ 1 <= i /\ i <= n
  OBVIOUS
<1>2. \A j \in 0..(n - 1) : Skips(i, j) \in 0..n /\ Skips(i, j) # i
  BY <1>1 DEF Skips
<1>3. \A j \in 1..(n - 1) : Skips(i, j) \in 1..n
  BY <1>1 DEF Skips
<1>4. \A j, k \in 0..(n - 1) : Skips(i, j) = Skips(i, k) => j = k
  BY <1>1 DEF Skips
<1>5. ASSUME NEW l \in 1..n, l # i PROVE \E j \in 1..(n - 1) : Skips(i, j) = l
  <2>1. CASE l < i
    <3>1. l \in 1..(n - 1) /\ Skips(i, l) = l
      BY <1>1, <2>1 DEF Skips
    <3>2. QED
      BY <3>1
  <2>2. CASE l > i
    <3>1. l - 1 \in 1..(n - 1) /\ Skips(i, l - 1) = l
      BY <1>1, <2>2 DEF Skips
    <3>2. QED
      BY <3>1
  <2>3. QED
    BY <1>1, <1>5, <2>1, <2>2
<1>6. n - 1 \in Nat /\ 0 \in 0..(n - 1) /\ Skips(i, 0) = 0
  BY <1>1 DEF Skips
<1>7. QED
  BY <1>2, <1>3, <1>4, <1>5, <1>6

LEMMA UnlinkChain ==
  ASSUME NEW nx, NEW ny, NEW n, NEW f, Chain(nx, n, f), NEW i \in 1..n,
         NEW a, a = (IF i = n THEN Head0 ELSE f[i + 1]),
         ny[a] = f[i - 1], \A b \in Nodes \cup {Head0} : b # a => ny[b] = nx[b],
         NEW g, g = Shorter(n, f, i)
  PROVE  Chain(ny, n - 1, g)
<1>1. n \in Nat /\ i \in Nat /\ 1 <= i /\ i <= n /\ n <= Cells /\ Cells \in Nat
  BY Numbers DEF Chain
<1>2. /\ n - 1 \in Nat /\ 0 \in 0..(n - 1) /\ Skips(i, 0) = 0
      /\ \A j \in 1..(n - 1) : Skips(i, j) \in 1..n
      /\ \A j \in 0..(n - 1) : Skips(i, j) \in 0..n
      /\ \A j, k \in 0..(n - 1) : Skips(i, j) = Skips(i, k) => j = k
  BY <1>1, SkipsTo
<1>3. \A j \in 0..(n - 1) : g[j] = f[Skips(i, j)]
  BY DEF Shorter
<1>4. \A j \in 1..n : f[j] \in Nodes /\ f[j] # Head0 /\ nx[f[j]] = f[j - 1]
  BY Numbers DEF Chain
<1>5. \A j, k \in 1..n : f[j] = f[k] => j = k
  BY DEF Chain
<1>6. \A j \in 1..(n - 1) : j \in 0..(n - 1)
  BY <1>1
<1>7. \A j \in 1..(n - 1) : g[j] \in Nodes
  BY <1>2, <1>3, <1>4, <1>6
<1>8. g[0] = NULL
  BY <1>2, <1>3 DEF Chain
<1>9. g \in [0..(n - 1) -> Nodes \cup {NULL}]
  <2>1. g = [j \in 0..(n - 1) |-> g[j]]
    BY DEF Shorter
  <2>2. \A j \in 0..(n - 1) : g[j] \in Nodes \cup {NULL}
    BY <1>2, <1>3 DEF Chain
  <2>3. QED
    BY <2>1, <2>2
<1>10. \A j, k \in 1..(n - 1) : g[j] = g[k] => j = k
  BY <1>2, <1>3, <1>5, <1>6
<1>11. ny[Head0] = g[n - 1]
  <2>1. nx[Head0] = f[n] /\ n - 1 \in 0..(n - 1)
    BY <1>2 DEF Chain
  <2>2. CASE i = n
    <3>1. Skips(i, n - 1) = i - 1
      BY <1>1, <2>2 DEF Skips
    <3>2. QED
      BY <1>3, <2>1, <2>2, <3>1
  <2>3. CASE i # n
    <3>1. Skips(i, n - 1) = n /\ i + 1 \in 1..n
      BY <1>1, <2>3 DEF Skips
    <3>2. a # Head0
      BY <1>4, <2>3, <3>1
    <3>3. QED
      BY <1>3, <2>1, <3>1, <3>2
  <2>4. QED
    BY <2>2, <2>3
<1>12. ASSUME NEW j \in 1..(n - 1) PROVE ny[g[j]] = g[j - 1]
  <2>1. j \in 0..(n - 1) /\ j - 1 \in 0..(n - 1) /\ j \in 1..n /\ j + 1 \in 1..n
    BY <1>1
  <2>2. g[j] = f[Skips(i, j)] /\ g[j - 1] = f[Skips(i, j - 1)]
    BY <1>3, <2>1
  <2>3. \A k \in 1..n : f[k] # a => ny[f[k]] = f[k - 1]
    BY <1>4
  <2>4. i # n => i + 1 \in 1..n
    BY <1>1
  <2>5. \A k \in 1..n : k # i + 1 => f[k] # a
    BY <1>4, <1>5, <2>4
  <2>6. CASE j < i
    <3>1. Skips(i, j) = j /\ Skips(i, j - 1) = j - 1 /\ j # i + 1
      BY <1>1, <2>1, <2>6 DEF Skips
    <3>2. QED
      BY <2>1, <2>2, <2>3, <2>5, <3>1
  <2>7. CASE j = i
    <3>1. Skips(i, j) = i + 1 /\ Skips(i, j - 1) = i - 1 /\ i # n
      BY <1>1, <2>1, <2>7 DEF Skips
    <3>2. QED
      BY <2>2, <3>1
  <2>8. CASE j > i
    <3>1. Skips(i, j) = j + 1 /\ Skips(i, j - 1) = j /\ j + 1 # i + 1
      BY <1>1, <2>1, <2>8 DEF Skips
    <3>2. (j + 1) - 1 = j
      BY <2>1
    <3>3. QED
      BY <2>1, <2>2, <2>3, <2>5, <3>1, <3>2
  <2>9. QED
    BY <1>1, <2>1, <2>6, <2>7, <2>8
<1>13. n - 1 \in 0..Cells
  BY <1>1
<1>14. QED
  BY <1>7, <1>8, <1>9, <1>10, <1>11, <1>12, <1>13 DEF Chain

LEMMA UnlinkKeeps ==
  ASSUME NEW n, NEW f, TypeInv, Kept(n, f), NEW c \in Conns, Unlink(c),
         NEW i \in 1..n, p[c] = f[i], rest[c] = f[i - 1],
         pre[c] = (IF i = n THEN Head0 ELSE f[i + 1]), NEW g, g = Shorter(n, f, i)
  PROVE  Kept(n - 1, g)'
<1>1. /\ wpc[c] = "unlink" /\ wpc' = [wpc EXCEPT ![c] = "free"]
      /\ next' = [next EXCEPT ![pre[c]] = rest[c]]
      /\ UNCHANGED <<user, heap, logins, ipc, newNode, name, pre, p, rest, expect>>
  BY DEF Unlink, Goto, insertV
<1>2. ipc = "idle" /\ \A d \in Conns \ {c} : ~Removing(d) /\ ~Searching(d)
  BY <1>1, Alone DEF Removing
<1>3. wpc'[c] = "free" /\ \A d \in Conns \ {c} : wpc'[d] = wpc[d]
  BY <1>1 DEF TypeInv, TypeOK
<1>4. Solo'
  BY <1>1, <1>2, <1>3 DEF Solo, Removing, Searching
<1>5. Inserts'
  BY <1>1, <1>2 DEF Inserts
<1>6. Chain(next, n, f) /\ n \in Nat
  BY UsersKnown
<1>7. Chain(next, n - 1, g)'
  <2>1. i # n => i + 1 \in 1..n
    BY <1>6
  <2>2. pre[c] \in Nodes \cup {Head0}
    BY <1>6, <2>1 DEF Chain
  <2>3. next'[pre[c]] = f[i - 1] /\ \A b \in Nodes \cup {Head0} :
                                      b # pre[c] => next'[b] = next[b]
    BY <1>1, <2>2 DEF TypeInv, TypeOK
  <2>4. Chain(next', n - 1, g)
    BY <1>6, <2>3, UnlinkChain
  <2>5. QED
    BY <2>4 DEF Chain
<1>8. \A j \in 1..(n - 1) : Skips(i, j) \in 1..n /\ Skips(i, j) # i
                            /\ g[j] = f[Skips(i, j)]
  <2>1. \A j \in 1..(n - 1) : j \in 0..(n - 1)
    BY <1>6
  <2>2. QED
    BY <1>6, <2>1, SkipsTo DEF Shorter
<1>9. Holds(n - 1, g)'
  <2>1. \A l \in 1..n : l # i => \E j \in 1..(n - 1) : g[j] = f[l]
    <3>1. \A l \in 1..n : l # i => \E j \in 1..(n - 1) : Skips(i, j) = l
      BY <1>6, SkipsTo
    <3>2. QED
      BY <1>8, <3>1
  <2>2. \A j, k \in 1..n : f[j] = f[k] => j = k
    BY <1>6 DEF Chain
  <2>3. ASSUME NEW a \in Nodes
        PROVE  (\E j \in 1..(n - 1) : g[j] = a) <=> a # f[i] /\ \E l \in 1..n : f[l] = a
    BY <1>8, <2>1, <2>2
  <2>4. \A d \in Conns : wpc[d] # "free" /\ (wpc'[d] = "free" <=> d = c)
    BY <1>1, <1>2, <1>3 DEF Removing
  <2>5. \A a \in Nodes : (\E l \in 1..n : f[l] = a) <=> a \in heap
    BY <1>2, <2>4 DEF Kept, Shape, Holds
  <2>6. QED
    BY <1>1, <1>2, <2>3, <2>4, <2>5 DEF Holds
<1>10. Known(n - 1, g)'
  <2>1. \A l \in 1..n : user[f[l]] \in 1..logins
    BY DEF Kept, Shape, Known
  <2>2. \A j \in 1..(n - 1) : user'[g[j]] \in 1..logins'
    BY <1>1, <1>8, <2>1
  <2>3. QED
    BY <1>1, <1>2, <2>2 DEF Known
<1>11. \A d \in Conns : Place(d, n - 1, g)'
  BY <1>2, <1>3 DEF Place, Removing, Searching
<1>12. QED
  BY <1>4, <1>5, <1>7, <1>9, <1>10, <1>11 DEF Kept, Shape

LEMMA FreeKeeps ==
  ASSUME NEW n, NEW f, TypeInv, Kept(n, f), NEW c \in Conns, Free(c)
  PROVE  /\ Kept(n, f)'
         /\ \A i \in 1..n : user'[f[i]] = user[f[i]]
<1>1. /\ wpc[c] = "free" /\ wpc' = [wpc EXCEPT ![c] = "over"]
      /\ UNCHANGED <<next, logins, ipc, newNode, name, pre, p, rest, expect>>
  BY DEF Free, Goto, insertV
<1>2. ipc = "idle" /\ \A d \in Conns \ {c} : ~Removing(d) /\ ~Searching(d)
  BY <1>1, Alone DEF Removing
<1>3. wpc'[c] = "over" /\ \A d \in Conns \ {c} : wpc'[d] = wpc[d]
  BY <1>1 DEF TypeInv, TypeOK
<1>4. Solo' /\ Inserts'
  BY <1>1, <1>2, <1>3 DEF Solo, Inserts, Removing, Searching
<1>5. Chain(next, n, f)'
  BY <1>1, UsersKnown DEF Chain
<1>6. heap' = heap \ {p[c]} /\ \A a \in Nodes : a # p[c] => user'[a] = user[a]
  <2>1. CASE p[c] \in heap
    BY <2>1 DEF Free, TypeInv, TypeOK
  <2>2. CASE p[c] \notin heap
    BY <2>2 DEF Free
  <2>3. QED
    BY <2>1, <2>2
<1>7. \A d \in Conns : (wpc[d] = "free" <=> d = c) /\ wpc'[d] # "free"
  BY <1>1, <1>2, <1>3 DEF Removing
<1>8. \A a \in Nodes : (\E i \in 1..n : f[i] = a) <=> a \in heap /\ a # p[c]
  BY <1>2, <1>7 DEF Kept, Shape, Holds
<1>9. Holds(n, f)'
  BY <1>1, <1>2, <1>6, <1>7, <1>8 DEF Holds
<1>10. \A i \in 1..n : user'[f[i]] = user[f[i]]
  <2>1. \A i \in 1..n : f[i] \in Nodes /\ f[i] # p[c]
    BY <1>8, UsersKnown DEF Chain
  <2>2. QED
    BY <1>6, <2>1
<1>11. Known(n, f)'
  BY <1>1, <1>10 DEF Kept, Shape, Known
<1>12. \A d \in Conns : Place(d, n, f)'
  BY <1>2, <1>3 DEF Place, Removing, Searching
<1>13. QED
  BY <1>4, <1>5, <1>9, <1>10, <1>11, <1>12 DEF Kept, Shape

-----------------------------------------------------------------------------
(* The invariant and what follows from it.                                  *)

LEMMA NextList == ListInv /\ [Next]_vars => ListInv'
<1> SUFFICES ASSUME ListInv, [Next]_vars, ~overlap'
             PROVE  Solo' /\ Inserts' /\ \E n, f : Shape(n, f)'
  BY NextTypes DEF ListInv
<1>1. TypeInv /\ ~overlap
  BY OverlapStays DEF ListInv
<1>2. PICK n, f : Kept(n, f)
  BY <1>1 DEF ListInv, Kept
<1> SUFFICES \E m, g : Kept(m, g)'
  BY DEF Kept
<1>3. CASE Malloc
  BY <1>1, <1>2, <1>3, MallocKeeps
<1>4. CASE SetNext
  BY <1>1, <1>2, <1>4, SetNextKeeps
<1>5. CASE SetHead
  BY <1>1, <1>2, <1>5, SetHeadKeeps
<1>6. ASSUME NEW c \in Conns, Thread(c) PROVE \E m, g : Kept(m, g)'
  <2>1. CASE BeginSearch(c)
    BY <1>1, <1>2, <2>1, BeginSearchKeeps
  <2>2. CASE BeginRemove(c)
    BY <1>1, <1>2, <2>2, BeginRemoveKeeps
  <2>3. CASE Differs(c)
    BY <1>1, <1>2, <2>3, DiffersKeeps
  <2>4. CASE Advance(c)
    BY <1>1, <1>2, <2>4, AdvanceKeeps
  <2>5. CASE EndSearch(c)
    BY <1>1, <1>2, <2>5, EndSearchKeeps
  <2>6. CASE Use(c)
    BY <1>1, <1>2, <2>6, UseKeeps
  <2>7. CASE EndFind(c)
    BY <1>1, <1>2, <2>7, EndFindKeeps
  <2>8. CASE ReadRest(c)
    BY <1>1, <1>2, <2>8, ReadRestKeeps
  <2>9. CASE Unlink(c)
    <3>1. PICK i \in 1..n :
            /\ p[c] = f[i] /\ pre[c] = (IF i = n THEN Head0 ELSE f[i + 1])
            /\ rest[c] = f[i - 1]
      BY <1>1, <1>2, <2>9, UnlinkPlace
    <3>2. QED
      BY <1>1, <1>2, <2>9, <3>1, UnlinkKeeps
  <2>10. CASE Free(c)
    BY <1>1, <1>2, <2>10, FreeKeeps
  <2>11. QED
    BY <1>6, <2>1, <2>2, <2>3, <2>4, <2>5, <2>6, <2>7, <2>8, <2>9, <2>10
    DEF Thread
<1>7. CASE UNCHANGED vars
  <2>1. UNCHANGED <<next, user, heap, logins, ipc, newNode, wpc, name, pre, p, rest,
                    expect>>
    BY <1>7 DEF vars, memory, insertV, workerV
  <2>2. Solo' /\ Inserts'
    BY <1>2, <2>1 DEF Kept, Solo, Inserts, Removing, Searching
  <2>3. Chain(next, n, f)' /\ Holds(n, f)' /\ Known(n, f)'
    BY <1>2, <2>1 DEF Kept, Shape, Chain, Holds, Known
  <2>4. \A c \in Conns : Place(c, n, f)'
    <3>1. \A c \in Conns : Place(c, n, f)
      BY <1>2 DEF Kept, Shape
    <3>2. QED
      BY <2>1, <3>1 DEF Place, SearchAt, RemovalAt, Matches
  <2>5. QED
    BY <2>2, <2>3, <2>4 DEF Kept, Shape
<1>8. QED
  BY <1>3, <1>4, <1>5, <1>6, <1>7 DEF Next, Insert

\* The pointers form a list, and every thread is where it should be in it,
\* as long as no removal overlapped anything.
THEOREM ListAlways == Spec => []ListInv
BY InitList, NextList, PTL DEF Spec

LEMMA IntactNow == ListInv => ListIntact
<1> SUFFICES ASSUME ListInv PROVE ListIntact
  OBVIOUS
<1> DEFINE Out == (IF ipc # "idle" THEN {newNode} ELSE {})
                  \cup {p[c] : c \in {d \in Conns : wpc[d] = "free"}}
<1>1. TypeOK
  BY DEF ListInv, TypeInv
<1>2. ASSUME ~overlap
      PROVE  /\ \E k \in 0..Cells : Reached[k] = NULL
             /\ {Reached[k] : k \in 0..Cells} \ {NULL} = heap \ Out
  <2>1. PICK n, f : Chain(next, n, f) /\ Holds(n, f)
    BY <1>2 DEF ListInv, Shape
  <2>2. n \in Nat /\ n <= Cells /\ Cells \in Nat
    BY <2>1, Numbers DEF Chain
  <2>3. \A k \in 0..Cells : Reached[k] = IF k <= n THEN f[n - k] ELSE NULL
    BY <2>1, ListedNow, ReachedChain
  <2>4. Reached[n] = NULL
    <3>1. n \in 0..Cells /\ n <= n /\ n - n = 0
      BY <2>2
    <3>2. QED
      BY <2>1, <2>3, <3>1 DEF Chain
  <2>5. {Reached[k] : k \in 0..Cells} \ {NULL} = {f[i] : i \in 1..n}
    <3>1. ASSUME NEW k \in 0..Cells, Reached[k] # NULL
          PROVE  \E i \in 1..n : Reached[k] = f[i]
      <4>1. k <= n /\ Reached[k] = f[n - k]
        BY <2>3, <3>1
      <4>2. n - k # 0
        BY <2>1, <3>1, <4>1 DEF Chain
      <4>3. n - k \in 1..n
        BY <2>2, <4>1, <4>2
      <4>4. QED
        BY <4>1, <4>3
    <3>2. ASSUME NEW i \in 1..n
          PROVE  f[i] # NULL /\ \E k \in 0..Cells : Reached[k] = f[i]
      <4>1. n - i \in 0..Cells /\ n - i <= n /\ n - (n - i) = i
        BY <2>2
      <4>2. Reached[n - i] = f[i]
        BY <2>3, <4>1
      <4>3. QED
        BY <2>1, <4>1, <4>2, Numbers DEF Chain
    <3>3. QED
      BY <3>1, <3>2
  <2>6. \A a \in Nodes : (\E i \in 1..n : f[i] = a) <=> a \in heap \ Out
    BY <2>1 DEF Holds
  <2>7. heap \subseteq Nodes /\ \A i \in 1..n : f[i] \in Nodes
    BY <1>1, <2>1 DEF TypeOK, Chain
  <2> HIDE DEF Out
  <2>8. {f[i] : i \in 1..n} = heap \ Out
    BY <2>6, <2>7
  <2>9. n \in 0..Cells
    BY <2>2
  <2>10. QED
    BY <2>4, <2>5, <2>8, <2>9
<1>3. QED
  BY <1>1, <1>2 DEF ListIntact

\* While no removal overlaps anything the list ends, and its nodes are the
\* cells in use without the one being inserted and the one being freed.
THEOREM ListIsIntact == Spec => []ListIntact
BY ListAlways, IntactNow, PTL

LEMMA ExactNow == ListInv => SearchExact
BY DEF ListInv, Shape, Place, SearchExact

\* A search finds the newest node its name had when it began, although nodes
\* are inserted meanwhile.
THEOREM SearchIsExact == Spec => []SearchExact
BY ListAlways, ExactNow, PTL

-----------------------------------------------------------------------------
(* The list implements the table.                                           *)

LEMMA ListedKept ==
  /\ \A n, f : Kept(n, f) => Listed = Listing(user, n, f)
  /\ \A n, f : Kept(n, f)' => Listed' = Listing(user', n, f)
<1>1. ASSUME NEW n, NEW f, Kept(n, f) PROVE Listed = Listing(user, n, f)
  <2>1. Chain(next, n, f)
    BY <1>1 DEF Kept, Shape
  <2>2. QED
    BY <2>1, ListedNow, ListedChain
<1>2. ASSUME NEW n, NEW f, Kept(n, f)' PROVE Listed' = Listing(user', n, f)
  <2>1. Chain(next', n, f)
    BY <1>2 DEF Kept, Shape, Chain
  <2>2. QED
    BY <2>1, ListedNow, ListedChain
<1>3. QED
  BY <1>1, <1>2

LEMMA SameListed ==
  ASSUME NEW n, NEW f, Kept(n, f), Kept(n, f)',
         \A i \in 1..n : user'[f[i]] = user[f[i]]
  PROVE  Listed' = Listed
<1>1. n \in Nat
  BY Numbers DEF Kept, Shape, Chain
<1>2. \A k \in 1..n : n + 1 - k \in 1..n
  BY <1>1
<1>3. Listing(user', n, f) = Listing(user, n, f)
  BY <1>2 DEF Listing
<1>4. QED
  BY <1>3, ListedKept

LEMMA InsertListing ==
  ASSUME NEW n \in Nat, NEW us, NEW f, NEW g, \A i \in 1..n : g[i] = f[i]
  PROVE  Listing(us, n + 1, g) = <<us[g[n + 1]]>> \o Listing(us, n, f)
<1> DEFINE a == Listing(us, n + 1, g)
           b == Listing(us, n, f)
           h == <<us[g[n + 1]]>>
<1>1. a = [k \in 1..(n + 1) |-> us[g[(n + 1) + 1 - k]]]
  BY DEF Listing
<1>2. b = [k \in 1..n |-> us[f[n + 1 - k]]] /\ b \in Seq({us[f[k]] : k \in 1..n})
      /\ Len(b) = n
  BY DEF Listing
<1>3. h \o b = [k \in 1..(n + 1) |-> IF k <= 1 THEN h[k] ELSE b[k - 1]]
  BY <1>2
<1>4. ASSUME NEW k \in 1..(n + 1)
      PROVE  us[g[(n + 1) + 1 - k]] = (IF k <= 1 THEN h[k] ELSE b[k - 1])
  <2>1. CASE k = 1
    <3>1. (n + 1) + 1 - k = n + 1 /\ k <= 1 /\ h[k] = us[g[n + 1]]
      BY <2>1
    <3>2. QED
      BY <3>1
  <2>2. CASE k # 1
    <3>1. ~(k <= 1) /\ k - 1 \in 1..n /\ (n + 1) + 1 - k = n + 1 - (k - 1)
          /\ n + 1 - (k - 1) \in 1..n
      BY <2>2
    <3>2. b[k - 1] = us[f[n + 1 - (k - 1)]]
      BY <1>2, <3>1
    <3>3. QED
      BY <3>1, <3>2
  <2>3. QED
    BY <2>1, <2>2
<1>5. QED
  BY <1>1, <1>3, <1>4

Cut(L, k) == SubSeq(L, 1, k - 1) \o SubSeq(L, k + 1, Len(L))

LEMMA CutAt ==
  ASSUME NEW S, NEW L \in Seq(S), NEW k \in 1..Len(L)
  PROVE  Cut(L, k) = [j \in 1..(Len(L) - 1) |-> IF j < k THEN L[j] ELSE L[j + 1]]
<1> DEFINE n == Len(L)
           a == SubSeq(L, 1, k - 1)
           b == SubSeq(L, k + 1, n)
<1>1. n \in Nat /\ k \in Nat /\ 1 <= k /\ k <= n
  OBVIOUS
<1>2. a = [j \in 1..(k - 1) |-> L[j]] /\ a \in Seq(S) /\ Len(a) = k - 1
  BY <1>1
<1>3. b = [j \in 1..(n - k) |-> L[k + j]] /\ b \in Seq(S) /\ Len(b) = n - k
  <2>1. b = [j \in 1..(n - k) |-> L[k + 1 + j - 1]]
    BY <1>1
  <2>2. \A j \in 1..(n - k) : k + 1 + j - 1 = k + j
    BY <1>1
  <2>3. b \in Seq(S) /\ Len(b) = n - k
    BY <1>1
  <2>4. QED
    BY <2>1, <2>2, <2>3
<1> HIDE DEF a, b
<1>4. a \o b = [j \in 1..(Len(a) + Len(b)) |-> IF j <= Len(a) THEN a[j] ELSE b[j - Len(a)]]
  BY <1>2, <1>3
<1>5. Len(a) + Len(b) = n - 1
  BY <1>1, <1>2, <1>3
<1>6. \A j \in 1..(n - 1) : (IF j <= Len(a) THEN a[j] ELSE b[j - Len(a)])
                            = (IF j < k THEN L[j] ELSE L[j + 1])
  <2> SUFFICES ASSUME NEW j \in 1..(n - 1)
               PROVE  (IF j <= Len(a) THEN a[j] ELSE b[j - Len(a)])
                      = (IF j < k THEN L[j] ELSE L[j + 1])
    OBVIOUS
  <2>1. CASE j < k
    BY <1>1, <1>2, <2>1
  <2>2. CASE ~(j < k)
    <3>1. j - (k - 1) \in 1..(n - k) /\ k + (j - (k - 1)) = j + 1 /\ ~(j <= k - 1)
      BY <1>1, <2>2
    <3>2. QED
      BY <1>2, <1>3, <2>2, <3>1
  <2>3. QED
    BY <2>1, <2>2
<1>7. QED
  BY <1>4, <1>5, <1>6 DEF Cut, a, b

LEMMA RemoveListing ==
  ASSUME NEW n \in Nat, NEW i \in 1..n, NEW us, NEW f, NEW g, g = Shorter(n, f, i)
  PROVE  Listing(us, n - 1, g) = Cut(Listing(us, n, f), n + 1 - i)
<1> DEFINE L == Listing(us, n, f)
           k == n + 1 - i
<1>1. L = [j \in 1..n |-> us[f[n + 1 - j]]] /\ Len(L) = n
      /\ L \in Seq({us[f[j]] : j \in 1..n})
  BY DEF Listing
<1>2. k \in 1..n /\ i \in Nat /\ 1 <= i /\ i <= n
  OBVIOUS
<1> HIDE DEF L
<1>3. Cut(L, k) = [j \in 1..(n - 1) |-> IF j < k THEN L[j] ELSE L[j + 1]]
  <2>1. PICK S : L \in Seq(S)
    BY <1>1
  <2>2. k \in 1..Len(L)
    BY <1>1, <1>2
  <2> HIDE DEF k
  <2>3. Cut(L, k) = [j \in 1..(Len(L) - 1) |-> IF j < k THEN L[j] ELSE L[j + 1]]
    BY <2>1, <2>2, CutAt
  <2>4. QED
    BY <1>1, <2>3
<1>4. Listing(us, n - 1, g) = [j \in 1..(n - 1) |-> us[g[(n - 1) + 1 - j]]]
  BY DEF Listing
<1>5. ASSUME NEW j \in 1..(n - 1)
      PROVE  us[g[(n - 1) + 1 - j]] = IF j < k THEN L[j] ELSE L[j + 1]
  <2>1. (n - 1) + 1 - j \in 0..(n - 1) /\ (n - 1) + 1 - j = n - j
    BY <1>2
  <2>2. g[n - j] = f[Skips(i, n - j)]
    BY <2>1 DEF Shorter
  <2>3. CASE j < k
    <3>1. Skips(i, n - j) = n + 1 - j /\ j \in 1..n
      BY <1>2, <2>3 DEF Skips
    <3>2. QED
      BY <1>1, <2>1, <2>2, <2>3, <3>1
  <2>4. CASE ~(j < k)
    <3>1. Skips(i, n - j) = n - j /\ j + 1 \in 1..n /\ n + 1 - (j + 1) = n - j
      BY <1>2, <2>4 DEF Skips
    <3>2. QED
      BY <1>1, <2>1, <2>2, <2>4, <3>1
  <2>5. QED
    BY <2>3, <2>4
<1>6. QED
  BY <1>3, <1>4, <1>5 DEF L

LEMMA SetHeadTable ==
  ASSUME NEW n, NEW f, TypeInv, Kept(n, f), SetHead
  PROVE  T!TableNext
<1> DEFINE L == Listing(user, n, f)
<1> PICK g : g = Longer(n, f)
  OBVIOUS
<1>1. n \in Nat /\ \A i \in 1..n : g[i] = f[i]
  BY UsersKnown DEF Longer
<1>2. g[n + 1] = newNode
  BY <1>1 DEF Longer
<1>3. user[newNode] = logins /\ logins \in Conns /\ ipc # "idle" /\ user' = user
  BY DEF SetHead, Kept, Inserts, TypeInv
<1>4. Kept(n + 1, g)'
  BY SetHeadKeeps
<1>5. Listing(user, n + 1, g) = <<logins>> \o L
  BY <1>1, <1>2, <1>3, InsertListing
<1>6. Listed = L /\ Listed' = <<logins>> \o L
  <2>1. Listed = L
    BY ListedKept
  <2>2. Listed' = Listing(user', n + 1, g)
    BY <1>4, ListedKept
  <2>3. QED
    BY <1>3, <1>5, <2>1, <2>2
<1>7. \A k \in DOMAIN Listed : Listed[k] # logins
  <2>1. \A k \in 1..n : n + 1 - k \in 1..n
    BY <1>1
  <2>2. DOMAIN L = 1..n /\ \A k \in 1..n : L[k] = user[f[n + 1 - k]]
    BY DEF Listing
  <2>3. \A i \in 1..n : user[f[i]] # logins
    BY <1>3 DEF Kept, Shape, Known
  <2> HIDE DEF L
  <2>4. QED
    BY <1>6, <2>1, <2>2, <2>3
<1>8. T!Added(logins)
  BY <1>6 DEF T!Added
<1>9. QED
  BY <1>3, <1>7, <1>8 DEF T!TableNext

LEMMA UnlinkTable ==
  ASSUME NEW n, NEW f, TypeInv, Kept(n, f), NEW c \in Conns, Unlink(c)
  PROVE  T!TableNext
<1>1. PICK i \in 1..n :
        /\ p[c] = f[i] /\ pre[c] = (IF i = n THEN Head0 ELSE f[i + 1])
        /\ rest[c] = f[i - 1] /\ Matches(c)
        /\ NoneOf(user, f, (i + 1)..n, name[c])
  BY UnlinkPlace
<1> DEFINE L == Listing(user, n, f)
           g == Shorter(n, f, i)
           k == n + 1 - i
<1>2. n \in Nat /\ user[f[i]] \in Conns
  BY UsersKnown
<1>3. Kept(n - 1, g)'
  BY <1>1, UnlinkKeeps
<1>4. user' = user
  BY DEF Unlink
<1>5. Listed = L /\ Listed' = Listing(user, n - 1, g)
  BY <1>3, <1>4, ListedKept
<1>6. Listed' = Cut(Listed, k)
  BY <1>2, <1>5, RemoveListing
<1>7. DOMAIN L = 1..n /\ \A j \in 1..n : L[j] = user[f[n + 1 - j]]
  BY DEF Listing
<1>8. k \in 1..n /\ n + 1 - k = i /\ \A j \in 1..(k - 1) : /\ n + 1 - j \in (i + 1)..n
                                                           /\ j \in 1..n
  BY <1>2
<1> HIDE DEF L, g, k
<1>9. NameOf[L[k]] = name[c] /\ NameOf[user[f[i]]] = name[c]
  BY <1>1, <1>7, <1>8 DEF Matches
<1>10. \A j \in 1..(k - 1) : NameOf[L[j]] # name[c]
  BY <1>1, <1>7, <1>8 DEF NoneOf
<1>11. T!Removed(NameOf[user[f[i]]])
  BY <1>5, <1>6, <1>7, <1>8, <1>9, <1>10 DEF T!Removed, T!RemoveAt, Cut
<1>12. QED
  BY <1>2, <1>11 DEF T!TableNext

\* Every step is one of the table or leaves it as it is.
TableStep == ~overlap' => T!TableNext

LEMMA NextTable == ListInv /\ [Next]_vars => [TableStep]_Listed
<1> SUFFICES ASSUME ListInv, [Next]_vars, ~overlap'
             PROVE  T!TableNext \/ Listed' = Listed
  BY DEF TableStep
<1>1. TypeInv /\ ~overlap
  BY OverlapStays DEF ListInv
<1>2. PICK n, f : Kept(n, f)
  BY <1>1 DEF ListInv, Kept
<1>3. CASE Malloc
  <2>1. \A i \in 1..n : user'[f[i]] = user[f[i]]
    <3>1. PICK a \in Nodes \ heap : user' = [user EXCEPT ![a] = logins + 1]
      BY <1>3 DEF Malloc
    <3>2. \A b \in heap : user'[b] = user[b]
      BY <1>1, <3>1 DEF TypeInv, TypeOK
    <3>3. QED
      BY <1>1, <1>2, <3>2, NodesHeld
  <2>2. QED
    BY <1>1, <1>2, <1>3, <2>1, MallocKeeps, SameListed
<1>4. CASE SetNext
  BY <1>1, <1>2, <1>4, SetNextKeeps, SameListed DEF SetNext
<1>5. CASE SetHead
  BY <1>1, <1>2, <1>5, SetHeadTable
<1>6. ASSUME NEW c \in Conns, Thread(c) PROVE T!TableNext \/ Listed' = Listed
  <2>1. CASE BeginSearch(c) \/ BeginRemove(c)
    <3>1. UNCHANGED memory
      BY <2>1 DEF BeginSearch, BeginRemove, Begin
    <3>2. QED
      BY <3>1, ListedNow DEF memory
  <2>2. CASE Differs(c) \/ Advance(c) \/ EndSearch(c) \/ Use(c) \/ EndFind(c)
             \/ ReadRest(c)
    <3>1. UNCHANGED memory
      BY <2>2 DEF Differs, Advance, EndSearch, Use, EndFind, ReadRest
    <3>2. QED
      BY <3>1, ListedNow DEF memory
  <2>3. CASE Unlink(c)
    BY <1>1, <1>2, <2>3, UnlinkTable
  <2>4. CASE Free(c)
    BY <1>1, <1>2, <2>4, FreeKeeps, SameListed
  <2>5. QED
    BY <1>6, <2>1, <2>2, <2>3, <2>4 DEF Thread
<1>7. CASE UNCHANGED vars
  BY <1>7, ListedNow DEF vars, memory
<1>8. QED
  BY <1>3, <1>4, <1>5, <1>6, <1>7 DEF Next, Insert

LEMMA InitTable == Init => T!TableInit
<1> SUFFICES ASSUME Init PROVE Listed = <<>>
  BY DEF T!TableInit
<1> DEFINE f == [i \in 0..0 |-> NULL]
<1>1. next[Head0] = NULL
  BY DEF Init
<1>2. 0 \in 0..Cells /\ 0 \in 0..0 /\ 1..0 = {}
  BY Numbers
<1>3. Chain(next, 0, f)
  BY <1>1, <1>2 DEF Chain
<1> HIDE DEF f
<1>4. Listed = Listing(user, 0, f)
  BY <1>3, ListedNow, ListedChain
<1>5. QED
  BY <1>2, <1>4 DEF Listing

\* The list is a table: a node is added in front of the others, and the
\* newest node of a name is what delNode takes out, while no removal overlaps
\* anything.
THEOREM ListIsTable == Spec => ImplementsTable
<1>1. ListInv /\ [Next]_vars => [~overlap' => T!TableNext]_Listed
  BY NextTable DEF TableStep
<1>2. QED
  BY <1>1, InitTable, ListAlways, PTL DEF Spec, ImplementsTable

-----------------------------------------------------------------------------
(* The other list the threads of the chat server share: the queue of its    *)
(* thread pool (module ThreadPool), for any number of workers and jobs.     *)
(* thread.c links jobs without a lock, but pointers lead from older jobs to *)
(* newer ones whatever the threads do; threadPool.c keeps the queue exact,  *)
(* and its mutex locked, until one job is taken.                            *)

WorkerPlaces == {"lock", "test", "wait", "take", "next", "head", "qlock", "read", "num", "run",
                 "done"}
MainPlaces == {"idle", "alloc", "count", "counted", "full", "wait", "relock", "link", "link2",
               "end"}

\* A worker that has the mutex keeps it until it has taken a job out of the queue,
\* and in threadPool.c for ever, where the main thread has it when it adds one.
MutexInv ==
  /\ mpc \in {"full", "wait", "relock"} => Locks
  /\ \A w \in Workers : place[w] \in {"test", "take", "next", "head"} => mutex = w
  /\ Locks =>
       /\ \A w \in Workers : place[w] \in {"read", "num", "run", "done"} => mutex = w
       /\ \A w \in Workers : place[w] # "qlock"
       /\ mpc \in {"alloc", "count", "counted", "full", "link", "link2", "end"}
            => mutex = Main

\* Places of the main thread with a job that is allocated and not linked.
Unlinked == {"count", "counted", "full", "wait", "relock", "link"}

\* The newest job a pointer may lead to from the head.
Newest == IF mpc \in Unlinked \/ (mpc = "link2" /\ num = 0) THEN added - 1 ELSE added

\* Pointers lead from older jobs to newer ones, whatever the threads do.
LinkInv ==
  /\ mpc \notin {"idle", "alloc"} => added > 0
  /\ mpc = "alloc" => added < MaxJobs
  /\ queue_head <= Newest /\ queue_tail <= added
  /\ mpc \in Unlinked => queue_tail < added
  /\ mpc = "link2" /\ num = 0 => queue_tail = added
  /\ \A j \in Jobs : link[j] = 0 \/ (j < link[j] /\ link[j] <= Newest)
  /\ \A w \in Workers : /\ place[w] \in {"lock", "test", "wait", "take", "next"} => temp[w] = 0
                        /\ place[w] = "head" => temp[w] \in 0..Newest

\* The head is newer than every job that was taken, but while one is being taken.
OrderInv ==
  /\ \A i \in DOMAIN taken : taken[i] <= Newest
  /\ \A i, j \in DOMAIN taken : i < j => taken[i] < taken[j]
  /\ queue_head # 0 =>
       \A i \in DOMAIN taken :
         /\ taken[i] <= queue_head
         /\ (\A w \in Workers : place[w] \notin {"next", "head"}) => taken[i] < queue_head
  /\ \A w \in Workers : place[w] = "head" /\ temp[w] # 0
                          => \A i \in DOMAIN taken : taken[i] < temp[w]

\* threadPool.c: the jobs 1 to Linked are linked, and 1 to Whole have their place in
\* the queue.
Linked == IF mpc \in Unlinked THEN added - 1 ELSE added
Whole  == IF mpc \in Unlinked \cup {"link2"} THEN added - 1 ELSE added

Busy == {"next", "head", "read", "num", "run", "done"}

\* In threadPool.c the queue is what it should be until one job is taken; then
\* nobody changes it any more but the worker that took it.
QueueInv ==
  /\ ~dead
  /\ \A j \in Jobs : link[j] = IF j < Linked THEN j + 1 ELSE 0
  /\ queue_tail = IF mpc = "link2" /\ num = 0 THEN added ELSE Whole
  /\ mpc \in {"counted", "full", "wait", "relock", "link", "link2"} => num = added - 1
  /\ mpc \in {"wait", "relock"} => num = MaxQueue
  /\ (\A w \in Workers : place[w] \notin Busy) =>
       /\ taken = <<>> /\ queue_head = (IF Whole = 0 THEN 0 ELSE 1)
       /\ queue_num = IF mpc \in {"count", "counted"} THEN added - 1 ELSE added
  /\ \A w \in Workers :
       /\ place[w] = "take" => Whole > 0
       /\ place[w] \in Busy =>
            /\ taken = <<1>> /\ job[w] = 1 /\ Whole > 0
            /\ mpc \in {"idle", "wait", "relock"}
            /\ place[w] \in {"next", "head"} => queue_head = 1
            /\ place[w] = "head" => temp[w] = link[1]
            /\ place[w] \in {"read", "num", "run", "done"} => queue_head = link[1]

PoolInv ==
  /\ PoolTypeOK /\ MutexInv /\ LinkInv /\ OrderInv
  /\ Locks => QueueInv

-----------------------------------------------------------------------------

LEMMA PoolNumbers ==
  /\ MaxJobs \in Nat /\ MaxQueue \in Nat \ {0} /\ Jobs = 1..MaxJobs
  /\ Main \notin Workers /\ NoOwner \notin Workers /\ Main # NoOwner
BY PoolConstants DEF Jobs, Main, NoOwner

LEMMA PoolTypes ==
  ASSUME PoolInv, ~dead, Step, UNCHANGED version
  PROVE  PoolTypeOK'
<1> USE PoolNumbers DEF PoolInv, PoolTypeOK, LinkInv
<1>1. CASE Add
  BY <1>1 DEF Add, MainAt, queue, workers, adder
<1>2. CASE Alloc
  BY <1>2 DEF Alloc, MainAt, queue, workers, adder
<1>3. CASE AllocFails
  BY <1>3 DEF AllocFails, MainAt, queue, workers, adder
<1>4. CASE Count
  BY <1>4 DEF Count, MainAt, queue, workers, adder
<1>5. CASE Counted
  BY <1>5 DEF Counted, MainAt, queue, workers, adder
<1>6. CASE Full
  BY <1>6 DEF Full, MainAt, queue, workers, adder
<1>7. CASE Relock
  BY <1>7 DEF Relock, MainAt, queue, workers, adder
<1>8. CASE FullWakesUp
  BY <1>8 DEF FullWakesUp, MainAt, queue, workers, adder
<1>9. CASE Link
  <2>1. link' \in [Jobs -> Jobs \cup {0}] /\ queue_tail' \in Jobs \cup {0}
    <3>1. added \in Jobs
      BY <1>9 DEF Link, MainAt
    <3>2. QED
      BY <1>9, <3>1 DEF Link
  <2>2. QED
    BY <1>9, <2>1 DEF Link, MainAt, workers
<1>10. CASE Link2
  <2>1. added \in Jobs /\ added \in 0..MaxJobs
    BY <1>10 DEF Link2, MainAt
  <2>2. place' \in [Workers -> {"lock", "test", "wait", "take", "next", "head", "qlock", "read",
                               "num", "run", "done"}]
    <3>1. \/ UNCHANGED place
          \/ \E w \in Workers : place' = [place EXCEPT ![w] = "lock"]
      BY ONLY <1>10 DEF Link2, At, Waiting
    <3>2. QED
      BY <3>1
  <2>3. /\ queue_head' \in Jobs \cup {0} /\ queue_tail' \in Jobs \cup {0}
        /\ mpc' = "end"
    BY <1>10, <2>1 DEF Link2, MainAt
  <2>4. UNCHANGED <<mutex, queue_mutex, queue_num, link, job, temp, num, added, taken, ran, failed,
                    dead>>
    BY <1>10 DEF Link2
  <2>5. QED
    BY <2>2, <2>3, <2>4
<1>11. CASE AddEnds
  BY <1>11 DEF AddEnds, MainAt, queue, workers, adder
<1>12. ASSUME NEW w \in Workers, Lock(w) PROVE PoolTypeOK'
  BY <1>12 DEF Lock, At, queue, workers, adder
<1>13. ASSUME NEW w \in Workers, Test(w) PROVE PoolTypeOK'
  BY <1>13 DEF Test, At, queue, workers, adder
<1>14. ASSUME NEW w \in Workers, WakesUp(w) PROVE PoolTypeOK'
  BY <1>14 DEF WakesUp, At, queue, workers, adder
<1>15. ASSUME NEW w \in Workers, Take(w) PROVE PoolTypeOK'
  <2>1. taken' \in Seq(Jobs)
    <3>1. taken \in Seq(Jobs) /\ queue_head \in Jobs \cup {0}
      OBVIOUS
    <3>2. taken' = IF queue_head = 0 THEN taken ELSE Append(taken, queue_head)
      BY <1>15 DEF Take
    <3>3. CASE queue_head = 0
      BY <3>1, <3>2, <3>3
    <3>4. CASE queue_head # 0
      BY ONLY <3>1, <3>2, <3>4
    <3>5. QED
      BY <3>3, <3>4
  <2>2. job' \in [Workers -> Jobs \cup {0}]
    BY <1>15 DEF Take
  <2>3. place' = [place EXCEPT ![w] = "next"]
    BY <1>15 DEF Take, At
  <2>4. UNCHANGED <<mutex, queue_mutex, queue, temp, adder, ran, dead>>
    BY <1>15 DEF Take
  <2>5. QED
    BY <2>1, <2>2, <2>3, <2>4 DEF queue, adder
<1>16. ASSUME NEW w \in Workers, ReadNext(w) PROVE PoolTypeOK'
  <2>1. temp' \in [Workers -> Int]
    <3>1. CASE queue_head = 0
      BY <1>16, <3>1 DEF ReadNext
    <3>2. CASE queue_head # 0
      <4>1. link[queue_head] \in Int
        BY <3>2
      <4>2. QED
        BY <1>16, <3>2, <4>1 DEF ReadNext
    <3>3. QED
      BY <3>1, <3>2
  <2>2. dead' \in BOOLEAN
    BY <1>16 DEF ReadNext
  <2>3. QED
    BY <1>16, <2>1, <2>2 DEF ReadNext, At, queue, adder
<1>17. ASSUME NEW w \in Workers, StoreHead(w) PROVE PoolTypeOK'
  <2>1. temp[w] \in Jobs \cup {0}
    BY <1>17 DEF StoreHead, At, Newest
  <2>2. QED
    BY <1>17, <2>1 DEF StoreHead, At, adder
<1>18. ASSUME NEW w \in Workers, QueueLock(w) PROVE PoolTypeOK'
  BY <1>18 DEF QueueLock, At, queue, workers, adder
<1>19. ASSUME NEW w \in Workers, ReadNum(w) PROVE PoolTypeOK'
  BY <1>19 DEF ReadNum, At, queue, workers, adder
<1>20. ASSUME NEW w \in Workers, StoreNum(w) PROVE PoolTypeOK'
  BY <1>20 DEF StoreNum, At, queue, workers, adder
<1>21. ASSUME NEW w \in Workers, Run(w) PROVE PoolTypeOK'
  <2>1. ran' \subseteq Jobs /\ dead' \in BOOLEAN
    <3>1. CASE job[w] = 0
      BY <1>21, <3>1 DEF Run
    <3>2. CASE job[w] # 0
      <4>1. job[w] \in Jobs
        BY <3>2
      <4>2. QED
        BY <1>21, <3>2, <4>1 DEF Run
    <3>3. QED
      BY <3>1, <3>2
  <2>2. QED
    BY <1>21, <2>1 DEF Run, At, queue
<1>22. QED
  BY <1>1, <1>2, <1>3, <1>4, <1>5, <1>6, <1>7, <1>8, <1>9, <1>10, <1>11,
     <1>12, <1>13, <1>14, <1>15, <1>16, <1>17, <1>18, <1>19, <1>20, <1>21
     DEF Step, AddStep, WorkerStep

LEMMA PoolMutex ==
  ASSUME PoolInv, ~dead, Step, UNCHANGED version
  PROVE  MutexInv'
<1> USE PoolNumbers DEF PoolInv, PoolTypeOK, MutexInv, Locks, Main, NoOwner
<1>1. CASE Add
  BY <1>1 DEF Add, MainAt, queue, workers, adder
<1>2. CASE Alloc
  BY <1>2 DEF Alloc, MainAt, queue, workers, adder
<1>3. CASE AllocFails
  BY <1>3 DEF AllocFails, MainAt, queue, workers, adder
<1>4. CASE Count
  BY <1>4 DEF Count, MainAt, queue, workers, adder
<1>5. CASE Counted
  BY <1>5 DEF Counted, MainAt, queue, workers, adder
<1>6. CASE Full
  BY <1>6 DEF Full, MainAt, queue, workers, adder
<1>7. CASE Relock
  BY <1>7 DEF Relock, MainAt, queue, workers, adder
<1>8. CASE FullWakesUp
  BY <1>8 DEF FullWakesUp, MainAt, queue, workers, adder
<1>9. CASE Link
  BY <1>9 DEF Link, MainAt, queue, workers, adder
<1>10. CASE Link2
  BY <1>10 DEF Link2, MainAt, At, Waiting, queue, workers, adder
<1>11. CASE AddEnds
  BY <1>11 DEF AddEnds, MainAt, queue, workers, adder
<1>12. ASSUME NEW w \in Workers, Lock(w) PROVE MutexInv'
  BY <1>12 DEF Lock, At, queue, workers, adder
<1>13. ASSUME NEW w \in Workers, Test(w) PROVE MutexInv'
  BY <1>13 DEF Test, At, queue, workers, adder
<1>14. ASSUME NEW w \in Workers, WakesUp(w) PROVE MutexInv'
  BY <1>14 DEF WakesUp, At, queue, workers, adder
<1>15. ASSUME NEW w \in Workers, Take(w) PROVE MutexInv'
  BY <1>15 DEF Take, At, queue, workers, adder
<1>16. ASSUME NEW w \in Workers, ReadNext(w) PROVE MutexInv'
  BY <1>16 DEF ReadNext, At, queue, workers, adder
<1>17. ASSUME NEW w \in Workers, StoreHead(w) PROVE MutexInv'
  BY <1>17 DEF StoreHead, At, queue, workers, adder
<1>18. ASSUME NEW w \in Workers, QueueLock(w) PROVE MutexInv'
  BY <1>18 DEF QueueLock, At, queue, workers, adder
<1>19. ASSUME NEW w \in Workers, ReadNum(w) PROVE MutexInv'
  BY <1>19 DEF ReadNum, At, queue, workers, adder
<1>20. ASSUME NEW w \in Workers, StoreNum(w) PROVE MutexInv'
  BY <1>20 DEF StoreNum, At, queue, workers, adder
<1>21. ASSUME NEW w \in Workers, Run(w) PROVE MutexInv'
  BY <1>21 DEF Run, At, queue, workers, adder
<1>22. QED
  BY <1>1, <1>2, <1>3, <1>4, <1>5, <1>6, <1>7, <1>8, <1>9, <1>10, <1>11,
     <1>12, <1>13, <1>14, <1>15, <1>16, <1>17, <1>18, <1>19, <1>20, <1>21
     DEF Step, AddStep, WorkerStep

LEMMA PoolLinks ==
  ASSUME PoolInv, ~dead, Step, UNCHANGED version
  PROVE  LinkInv'
<1> USE PoolNumbers DEF PoolInv, PoolTypeOK, LinkInv, MutexInv, Newest, Unlinked
<1>1. CASE Add
  BY <1>1 DEF Add, MainAt, queue, workers, adder
<1>2. CASE Alloc
  BY <1>2 DEF Alloc, MainAt, queue, workers, adder
<1>3. CASE AllocFails
  BY <1>3 DEF AllocFails, MainAt, queue, workers, adder
<1>4. CASE Count
  BY <1>4 DEF Count, MainAt, queue, workers, adder
<1>5. CASE Counted
  BY <1>5 DEF Counted, MainAt, queue, workers, adder
<1>6. CASE Full
  BY <1>6 DEF Full, MainAt, queue, workers, adder
<1>7. CASE Relock
  BY <1>7 DEF Relock, MainAt, queue, workers, adder
<1>8. CASE FullWakesUp
  BY <1>8 DEF FullWakesUp, MainAt, queue, workers, adder
<1>9. CASE Link
  BY <1>9 DEF Link, MainAt, queue, workers, adder
<1>10. CASE Link2
  BY <1>10 DEF Link2, MainAt, At, Waiting, queue, workers, adder
<1>11. CASE AddEnds
  BY <1>11 DEF AddEnds, MainAt, queue, workers, adder
<1>12. ASSUME NEW w \in Workers, Lock(w) PROVE LinkInv'
  BY <1>12 DEF Lock, At, queue, workers, adder
<1>13. ASSUME NEW w \in Workers, Test(w) PROVE LinkInv'
  BY <1>13 DEF Test, At, queue, workers, adder
<1>14. ASSUME NEW w \in Workers, WakesUp(w) PROVE LinkInv'
  BY <1>14 DEF WakesUp, At, queue, workers, adder
<1>15. ASSUME NEW w \in Workers, Take(w) PROVE LinkInv'
  BY <1>15 DEF Take, At, queue, workers, adder
<1>16. ASSUME NEW w \in Workers, ReadNext(w) PROVE LinkInv'
  BY <1>16 DEF ReadNext, At, queue, workers, adder
<1>17. ASSUME NEW w \in Workers, StoreHead(w) PROVE LinkInv'
  BY <1>17 DEF StoreHead, At, queue, workers, adder
<1>18. ASSUME NEW w \in Workers, QueueLock(w) PROVE LinkInv'
  BY <1>18 DEF QueueLock, At, queue, workers, adder
<1>19. ASSUME NEW w \in Workers, ReadNum(w) PROVE LinkInv'
  BY <1>19 DEF ReadNum, At, queue, workers, adder
<1>20. ASSUME NEW w \in Workers, StoreNum(w) PROVE LinkInv'
  BY <1>20 DEF StoreNum, At, queue, workers, adder
<1>21. ASSUME NEW w \in Workers, Run(w) PROVE LinkInv'
  BY <1>21 DEF Run, At, queue, workers, adder
<1>22. QED
  BY <1>1, <1>2, <1>3, <1>4, <1>5, <1>6, <1>7, <1>8, <1>9, <1>10, <1>11,
     <1>12, <1>13, <1>14, <1>15, <1>16, <1>17, <1>18, <1>19, <1>20, <1>21
     DEF Step, AddStep, WorkerStep

LEMMA PoolOrder ==
  ASSUME PoolInv, ~dead, Step, UNCHANGED version
  PROVE  OrderInv'
<1> USE PoolNumbers DEF PoolInv, PoolTypeOK, LinkInv, MutexInv, OrderInv, Newest, Unlinked
<1>1. CASE Add
  BY <1>1 DEF Add, MainAt, queue, workers, adder
<1>2. CASE Alloc
  BY <1>2 DEF Alloc, MainAt, queue, workers, adder
<1>3. CASE AllocFails
  BY <1>3 DEF AllocFails, MainAt, queue, workers, adder
<1>4. CASE Count
  BY <1>4 DEF Count, MainAt, queue, workers, adder
<1>5. CASE Counted
  BY <1>5 DEF Counted, MainAt, queue, workers, adder
<1>6. CASE Full
  BY <1>6 DEF Full, MainAt, queue, workers, adder
<1>7. CASE Relock
  BY <1>7 DEF Relock, MainAt, queue, workers, adder
<1>8. CASE FullWakesUp
  BY <1>8 DEF FullWakesUp, MainAt, queue, workers, adder
<1>9. CASE Link
  BY <1>9 DEF Link, MainAt, queue, workers, adder
<1>10. CASE Link2
  BY <1>10 DEF Link2, MainAt, At, Waiting, queue, workers, adder
<1>11. CASE AddEnds
  BY <1>11 DEF AddEnds, MainAt, queue, workers, adder
<1>12. ASSUME NEW w \in Workers, Lock(w) PROVE OrderInv'
  BY <1>12 DEF Lock, At, queue, workers, adder
<1>13. ASSUME NEW w \in Workers, Test(w) PROVE OrderInv'
  BY <1>13 DEF Test, At, queue, workers, adder
<1>14. ASSUME NEW w \in Workers, WakesUp(w) PROVE OrderInv'
  BY <1>14 DEF WakesUp, At, queue, workers, adder
<1>15. ASSUME NEW w \in Workers, Take(w) PROVE OrderInv'
  <2>1. CASE queue_head = 0
    BY <1>15, <2>1 DEF Take, At, queue, adder
  <2>2. CASE queue_head # 0
    <3>1. /\ \A v \in Workers : place[v] \notin {"next", "head"}
          /\ place' = [place EXCEPT ![w] = "next"] /\ place[w] = "take"
          /\ taken' = Append(taken, queue_head) /\ Newest' = Newest
          /\ UNCHANGED <<queue_head, temp>> /\ queue_head <= Newest
      BY <1>15, <2>2 DEF Take, At, queue, adder
    <3>2. /\ DOMAIN taken' = 1..(Len(taken) + 1) /\ taken'[Len(taken) + 1] = queue_head
          /\ \A i \in DOMAIN taken : taken'[i] = taken[i]
          /\ DOMAIN taken = 1..Len(taken) /\ Len(taken) \in Nat
      BY <3>1
    <3>3. \A i \in DOMAIN taken : taken[i] < queue_head /\ taken[i] \in Nat
      BY <2>2, <3>1
    <3>4. queue_head \in Nat
      OBVIOUS
    <3>5. \A i \in DOMAIN taken' : i = Len(taken) + 1 \/ i \in DOMAIN taken
      BY <3>2
    <3>6. /\ \A i \in DOMAIN taken' : taken'[i] <= queue_head /\ taken'[i] <= Newest
      BY <3>1, <3>2, <3>3, <3>4, <3>5
    <3>7. \A i, j \in DOMAIN taken' : i < j => taken'[i] < taken'[j]
      <4> SUFFICES ASSUME NEW i \in DOMAIN taken', NEW j \in DOMAIN taken', i < j
                   PROVE  taken'[i] < taken'[j]
        OBVIOUS
      <4>1. i \in DOMAIN taken
        BY <3>2, <3>5
      <4>2. CASE j \in DOMAIN taken
        BY <3>2, <4>1, <4>2
      <4>3. CASE j = Len(taken) + 1
        BY <3>2, <3>3, <4>1, <4>3
      <4>4. QED
        BY <3>5, <4>2, <4>3
    <3>8. \A v \in Workers : ~(place'[v] = "head")
      BY <3>1
    <3>9. ~(\A v \in Workers : place'[v] \notin {"next", "head"})
      BY <3>1
    <3>10. QED
      BY <3>1, <3>6, <3>7, <3>8, <3>9
  <2>3. QED
    BY <2>1, <2>2
<1>16. ASSUME NEW w \in Workers, ReadNext(w) PROVE OrderInv'
  BY <1>16 DEF ReadNext, At, queue, workers, adder
<1>17. ASSUME NEW w \in Workers, StoreHead(w) PROVE OrderInv'
  BY <1>17 DEF StoreHead, At, queue, workers, adder
<1>18. ASSUME NEW w \in Workers, QueueLock(w) PROVE OrderInv'
  BY <1>18 DEF QueueLock, At, queue, workers, adder
<1>19. ASSUME NEW w \in Workers, ReadNum(w) PROVE OrderInv'
  BY <1>19 DEF ReadNum, At, queue, workers, adder
<1>20. ASSUME NEW w \in Workers, StoreNum(w) PROVE OrderInv'
  BY <1>20 DEF StoreNum, At, queue, workers, adder
<1>21. ASSUME NEW w \in Workers, Run(w) PROVE OrderInv'
  BY <1>21 DEF Run, At, queue, workers, adder
<1>22. QED
  BY <1>1, <1>2, <1>3, <1>4, <1>5, <1>6, <1>7, <1>8, <1>9, <1>10, <1>11,
     <1>12, <1>13, <1>14, <1>15, <1>16, <1>17, <1>18, <1>19, <1>20, <1>21
     DEF Step, AddStep, WorkerStep

LEMMA PoolQueue ==
  ASSUME PoolInv, ~dead, Step, UNCHANGED version, Locks
  PROVE  QueueInv'
<1> USE PoolNumbers DEF PoolInv, PoolTypeOK, LinkInv, MutexInv, QueueInv, Unlinked, Linked,
                        Whole, Busy, Main, NoOwner
<1>1. CASE Add
  BY <1>1 DEF Add, MainAt, queue, workers, adder
<1>2. CASE Alloc
  BY <1>2 DEF Alloc, MainAt, queue, workers, adder
<1>3. CASE AllocFails
  BY <1>3 DEF AllocFails, MainAt, queue, workers, adder
<1>4. CASE Count
  BY <1>4 DEF Count, MainAt, queue, workers, adder
<1>5. CASE Counted
  BY <1>5 DEF Counted, MainAt, queue, workers, adder
<1>6. CASE Full
  BY <1>6 DEF Full, MainAt, queue, workers, adder
<1>7. CASE Relock
  BY <1>7 DEF Relock, MainAt, queue, workers, adder
<1>8. CASE FullWakesUp
  BY <1>8 DEF FullWakesUp, MainAt, queue, workers, adder
<1>9. CASE Link
  BY <1>9 DEF Link, MainAt, queue, workers, adder
<1>10. CASE Link2
  BY <1>10 DEF Link2, MainAt, At, Waiting, queue, workers, adder
<1>11. CASE AddEnds
  BY <1>11 DEF AddEnds, MainAt, queue, workers, adder
<1>12. ASSUME NEW w \in Workers, Lock(w) PROVE QueueInv'
  BY <1>12 DEF Lock, At, queue, workers, adder
<1>13. ASSUME NEW w \in Workers, Test(w) PROVE QueueInv'
  BY <1>13 DEF Test, At, queue, workers, adder
<1>14. ASSUME NEW w \in Workers, WakesUp(w) PROVE QueueInv'
  BY <1>14 DEF WakesUp, At, queue, workers, adder
<1>15. ASSUME NEW w \in Workers, Take(w) PROVE QueueInv'
  <2>1. /\ place[w] = "take" /\ \A v \in Workers : place[v] \notin Busy
        /\ mutex = w /\ mpc \in {"idle", "wait", "relock"}
    BY <1>15 DEF Take, At
  <2>2. taken = <<>> /\ queue_head = 1 /\ Whole > 0
    BY <1>15, <2>1
  <2>3. taken' = <<1>> /\ job' = [job EXCEPT ![w] = 1]
    BY <1>15, <2>2 DEF Take
  <2>4. QED
    BY <1>15, <2>1, <2>2, <2>3 DEF Take, At, queue, adder
<1>16. ASSUME NEW w \in Workers, ReadNext(w) PROVE QueueInv'
  BY <1>16 DEF ReadNext, At, queue, workers, adder
<1>17. ASSUME NEW w \in Workers, StoreHead(w) PROVE QueueInv'
  BY <1>17 DEF StoreHead, At, queue, workers, adder
<1>18. ASSUME NEW w \in Workers, QueueLock(w) PROVE QueueInv'
  BY <1>18 DEF QueueLock, At, queue, workers, adder
<1>19. ASSUME NEW w \in Workers, ReadNum(w) PROVE QueueInv'
  BY <1>19 DEF ReadNum, At, queue, workers, adder
<1>20. ASSUME NEW w \in Workers, StoreNum(w) PROVE QueueInv'
  BY <1>20 DEF StoreNum, At, queue, workers, adder
<1>21. ASSUME NEW w \in Workers, Run(w) PROVE QueueInv'
  BY <1>21 DEF Run, At, queue, workers, adder
<1>22. QED
  BY <1>1, <1>2, <1>3, <1>4, <1>5, <1>6, <1>7, <1>8, <1>9, <1>10, <1>11,
     <1>12, <1>13, <1>14, <1>15, <1>16, <1>17, <1>18, <1>19, <1>20, <1>21
     DEF Step, AddStep, WorkerStep

\* Jobs linked one after the other can all be reached from the first of them.
LEMMA QueuedJobs ==
  ASSUME NEW a \in 1..MaxJobs, NEW m \in 1..MaxJobs, a <= m, queue_head = a,
         \A j \in Jobs : link[j] = IF j < m THEN j + 1 ELSE 0
  PROVE  a..m \subseteq Queued
<1> DEFINE r == [k \in 0..MaxJobs |-> IF a + k <= m THEN a + k ELSE 0]
           g == CHOOSE h : h = [k \in 0..MaxJobs |->
                  IF k = 0 THEN queue_head
                  ELSE IF h[k - 1] = 0 THEN 0 ELSE link[h[k - 1]]]
<1>1. MaxJobs \in Nat /\ a \in Nat /\ m \in Nat /\ a >= 1 /\ m <= MaxJobs
  BY PoolNumbers
<1>2. \A k \in 0..MaxJobs : r[k] = IF k = 0 THEN queue_head
                                   ELSE IF r[k - 1] = 0 THEN 0 ELSE link[r[k - 1]]
  <2> SUFFICES ASSUME NEW k \in 0..MaxJobs
               PROVE  r[k] = IF k = 0 THEN queue_head
                             ELSE IF r[k - 1] = 0 THEN 0 ELSE link[r[k - 1]]
    OBVIOUS
  <2>1. r[k] = IF a + k <= m THEN a + k ELSE 0
    OBVIOUS
  <2>2. k # 0 => k - 1 \in 0..MaxJobs
    BY <1>1
  <2>3. k # 0 => r[k - 1] = IF a + (k - 1) <= m THEN a + (k - 1) ELSE 0
    BY <2>2
  <2> HIDE DEF r
  <2>4. CASE k = 0
    BY <1>1, <2>1, <2>4
  <2>5. CASE k # 0 /\ a + (k - 1) <= m
    <3>1. r[k - 1] = a + (k - 1) /\ r[k - 1] # 0 /\ r[k - 1] \in 1..MaxJobs
      BY <1>1, <2>3, <2>5
    <3>2. link[r[k - 1]] = IF r[k - 1] < m THEN r[k - 1] + 1 ELSE 0
      BY <3>1, PoolNumbers
    <3>3. (r[k - 1] < m <=> a + k <= m) /\ r[k - 1] + 1 = a + k
      BY <1>1, <3>1
    <3>4. QED
      BY <2>1, <2>5, <3>1, <3>2, <3>3
  <2>6. CASE k # 0 /\ ~(a + (k - 1) <= m)
    BY <1>1, <2>1, <2>3, <2>6
  <2>7. QED
    BY <2>4, <2>5, <2>6
<1>3. r = [k \in 0..MaxJobs |-> IF k = 0 THEN queue_head
                                ELSE IF r[k - 1] = 0 THEN 0 ELSE link[r[k - 1]]]
  <2>1. r = [k \in 0..MaxJobs |-> r[k]]
    OBVIOUS
  <2> HIDE DEF r
  <2>2. QED
    BY <1>2, <2>1
<1>4. g = [k \in 0..MaxJobs |-> IF k = 0 THEN queue_head
                                ELSE IF g[k - 1] = 0 THEN 0 ELSE link[g[k - 1]]]
  <2> HIDE DEF r
  <2>1. QED
    BY <1>3
<1>5. Queued = {g[k] : k \in 0..MaxJobs} \ {0}
  BY DEF Queued
<1> HIDE DEF g
<1>6. \A k \in 0..MaxJobs : g[k] = r[k]
  <2> HIDE DEF r
  <2> DEFINE S == {k \in 0..MaxJobs : g[k] # r[k]}
  <2>1. CASE S # {}
    <3>1. S \in SUBSET Nat
      BY <1>1
    <3>2. PICK k \in S : \A j \in S : k <= j
      <4> HIDE DEF S
      <4>1. QED
        BY <2>1, <3>1, Least
    <3>3. k \in 0..MaxJobs /\ g[k] # r[k]
      OBVIOUS
    <3>4. k # 0 => k - 1 \in 0..MaxJobs /\ k - 1 \notin S
      BY <1>1, <3>2, <3>3
    <3>5. k # 0 => g[k - 1] = r[k - 1]
      BY <3>4
    <3> HIDE DEF S
    <3>6. r[k] = IF k = 0 THEN queue_head ELSE IF r[k - 1] = 0 THEN 0 ELSE link[r[k - 1]]
      BY <1>2, <3>3
    <3>7. g[k] = IF k = 0 THEN queue_head ELSE IF g[k - 1] = 0 THEN 0 ELSE link[g[k - 1]]
      BY <1>4, <3>3
    <3>8. QED
      BY <3>3, <3>5, <3>6, <3>7
  <2>2. CASE S = {}
    BY <2>2
  <2>3. QED
    BY <2>1, <2>2
<1>7. ASSUME NEW j \in a..m PROVE j \in Queued
  <2>1. j - a \in 0..MaxJobs /\ a + (j - a) = j /\ j <= m /\ j # 0
    BY <1>1
  <2>2. r[j - a] = j
    BY <2>1
  <2> HIDE DEF r
  <2>3. g[j - a] = j
    BY <1>6, <2>1, <2>2
  <2>4. QED
    BY <1>5, <2>1, <2>3
<1>8. QED
  BY <1>7

LEMMA PoolInvInit ==
  ASSUME PoolInit
  PROVE  PoolInv
<1> USE PoolNumbers DEF PoolInit
<1>1. PoolTypeOK
  <2>1. taken \in Seq(Jobs) /\ ran \subseteq Jobs
    OBVIOUS
  <2>2. /\ link \in [Jobs -> Jobs \cup {0}] /\ job \in [Workers -> Jobs \cup {0}]
        /\ temp \in [Workers -> Int] /\ place \in [Workers -> WorkerPlaces]
    BY DEF WorkerPlaces
  <2>3. failed \in BOOLEAN /\ dead \in BOOLEAN
    OBVIOUS
  <2>4. /\ version \in Versions
        /\ mutex \in Workers \cup {NoOwner, Main} /\ queue_mutex \in Workers \cup {NoOwner}
        /\ mpc \in MainPlaces
    BY DEF MainPlaces
  <2>5. /\ queue_num \in Int /\ num \in Int /\ added \in 0..MaxJobs
        /\ queue_head \in Jobs \cup {0} /\ queue_tail \in Jobs \cup {0}
    OBVIOUS
  <2>6. QED
    BY ONLY <2>1, <2>2, <2>3, <2>4, <2>5, Zenon DEF PoolTypeOK, WorkerPlaces, MainPlaces
<1>2. MutexInv /\ LinkInv
  BY DEF MutexInv, LinkInv, Newest, Unlinked, Jobs
<1>3. OrderInv
  BY DEF OrderInv
<1>4. QueueInv
  BY DEF QueueInv, Linked, Whole, Unlinked, Busy, Jobs
<1>5. QED
  BY <1>1, <1>2, <1>3, <1>4 DEF PoolInv

LEMMA PoolInvStep ==
  ASSUME PoolInv, [PoolNext]_poolvars
  PROVE  PoolInv'
<1>1. CASE PoolNext
  <2>1. ~dead /\ Step /\ UNCHANGED version
    BY <1>1 DEF PoolNext
  <2>2. Locks' <=> Locks
    BY <2>1 DEF Locks
  <2>3. PoolTypeOK' /\ MutexInv' /\ LinkInv' /\ OrderInv' /\ (Locks' => QueueInv')
    BY <2>1, <2>2, PoolTypes, PoolMutex, PoolLinks, PoolOrder, PoolQueue
  <2>4. QED
    BY <2>3 DEF PoolInv
<1>2. CASE UNCHANGED poolvars
  <2> USE <1>2 DEF poolvars, queue, workers, adder, PoolInv
  <2>1. PoolTypeOK'
    BY DEF PoolTypeOK
  <2>2. MutexInv'
    BY DEF MutexInv, Locks
  <2>3. LinkInv'
    BY DEF LinkInv, Newest
  <2>4. OrderInv'
    BY DEF OrderInv, Newest
  <2>5. Locks' => QueueInv'
    BY DEF QueueInv, Locks, Linked, Whole
  <2>6. QED
    BY <2>1, <2>2, <2>3, <2>4, <2>5
<1>3. QED
  BY <1>1, <1>2

LEMMA PoolInvOrder ==
  ASSUME PoolInv
  PROVE  JobsInOrder
<1>1. PoolTypeOK /\ LinkInv /\ (Locks => QueueInv) /\ MaxJobs \in Nat /\ Jobs = 1..MaxJobs
  BY PoolNumbers DEF PoolInv
<1>2. \A i, j \in DOMAIN taken : i < j => taken[i] < taken[j]
  BY DEF PoolInv, OrderInv
<1>3. Locks => ~dead /\ Len(taken) <= 1
  <2> SUFFICES ASSUME Locks PROVE ~dead /\ Len(taken) <= 1
    OBVIOUS
  <2>1. QueueInv
    BY <1>1
  <2>2. taken = <<>> \/ taken = <<1>>
    BY <2>1 DEF QueueInv
  <2>3. Len(taken) <= 1
    <3>1. CASE taken = <<>>
      BY <3>1
    <3>2. CASE taken = <<1>>
      BY <3>2
    <3>3. QED
      BY <2>2, <3>1, <3>2
  <2>4. QED
    BY <2>1, <2>3 DEF QueueInv
<1>4. ASSUME Locks, \A v \in Workers : place[v] \notin {"next", "head"},
             NEW x \in Returned, \A i \in DOMAIN taken : taken[i] # x
      PROVE  x \in Queued
  <2>1. QueueInv
    BY <1>1, <1>4
  <2>2. added \in Nat /\ added <= MaxJobs /\ x \in Nat /\ x >= 1 /\ x <= Whole /\ x <= Linked
        /\ Whole <= Linked /\ Linked \in 1..MaxJobs /\ 1 \in Jobs
    BY <1>1, <1>4 DEF Returned, PoolTypeOK, Whole, Linked, Unlinked, LinkInv
  <2>3. \A j \in Jobs : link[j] = IF j < Linked THEN j + 1 ELSE 0
    BY <2>1 DEF QueueInv
  <2>4. CASE \A v \in Workers : place[v] \notin Busy
    <3>1. queue_head = 1 /\ 1 <= Linked /\ 1 \in 1..MaxJobs
      BY <1>1, <2>1, <2>2, <2>4 DEF QueueInv
    <3>2. 1..Linked \subseteq Queued
      BY <2>2, <2>3, <3>1, QueuedJobs
    <3>3. QED
      BY <2>2, <3>2
  <2>5. CASE \E v \in Workers : place[v] \in Busy
    <3>1. PICK v \in Workers : place[v] \in Busy
      BY <2>5
    <3>2. taken = <<1>> /\ queue_head = link[1]
      BY <1>4, <2>1, <3>1 DEF QueueInv, Busy
    <3>3. x # 1
      BY <1>4, <3>2
    <3>4. queue_head = 2 /\ 2 <= Linked /\ 2 \in 1..MaxJobs
      <4>1. 2 <= Linked
        BY <2>2, <3>3
      <4>2. queue_head = IF 1 < Linked THEN 1 + 1 ELSE 0
        BY <2>2, <2>3, <3>2
      <4>3. QED
        BY <1>1, <2>2, <4>1, <4>2
    <3>5. 2..Linked \subseteq Queued
      BY <2>2, <2>3, <3>4, QueuedJobs
    <3>6. QED
      BY <2>2, <3>3, <3>5
  <2>6. QED
    BY <2>4, <2>5
<1>5. QED
  BY <1>1, <1>2, <1>3, <1>4 DEF JobsInOrder

\* However the threads run, in either version and for any number of workers and
\* jobs: no job is taken twice or before an older one; in threadPool.c no NULL is
\* followed, at most one job is taken, and every other that was added can be reached
\* from the head of the queue (threadPool.c 164-192, 295-330; thread.c 85-112, 214-244).
THEOREM PoolJobs == PoolSpec => []JobsInOrder
<1>1. PoolInit => PoolInv
  BY PoolInvInit
<1>2. PoolInv /\ [PoolNext]_poolvars => PoolInv'
  BY PoolInvStep
<1>3. PoolInv => JobsInOrder
  BY PoolInvOrder
<1>4. QED
  BY <1>1, <1>2, <1>3, PTL DEF PoolSpec
=============================================================================
