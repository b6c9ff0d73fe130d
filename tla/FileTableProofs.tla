-------------------------- MODULE FileTableProofs ---------------------------
(***************************************************************************)
(* Proofs about FileTable for any processes, files and table sizes.        *)
(***************************************************************************)
EXTENDS FileTable, FiniteSetTheorems, SequenceTheorems, TLAPS

-----------------------------------------------------------------------------
(* Minimum and maximum *)

\* Every set of naturals that is not empty has a least element: the intervals
\* up to its elements are well founded under inclusion.
LEMMA LeastNatural ==
  ASSUME NEW S \in SUBSET Nat, S # {}
  PROVE  \E m \in S : \A n \in S : m <= n
<1> DEFINE T == {0..n : n \in S}
           R == StrictSubsetOrdering(Nat)
<1>1. T \subseteq FiniteSubsetsOf(Nat) /\ T # {}
  <2>1. \A n \in S : IsFiniteSet(0..n) /\ 0..n \in SUBSET Nat
    BY FS_Interval
  <2> QED BY <2>1, Zenon DEF FiniteSubsetsOf
<1>2. IsWellFoundedOn(R, FiniteSubsetsOf(Nat))
  BY FS_StrictSubsetOrderingWellFounded
<1> HIDE DEF T, R
<1>3. PICK x \in T : \A y \in T : ~(<<y, x>> \in R)
  BY <1>1, <1>2, WFMin
<1>4. PICK m \in S : x = 0..m
  BY DEF T
<1>5. ASSUME NEW n \in S, n < m
      PROVE  FALSE
  <2>1. 0..n \in T /\ ~(<<0..n, 0..m>> \in R)
    BY <1>3, <1>4 DEF T
  <2>2. 0..n \subseteq 0..m /\ 0..n # 0..m /\ 0..n \subseteq Nat /\ 0..m \subseteq Nat
    <3>1. m \in 0..m /\ ~(m \in 0..n)
      BY <1>5
    <3>2. 0..n \subseteq 0..m /\ 0..n \subseteq Nat /\ 0..m \subseteq Nat
      BY <1>5
    <3> QED BY <3>1, <3>2
  <2>3. <<0..n, 0..m>> \in R
    BY <2>2 DEF R, StrictSubsetOrdering
  <2> QED BY <2>1, <2>3
<1> QED BY <1>5

LEMMA MinIs ==
  ASSUME NEW S \in SUBSET Int, NEW m \in S, \A x \in S : m <= x
  PROVE  Min(S) = m
<1>1. \A x \in S : (\A y \in S : x <= y) => x = m
  OBVIOUS
<1>2. Min(S) \in S /\ \A y \in S : Min(S) <= y
  BY DEF Min
<1> QED BY <1>1, <1>2

LEMMA MaxIs ==
  ASSUME NEW S \in SUBSET Int, NEW m \in S, \A x \in S : x <= m
  PROVE  Max(S) = m
<1>1. \A x \in S : (\A y \in S : x >= y) => x = m
  OBVIOUS
<1>2. Max(S) \in S /\ \A y \in S : Max(S) >= y
  BY DEF Max
<1> QED BY <1>1, <1>2

LEMMA GreatestBelow ==
  ASSUME NEW S \in SUBSET Nat, S # {}, NEW N \in Nat, \A x \in S : x <= N
  PROVE  Max(S) \in S /\ \A x \in S : x <= Max(S)
<1> DEFINE T == {N - x : x \in S}
<1>1. T \in SUBSET Nat /\ T # {}
  <2>1. \A x \in S : N - x \in Nat
    OBVIOUS
  <2> QED BY <2>1
<1>2. PICK m \in T : \A n \in T : m <= n
  BY <1>1, LeastNatural
<1>3. PICK x \in S : m = N - x
  BY <1>2
<1>4. \A y \in S : y <= x
  <2> SUFFICES ASSUME NEW y \in S PROVE y <= x
    OBVIOUS
  <2>1. N - y \in T
    OBVIOUS
  <2>2. N - x <= N - y
    BY <2>1, <1>2, <1>3
  <2> QED BY <2>2
<1> QED BY <1>4, MaxIs


-----------------------------------------------------------------------------
(* Tables *)

\* u is table t with f in an entry that was empty, or in a new one.
Adds(t, u, f) ==
    /\ Len(t) <= Len(u)
    /\ \E i \in DOMAIN u : u[i] = f
    /\ \A i \in DOMAIN t : t[i] # None => u[i] = t[i]
    /\ \A i \in DOMAIN u : u[i] = f \/ (i \in DOMAIN t /\ u[i] = t[i])

LEMMA FirstEmpty ==
  ASSUME NEW S, NEW t \in Seq(S)
  PROVE  /\ allocate_fd(t) \in 1..(Len(t) + 1)
         /\ allocate_fd(t) = Len(t) + 1 \/ t[allocate_fd(t)] = None
<1> DEFINE E == {i \in 1..(Len(t) + 1) : i = Len(t) + 1 \/ t[i] = None}
<1>1. Len(t) \in Nat
  OBVIOUS
<1>2. E \in SUBSET Nat /\ Len(t) + 1 \in E
  BY <1>1
<1>3. allocate_fd(t) = Min(E)
  BY DEF allocate_fd
<1> HIDE DEF E
<1>4. PICK m \in E : \A n \in E : m <= n
  BY <1>2, LeastNatural
<1>5. Min(E) = m
  BY <1>2, <1>4, MinIs
<1> QED BY <1>3, <1>4, <1>5 DEF E

LEMMA StoreNewAdds ==
  ASSUME NEW S, NEW t \in Seq(S), NEW f \in S
  PROVE  /\ StoreNew(t, f) \in Seq(S) /\ Adds(t, StoreNew(t, f), f)
         /\ Len(StoreNew(t, f)) \in {Len(t), allocate_fd(t)}
<1> DEFINE a == allocate_fd(t)
           u == StoreNew(t, f)
<1>1. a \in 1..(Len(t) + 1) /\ (a = Len(t) + 1 \/ t[a] = None)
  BY FirstEmpty
<1>2. u = IF a = Len(t) + 1 THEN Append(t, f) ELSE [t EXCEPT ![a] = f]
  BY DEF StoreNew, Store
<1> HIDE DEF a, u
<1>3. CASE a = Len(t) + 1
  <2>1. /\ u \in Seq(S) /\ Len(u) = Len(t) + 1 /\ u[Len(t) + 1] = f
        /\ \A i \in 1..Len(t) : u[i] = t[i]
    BY <1>2, <1>3, AppendProperties
  <2> QED BY <1>3, <2>1 DEF a, u, Adds
<1>4. CASE a # Len(t) + 1
  <2>1. a \in 1..Len(t) /\ t[a] = None /\ u = [t EXCEPT ![a] = f]
    BY <1>1, <1>2, <1>4
  <2>2. /\ u \in Seq(S) /\ Len(u) = Len(t) /\ u[a] = f
        /\ \A i \in 1..Len(t) : i # a => u[i] = t[i]
    BY <2>1, ExceptSeq
  <2> QED BY <2>1, <2>2 DEF u, Adds
<1> QED BY <1>3, <1>4

Entry == Files \cup {Console, None}

\* fork's table for a child: the console's descriptors, then the parent's.
LEMMA InheritedIs ==
  ASSUME NEW t \in Seq(Entry), Len(t) <= MaxFd
  PROVE  LET u == Inherited(t)
         IN  /\ u \in Seq(Entry) /\ Len(u) <= MaxFd
             /\ \A i \in DOMAIN u : u[i] = Console \/ (i \in DOMAIN t /\ u[i] = t[i])
             /\ \A i \in DOMAIN u : i > StdFds => i \in DOMAIN t /\ u[i] = t[i]
             /\ \A i \in DOMAIN t : i > StdFds /\ t[i] # None => i \in DOMAIN u
<1> DEFINE open == {i \in (StdFds + 1)..Len(t) : t[i] # None}
           M == {StdFds} \cup open
           m == Max(M)
           u == [i \in 1..m |-> IF i <= StdFds THEN Console ELSE t[i]]
<1>1. StdFds \in Nat /\ MaxFd \in Nat /\ StdFds <= MaxFd /\ Len(t) \in Nat
  BY ConstantsAssumption
<1>2. \A i \in 1..Len(t) : t[i] \in Entry
  BY ElementOfSeq
<1>3. M \in SUBSET Nat /\ M # {} /\ \A i \in M : i <= MaxFd
  BY <1>1
<1>4. Inherited(t) = u
  BY DEF Inherited
<1>5. m \in M /\ \A i \in M : i <= m
  <2> HIDE DEF M
  <2>1. Max(M) \in M /\ \A i \in M : i <= Max(M)
    BY <1>1, <1>3, GreatestBelow
  <2> QED BY <2>1
<1>6. m \in Nat /\ m <= MaxFd /\ (m = StdFds \/ m <= Len(t)) /\ \A i \in open : i <= m
  <2>1. m \in Nat /\ m <= MaxFd /\ \A i \in open : i <= m
    BY <1>3, <1>5
  <2>2. m \in open => m <= Len(t)
    BY <1>1
  <2> HIDE DEF m, open
  <2>3. m = StdFds \/ m \in open
    BY <1>5
  <2> QED BY <2>1, <2>2, <2>3
<1> HIDE DEF m
<1>7. \A i \in 1..m : i > StdFds => i \in 1..Len(t)
  BY <1>1, <1>6
<1>8. \A i \in 1..m : u[i] \in Entry
  BY <1>1, <1>2, <1>7 DEF Entry
<1>9. u \in Seq(Entry) /\ Len(u) = m /\ DOMAIN u = 1..m
  BY <1>6, <1>8
<1>10. \A i \in 1..m : u[i] = IF i <= StdFds THEN Console ELSE t[i]
  OBVIOUS
<1>11. \A i \in 1..Len(t) : i > StdFds /\ t[i] # None => i \in 1..m
  BY <1>1, <1>6
<1>12. DOMAIN t = 1..Len(t)
  OBVIOUS
<1> HIDE DEF u
<1>13. \A i \in 1..m : i > StdFds => u[i] = t[i]
  BY <1>1, <1>10
<1>14. \A i \in 1..m : u[i] = Console \/ (i \in DOMAIN t /\ u[i] = t[i])
  BY <1>1, <1>7, <1>10, <1>12
<1> QED BY <1>4, <1>6, <1>7, <1>9, <1>11, <1>12, <1>13, <1>14

-----------------------------------------------------------------------------
(* References *)

Has(p, f) == \E i \in Entries(p) : files[p][i] = f

\* A file that was not created yet is in no table and not closed.
FreshInv == \A f \in Files \ created : ~Referenced(f) /\ closed[f] = "no"

\* A call runs on a file that its process keeps open.
UsingInv == \A p \in Proc : using[p] # None => state[p] = "live" /\ Has(p, using[p])

UnusedInv == \A p \in Proc : state[p] = "unused" => files[p] = <<>>

Inv == TypeOK /\ FreshInv /\ UsingInv /\ UnusedInv /\ ClosedIsUnused /\ LastReferenceCloses

Refs(f) == {e \in Proc \X (1..MaxFd) : e[2] \in Entries(e[1]) /\ files[e[1]][e[2]] = f}
Users(f) == {q \in Proc : using[q] = f}

LEMMA ReferencedIs ==
  ASSUME NEW f
  PROVE  Referenced(f) <=> (\E p \in Proc : Has(p, f)) \/ (\E p \in Proc : using[p] = f)
BY DEF Referenced, Has

LEMMA TableTypes ==
  ASSUME TypeOK, NEW p \in Proc
  PROVE  /\ files[p] \in Seq(Entry) /\ Len(files[p]) <= MaxFd /\ Len(files[p]) \in Nat
         /\ Entries(p) = 1..Len(files[p]) /\ Entries(p) \subseteq 1..MaxFd
         /\ \A i \in Entries(p) : files[p][i] \in Entry
<1>1. files[p] \in Seq(Entry) /\ Len(files[p]) <= MaxFd
  BY DEF TypeOK, Entry
<1>2. Len(files[p]) \in Nat /\ DOMAIN files[p] = 1..Len(files[p]) /\ MaxFd \in Nat
  BY <1>1, ConstantsAssumption
<1>3. \A i \in 1..Len(files[p]) : files[p][i] \in Entry
  BY <1>1, ElementOfSeq
<1> QED BY <1>1, <1>2, <1>3 DEF Entries

LEMMA RefsFinite ==
  ASSUME NEW f
  PROVE  /\ IsFiniteSet(Refs(f)) /\ Cardinality(Refs(f)) \in Nat
         /\ IsFiniteSet(Users(f)) /\ Cardinality(Users(f)) \in Nat
<1>1. IsFiniteSet(Proc) /\ IsFiniteSet(1..MaxFd)
  BY ConstantsAssumption, FS_Interval
<1>2. IsFiniteSet(Proc \X (1..MaxFd))
  BY <1>1, FS_Product
<1>3. Refs(f) \in SUBSET (Proc \X (1..MaxFd)) /\ Users(f) \in SUBSET Proc
  BY DEF Refs, Users
<1>4. IsFiniteSet(Refs(f)) /\ IsFiniteSet(Users(f))
  BY <1>1, <1>2, <1>3, FS_Subset
<1> QED BY <1>4, FS_CardinalityType

LEMMA InRefs ==
  ASSUME TypeOK, NEW f, NEW q \in Proc, NEW i
  PROVE  (i \in Entries(q) /\ files[q][i] = f) <=> <<q, i>> \in Refs(f)
<1>1. Entries(q) \subseteq 1..MaxFd
  BY TableTypes
<1> QED BY <1>1 DEF Refs

\* The test of close: the entry is the only reference, or another remains.
LEMMA CountIsOne ==
  ASSUME TypeOK, NEW p \in Proc, NEW i \in Entries(p), NEW f, files[p][i] = f
  PROVE  ~(strong_count(p, f) > 1) <=>
             /\ \A q \in Proc : using[q] # f
             /\ \A q \in Proc : \A j \in Entries(q) : files[q][j] = f => q = p /\ j = i
<1> DEFINE R == Refs(f)
           U == Users(f)
           r == Cardinality(R)
           u == Cardinality(U)
<1>1. strong_count(p, f) = r + u
  BY DEF strong_count, Refs, Users
<1>2. IsFiniteSet(R) /\ r \in Nat /\ IsFiniteSet(U) /\ u \in Nat
  BY RefsFinite
<1>3. <<p, i>> \in R
  BY InRefs
<1>4. (u = 0 <=> U = {}) /\ (r = 0 <=> R = {})
  BY <1>2, FS_EmptySet
<1>5. r = 1 <=> R = {<<p, i>>}
  <2>1. r = 1 <=> \E x : R = {x}
    BY <1>2, FS_Singleton
  <2> QED BY <1>3, <2>1
<1>6. ~(r + u > 1) <=> r = 1 /\ u = 0
  <2>1. r # 0
    BY <1>3, <1>4
  <2> HIDE DEF r, u
  <2> QED BY <1>2, <2>1
<1>7. U = {} <=> \A q \in Proc : using[q] # f
  BY DEF Users
<1>8. R = {<<p, i>>} <=> \A q \in Proc : \A j \in Entries(q) : files[q][j] = f => q = p /\ j = i
  <2>1. ASSUME R = {<<p, i>>}, NEW q \in Proc, NEW j \in Entries(q), files[q][j] = f
        PROVE  q = p /\ j = i
    <3>1. <<q, j>> \in R
      BY <2>1, InRefs
    <3> QED BY <2>1, <3>1
  <2>2. ASSUME \A q \in Proc : \A j \in Entries(q) : files[q][j] = f => q = p /\ j = i
        PROVE  R = {<<p, i>>}
    <3>1. \A e \in R : e = <<p, i>>
      BY <2>2 DEF Refs
    <3> QED BY <1>3, <3>1
  <2> QED BY <2>1, <2>2
<1> QED BY <1>1, <1>4, <1>5, <1>6, <1>7, <1>8

\* The test of exit: every reference is an entry of the process's own table.
LEMMA CountIsOwn ==
  ASSUME TypeOK, NEW p \in Proc, NEW f
  PROVE  strong_count(p, f) = Cardinality({i \in Entries(p) : files[p][i] = f}) <=>
             /\ \A q \in Proc : using[q] # f
             /\ \A q \in Proc : Has(q, f) => q = p
<1> DEFINE own == {i \in Entries(p) : files[p][i] = f}
           X == {p} \X own
           R == Refs(f)
           U == Users(f)
           r == Cardinality(R)
           u == Cardinality(U)
           x == Cardinality(X)
<1>1. strong_count(p, f) = r + u
  BY DEF strong_count, Refs, Users
<1>2. IsFiniteSet(R) /\ r \in Nat /\ IsFiniteSet(U) /\ u \in Nat
  BY RefsFinite
<1>3. IsFiniteSet(own) /\ Cardinality(own) \in Nat
  <2>1. own \in SUBSET (1..MaxFd) /\ IsFiniteSet(1..MaxFd)
    BY TableTypes, ConstantsAssumption, FS_Interval
  <2> HIDE DEF own
  <2> QED BY <2>1, FS_Subset, FS_CardinalityType
<1>4. x = Cardinality(own)
  <2> HIDE DEF own
  <2>1. x = Cardinality({p}) * Cardinality(own) /\ Cardinality({p}) = 1
    BY <1>3, FS_Product, FS_Singleton
  <2> QED BY <1>3, <2>1
<1>5. X \in SUBSET R
  <2>1. \A i \in own : <<p, i>> \in R
    BY InRefs
  <2> QED BY <2>1
<1>6. U = {} <=> \A q \in Proc : using[q] # f
  BY DEF Users
<1>7. R = X <=> \A q \in Proc : Has(q, f) => q = p
  <2>1. ASSUME R = X, NEW q \in Proc, Has(q, f)
        PROVE  q = p
    <3>1. PICK j \in Entries(q) : files[q][j] = f
      BY <2>1 DEF Has
    <3>2. <<q, j>> \in R
      BY <3>1, InRefs
    <3> QED BY <2>1, <3>2
  <2>2. ASSUME \A q \in Proc : Has(q, f) => q = p
        PROVE  R = X
    <3>1. \A e \in R : e \in X
      <4> SUFFICES ASSUME NEW e \in R PROVE e \in X
        OBVIOUS
      <4>1. /\ e = <<e[1], e[2]>> /\ e[1] \in Proc
            /\ e[2] \in Entries(e[1]) /\ files[e[1]][e[2]] = f
        BY DEF Refs
      <4>2. e[1] = p
        BY <2>2, <4>1 DEF Has
      <4> QED BY <4>1, <4>2
    <3> QED BY <1>5, <3>1
  <2> QED BY <2>1, <2>2
<1> HIDE DEF X, R, U
<1>8. u = 0 <=> U = {}
  BY <1>2, FS_EmptySet
<1>9. x \in Nat /\ x <= r /\ (r = x => R = X)
  BY <1>2, <1>3, <1>4, <1>5, FS_Subset
<1>10. r + u = x <=> r = x /\ u = 0
  <2> HIDE DEF r, u, x
  <2> QED BY <1>2, <1>9
<1> QED BY <1>1, <1>4, <1>6, <1>7, <1>8, <1>9, <1>10

-----------------------------------------------------------------------------
(* The steps *)

LEMMA InitInv == Init => Inv
<1> SUFFICES ASSUME Init PROVE Inv
  OBVIOUS
<1>1. Stdio \in Seq(Entry) /\ Len(Stdio) = StdFds /\ \A i \in DOMAIN Stdio : Stdio[i] = Console
  BY ConstantsAssumption DEF Stdio, Entry
<1>2. <<>> \in Seq(Entry) /\ Len(<<>>) = 0 /\ DOMAIN <<>> = {}
  BY EmptySeq
<1>3. TypeOK
  <2>1. files \in [Proc -> Seq(Entry)] /\ \A p \in Proc : Len(files[p]) <= MaxFd
    BY <1>1, <1>2, ConstantsAssumption DEF Init
  <2> QED BY <2>1 DEF Init, TypeOK, Entry
<1>4. \A p \in Proc, f \in Files : ~Has(p, f) /\ using[p] # f
  <2>1. \A p \in Proc : \A i \in Entries(p) : files[p][i] = Console
    BY <1>1, <1>2 DEF Init, Entries
  <2>2. \A p \in Proc : using[p] = None
    BY DEF Init
  <2> QED BY <2>1, <2>2, ConstantsAssumption DEF Has
<1>5. FreshInv /\ ClosedIsUnused /\ LastReferenceCloses
  BY <1>4, ReferencedIs DEF Init, FreshInv, ClosedIsUnused, LastReferenceCloses
<1>6. UsingInv
  BY DEF Init, UsingInv
<1>7. UnusedInv
  BY DEF Init, UnusedInv
<1> QED BY <1>3, <1>5, <1>6, <1>7 DEF Inv

\* A step that adds references: to files that have one, and to new files.
LEMMA AddStep ==
  ASSUME Inv, TypeOK', UNCHANGED <<closed, using>>, created \subseteq created',
         \A q \in Proc, f \in Files : Has(q, f) => Has(q, f)',
         \A q \in Proc, f \in Files :
             Has(q, f)' => f \in created' \ created \/ \E r \in Proc : Has(r, f),
         \A f \in created' \ created : \E q \in Proc : Has(q, f)',
         \A q \in Proc : state'[q] = state[q] \/ (state[q] = "unused" /\ state'[q] = "live"),
         \A q \in Proc : state'[q] = "unused" => files'[q] = files[q]
  PROVE  Inv'
<1>1. TypeOK /\ FreshInv /\ UsingInv /\ UnusedInv /\ ClosedIsUnused /\ LastReferenceCloses
  BY DEF Inv
<1>2. created' \subseteq Files
  BY DEF TypeOK
<1>3. \A f \in Files : Referenced(f)' <=> (\E q \in Proc : Has(q, f)') \/ (\E q \in Proc : using[q] = f)
  BY DEF Referenced, Has
<1>4. \A f \in Files : Referenced(f) <=> (\E q \in Proc : Has(q, f)) \/ (\E q \in Proc : using[q] = f)
  BY ReferencedIs
<1>5. \A f \in Files : Referenced(f) => Referenced(f)'
  BY <1>3, <1>4
<1>6. \A f \in Files : Referenced(f)' => Referenced(f) \/ f \in created' \ created
  BY <1>3, <1>4
<1>7. FreshInv'
  BY <1>1, <1>6 DEF FreshInv
<1>8. ClosedIsUnused'
  BY <1>1, <1>6 DEF ClosedIsUnused, FreshInv
<1>9. LastReferenceCloses'
  BY <1>1, <1>2, <1>3, <1>5 DEF LastReferenceCloses
<1>10. UsingInv'
  <2> SUFFICES ASSUME NEW q \in Proc, using[q] # None
               PROVE  state'[q] = "live" /\ Has(q, using[q])'
    BY DEF UsingInv
  <2>1. using[q] \in Files /\ state[q] = "live" /\ Has(q, using[q])
    BY <1>1 DEF UsingInv, TypeOK
  <2>2. Has(q, using[q])'
    BY <2>1 DEF Has
  <2> QED BY <2>1, <2>2
<1>11. UnusedInv'
  BY <1>1 DEF UnusedInv
<1> QED BY <1>7, <1>8, <1>9, <1>10, <1>11 DEF Inv

\* A step that removes references, and closes only files that have none left or
\* that dup3 takes from the process.
LEMMA RemoveStep ==
  ASSUME Inv, TypeOK', UsingInv', UnusedInv', created' = created,
         \A f \in Files : Referenced(f)' => Referenced(f),
         \A f \in Files : closed'[f] # closed[f] =>
             closed[f] = "no" /\ Referenced(f) /\ (closed'[f] = "close" => ~Referenced(f)'),
         \A f \in Files : Referenced(f) /\ ~Referenced(f)' => closed'[f] # "no"
  PROVE  Inv'
<1>1. TypeOK /\ FreshInv /\ ClosedIsUnused /\ LastReferenceCloses
  BY DEF Inv
<1>2. created \subseteq Files
  BY <1>1 DEF TypeOK
<1>3. FreshInv'
  BY <1>1 DEF FreshInv
<1>4. ClosedIsUnused'
  BY <1>1 DEF ClosedIsUnused
<1>5. LastReferenceCloses'
  BY <1>1, <1>2 DEF LastReferenceCloses
<1> QED BY <1>3, <1>4, <1>5 DEF Inv

\* Process p's table becomes t.
LEMMA TableChange ==
  ASSUME TypeOK, NEW p \in Proc, NEW t \in Seq(Entry), Len(t) <= MaxFd,
         files' = [files EXCEPT ![p] = t]
  PROVE  /\ files' \in [Proc -> Seq(Entry)] /\ \A q \in Proc : Len(files'[q]) <= MaxFd
         /\ files'[p] = t /\ \A q \in Proc \ {p} : files'[q] = files[q]
<1>1. files \in [Proc -> Seq(Entry)] /\ \A q \in Proc : Len(files[q]) <= MaxFd
  BY DEF TypeOK, Entry
<1>2. files'[p] = t /\ \A q \in Proc \ {p} : files'[q] = files[q]
  BY <1>1
<1>3. files' \in [Proc -> Seq(Entry)] /\ \A q \in Proc : Len(files'[q]) <= MaxFd
  BY <1>1, <1>2
<1> QED BY <1>2, <1>3

\* What one call stores: f, in p's table.
LEMMA StoreStep ==
  ASSUME Inv, NEW p \in Proc, NEW t \in Seq(Entry), Len(t) <= MaxFd, NEW new \in SUBSET Files,
         files' = [files EXCEPT ![p] = t], created' = created \cup new,
         new \cap created = {},
         UNCHANGED <<state, closed, using, halted>>,
         \A i \in Entries(p) : files[p][i] # None => i \in DOMAIN t /\ t[i] = files[p][i],
         \A i \in DOMAIN t : t[i] \in new \/ t[i] \in {Console, None} \/ Has(p, t[i]),
         \A f \in new : \E i \in DOMAIN t : t[i] = f,
         state[p] = "live"
  PROVE  Inv'
<1>1. TypeOK /\ UnusedInv
  BY DEF Inv
<1>2. /\ files' \in [Proc -> Seq(Entry)] /\ \A q \in Proc : Len(files'[q]) <= MaxFd
      /\ files'[p] = t /\ \A q \in Proc \ {p} : files'[q] = files[q]
  BY <1>1, TableChange
<1>3. \A q \in Proc \ {p}, f \in Files : Has(q, f)' <=> Has(q, f)
  BY <1>2 DEF Has, Entries
<1>4. \A f \in Files : Has(p, f)' <=> \E i \in DOMAIN t : t[i] = f
  BY <1>2 DEF Has, Entries
<1>5. TypeOK'
  BY <1>1, <1>2 DEF TypeOK, Entry
<1>6. \A f \in Files : f # None /\ f # Console
  BY ConstantsAssumption
<1>7. \A q \in Proc, f \in Files : Has(q, f) => Has(q, f)'
  <2>1. \A f \in Files : Has(p, f) => Has(p, f)'
    BY <1>6, <1>4 DEF Has
  <2> QED BY <1>3, <2>1
<1>8. \A q \in Proc, f \in Files : Has(q, f)' => f \in created' \ created \/ \E r \in Proc : Has(r, f)
  <2>1. \A f \in Files : Has(p, f)' => f \in new \/ Has(p, f)
    BY <1>6, <1>4
  <2> QED BY <1>3, <2>1
<1>9. \A f \in created' \ created : \E q \in Proc : Has(q, f)'
  BY <1>4
<1>10. \A q \in Proc : state'[q] = "unused" => files'[q] = files[q]
  BY <1>2
<1> QED BY <1>5, <1>7, <1>8, <1>9, <1>10, AddStep

LEMMA StoreOne ==
  ASSUME TypeOK, NEW p \in Proc, NEW f \in Entry, allocate_fd(files[p]) <= MaxFd
  PROVE  LET t == StoreNew(files[p], f)
         IN  /\ t \in Seq(Entry) /\ Len(t) <= MaxFd
             /\ \A i \in Entries(p) : files[p][i] # None => i \in DOMAIN t /\ t[i] = files[p][i]
             /\ \A i \in DOMAIN t : t[i] = f \/ (i \in Entries(p) /\ t[i] = files[p][i])
             /\ \E i \in DOMAIN t : t[i] = f
<1> DEFINE s == files[p]
           t == StoreNew(s, f)
<1>1. s \in Seq(Entry) /\ Len(s) <= MaxFd /\ Len(s) \in Nat /\ Entries(p) = 1..Len(s)
  BY TableTypes
<1>2. t \in Seq(Entry) /\ Adds(s, t, f) /\ Len(t) \in {Len(s), allocate_fd(s)}
  BY <1>1, StoreNewAdds
<1>3. DOMAIN s = 1..Len(s) /\ DOMAIN t = 1..Len(t) /\ Len(t) \in Nat
  BY <1>1, <1>2
<1>4. Len(t) <= MaxFd
  BY <1>1, <1>2
<1> HIDE DEF s, t
<1>5. /\ \A i \in DOMAIN s : s[i] # None => i \in DOMAIN t /\ t[i] = s[i]
      /\ \A i \in DOMAIN t : t[i] = f \/ (i \in DOMAIN s /\ t[i] = s[i])
      /\ \E i \in DOMAIN t : t[i] = f
  <2>1. Adds(s, t, f) /\ Len(s) \in Nat
    BY <1>1, <1>2
  <2> QED BY <1>3, <2>1 DEF Adds
<1> QED BY <1>2, <1>4, <1>5 DEF s, t, Entries

LEMMA StoreTwo ==
  ASSUME TypeOK, NEW p \in Proc, NEW r \in Files, NEW w \in Files,
         Len(StoreNew(StoreNew(files[p], r), w)) <= MaxFd
  PROVE  LET t == StoreNew(StoreNew(files[p], r), w)
         IN  /\ t \in Seq(Entry) /\ Len(t) <= MaxFd
             /\ \A i \in Entries(p) : files[p][i] # None => i \in DOMAIN t /\ t[i] = files[p][i]
             /\ \A i \in DOMAIN t : t[i] \in {r, w} \/ (i \in Entries(p) /\ t[i] = files[p][i])
             /\ \E i \in DOMAIN t : t[i] = r
             /\ \E i \in DOMAIN t : t[i] = w
<1> DEFINE s == files[p]
           u == StoreNew(s, r)
           t == StoreNew(u, w)
<1>1. s \in Seq(Entry) /\ Len(s) \in Nat /\ Entries(p) = 1..Len(s) /\ r \in Entry /\ w \in Entry /\ r # None
  BY TableTypes, ConstantsAssumption DEF Entry
<1>2. u \in Seq(Entry) /\ Adds(s, u, r)
  BY <1>1, StoreNewAdds
<1>3. t \in Seq(Entry) /\ Adds(u, t, w)
  <2> HIDE DEF u
  <2> QED BY <1>1, <1>2, StoreNewAdds
<1>4. Len(t) <= MaxFd
  OBVIOUS
<1> HIDE DEF s, t, u
<1>5. /\ DOMAIN s = 1..Len(s) /\ DOMAIN t = 1..Len(t) /\ Len(t) \in Nat
      /\ DOMAIN u = 1..Len(u) /\ Len(u) \in Nat
  BY <1>1, <1>2, <1>3
<1>6. /\ \A i \in DOMAIN s : s[i] # None => i \in DOMAIN u /\ u[i] = s[i]
      /\ \A i \in DOMAIN u : u[i] = r \/ (i \in DOMAIN s /\ u[i] = s[i])
      /\ \E i \in DOMAIN u : u[i] = r
  BY <1>1, <1>2, <1>5 DEF Adds
<1>7. /\ \A i \in DOMAIN u : u[i] # None => i \in DOMAIN t /\ t[i] = u[i]
      /\ \A i \in DOMAIN t : t[i] = w \/ (i \in DOMAIN u /\ t[i] = u[i])
      /\ \E i \in DOMAIN t : t[i] = w
  BY <1>3, <1>5 DEF Adds
<1>8. /\ \A i \in DOMAIN s : s[i] # None => i \in DOMAIN t /\ t[i] = s[i]
      /\ \A i \in DOMAIN t : t[i] \in {r, w} \/ (i \in DOMAIN s /\ t[i] = s[i])
      /\ \E i \in DOMAIN t : t[i] = r
      /\ \E i \in DOMAIN t : t[i] = w
  BY <1>1, <1>6, <1>7
<1> QED BY <1>3, <1>4, <1>8 DEF s, t, u, Entries

LEMMA OpenInv ==
  ASSUME Inv, NEW p \in Proc, Open(p)
  PROVE  Inv'
<1>1. /\ state[p] = "live" /\ allocate_fd(files[p]) <= MaxFd
      /\ UNCHANGED <<state, closed, using, halted>>
  BY DEF Open, Ready
<1>2. PICK f \in Files \ created : /\ created' = created \cup {f}
                                   /\ files' = [files EXCEPT ![p] = StoreNew(files[p], f)]
  BY DEF Open
<1> DEFINE t == StoreNew(files[p], f)
<1>3. /\ t \in Seq(Entry) /\ Len(t) <= MaxFd
      /\ \A i \in Entries(p) : files[p][i] # None => i \in DOMAIN t /\ t[i] = files[p][i]
      /\ \A i \in DOMAIN t : t[i] = f \/ (i \in Entries(p) /\ t[i] = files[p][i])
      /\ \E i \in DOMAIN t : t[i] = f
  BY <1>1, StoreOne DEF Inv, Entry
<1> HIDE DEF t
<1>4. \A i \in DOMAIN t : t[i] \in {f} \/ t[i] \in {Console, None} \/ Has(p, t[i])
  BY <1>3 DEF Has
<1>5. /\ files' = [files EXCEPT ![p] = t] /\ {f} \in SUBSET Files /\ {f} \cap created = {}
      /\ created' = created \cup {f} /\ \A g \in {f} : \E i \in DOMAIN t : t[i] = g
  BY <1>2, <1>3 DEF t
<1> QED BY <1>1, <1>3, <1>4, <1>5, StoreStep

LEMMA pipe2Inv ==
  ASSUME Inv, NEW p \in Proc, pipe2(p)
  PROVE  Inv'
<1>1. state[p] = "live" /\ UNCHANGED <<state, closed, using, halted>>
  BY DEF pipe2, Ready
<1>2. PICK r \in Files \ created, w \in Files \ created :
         /\ created' = created \cup {r, w}
         /\ Len(StoreNew(StoreNew(files[p], r), w)) <= MaxFd
         /\ files' = [files EXCEPT ![p] = StoreNew(StoreNew(files[p], r), w)]
  BY DEF pipe2
<1> DEFINE t == StoreNew(StoreNew(files[p], r), w)
<1>3. /\ t \in Seq(Entry) /\ Len(t) <= MaxFd
      /\ \A i \in Entries(p) : files[p][i] # None => i \in DOMAIN t /\ t[i] = files[p][i]
      /\ \A i \in DOMAIN t : t[i] \in {r, w} \/ (i \in Entries(p) /\ t[i] = files[p][i])
      /\ \E i \in DOMAIN t : t[i] = r
      /\ \E i \in DOMAIN t : t[i] = w
  BY <1>2, StoreTwo DEF Inv
<1> HIDE DEF t
<1>4. \A i \in DOMAIN t : t[i] \in {r, w} \/ t[i] \in {Console, None} \/ Has(p, t[i])
  BY <1>3 DEF Has
<1>5. /\ files' = [files EXCEPT ![p] = t] /\ {r, w} \in SUBSET Files /\ {r, w} \cap created = {}
      /\ created' = created \cup {r, w} /\ \A g \in {r, w} : \E i \in DOMAIN t : t[i] = g
  BY <1>2, <1>3 DEF t
<1> QED BY <1>1, <1>3, <1>4, <1>5, StoreStep

LEMMA dupInv ==
  ASSUME Inv, NEW p \in Proc, NEW i, dup(p, i)
  PROVE  Inv'
<1> DEFINE f == files[p][i]
           t == StoreNew(files[p], f)
<1>1. /\ state[p] = "live" /\ allocate_fd(files[p]) <= MaxFd
      /\ UNCHANGED <<state, created, closed, using, halted>>
      /\ i \in Entries(p) /\ files' = [files EXCEPT ![p] = t]
  BY DEF dup, Ready, Opened
<1>2. f \in Entry
  BY <1>1, TableTypes DEF Inv
<1>3. /\ t \in Seq(Entry) /\ Len(t) <= MaxFd
      /\ \A j \in Entries(p) : files[p][j] # None => j \in DOMAIN t /\ t[j] = files[p][j]
      /\ \A j \in DOMAIN t : t[j] = f \/ (j \in Entries(p) /\ t[j] = files[p][j])
  BY <1>1, <1>2, StoreOne DEF Inv
<1>4. Has(p, f)
  BY <1>1 DEF Has
<1> HIDE DEF t, f
<1>5. \A j \in DOMAIN t : t[j] \in {} \/ t[j] \in {Console, None} \/ Has(p, t[j])
  BY <1>3, <1>4 DEF Has
<1>6. created' = created \cup {} /\ {} \in SUBSET Files /\ {} \cap created = {}
  BY <1>1
<1>7. \A g \in {} : \E j \in DOMAIN t : t[j] = g
  OBVIOUS
<1> QED BY <1>1, <1>3, <1>5, <1>6, <1>7, StoreStep

LEMMA forkInv ==
  ASSUME Inv, NEW p \in Proc, NEW c \in Proc, fork(p, c)
  PROVE  Inv'
<1> DEFINE t == Inherited(files[p])
<1>1. /\ state[p] = "live" /\ state[c] = "unused" /\ files' = [files EXCEPT ![c] = t]
      /\ state' = [state EXCEPT ![c] = "live"] /\ UNCHANGED <<created, closed, using, halted>>
  BY DEF fork, Ready
<1>2. TypeOK /\ UnusedInv
  BY DEF Inv
<1>3. files[p] \in Seq(Entry) /\ Len(files[p]) <= MaxFd
  BY <1>2, TableTypes
<1>4. /\ t \in Seq(Entry) /\ Len(t) <= MaxFd
      /\ \A i \in DOMAIN t : t[i] = Console \/ (i \in Entries(p) /\ t[i] = files[p][i])
  BY <1>3, InheritedIs DEF Entries
<1> HIDE DEF t
<1>5. /\ files' \in [Proc -> Seq(Entry)] /\ \A q \in Proc : Len(files'[q]) <= MaxFd
      /\ files'[c] = t /\ \A q \in Proc \ {c} : files'[q] = files[q]
  BY <1>1, <1>2, <1>4, TableChange
<1>6. TypeOK'
  BY <1>1, <1>2, <1>5 DEF TypeOK, Entry
<1>7. \A f \in Files : ~Has(c, f) /\ f # Console
  BY <1>1, <1>2, ConstantsAssumption DEF UnusedInv, Has, Entries
<1>8. \A q \in Proc, f \in Files : Has(q, f) => Has(q, f)'
  <2>1. \A q \in Proc \ {c}, f \in Files : Has(q, f) => Has(q, f)'
    BY <1>5 DEF Has, Entries
  <2> QED BY <1>7, <2>1
<1>9. \A q \in Proc, f \in Files : Has(q, f)' => f \in created' \ created \/ \E r \in Proc : Has(r, f)
  <2>1. \A q \in Proc \ {c}, f \in Files : Has(q, f)' => Has(q, f)
    BY <1>5 DEF Has, Entries
  <2>2. \A f \in Files : Has(c, f)' => Has(p, f)
    BY <1>4, <1>5, <1>7 DEF Has, Entries
  <2> QED BY <2>1, <2>2
<1>10. \A q \in Proc : state'[q] = state[q] \/ (state[q] = "unused" /\ state'[q] = "live")
  BY <1>1, <1>2 DEF TypeOK
<1>11. \A q \in Proc : state'[q] = "unused" => files'[q] = files[q]
  BY <1>1, <1>2, <1>5 DEF TypeOK
<1>12. created \subseteq created' /\ \A f \in created' \ created : \E q \in Proc : Has(q, f)'
  BY <1>1
<1> QED BY <1>1, <1>6, <1>8, <1>9, <1>10, <1>11, <1>12, AddStep

\* The steps that leave the tables as they are.
LEMMA CallInv ==
  ASSUME Inv, NEW p \in Proc, EndCall(p) \/ DropProcess(p) \/ \E i \in 1..MaxFd : BeginCall(p, i)
  PROVE  Inv'
<1>1. TypeOK /\ UsingInv /\ UnusedInv
  BY DEF Inv
<1>2. UNCHANGED <<files, created, closed, halted>>
  BY DEF EndCall, DropProcess, BeginCall
<1>3. TypeOK'
  <2>1. using' \in [Proc -> Files \cup {None}]
    BY <1>1 DEF EndCall, DropProcess, BeginCall, TypeOK
  <2>2. state' \in [Proc -> {"unused", "live", "zombie", "reaped"}]
    BY <1>1 DEF EndCall, DropProcess, BeginCall, TypeOK
  <2> QED BY <1>1, <1>2, <2>1, <2>2 DEF TypeOK
<1>4. \A q \in Proc : \A f : Has(q, f)' <=> Has(q, f)
  BY <1>2 DEF Has, Entries
<1>5. \A q \in Proc : using'[q] # None => state'[q] = "live" /\ Has(q, using'[q])
  <2>1. CASE EndCall(p)
    BY <1>1, <2>1 DEF EndCall, UsingInv, TypeOK
  <2>2. CASE DropProcess(p)
    BY <1>1, <2>2 DEF DropProcess, UsingInv, TypeOK
  <2>3. CASE \E i \in 1..MaxFd : BeginCall(p, i)
    BY <1>1, <2>3 DEF BeginCall, Ready, Opened, UsingInv, TypeOK, Has
  <2> QED BY <2>1, <2>2, <2>3
<1>6. UsingInv'
  BY <1>2, <1>5 DEF UsingInv, Has, Entries
<1>7. UnusedInv'
  BY <1>1, <1>2 DEF UnusedInv, EndCall, DropProcess, BeginCall, TypeOK
<1>8. \A f \in Files : f # None /\ (Referenced(f)' <=> Referenced(f))
  <2> SUFFICES ASSUME NEW f \in Files PROVE f # None /\ (Referenced(f)' <=> Referenced(f))
    OBVIOUS
  <2>1. f # None
    BY ConstantsAssumption
  <2>2. Referenced(f) <=> \E q \in Proc : Has(q, f)
    BY <1>1, <2>1, ReferencedIs DEF UsingInv
  <2>3. Referenced(f)' <=> (\E q \in Proc : Has(q, f)') \/ (\E q \in Proc : using'[q] = f)
    BY DEF Referenced, Has
  <2>4. Referenced(f)' <=> \E q \in Proc : Has(q, f)
    BY <1>4, <1>5, <2>1, <2>3
  <2> QED BY <2>1, <2>2, <2>4
<1> QED BY <1>2, <1>3, <1>6, <1>7, <1>8, RemoveStep

\* close and dup3 put g in place of an entry of p.
LEMMA ReplaceEntry ==
  ASSUME Inv, NEW p \in Proc, Ready(p), NEW i \in Entries(p), NEW g \in Entry,
         files' = [files EXCEPT ![p][i] = g], UNCHANGED <<state, using>>
  PROVE  /\ files' \in [Proc -> Seq(Entry)] /\ \A q \in Proc : Len(files'[q]) <= MaxFd
         /\ UsingInv' /\ UnusedInv'
         /\ \A q \in Proc : DOMAIN files'[q] = Entries(q)
         /\ \A q \in Proc : \A j \in Entries(q) :
               files'[q][j] = IF q = p /\ j = i THEN g ELSE files[q][j]
<1> DEFINE t == [files[p] EXCEPT ![i] = g]
<1>1. TypeOK /\ UsingInv /\ UnusedInv
  BY DEF Inv
<1>2. files[p] \in Seq(Entry) /\ Entries(p) = 1..Len(files[p]) /\ Len(files[p]) <= MaxFd
  BY <1>1, TableTypes
<1>3. /\ t \in Seq(Entry) /\ Len(t) = Len(files[p])
      /\ \A j \in Entries(p) : t[j] = IF j = i THEN g ELSE files[p][j]
  BY <1>2, ExceptSeq
<1>4. DOMAIN t = Entries(p)
  BY DEF Entries
<1>5. files' = [files EXCEPT ![p] = t]
  OBVIOUS
<1> HIDE DEF t
<1>6. /\ files' \in [Proc -> Seq(Entry)] /\ \A q \in Proc : Len(files'[q]) <= MaxFd
      /\ files'[p] = t /\ \A q \in Proc \ {p} : files'[q] = files[q]
  BY <1>1, <1>2, <1>3, <1>5, TableChange
<1>7. \A q \in Proc : DOMAIN files'[q] = Entries(q)
  BY <1>4, <1>6 DEF Entries
<1>8. \A q \in Proc : \A j \in Entries(q) : files'[q][j] = IF q = p /\ j = i THEN g ELSE files[q][j]
  BY <1>3, <1>6
<1>9. state[p] = "live" /\ using[p] = None
  BY DEF Ready
<1>10. UsingInv'
  BY <1>1, <1>6, <1>9 DEF UsingInv, Has, Entries
<1>11. UnusedInv'
  BY <1>1, <1>6, <1>9 DEF UnusedInv
<1> QED BY <1>6, <1>7, <1>8, <1>10, <1>11

LEMMA closeInv ==
  ASSUME Inv, NEW p \in Proc, NEW i, close(p, i)
  PROVE  Inv'
<1>0. PICK f0 : f0 = files[p][i]
  OBVIOUS
<1>1. /\ Ready(p) /\ i \in Entries(p) /\ f0 # None
      /\ files' = [files EXCEPT ![p][i] = None] /\ UNCHANGED <<state, created, using, halted>>
      /\ closed' = IF strong_count(p, f0) > 1 THEN closed ELSE Closed(f0, "close")
  BY <1>0 DEF close, Opened
<1>2. TypeOK /\ None \in Entry /\ \A f \in Files : f # None
  BY ConstantsAssumption DEF Inv, Entry
<1>3. /\ files' \in [Proc -> Seq(Entry)] /\ \A q \in Proc : Len(files'[q]) <= MaxFd
      /\ UsingInv' /\ UnusedInv'
      /\ \A q \in Proc : DOMAIN files'[q] = Entries(q)
      /\ \A q \in Proc : \A j \in Entries(q) :
            files'[q][j] = IF q = p /\ j = i THEN None ELSE files[q][j]
  BY <1>1, <1>2, ReplaceEntry
<1>4. /\ closed' \in [Files -> {"no", "close", "dup3"}]
      /\ \A f \in Files : closed'[f] # closed[f] =>
           f = f0 /\ closed[f] = "no" /\ ~(strong_count(p, f0) > 1)
      /\ ~(strong_count(p, f0) > 1) /\ f0 \in Files => closed'[f0] # "no"
  BY <1>1, <1>2 DEF TypeOK, Closed
<1>5. TypeOK'
  BY <1>1, <1>2, <1>3, <1>4 DEF TypeOK, Entry
<1>6. \A f \in Files : Referenced(f)' <=>
          \/ \E q \in Proc : \E j \in Entries(q) : files[q][j] = f /\ ~(q = p /\ j = i)
          \/ \E q \in Proc : using[q] = f
  BY <1>1, <1>2, <1>3 DEF Referenced, Entries
<1>7. Referenced(f0)
  BY <1>0, <1>1 DEF Referenced
<1>8. ~(strong_count(p, f0) > 1) <=>
          /\ \A q \in Proc : using[q] # f0
          /\ \A q \in Proc : \A j \in Entries(q) : files[q][j] = f0 => q = p /\ j = i
  BY <1>0, <1>1, <1>2, CountIsOne
<1>9. ~(strong_count(p, f0) > 1) /\ f0 \in Files <=> f0 \in Files /\ ~Referenced(f0)'
  BY <1>6, <1>8
<1>10. \A f \in Files : Referenced(f)' => Referenced(f)
  BY <1>6 DEF Referenced
<1>11. \A f \in Files : Referenced(f) /\ ~Referenced(f)' => f = f0
  BY <1>0, <1>6 DEF Referenced
<1>12. \A f \in Files : closed'[f] # closed[f] =>
          closed[f] = "no" /\ Referenced(f) /\ (closed'[f] = "close" => ~Referenced(f)')
  BY <1>4, <1>7, <1>9
<1>13. \A f \in Files : Referenced(f) /\ ~Referenced(f)' => closed'[f] # "no"
  BY <1>4, <1>9, <1>11
<1> QED BY <1>1, <1>3, <1>5, <1>10, <1>12, <1>13, RemoveStep

LEMMA dup3Inv ==
  ASSUME Inv, NEW p \in Proc, NEW i, NEW j, dup3(p, i, j)
  PROVE  Inv'
<1>1. TypeOK /\ FreshInv /\ UsingInv /\ UnusedInv /\ ClosedIsUnused /\ LastReferenceCloses
  BY DEF Inv
<1>2. CASE j \notin Entries(p)
  <2>1. halted' = TRUE /\ UNCHANGED <<closed, files, state, created, using>>
    BY <1>2 DEF dup3
  <2> QED BY <1>1, <2>1 DEF Inv, TypeOK, FreshInv, UsingInv, UnusedInv, ClosedIsUnused,
                            LastReferenceCloses, Referenced, Has, Entries
<1>3. CASE j \in Entries(p)
  <2>0. PICK f0, g : f0 = files[p][j] /\ g = files[p][i]
    OBVIOUS
  <2>1. /\ Ready(p) /\ i \in Entries(p) /\ g # None
        /\ files' = [files EXCEPT ![p][j] = g] /\ UNCHANGED <<state, created, using, halted>>
        /\ closed' = Closed(f0, "dup3")
    BY <1>3, <2>0 DEF dup3, Opened
  <2>2. g \in Entry
    BY <1>1, <2>0, <2>1, TableTypes
  <2>3. Referenced(f0) /\ Referenced(g)
    BY <1>3, <2>0, <2>1 DEF Referenced
  <2>4. /\ closed' \in [Files -> {"no", "close", "dup3"}]
        /\ \A f \in Files : closed'[f] # closed[f] => f = f0 /\ closed[f] = "no" /\ closed'[f] = "dup3"
        /\ f0 \in Files => closed'[f0] # "no"
    BY <1>1, <2>1 DEF TypeOK, Closed
  <2>5. \A q \in Proc : \A k \in Entries(q) : files[q][k] # f0 => ~(q = p /\ k = j)
    BY <2>0
  <2>6. /\ files' \in [Proc -> Seq(Entry)] /\ \A q \in Proc : Len(files'[q]) <= MaxFd
        /\ UsingInv' /\ UnusedInv'
        /\ \A q \in Proc : DOMAIN files'[q] = Entries(q)
        /\ \A q \in Proc : \A k \in Entries(q) :
              files'[q][k] = IF q = p /\ k = j THEN g ELSE files[q][k]
    BY <1>3, <2>1, <2>2, ReplaceEntry
  <2>7. TypeOK'
    BY <1>1, <2>1, <2>4, <2>6 DEF TypeOK, Entry
  <2>8. \A f \in Files : Referenced(f)' <=>
            \/ f = g
            \/ \E q \in Proc : \E k \in Entries(q) : files[q][k] = f /\ ~(q = p /\ k = j)
            \/ \E q \in Proc : using[q] = f
    BY <1>3, <2>1, <2>6 DEF Referenced, Entries
  <2>9. \A f \in Files : Referenced(f)' => Referenced(f)
    BY <2>3, <2>8 DEF Referenced
  <2>10. \A f \in Files : Referenced(f) /\ ~Referenced(f)' => f = f0
    BY <2>5, <2>8 DEF Referenced
  <2>11. \A f \in Files : closed'[f] # closed[f] =>
            closed[f] = "no" /\ Referenced(f) /\ (closed'[f] = "close" => ~Referenced(f)')
    BY <2>3, <2>4
  <2>12. \A f \in Files : Referenced(f) /\ ~Referenced(f)' => closed'[f] # "no"
    BY <2>4, <2>10
  <2> QED BY <2>1, <2>6, <2>7, <2>9, <2>11, <2>12, RemoveStep
<1> QED BY <1>2, <1>3

LEMMA dup3_cwdInv ==
  ASSUME Inv, NEW p \in Proc, NEW j, dup3_cwd(p, j)
  PROVE  Inv'
<1>1. TypeOK /\ FreshInv /\ UsingInv /\ UnusedInv /\ ClosedIsUnused /\ LastReferenceCloses
  BY DEF Inv
<1>2. CASE j \notin Entries(p)
  <2>1. halted' = TRUE /\ UNCHANGED <<closed, files, state, created, using>>
    BY <1>2 DEF dup3_cwd
  <2> QED BY <1>1, <2>1 DEF Inv, TypeOK, FreshInv, UsingInv, UnusedInv, ClosedIsUnused,
                            LastReferenceCloses, Referenced, Has, Entries
<1>3. CASE j \in Entries(p)
  <2>0. PICK f0 : f0 = files[p][j]
    OBVIOUS
  <2>1. /\ Ready(p) /\ UNCHANGED <<state, using, halted>> /\ closed' = Closed(f0, "dup3")
    BY <1>3, <2>0 DEF dup3_cwd
  <2>2. PICK g \in Files \ created : /\ created' = created \cup {g}
                                     /\ files' = [files EXCEPT ![p][j] = g]
    BY <1>3 DEF dup3_cwd
  <2>3. g \in Entry /\ ~Referenced(g) /\ closed[g] = "no" /\ Referenced(f0) /\ g # f0
    BY <1>1, <1>3, <2>0, <2>2 DEF Entry, FreshInv, Referenced
  <2>4. /\ closed' \in [Files -> {"no", "close", "dup3"}]
        /\ \A f \in Files : closed'[f] # closed[f] => f = f0 /\ closed[f] = "no" /\ closed'[f] = "dup3"
        /\ f0 \in Files => closed'[f0] # "no"
    BY <1>1, <2>1 DEF TypeOK, Closed
  <2>5. \A q \in Proc : \A k \in Entries(q) : files[q][k] # f0 => ~(q = p /\ k = j)
    BY <2>0
  <2>6. /\ files' \in [Proc -> Seq(Entry)] /\ \A q \in Proc : Len(files'[q]) <= MaxFd
        /\ UsingInv' /\ UnusedInv'
        /\ \A q \in Proc : DOMAIN files'[q] = Entries(q)
        /\ \A q \in Proc : \A k \in Entries(q) :
              files'[q][k] = IF q = p /\ k = j THEN g ELSE files[q][k]
    BY <1>3, <2>1, <2>2, <2>3, ReplaceEntry
  <2>7. TypeOK'
    BY <1>1, <2>1, <2>2, <2>4, <2>6 DEF TypeOK, Entry
  <2>8. \A f \in Files : Referenced(f)' <=>
            \/ f = g
            \/ \E q \in Proc : \E k \in Entries(q) : files[q][k] = f /\ ~(q = p /\ k = j)
            \/ \E q \in Proc : using[q] = f
    BY <1>3, <2>1, <2>6 DEF Referenced, Entries
  <2>9. \A f \in Files : Referenced(f)' => Referenced(f) \/ f = g
    BY <2>8 DEF Referenced
  <2>10. Referenced(g)' /\ \A f \in Files : Referenced(f) /\ ~Referenced(f)' => f = f0
    BY <2>2, <2>5, <2>8 DEF Referenced
  <2>11. FreshInv'
    <3> SUFFICES ASSUME NEW f \in Files \ created' PROVE ~Referenced(f)' /\ closed'[f] = "no"
      BY DEF FreshInv
    <3>1. f # g /\ f \in Files \ created
      BY <2>2
    <3>2. ~Referenced(f) /\ closed[f] = "no" /\ f # f0
      BY <1>1, <2>3, <3>1 DEF FreshInv
    <3> QED BY <2>4, <2>9, <3>1, <3>2
  <2>12. ClosedIsUnused'
    <3> SUFFICES ASSUME NEW f \in Files, closed'[f] = "close" PROVE ~Referenced(f)'
      BY DEF ClosedIsUnused
    <3>1. closed[f] = "close" /\ f # g
      BY <2>3, <2>4
    <3> QED BY <1>1, <2>9, <3>1 DEF ClosedIsUnused
  <2>13. LastReferenceCloses'
    <3> SUFFICES ASSUME NEW f \in created', ~Referenced(f)' PROVE closed'[f] # "no"
      BY DEF LastReferenceCloses
    <3>1. f \in created /\ f \in Files
      BY <1>1, <2>2, <2>10 DEF TypeOK
    <3>2. CASE Referenced(f)
      BY <2>4, <2>10, <3>1, <3>2
    <3>3. CASE ~Referenced(f)
      BY <1>1, <2>4, <3>1, <3>3 DEF LastReferenceCloses
    <3> QED BY <3>2, <3>3
  <2> QED BY <2>6, <2>7, <2>11, <2>12, <2>13 DEF Inv
<1> QED BY <1>2, <1>3

LEMMA exitInv ==
  ASSUME Inv, NEW p \in Proc, exit(p)
  PROVE  Inv'
<1> DEFINE own(f) == {i \in Entries(p) : files[p][i] = f}
           mine(f) == own(f) # {} /\ strong_count(p, f) = Cardinality(own(f))
<1>1. /\ Ready(p) /\ state' = [state EXCEPT ![p] = "zombie"] /\ files' = [files EXCEPT ![p] = <<>>]
      /\ UNCHANGED <<created, using, halted>>
      /\ closed' = [f \in Files |-> IF mine(f) THEN Closed(f, "close")[f] ELSE closed[f]]
  BY DEF exit
<1>2. TypeOK /\ UsingInv /\ UnusedInv /\ state[p] = "live" /\ using[p] = None
  BY <1>1 DEF Inv, Ready
<1>3. <<>> \in Seq(Entry) /\ Len(<<>>) <= MaxFd /\ DOMAIN <<>> = {}
  BY EmptySeq, ConstantsAssumption
<1>4. /\ files' \in [Proc -> Seq(Entry)] /\ \A q \in Proc : Len(files'[q]) <= MaxFd
      /\ files'[p] = <<>> /\ \A q \in Proc \ {p} : files'[q] = files[q]
  BY <1>1, <1>2, <1>3, TableChange
<1>5. \A f \in Files : /\ own(f) # {} <=> Has(p, f)
                       /\ strong_count(p, f) = Cardinality(own(f)) <=>
                            (\A q \in Proc : using[q] # f) /\ (\A q \in Proc : Has(q, f) => q = p)
  BY <1>2, CountIsOwn DEF Has
<1>6. \A f \in Files : mine(f) <=> /\ Has(p, f) /\ \A q \in Proc : using[q] # f
                                   /\ \A q \in Proc : Has(q, f) => q = p
  BY <1>5
<1> HIDE DEF mine, own
<1>7. /\ closed' \in [Files -> {"no", "close", "dup3"}]
      /\ \A f \in Files : closed'[f] # closed[f] => mine(f) /\ closed[f] = "no"
      /\ \A f \in Files : mine(f) => closed'[f] # "no"
  <2>1. \A f \in Files : /\ Closed(f, "close")[f] \in {"close", "dup3"}
                         /\ Closed(f, "close")[f] # closed[f] => closed[f] = "no"
    BY <1>2 DEF Closed, TypeOK
  <2> QED BY <1>1, <1>2, <2>1 DEF TypeOK
<1>8. TypeOK'
  BY <1>1, <1>2, <1>4, <1>7 DEF TypeOK, Entry
<1>9. \A f \in Files : Referenced(f)' <=>
          (\E q \in Proc \ {p} : Has(q, f)) \/ (\E q \in Proc : using[q] = f)
  BY <1>1, <1>3, <1>4 DEF Referenced, Has, Entries
<1>10. \A f \in Files : Referenced(f) <=> (\E q \in Proc : Has(q, f)) \/ (\E q \in Proc : using[q] = f)
  BY ReferencedIs
<1>11. \A f \in Files : mine(f) <=> Referenced(f) /\ ~Referenced(f)'
  BY <1>6, <1>9, <1>10
<1>12. UsingInv'
  <2> SUFFICES ASSUME NEW q \in Proc, using[q] # None PROVE state'[q] = "live" /\ Has(q, using[q])'
    BY <1>1 DEF UsingInv
  <2>1. q # p /\ state[q] = "live" /\ Has(q, using[q])
    BY <1>2 DEF UsingInv
  <2> QED BY <1>1, <1>2, <1>4, <2>1 DEF Has, Entries, TypeOK
<1>13. UnusedInv'
  BY <1>1, <1>2, <1>4 DEF UnusedInv, TypeOK
<1>14. \A f \in Files : Referenced(f)' => Referenced(f)
  BY <1>9, <1>10
<1>15. /\ \A f \in Files : closed'[f] # closed[f] =>
            closed[f] = "no" /\ Referenced(f) /\ (closed'[f] = "close" => ~Referenced(f)')
       /\ \A f \in Files : Referenced(f) /\ ~Referenced(f)' => closed'[f] # "no"
  BY <1>7, <1>11
<1> QED BY <1>1, <1>8, <1>12, <1>13, <1>14, <1>15, RemoveStep

-----------------------------------------------------------------------------
(* The theorems *)

LEMMA NextInv ==
  ASSUME Inv, [Next]_vars
  PROVE  Inv'
<1>1. CASE UNCHANGED vars
  BY <1>1 DEF vars, Inv, TypeOK, FreshInv, UsingInv, UnusedInv, ClosedIsUnused,
              LastReferenceCloses, Referenced, Has, Entries
<1>2. CASE Next
  <2>1. PICK p \in Proc :
          \/ Open(p) \/ pipe2(p) \/ EndCall(p) \/ exit(p) \/ DropProcess(p)
          \/ \E c \in Proc : fork(p, c)
          \/ \E i \in 1..MaxFd : close(p, i) \/ dup(p, i) \/ BeginCall(p, i)
          \/ \E i, j \in 1..(MaxFd + 1) : dup3(p, i, j)
          \/ \E j \in 1..(MaxFd + 1) : dup3_cwd(p, j)
    BY <1>2 DEF Next
  <2> QED BY <2>1, OpenInv, pipe2Inv, forkInv, dupInv, closeInv, dup3Inv, dup3_cwdInv, exitInv, CallInv
<1> QED BY <1>1, <1>2

\* The types; that only created files are referred to; that a process in read or
\* write still has the file in its table; that a process not yet created has
\* no table.  The two properties below are inductive only with these.
LEMMA Invariance == Spec => []Inv
<1>1. Init => Inv
  BY InitInv
<1>2. Inv /\ [Next]_vars => Inv'
  BY NextInv
<1> QED BY <1>1, <1>2, PTL DEF Spec

\* What close and exit close, nobody refers to, then or later: the strong count
\* they test is exact over all tables and running calls.
THEOREM ClosedUnused == Spec => []ClosedIsUnused
<1>1. Inv => ClosedIsUnused
  BY DEF Inv
<1> QED BY <1>1, Invariance, PTL

\* A file whose last reference close, dup3 or exit takes is closed; the end of a
\* read or write never takes the last one.
THEOREM LastCloses == Spec => []LastReferenceCloses
<1>1. Inv => LastReferenceCloses
  BY DEF Inv
<1> QED BY <1>1, Invariance, PTL

\* What NoDescriptorLost says of a step that creates descriptors.
NothingLost ==
    /\ \A q \in Proc : \A i \in Entries(q) :
           files[q][i] # None => i \in DOMAIN files'[q] /\ files'[q][i] = files[q][i]
    /\ \A f \in created' \ created :
           \E q \in Proc : \E i \in DOMAIN files'[q] : files'[q][i] = f

LEMMA CreatesKeeps ==
  ASSUME Inv, NEW p \in Proc, Creates(p)
  PROVE  NothingLost
<1>1. TypeOK /\ UnusedInv
  BY DEF Inv
<1>2. CASE Open(p)
  <2>1. allocate_fd(files[p]) <= MaxFd
    BY <1>2 DEF Open
  <2>2. PICK f \in Files \ created : /\ created' = created \cup {f}
                                     /\ files' = [files EXCEPT ![p] = StoreNew(files[p], f)]
    BY <1>2 DEF Open
  <2> DEFINE t == StoreNew(files[p], f)
  <2>3. /\ t \in Seq(Entry) /\ Len(t) <= MaxFd
        /\ \A i \in Entries(p) : files[p][i] # None => i \in DOMAIN t /\ t[i] = files[p][i]
        /\ \E i \in DOMAIN t : t[i] = f
    BY <1>1, <2>1, StoreOne DEF Entry
  <2>4. files' = [files EXCEPT ![p] = t]
    BY <2>2
  <2> HIDE DEF t
  <2>5. files'[p] = t /\ \A q \in Proc \ {p} : files'[q] = files[q]
    BY <1>1, <2>3, <2>4, TableChange
  <2> QED BY <2>2, <2>3, <2>5 DEF NothingLost, Entries
<1>3. CASE pipe2(p)
  <2>1. PICK r \in Files \ created, w \in Files \ created :
           /\ created' = created \cup {r, w}
           /\ Len(StoreNew(StoreNew(files[p], r), w)) <= MaxFd
           /\ files' = [files EXCEPT ![p] = StoreNew(StoreNew(files[p], r), w)]
    BY <1>3 DEF pipe2
  <2> DEFINE t == StoreNew(StoreNew(files[p], r), w)
  <2>2. /\ t \in Seq(Entry) /\ Len(t) <= MaxFd
        /\ \A i \in Entries(p) : files[p][i] # None => i \in DOMAIN t /\ t[i] = files[p][i]
        /\ \E i \in DOMAIN t : t[i] = r
        /\ \E i \in DOMAIN t : t[i] = w
    <3>1. TypeOK /\ r \in Files /\ w \in Files /\ Len(StoreNew(StoreNew(files[p], r), w)) <= MaxFd
      BY <1>1, <2>1
    <3> QED BY ONLY <3>1, p \in Proc, StoreTwo
  <2>3. files' = [files EXCEPT ![p] = t]
    BY <2>1
  <2> HIDE DEF t
  <2>4. files'[p] = t /\ \A q \in Proc \ {p} : files'[q] = files[q]
    BY <1>1, <2>2, <2>3, TableChange
  <2> QED BY <2>1, <2>2, <2>4 DEF NothingLost, Entries
<1>4. CASE \E i \in 1..MaxFd : dup(p, i)
  <2>1. PICK i \in 1..MaxFd : dup(p, i)
    BY <1>4
  <2> DEFINE t == StoreNew(files[p], files[p][i])
  <2>2. /\ allocate_fd(files[p]) <= MaxFd /\ created' = created /\ i \in Entries(p)
        /\ files' = [files EXCEPT ![p] = t]
    BY <2>1 DEF dup, Opened
  <2>3. files[p][i] \in Entry
    BY <1>1, <2>2, TableTypes
  <2>4. /\ t \in Seq(Entry) /\ Len(t) <= MaxFd
        /\ \A j \in Entries(p) : files[p][j] # None => j \in DOMAIN t /\ t[j] = files[p][j]
    BY <1>1, <2>2, <2>3, StoreOne
  <2> HIDE DEF t
  <2>5. files'[p] = t /\ \A q \in Proc \ {p} : files'[q] = files[q]
    BY <1>1, <2>2, <2>4, TableChange
  <2> QED BY <2>2, <2>4, <2>5 DEF NothingLost, Entries
<1>5. CASE \E c \in Proc : fork(p, c)
  <2>1. PICK c \in Proc : fork(p, c)
    BY <1>5
  <2>2. files[c] = <<>> /\ created' = created /\ \A q \in Proc \ {c} : files'[q] = files[q]
    BY <1>1, <2>1 DEF fork, UnusedInv, TypeOK
  <2>3. Entries(c) = {}
    BY <2>2 DEF Entries
  <2> QED BY <2>2, <2>3 DEF NothingLost, Entries
<1> QED BY <1>2, <1>3, <1>4, <1>5 DEF Creates

\* allocate_fd and fork overwrite no descriptor in use, and pipe2's two
\* descriptors differ, however full of holes the table is.
THEOREM DescriptorsKept == Spec => NoDescriptorLost
<1>1. Inv => [(\E p \in Proc : Creates(p)) =>
                /\ \A p \in Proc : \A i \in Entries(p) :
                       files[p][i] # None => i \in DOMAIN files'[p] /\ files'[p][i] = files[p][i]
                /\ \A f \in created' \ created :
                       \E p \in Proc : \E i \in DOMAIN files'[p] : files'[p][i] = f]_vars
  BY CreatesKeeps DEF NothingLost
<1> QED BY <1>1, Invariance, PTL DEF NoDescriptorLost

LEMMA ForkCopies ==
  ASSUME Inv, [Next]_vars, NEW c \in Proc, state[c] = "unused", state'[c] = "live"
  PROVE  \E p \in Proc :
            /\ state[p] = "live"
            /\ \A i \in (StdFds + 1)..MaxFd : \A f \in Files :
                   (i \in Entries(p) /\ files[p][i] = f) <=>
                   (i \in DOMAIN files'[c] /\ files'[c][i] = f)
<1>1. TypeOK
  BY DEF Inv
<1>2. PICK p \in Proc : fork(p, c)
  <2>1. state' # state /\ Next
    BY DEF vars
  <2>2. PICK p \in Proc : exit(p) \/ DropProcess(p) \/ \E d \in Proc : fork(p, d)
    BY <2>1 DEF Next, Open, pipe2, EndCall, close, dup, BeginCall, dup3, dup3_cwd
  <2>3. ~exit(p) /\ ~DropProcess(p)
    BY <1>1 DEF exit, DropProcess, TypeOK
  <2>4. \A d \in Proc : fork(p, d) => d = c
    BY <1>1 DEF fork, TypeOK
  <2> QED BY <2>2, <2>3, <2>4
<1> DEFINE t == files[p]
           u == Inherited(t)
<1>3. state[p] = "live" /\ files' = [files EXCEPT ![c] = u]
  BY <1>2 DEF fork, Ready
<1>4. t \in Seq(Entry) /\ Len(t) <= MaxFd
  BY <1>1, TableTypes
<1>5. /\ \A i \in DOMAIN u : i > StdFds => i \in DOMAIN t /\ u[i] = t[i]
      /\ \A i \in DOMAIN t : i > StdFds /\ t[i] # None => i \in DOMAIN u
  BY <1>4, InheritedIs
<1>6. files'[c] = u
  BY <1>1, <1>3 DEF TypeOK
<1>7. \A f \in Files : f # None
  BY ConstantsAssumption
<1>8. \A i \in (StdFds + 1)..MaxFd : i > StdFds
  BY ConstantsAssumption
<1>9. DOMAIN t = Entries(p)
  BY DEF Entries
<1> HIDE DEF t, u
<1>10. \A i \in (StdFds + 1)..MaxFd : \A f \in Files :
          (i \in DOMAIN t /\ t[i] = f) <=> (i \in DOMAIN u /\ u[i] = f)
  BY <1>5, <1>7, <1>8
<1> QED BY <1>3, <1>6, <1>9, <1>10 DEF t

\* Process::fork gives the child the parent's descriptors above the console's,
\* under the same numbers, holes included, and nothing else.
THEOREM ChildInherits == Spec => ForkInherits
<1>1. Inv /\ [Next]_vars =>
        [\A c \in Proc : state[c] = "unused" /\ state'[c] = "live" =>
            \E p \in Proc :
              /\ state[p] = "live"
              /\ \A i \in (StdFds + 1)..MaxFd : \A f \in Files :
                     (i \in Entries(p) /\ files[p][i] = f) <=>
                     (i \in DOMAIN files'[c] /\ files'[c][i] = f)]_vars
  BY ForkCopies
<1> QED BY <1>1, Invariance, PTL DEF Spec, ForkInherits
=============================================================================
