---------------------------- MODULE PagingProofs ----------------------------
(***************************************************************************)
(* Proofs about Paging for any number of processes, frames, table entries  *)
(* and pages: its invariants, and that it implements AddressSpaces.        *)
(***************************************************************************)
EXTENDS Paging, TLAPS

-----------------------------------------------------------------------------
(* Arithmetic *)

\* What the steps need of counting.  It is proved last (Counts): the library's
\* theorems about finite sets are then no part of the obligations before it.
Counting ==
    /\ \A S \in SUBSET Nat : S # {} => \E m \in S : \A n \in S : m <= n
    /\ \A fr \in SUBSET Frame :
           /\ Cardinality(fr) \in Nat
           /\ Cardinality(fr) >= 1 => fr # {}
           /\ Cardinality(fr) >= 2 => \A a \in fr : fr \ {a} # {}
           /\ Cardinality(fr) >= 3 => \A a \in fr : \A b \in fr \ {a} : (fr \ {a}) \ {b} # {}

LEMMA MinIs ==
  ASSUME NEW S \in SUBSET Int, NEW m \in S, \A x \in S : m <= x
  PROVE  Min(S) = m
<1>1. \A x \in S : (\A y \in S : x <= y) => x = m
  OBVIOUS
<1>2. Min(S) \in S /\ \A y \in S : Min(S) <= y
  BY Zenon DEF Min
<1> QED BY <1>1, <1>2, Zenon

LEMMA DivMod ==
  ASSUME NEW a \in Nat, NEW b \in Nat \ {0}
  PROVE  /\ a \div b \in Nat /\ a % b \in 0..(b - 1)
         /\ a = b * (a \div b) + (a % b)
OBVIOUS

LEMMA Multiples ==
  ASSUME NEW a \in Nat, NEW b \in Nat
  PROVE  a * b \in Nat /\ a * b = b * a /\ (b >= 1 => a * b >= a)
OBVIOUS

\* Quotient and remainder are unique.
LEMMA DivModUnique ==
  ASSUME NEW a \in Nat, NEW b \in Nat \ {0}, NEW q \in Nat, NEW r \in 0..(b - 1), a = b * q + r
  PROVE  a \div b = q /\ a % b = r
<1> DEFINE c == a \div b
           d == a % b
<1>1. c \in Nat /\ d \in 0..(b - 1) /\ a = b * c + d
  BY DivMod, Zenon
<1> HIDE DEF c, d
<1>2. b * (c - q) = r - d /\ c - q \in Int
  BY <1>1
<1>3. ~(c - q >= 1)
  <2> SUFFICES ASSUME c - q >= 1 PROVE FALSE
    BY Zenon
  <2>1. b * (c - q) >= b
    BY <1>2, Multiples
  <2> QED BY <1>1, <1>2, <2>1
<1>4. ~(q - c >= 1)
  <2> SUFFICES ASSUME q - c >= 1 PROVE FALSE
    BY Zenon
  <2>1. q - c \in Int /\ b * (q - c) >= b /\ b * (q - c) = d - r
    BY <1>1
  <2> QED BY <1>1, <2>1
<1>5. c = q
  BY <1>1, <1>3, <1>4
<1>6. d = r
  BY <1>1, <1>2, <1>5
<1> QED BY <1>5, <1>6, Zenon DEF c, d

\* A page has three indexes, and no other page has the same.
LEMMA Digits ==
  ASSUME NEW F \in Nat \ {0}, NEW v \in 0..(F * F * F - 1)
  PROVE  LET a == (v \div (F * F)) % F
             b == (v \div F) % F
             c == v % F
         IN  /\ a \in 0..(F - 1) /\ b \in 0..(F - 1) /\ c \in 0..(F - 1)
             /\ v = F * (F * a + b) + c
<1> DEFINE q == v \div F
           c == v % F
           p == q \div F
           b == q % F
<1>1. v \in Nat /\ F * F \in Nat \ {0} /\ v < F * F * F
  <2>1. F * F \in Nat /\ F * F >= F
    BY Multiples
  <2>2. F * F * F \in Nat
    BY <2>1, Multiples, Zenon
  <2> QED BY <2>1, <2>2
<1>2. q \in Nat /\ c \in 0..(F - 1) /\ v = F * q + c
  BY <1>1, DivMod, Zenon
<1>3. p \in Nat /\ b \in 0..(F - 1) /\ q = F * p + b
  <2> HIDE DEF q
  <2> QED BY <1>2, DivMod, Zenon
<1> HIDE DEF q, c, p, b
<1>4. v = (F * F) * p + (F * b + c)
  BY <1>2, <1>3
<1>5. F * b + c \in 0..(F * F - 1)
  <2>1. F * b \in Nat /\ F * b <= F * (F - 1)
    BY <1>3, Multiples
  <2> QED BY <1>2, <2>1
<1>6. v \div (F * F) = p
  <2> DEFINE n == F * F
             d == F * b + c
  <2>1. n \in Nat \ {0} /\ d \in 0..(n - 1) /\ v = n * p + d
    BY <1>1, <1>4, <1>5, Zenon
  <2> HIDE DEF n, d
  <2>2. v \div n = p
    BY <1>1, <1>3, <2>1, DivModUnique, Zenon
  <2> QED BY <2>2, Zenon DEF n
<1>7. p \in 0..(F - 1)
  <2> SUFFICES ASSUME p >= F PROVE FALSE
    BY <1>3
  <2> DEFINE n == F * F
             d == F * b + c
  <2>1. n \in Nat /\ d \in Nat /\ v \in Nat /\ v < n * F /\ v = n * p + d
    BY <1>1, <1>4, <1>5
  <2> HIDE DEF n, d
  <2>2. n * p >= n * F /\ n * p \in Nat /\ n * F \in Nat
    BY <1>3, <2>1, Multiples
  <2> QED BY <2>1, <2>2
<1>8. p % F = p
  <2>1. p = F * 0 + p
    BY <1>3
  <2> QED BY <1>3, <1>7, <2>1, DivModUnique, Zenon
<1> QED BY <1>2, <1>3, <1>6, <1>7, <1>8, Zenon DEF q, c, b

\* The powers of two that the allocator rounds to.
LEMMA Powers ==
  /\ \A k \in 0..MaxOrder : 2 ^ k \in Nat
  /\ 2 ^ 0 = 1 /\ 2 ^ MaxOrder >= 1
<1>1. /\ 2 ^ 0 \in Nat /\ 2 ^ 1 \in Nat /\ 2 ^ 2 \in Nat /\ 2 ^ 3 \in Nat /\ 2 ^ 4 \in Nat
      /\ 2 ^ 5 \in Nat /\ 2 ^ 6 \in Nat /\ 2 ^ 7 \in Nat /\ 2 ^ 8 \in Nat /\ 2 ^ 9 \in Nat
      /\ 2 ^ 10 \in Nat /\ 2 ^ 11 \in Nat /\ 2 ^ 12 \in Nat
  OBVIOUS
<1>2. 0..12 = {0, 1, 2, 3, 4, 5, 6, 7, 8, 9, 10, 11, 12}
  OBVIOUS
<1>3. \A k \in {0, 1, 2, 3, 4, 5, 6, 7, 8, 9, 10, 11, 12} : 2 ^ k \in Nat
  BY <1>1, Zenon
<1>4. \A k \in 0..12 : 2 ^ k \in Nat
  BY <1>2, <1>3, Zenon
<1>5. 2 ^ 0 = 1 /\ 2 ^ 12 >= 1
  OBVIOUS
<1> QED BY <1>4, <1>5, Zenon DEF MaxOrder

LEMMA RoundedIs ==
  ASSUME NEW n \in 1..(2 ^ MaxOrder)
  PROVE  /\ Counting => Rounded(n) \in Nat /\ Rounded(n) >= n
         /\ n = 1 => Rounded(n) = 1
<1> DEFINE P == {2 ^ k : k \in 0..MaxOrder}
           S == P \ 0..(n - 1)
           top == 2 ^ MaxOrder
<1>1. P \in SUBSET Nat
  BY Powers, Zenon
<1>2. 0 \in 0..MaxOrder /\ MaxOrder \in 0..MaxOrder
  BY DEF MaxOrder
<1>3. 1 \in P
  BY Powers, <1>2, Zenon
<1>4. top \in P /\ n \in 1..top
  BY <1>2, Zenon
<1>5. Rounded(n) = Min(S)
  BY Zenon DEF Rounded
<1> HIDE DEF top, P
<1>6. S \in SUBSET Nat /\ top \in S /\ \A x \in S : x >= n
  BY <1>1, <1>4
<1>7. n = 1 => 1 \in S
  BY <1>3
<1> HIDE DEF S
<1>8. ASSUME Counting PROVE Min(S) \in Nat /\ Min(S) >= n
  <2>1. PICK m \in S : \A x \in S : m <= x
    BY <1>6, <1>8, Zenon DEF Counting
  <2>2. Min(S) = m
    BY <1>6, <2>1, MinIs
  <2> QED BY <1>6, <2>1, <2>2, Zenon
<1>9. ASSUME n = 1 PROVE Min(S) = 1
  BY <1>6, <1>7, <1>9, MinIs
<1> QED BY <1>5, <1>8, <1>9, Zenon

-----------------------------------------------------------------------------
(* Page tables *)

\* The page of an address is in three tables, at these indexes.
I1(v) == get_pte_indexes(v)[1]
I2(v) == get_pte_indexes(v)[2]
I3(v) == get_pte_indexes(v)[3]

LEMMA Indexes ==
  /\ \A v \in UserPage : I1(v) \in Index /\ I1(v) # KernelIndex /\ I2(v) \in Index /\ I3(v) \in Index
  /\ \A v, w \in UserPage : I1(v) = I1(w) /\ I2(v) = I2(w) /\ I3(v) = I3(w) => v = w
<1>1. Fanout \in Nat \ {0}
  BY ConstantsAssumption, Zenon
<1>2. \A v \in UserPage : /\ I1(v) \in Index /\ I2(v) \in Index /\ I3(v) \in Index
                          /\ v = Fanout * (Fanout * I1(v) + I2(v)) + I3(v)
  <2> SUFFICES ASSUME NEW v \in UserPage
               PROVE  /\ I1(v) \in Index /\ I2(v) \in Index /\ I3(v) \in Index
                      /\ v = Fanout * (Fanout * I1(v) + I2(v)) + I3(v)
    BY Zenon
  <2>1. v \in 0..(Fanout * Fanout * Fanout - 1)
    BY Zenon DEF UserPage
  <2>2. /\ I1(v) = (v \div (Fanout * Fanout)) % Fanout
        /\ I2(v) = (v \div Fanout) % Fanout
        /\ I3(v) = v % Fanout
    BY Zenon DEF I1, I2, I3, get_pte_indexes
  <2> QED BY <1>1, <2>1, <2>2, Digits, Zenon DEF Index
<1>3. \A v \in UserPage : I1(v) # KernelIndex
  BY Zenon DEF UserPage, I1
<1> QED BY <1>2, <1>3, Zenon

PTE == [valid : BOOLEAN, frame : Nat]
Content == [Index -> PTE]
Mem == [Frame -> Content]

LEMMA Walks ==
  ASSUME NEW m, NEW r, NEW v
  PROVE  /\ Second(m, r, v) = m[r][I1(v)]
         /\ Third(m, r, v) = m[Second(m, r, v).frame][I2(v)]
         /\ Leaf(m, r, v) = m[Third(m, r, v).frame][I3(v)]
BY Zenon DEF Second, Third, Leaf, I1, I2, I3

\* The walk reaches a table of the second level, and one of the third.
Has2(m, r, v) == Second(m, r, v).valid
Has3(m, r, v) == Has2(m, r, v) /\ Third(m, r, v).valid

\* The tables below r are among the pages P, and no two entries name one.
Tree(m, r, P) ==
    /\ P \in SUBSET Frame /\ r \in P
    /\ \A v \in UserPage : Has2(m, r, v) => Second(m, r, v).frame \in P \ {r}
    /\ \A v \in UserPage : Has3(m, r, v) => Third(m, r, v).frame \in P \ {r}
    /\ \A v, w \in UserPage : Has2(m, r, v) /\ Has3(m, r, w)
                              => Second(m, r, v).frame # Third(m, r, w).frame
    /\ \A v, w \in UserPage : /\ Has2(m, r, v) /\ Has2(m, r, w)
                              /\ Second(m, r, v).frame = Second(m, r, w).frame
                              => I1(v) = I1(w)
    /\ \A v, w \in UserPage : /\ Has3(m, r, v) /\ Has3(m, r, w)
                              /\ Third(m, r, v).frame = Third(m, r, w).frame
                              => I1(v) = I1(w) /\ I2(v) = I2(w)

\* Every walk finds the same, or passes as many tables, and every frame that is not in Q holds the same.
SameTranslations(n, m, r) == \A w \in UserPage : translate(n, r, w) = translate(m, r, w)
SameTables(n, m, r) ==
    \A w \in UserPage : (Has2(n, r, w) <=> Has2(m, r, w)) /\ (Has3(n, r, w) <=> Has3(m, r, w))
SameOutside(n, m, Q) == \A g \in Frame \ Q : n[g] = m[g]

LEMMA TranslateIs ==
  ASSUME NEW m \in Mem, NEW r, NEW P, Tree(m, r, P), NEW v \in UserPage
  PROVE  /\ translate(m, r, v) = IF Has3(m, r, v) /\ Leaf(m, r, v).valid
                                 THEN Leaf(m, r, v).frame ELSE NoFrame
         /\ translate(m, r, v) \in Nat \cup {NoFrame}
         /\ translate(m, r, v) # NoFrame => Has3(m, r, v) /\ Leaf(m, r, v).valid
         /\ Second(m, r, v) \in PTE
         /\ Has2(m, r, v) => Third(m, r, v) \in PTE
         /\ Has3(m, r, v) => Leaf(m, r, v) \in PTE
<1>1. Second(m, r, v) \in PTE
  BY Walks, Indexes DEF Tree, Mem, Content
<1>2. Has2(m, r, v) => Third(m, r, v) \in PTE
  BY Walks, Indexes DEF Tree, Mem, Content
<1>3. Has3(m, r, v) => Leaf(m, r, v) \in PTE
  BY Walks, Indexes DEF Tree, Mem, Content
<1>4. translate(m, r, v) = IF Has3(m, r, v) /\ Leaf(m, r, v).valid
                           THEN Leaf(m, r, v).frame ELSE NoFrame
  BY Zenon DEF translate, Has3, Has2
<1> QED BY <1>1, <1>2, <1>3, <1>4, Zenon DEF PTE, NoFrame

\* A walk depends on the pages of the table only.
LEMMA SameWalk ==
  ASSUME NEW m, NEW n, NEW r, NEW P, Tree(m, r, P), \A f \in P : n[f] = m[f]
  PROVE  Tree(n, r, P) /\ SameTables(n, m, r) /\ SameTranslations(n, m, r)
<1>1. \A v \in UserPage : /\ Second(n, r, v) = Second(m, r, v)
                          /\ Has2(n, r, v) <=> Has2(m, r, v)
  BY Walks DEF Tree, Has2
<1>2. \A v \in UserPage : Has2(m, r, v) => Third(n, r, v) = Third(m, r, v)
  BY <1>1, Walks DEF Tree
<1>3. \A v \in UserPage : Has3(n, r, v) <=> Has3(m, r, v)
  BY <1>1, <1>2, Zenon DEF Has3
<1>4. \A v \in UserPage : Has3(m, r, v) => Leaf(n, r, v) = Leaf(m, r, v)
  BY <1>1, <1>2, <1>3, Walks DEF Tree, Has3
<1>5. \A v \in UserPage : translate(n, r, v) = translate(m, r, v)
  BY <1>1, <1>2, <1>3, <1>4, Zenon DEF translate, Has2, Has3
<1>6. Tree(n, r, P)
  BY <1>1, <1>2, <1>3 DEF Tree, Has3
<1> QED BY <1>1, <1>3, <1>5, <1>6, Zenon DEF SameTables, SameTranslations

\* Writing one entry of a table.
Written(m, t, i, e) == [m EXCEPT ![t][i] = e]

LEMMA EntryWritten ==
  ASSUME NEW m \in Mem, NEW t \in Frame, NEW i \in Index, NEW e \in PTE,
         NEW n, n = Written(m, t, i, e)
  PROVE  /\ n \in Mem
         /\ n[t][i] = e
         /\ \A j \in Index : j # i => n[t][j] = m[t][j]
         /\ \A f \in Frame \ {t} : n[f] = m[f]
BY Zenon DEF Mem, Content, Written

\* Setting a leaf changes what the walk of that page finds and nothing else.
LEMMA LeafSet ==
  ASSUME NEW m \in Mem, NEW r, NEW P, Tree(m, r, P), NEW v \in UserPage, Has3(m, r, v), NEW e \in PTE
  PROVE  LET n == SetLeaf(m, r, v, e)
         IN  /\ n \in Mem /\ Tree(n, r, P)
             /\ \A f \in Frame \ P : n[f] = m[f]
             /\ translate(n, r, v) = IF e.valid THEN e.frame ELSE NoFrame
             /\ \A w \in UserPage : w # v => translate(n, r, w) = translate(m, r, w)
             /\ \A w \in UserPage : Has3(m, r, w) => Has3(n, r, w)
<1> DEFINE t == Third(m, r, v).frame
           n == SetLeaf(m, r, v, e)
<1>1. t \in P \ {r} /\ P \in SUBSET Frame /\ r \in P
  BY Zenon DEF Tree
<1>2. n = Written(m, t, I3(v), e)
  BY Zenon DEF SetLeaf, I3, Written
<1>3. /\ n \in Mem /\ n[t][I3(v)] = e
      /\ \A j \in Index : j # I3(v) => n[t][j] = m[t][j]
      /\ \A f \in Frame \ {t} : n[f] = m[f]
  <2> HIDE DEF t, n
  <2>1. t \in Frame /\ I3(v) \in Index
    BY <1>1, Indexes, Zenon
  <2> QED BY <1>2, <2>1, EntryWritten
<1> HIDE DEF t, n
<1>4. \A w \in UserPage : /\ Second(n, r, w) = Second(m, r, w)
                          /\ Has2(n, r, w) <=> Has2(m, r, w)
  BY <1>1, <1>3, Walks DEF Has2
<1>5. \A w \in UserPage : Has2(m, r, w) => Third(n, r, w) = Third(m, r, w)
  BY <1>1, <1>3, <1>4, Walks DEF Tree, t
<1>6. \A w \in UserPage : Has3(n, r, w) <=> Has3(m, r, w)
  BY <1>4, <1>5, Zenon DEF Has3
<1>7. Tree(n, r, P)
  BY <1>4, <1>5, <1>6, Zenon DEF Tree, Has3
<1>8. \A w \in UserPage : Has3(m, r, w) /\ w # v => Leaf(n, r, w) = Leaf(m, r, w)
  <2> SUFFICES ASSUME NEW w \in UserPage, Has3(m, r, w), w # v
               PROVE  Leaf(n, r, w) = Leaf(m, r, w)
    BY Zenon
  <2>1. Third(n, r, w) = Third(m, r, w)
    BY <1>5, Zenon DEF Has3
  <2>2. CASE Third(m, r, w).frame # t
    BY <1>1, <1>3, <2>1, <2>2, Walks DEF Tree
  <2>3. CASE Third(m, r, w).frame = t
    <3>1. I1(w) = I1(v) /\ I2(w) = I2(v)
      BY <2>3, Zenon DEF Tree, t
    <3>2. I3(w) # I3(v) /\ I3(w) \in Index
      BY <3>1, Indexes, Zenon
    <3> QED BY <1>3, <2>1, <2>3, <3>2, Walks
  <2> QED BY <2>2, <2>3, Zenon
<1>9. Leaf(n, r, v) = e
  BY <1>3, <1>5, Walks DEF Has3, t
<1>10. \A w \in UserPage : w # v => translate(n, r, w) = translate(m, r, w)
  BY <1>3, <1>6, <1>7, <1>8, TranslateIs
<1>11. translate(n, r, v) = IF e.valid THEN e.frame ELSE NoFrame
  BY <1>3, <1>6, <1>7, <1>9, TranslateIs, Zenon
<1>12. \A f \in Frame \ P : n[f] = m[f]
  BY <1>1, <1>3, Zenon
<1> QED BY <1>3, <1>6, <1>7, <1>10, <1>11, <1>12, Zenon DEF n

\* A new table at entry i of table t.
NewBelow(m, t, i, f) == [PhyPage_alloc(m, f) EXCEPT ![t][i] = Entry(f)]

LEMMA NewBelowIs ==
  ASSUME NEW m \in Mem, NEW t \in Frame, NEW i \in Index, NEW f \in Frame, f # t
  PROVE  LET n == NewBelow(m, t, i, f)
         IN  /\ n \in Mem
             /\ n[t][i].valid /\ n[t][i].frame = f
             /\ \A j \in Index : j # i => n[t][j] = m[t][j]
             /\ \A j \in Index : ~n[f][j].valid
             /\ \A g \in Frame \ {t, f} : n[g] = m[g]
<1> DEFINE k == PhyPage_alloc(m, f)
<1>1. Entry(f) \in PTE /\ Entry(f).valid /\ Entry(f).frame = f
  BY ConstantsAssumption DEF Entry, PTE, Frame
<1>2. Zero \in Content /\ \A j \in Index : ~Zero[j].valid
  BY Zenon DEF Zero, Content, Invalid, PTE
<1>3. k \in Mem /\ k[f] = Zero /\ \A g \in Frame \ {f} : k[g] = m[g]
  BY <1>2, Zenon DEF PhyPage_alloc, Mem
<1> HIDE DEF k
<1>4. NewBelow(m, t, i, f) = [k EXCEPT ![t][i] = Entry(f)]
  BY Zenon DEF NewBelow, k
<1> DEFINE n == NewBelow(m, t, i, f)
<1> HIDE DEF n
<1>5. n = Written(k, t, i, Entry(f))
  BY <1>4, Zenon DEF n, Written
<1>6. /\ n \in Mem /\ n[t][i] = Entry(f)
      /\ \A j \in Index : j # i => n[t][j] = k[t][j]
      /\ \A g \in Frame \ {t} : n[g] = k[g]
  BY <1>1, <1>3, <1>5, EntryWritten
<1> QED BY <1>1, <1>2, <1>3, <1>6, Zenon DEF n

\* A new table of the second level.
LEMMA Descend1 ==
  ASSUME NEW m \in Mem, NEW r, NEW P, Tree(m, r, P), NEW v \in UserPage, ~Has2(m, r, v),
         NEW f \in Frame \ P
  PROVE  LET n == NewBelow(m, r, I1(v), f)
         IN  /\ n \in Mem /\ Tree(n, r, P \cup {f})
             /\ Has2(n, r, v) /\ ~Has3(n, r, v)
             /\ \A w \in UserPage : translate(n, r, w) = translate(m, r, w)
             /\ \A g \in Frame \ (P \cup {f}) : n[g] = m[g]
<1> DEFINE n == NewBelow(m, r, I1(v), f)
           Q == P \cup {f}
<1>1. P \in SUBSET Frame /\ r \in P /\ r \in Frame /\ f # r
  BY Zenon DEF Tree
<1>2. /\ n \in Mem
      /\ n[r][I1(v)].valid /\ n[r][I1(v)].frame = f
      /\ \A j \in Index : j # I1(v) => n[r][j] = m[r][j]
      /\ \A j \in Index : ~n[f][j].valid
      /\ \A g \in Frame \ {r, f} : n[g] = m[g]
  BY <1>1, Indexes, NewBelowIs
<1> HIDE DEF n
<1>3. \A w \in UserPage : I1(w) = I1(v) => /\ Has2(n, r, w) /\ Second(n, r, w).frame = f
                                           /\ ~Has3(n, r, w) /\ ~Has2(m, r, w)
  BY <1>2, Walks, Indexes DEF Has2, Has3
<1>4. \A w \in UserPage : I1(w) # I1(v) => /\ Second(n, r, w) = Second(m, r, w)
                                           /\ Has2(n, r, w) <=> Has2(m, r, w)
  BY <1>2, Walks, Indexes DEF Has2
<1>5. \A w \in UserPage : I1(w) # I1(v) /\ Has2(m, r, w) => Third(n, r, w) = Third(m, r, w)
  BY <1>1, <1>2, <1>4, Walks DEF Tree
<1>6. \A w \in UserPage : Has3(n, r, w) <=> Has3(m, r, w)
  BY <1>3, <1>4, <1>5, Zenon DEF Has3
<1>7. \A w \in UserPage : Has3(m, r, w) => I1(w) # I1(v) /\ Third(n, r, w) = Third(m, r, w)
  BY <1>3, <1>5, Zenon DEF Has3
<1>8. \A w \in UserPage : Has3(m, r, w) => Leaf(n, r, w) = Leaf(m, r, w)
  BY <1>1, <1>2, <1>7, Walks DEF Tree
<1>9. Tree(n, r, Q)
  <2>1. \A w \in UserPage : Has2(n, r, w) => Second(n, r, w).frame \in Q \ {r}
    BY <1>1, <1>3, <1>4, Zenon DEF Tree
  <2>2. \A w \in UserPage : Has3(n, r, w) => Third(n, r, w).frame \in P \ {r}
    BY <1>6, <1>7, Zenon DEF Tree
  <2>3. \A w, u \in UserPage : Has2(n, r, w) /\ Has3(n, r, u)
                               => Second(n, r, w).frame # Third(n, r, u).frame
    BY <1>3, <1>4, <1>6, <1>7, <2>2, Zenon DEF Tree
  <2>4. \A w, u \in UserPage : /\ Has2(n, r, w) /\ Has2(n, r, u)
                               /\ Second(n, r, w).frame = Second(n, r, u).frame
                               => I1(w) = I1(u)
    BY <1>3, <1>4 DEF Tree
  <2>5. \A w, u \in UserPage : /\ Has3(n, r, w) /\ Has3(n, r, u)
                               /\ Third(n, r, w).frame = Third(n, r, u).frame
                               => I1(w) = I1(u) /\ I2(w) = I2(u)
    BY <1>6, <1>7, Zenon DEF Tree
  <2> QED BY <1>1, <2>1, <2>2, <2>3, <2>4, <2>5, Zenon DEF Tree
<1>10. \A w \in UserPage : translate(n, r, w) = translate(m, r, w)
  BY <1>2, <1>6, <1>8, <1>9, TranslateIs
<1> QED BY <1>1, <1>2, <1>3, <1>9, <1>10, Zenon DEF n

\* A new table of the third level.
LEMMA Descend2 ==
  ASSUME NEW m \in Mem, NEW r, NEW P, Tree(m, r, P), NEW v \in UserPage,
         Has2(m, r, v), ~Has3(m, r, v), NEW f \in Frame \ P,
         NEW t, t = Second(m, r, v).frame, NEW n, n = NewBelow(m, t, I2(v), f)
  PROVE  /\ n \in Mem /\ Tree(n, r, P \cup {f})
         /\ Has2(n, r, v) /\ Third(n, r, v).valid
         /\ SameTranslations(n, m, r) /\ SameOutside(n, m, P \cup {f})
<1> DEFINE Q == P \cup {f}
<1>1. P \in SUBSET Frame /\ r \in P /\ f # r /\ t \in P \ {r} /\ t \in Frame /\ f # t
  BY Zenon DEF Tree
<1>2. /\ n \in Mem
      /\ n[t][I2(v)].valid /\ n[t][I2(v)].frame = f
      /\ \A j \in Index : j # I2(v) => n[t][j] = m[t][j]
      /\ \A j \in Index : ~n[f][j].valid
      /\ \A g \in Frame \ {t, f} : n[g] = m[g]
  <2>1. t \in Frame /\ f \in Frame /\ f # t /\ I2(v) \in Index
    BY <1>1, Indexes, Zenon
  <2> QED BY <2>1, NewBelowIs
<1>3. \A w \in UserPage : /\ Second(n, r, w) = Second(m, r, w)
                          /\ Has2(n, r, w) <=> Has2(m, r, w)
  BY <1>1, <1>2, Walks DEF Has2
<1> DEFINE At(w) == I1(w) = I1(v) /\ I2(w) = I2(v)
<1>4. \A w \in UserPage : At(w) => Second(m, r, w).frame = t /\ Has2(m, r, w) /\ ~Has3(m, r, w)
  BY Walks DEF Has2, Has3
<1>5. \A w \in UserPage : At(w) => /\ Has3(n, r, w) /\ Third(n, r, w).frame = f
                                   /\ ~Leaf(n, r, w).valid
  <2> SUFFICES ASSUME NEW w \in UserPage, At(w)
               PROVE  /\ Has3(n, r, w) /\ Third(n, r, w).frame = f
                      /\ ~Leaf(n, r, w).valid
    BY Zenon
  <2>1. Third(n, r, w) = n[t][I2(v)]
    BY <1>3, <1>4, Walks
  <2> QED BY <1>2, <1>3, <1>4, <2>1, Walks, Indexes DEF Has3
<1>6. \A w \in UserPage : ~At(w) /\ Has2(m, r, w) => Third(n, r, w) = Third(m, r, w)
  <2> SUFFICES ASSUME NEW w \in UserPage, ~At(w), Has2(m, r, w)
               PROVE  Third(n, r, w) = Third(m, r, w)
    BY Zenon
  <2>1. CASE Second(m, r, w).frame = t
    <3>1. I1(w) = I1(v)
      BY <2>1, Zenon DEF Tree
    <3> QED BY <1>2, <1>3, <2>1, <3>1, Walks, Indexes
  <2>2. CASE Second(m, r, w).frame # t
    BY <1>1, <1>2, <1>3, <2>2, Walks, SMTT(20) DEF Tree
  <2> QED BY <2>1, <2>2, Zenon
<1>7. \A w \in UserPage : ~At(w) => (Has3(n, r, w) <=> Has3(m, r, w))
  BY <1>3, <1>6, Zenon DEF Has3
<1>8. \A w \in UserPage : Has3(m, r, w) => /\ ~At(w) /\ Third(n, r, w) = Third(m, r, w)
                                           /\ Leaf(n, r, w) = Leaf(m, r, w)
  <2> SUFFICES ASSUME NEW w \in UserPage, Has3(m, r, w)
               PROVE  /\ ~At(w) /\ Third(n, r, w) = Third(m, r, w)
                      /\ Leaf(n, r, w) = Leaf(m, r, w)
    BY Zenon
  <2>1. ~At(w) /\ Third(n, r, w) = Third(m, r, w)
    BY <1>4, <1>6, Zenon DEF Has3
  <2>2. Third(m, r, w).frame \in P \ {t}
    BY Zenon DEF Tree
  <2> QED BY <1>1, <1>2, <2>1, <2>2, Walks, SMTT(20)
<1> HIDE DEF At
<1>9. Tree(n, r, Q)
  <2>1. \A w \in UserPage : Has2(n, r, w) => Second(n, r, w).frame \in P \ {r}
    BY <1>3, Zenon DEF Tree
  <2>2. \A w \in UserPage : Has3(n, r, w) =>
            \/ At(w) /\ Third(n, r, w).frame = f
            \/ ~At(w) /\ Has3(m, r, w) /\ Third(n, r, w) = Third(m, r, w)
    BY <1>5, <1>7, <1>8, Zenon
  <2>3. \A w \in UserPage : Has3(n, r, w) => Third(n, r, w).frame \in Q \ {r}
    BY <1>1, <2>2, Zenon DEF Tree
  <2>4. \A w, u \in UserPage : Has2(n, r, w) /\ Has3(n, r, u)
                               => Second(n, r, w).frame # Third(n, r, u).frame
    BY <1>3, <2>1, <2>2 DEF Tree
  <2>5. \A w, u \in UserPage : /\ Has2(n, r, w) /\ Has2(n, r, u)
                               /\ Second(n, r, w).frame = Second(n, r, u).frame
                               => I1(w) = I1(u)
    BY <1>3 DEF Tree
  <2>6. \A w, u \in UserPage : /\ Has3(n, r, w) /\ Has3(n, r, u)
                               /\ Third(n, r, w).frame = Third(n, r, u).frame
                               => I1(w) = I1(u) /\ I2(w) = I2(u)
    BY <2>2 DEF Tree, At
  <2> QED BY <1>1, <2>1, <2>3, <2>4, <2>5, <2>6, Zenon DEF Tree
<1>10. \A w \in UserPage : translate(n, r, w) = translate(m, r, w)
  <2>1. \A w \in UserPage : At(w) => translate(n, r, w) = NoFrame /\ translate(m, r, w) = NoFrame
    BY <1>2, <1>4, <1>5, <1>9, TranslateIs, Zenon
  <2>2. \A w \in UserPage : ~At(w) => translate(n, r, w) = translate(m, r, w)
    BY <1>2, <1>7, <1>8, <1>9, TranslateIs, SMTT(20)
  <2> QED BY <2>1, <2>2, Zenon
<1>11. Has2(n, r, v) /\ Third(n, r, v).valid
  BY <1>5, Zenon DEF At, Has3
<1> QED BY <1>1, <1>2, <1>9, <1>10, <1>11, Zenon DEF SameTranslations, SameOutside

-----------------------------------------------------------------------------
(* The allocator *)

\* PhyPage::alloc finds a page whenever there is one.
LEMMA OnePage ==
  ASSUME NEW fr \in SUBSET Frame, fr # {}
  PROVE  alloc(fr, 1) \in fr
<1>1. 1 \in 1..(2 ^ MaxOrder)
  <2> DEFINE top == 2 ^ MaxOrder
  <2>1. 0 \in 0..MaxOrder /\ MaxOrder \in 0..MaxOrder
    BY DEF MaxOrder
  <2>2. top \in Nat /\ top >= 1
    BY <2>1, Powers, Zenon
  <2> HIDE DEF top
  <2>3. 1 \in 1..top
    BY <2>2
  <2> QED BY <2>3, Zenon DEF top
<1>2. Rounded(1) = 1
  BY <1>1, RoundedIs, Zenon
<1>3. \A f \in fr : f % 1 = 0 /\ f..(f + 1 - 1) \subseteq fr
  BY ConstantsAssumption DEF Frame
<1>4. Block(fr, Rounded(1)) = fr
  BY <1>2, <1>3, Zenon DEF Block
<1> QED BY <1>4, Zenon DEF alloc

\* alloc_many takes free pages, and returns pages that it took.
LEMMA ManyPages ==
  ASSUME Counting, NEW fr \in SUBSET Frame, NEW n \in BufferPages \cup {StackPages},
         CanAlloc(fr, n)
  PROVE  Taken(fr, n) \in SUBSET fr /\ Owned(fr, n) \in SUBSET Taken(fr, n)
<1>1. n \in 1..(2 ^ MaxOrder)
  BY ConstantsAssumption, Zenon
<1>2. Rounded(n) \in Nat /\ Rounded(n) >= n
  BY <1>1, RoundedIs, Zenon
<1>3. alloc(fr, n) \in Block(fr, Rounded(n))
  BY Zenon DEF CanAlloc, alloc
<1>4. Taken(fr, n) \in SUBSET fr /\ alloc(fr, n) \in Int
  <2>1. FrameCount \in Nat
    BY ConstantsAssumption, Zenon
  <2> DEFINE a == alloc(fr, n)
             k == Rounded(n)
  <2>2. a \in Block(fr, k) /\ Taken(fr, n) = a..(a + k - 1)
    BY <1>3, Zenon DEF Taken
  <2> HIDE DEF a, k
  <2>3. a \in fr /\ a..(a + k - 1) \subseteq fr
    BY <2>2, Zenon DEF Block
  <2>4. a \in Int
    BY <2>1, <2>3 DEF Frame
  <2> QED BY <2>2, <2>3, <2>4, Zenon DEF a
<1>5. n \in Int
  BY <1>1
<1>6. Owned(fr, n) \in SUBSET Taken(fr, n)
  BY <1>2, <1>4, <1>5 DEF Owned, Taken
<1> QED BY <1>4, <1>6, Zenon

\* find_pte_create has a page for every table that it allocates.
Spare(fr, m, r, v) ==
    /\ ~Has3(m, r, v) => fr # {}
    /\ ~Has2(m, r, v) => \A f \in fr : fr \ {f} # {}

\* find_pte_create, then PageTable::map: the tables it needs come from free
\* pages, and the walk of that page finds the frame; other pages, and frames
\* that are no tables of this one, stay as they are.
LEMMA Create ==
  ASSUME NEW m \in Mem, NEW r, NEW P, Tree(m, r, P), NEW v \in UserPage,
         NEW fr \in SUBSET Frame, fr \cap P = {}, Spare(fr, m, r, v),
         NEW y, y = find_pte_create(State(fr, m, P), r, v)
  PROVE  /\ y = State(y.free, y.mem, y.pages)
         /\ y.free \in SUBSET fr /\ y.pages = P \cup (fr \ y.free)
         /\ y.mem \in Mem /\ Tree(y.mem, r, y.pages) /\ Has3(y.mem, r, v)
         /\ \A w \in UserPage : translate(y.mem, r, w) = translate(m, r, w)
         /\ \A g \in Frame \ y.pages : y.mem[g] = m[g]
<1> DEFINE x == State(fr, m, P)
           z == Descend(x, r, I1(v))
<1>1. y = Descend(z, z.mem[r][I1(v)].frame, I2(v))
  BY Zenon DEF find_pte_create, I1, I2
<1>2. x.free = fr /\ x.mem = m /\ x.pages = P
  BY Zenon DEF State
<1>3. /\ z = State(z.free, z.mem, z.pages)
      /\ z.free \in SUBSET fr /\ z.pages = P \cup (fr \ z.free)
      /\ z.mem \in Mem /\ Tree(z.mem, r, z.pages) /\ Has2(z.mem, r, v)
      /\ ~Has3(z.mem, r, v) => z.free # {}
      /\ \A w \in UserPage : translate(z.mem, r, w) = translate(m, r, w)
      /\ \A g \in Frame \ z.pages : z.mem[g] = m[g]
  <2>1. CASE Has2(m, r, v)
    <3>1. z = x
      BY <1>2, <2>1, Walks DEF Descend, Has2
    <3>2. P = P \cup (fr \ fr)
      BY Zenon
    <3> HIDE DEF z
    <3> QED BY <1>2, <2>1, <3>1, <3>2, Zenon DEF Spare, State
  <2>2. CASE ~Has2(m, r, v)
    <3> DEFINE f == alloc(fr, 1)
               n == NewBelow(m, r, I1(v), f)
    <3>1. z = State(fr \ {f}, n, P \cup {f})
      BY <1>2, <2>2, Walks DEF Descend, Has2, NewBelow
    <3>2. f \in fr /\ fr \ {f} # {}
      BY <2>2, OnePage, Zenon DEF Spare, Has3
    <3> HIDE DEF f
    <3>3. /\ n \in Mem /\ Tree(n, r, P \cup {f})
          /\ Has2(n, r, v) /\ ~Has3(n, r, v)
          /\ \A w \in UserPage : translate(n, r, w) = translate(m, r, w)
          /\ \A g \in Frame \ (P \cup {f}) : n[g] = m[g]
      BY <2>2, <3>2, Descend1
    <3> HIDE DEF n, z
    <3>4. z.free = fr \ {f} /\ z.mem = n /\ z.pages = P \cup {f}
      BY <3>1, Zenon DEF State
    <3>5. P \cup {f} = P \cup (fr \ (fr \ {f}))
      BY <3>2, Zenon
    <3> QED BY <3>1, <3>2, <3>3, <3>4, <3>5, Zenon
  <2> QED BY <2>1, <2>2, Zenon
<1> HIDE DEF z, x
<1>4. z.mem[r][I1(v)].frame = Second(z.mem, r, v).frame
  BY Walks
<1>5. CASE Has3(z.mem, r, v)
  <2>1. y = z
    BY <1>1, <1>4, <1>5, Walks DEF Descend, Has3
  <2> QED BY <1>3, <1>5, <2>1, Zenon
<1>6. CASE ~Has3(z.mem, r, v)
  <2> DEFINE f == alloc(z.free, 1)
             t == Second(z.mem, r, v).frame
             n == NewBelow(z.mem, t, I2(v), f)
  <2>1. y = State(z.free \ {f}, n, z.pages \cup {f})
    BY <1>1, <1>3, <1>4, <1>6, Walks DEF Descend, Has3, NewBelow
  <2>2. f \in z.free /\ f \in Frame \ z.pages
    BY <1>3, <1>6, OnePage, Zenon
  <2> HIDE DEF f
  <2>3. /\ n \in Mem /\ Tree(n, r, z.pages \cup {f})
        /\ Has3(n, r, v)
        /\ \A w \in UserPage : translate(n, r, w) = translate(z.mem, r, w)
        /\ \A g \in Frame \ (z.pages \cup {f}) : n[g] = z.mem[g]
    <3>1. z.mem \in Mem /\ Tree(z.mem, r, z.pages) /\ Has2(z.mem, r, v)
      BY <1>3, Zenon
    <3> DEFINE mm == z.mem
               PP == z.pages
    <3>2. mm \in Mem /\ Tree(mm, r, PP) /\ Has2(mm, r, v) /\ ~Has3(mm, r, v) /\ f \in Frame \ PP
      BY <1>6, <2>2, <3>1, Zenon
    <3>3. t = Second(mm, r, v).frame /\ n = NewBelow(mm, t, I2(v), f)
      BY Zenon
    <3> HIDE DEF mm, PP, n, t
    <3>4. /\ n \in Mem /\ Tree(n, r, PP \cup {f})
          /\ Has2(n, r, v) /\ Third(n, r, v).valid
          /\ SameTranslations(n, mm, r) /\ SameOutside(n, mm, PP \cup {f})
      BY <3>2, <3>3, Descend2, Zenon
    <3> QED BY <3>4, Zenon DEF mm, PP, Has3, SameTranslations, SameOutside
  <2> HIDE DEF n
  <2>4. y.free = z.free \ {f} /\ y.mem = n /\ y.pages = z.pages \cup {f}
    BY <2>1 DEF State
  <2>5. z.pages \cup {f} = P \cup (fr \ (z.free \ {f}))
    BY <1>3, <2>2, Zenon
  <2> QED BY <1>3, <2>1, <2>2, <2>3, <2>4, <2>5, Zenon
<1> QED BY <1>5, <1>6, Zenon

\* y is the state with the page v at frame f, its new tables from fr.
MapsTo(y, fr, m, P, r, v, f) ==
    /\ y.free \in SUBSET fr /\ y.pages = P \cup (fr \ y.free)
    /\ y.mem \in Mem /\ Tree(y.mem, r, y.pages) /\ Has3(y.mem, r, v)
    /\ translate(y.mem, r, v) = f
    /\ \A w \in UserPage : w # v => translate(y.mem, r, w) = translate(m, r, w)
    /\ \A g \in Frame \ y.pages : y.mem[g] = m[g]

LEMMA Mapped ==
  ASSUME NEW m \in Mem, NEW r, NEW P, Tree(m, r, P), NEW v \in UserPage, NEW f \in Nat,
         NEW fr \in SUBSET Frame, fr \cap P = {}, Spare(fr, m, r, v)
  PROVE  MapsTo(map(State(fr, m, P), r, v, f), fr, m, P, r, v, f)
<1> DEFINE z == find_pte_create(State(fr, m, P), r, v)
           n == SetLeaf(z.mem, r, v, Entry(f))
           y == map(State(fr, m, P), r, v, f)
<1>1. /\ z = State(z.free, z.mem, z.pages)
      /\ z.free \in SUBSET fr /\ z.pages = P \cup (fr \ z.free)
      /\ z.mem \in Mem /\ Tree(z.mem, r, z.pages) /\ Has3(z.mem, r, v)
      /\ \A w \in UserPage : translate(z.mem, r, w) = translate(m, r, w)
      /\ \A g \in Frame \ z.pages : z.mem[g] = m[g]
  BY Create
<1>2. y = [z EXCEPT !.mem = n]
  BY Zenon DEF map
<1> HIDE DEF z
<1>3. Entry(f) \in PTE /\ Entry(f).valid /\ Entry(f).frame = f
  BY Zenon DEF Entry, PTE
<1>4. /\ n \in Mem /\ Tree(n, r, z.pages)
      /\ \A g \in Frame \ z.pages : n[g] = z.mem[g]
      /\ translate(n, r, v) = f
      /\ \A w \in UserPage : w # v => translate(n, r, w) = translate(z.mem, r, w)
      /\ Has3(n, r, v)
  <2>1. z.mem \in Mem /\ Tree(z.mem, r, z.pages) /\ Has3(z.mem, r, v)
    BY <1>1, Zenon
  <2> QED BY <1>3, <2>1, LeafSet
<1> HIDE DEF n
<1>5. y.free = z.free /\ y.pages = z.pages /\ y.mem = n
  BY <1>1, <1>2, Zenon DEF State
<1> HIDE DEF y
<1>6. MapsTo(y, fr, m, P, r, v, f)
  BY <1>1, <1>4, <1>5, Zenon DEF MapsTo
<1> QED BY <1>6, Zenon DEF y

\* PageTable::new, and ProcessMemory::new: only the kernel is mapped.
LEMMA NewTree ==
  ASSUME NEW m, NEW r \in Frame, m[r] = NewTable
  PROVE  Tree(m, r, {r}) /\ \A v \in UserPage : translate(m, r, v) = NoFrame
<1>1. \A v \in UserPage : ~Second(m, r, v).valid
  BY Walks, Indexes DEF NewTable, Zero, Invalid
<1> QED BY <1>1, Zenon DEF Tree, Has2, Has3, translate

LEMMA ContentTypes ==
  NewTable \in Content /\ Zero \in Content /\ Image \in Content /\ Junk \in Content
<1>1. FrameCount \in Nat /\ KernelIndex \in Index
  BY ConstantsAssumption, Zenon
<1> QED BY <1>1, Zenon DEF Content, NewTable, Zero, Image, Junk, Entry, Invalid, PTE, KernelImage

\* Enough pages for the tables that are missing, and for n more.
LEMMA EnoughIsSpare ==
  ASSUME Counting, NEW fr \in SUBSET Frame, NEW r, NEW v
  PROVE  /\ Cardinality(fr) >= Missing(r, v) => Spare(fr, mem, r, v)
         /\ \A a \in fr : Cardinality(fr) >= 1 + Missing(r, v) => Spare(fr \ {a}, mem, r, v)
         /\ Cardinality(fr) >= 1 + Missing(r, v) => fr # {}
<1>1. /\ Cardinality(fr) \in Nat
      /\ Cardinality(fr) >= 1 => fr # {}
      /\ Cardinality(fr) >= 2 => \A a \in fr : fr \ {a} # {}
      /\ Cardinality(fr) >= 3 => \A a \in fr : \A b \in fr \ {a} : (fr \ {a}) \ {b} # {}
  BY Zenon DEF Counting
<1>2. /\ Missing(r, v) \in {0, 1, 2}
      /\ ~Has3(mem, r, v) => Missing(r, v) >= 1
      /\ ~Has2(mem, r, v) => Missing(r, v) = 2
  BY DEF Missing, Has2, Has3
<1> HIDE DEF Missing
<1>3. Cardinality(fr) >= Missing(r, v) => Spare(fr, mem, r, v)
  BY <1>1, <1>2 DEF Spare
<1>4. ASSUME NEW a \in fr, Cardinality(fr) >= 1 + Missing(r, v)
      PROVE  Spare(fr \ {a}, mem, r, v)
  <2>1. ~Has3(mem, r, v) => fr \ {a} # {}
    BY <1>1, <1>2, <1>4
  <2>2. ~Has2(mem, r, v) => \A b \in fr \ {a} : (fr \ {a}) \ {b} # {}
    BY <1>1, <1>2, <1>4
  <2> QED BY <2>1, <2>2, Zenon DEF Spare
<1>5. Cardinality(fr) >= 1 + Missing(r, v) => fr # {}
  BY <1>1, <1>2
<1> QED BY <1>3, <1>4, <1>5, Zenon

-----------------------------------------------------------------------------
(* The inductive invariant *)

\* What ProcessMemory::maps may be.
PageMap == UNION {[D -> Frame] : D \in SUBSET Vpn}

JobType ==
    [op : {"none", "load", "exec", "fork", "map", "unmap"}, s : Space, t : Space,
     va : Nat, size : Nat, n : Nat]

TypeInv ==
    /\ free \in SUBSET Frame /\ leaked \in SUBSET Frame /\ dma \in SUBSET Frame
    /\ mem \in Mem
    /\ root \in [Tables -> Frame \cup {NoFrame}]
    /\ pages \in [Tables -> SUBSET Frame]
    /\ maps \in [Space -> PageMap]
    /\ stack \in [Space -> SUBSET Frame]
    /\ zombies \in SUBSET Space
    /\ context \in [Space -> Frame \cup {NoFrame}]
    /\ user \in Tables
    /\ job \in JobType

\* Frame f has the use u, is w's, and at page a: it is in no other set.
Used(f, fr, lk, dm, pg, st, mp, u, w, a) ==
    /\ u \in {"free", "leaked", "dma", "table", "stack", "page"}
    /\ u = "table" => w \in Tables
    /\ u \in {"stack", "page"} => w \in Space
    /\ u = "page" => a \in Vpn
    /\ f \in fr <=> u = "free"
    /\ f \in lk <=> u = "leaked"
    /\ f \in dm <=> u = "dma"
    /\ \A t \in Tables : f \in pg[t] <=> u = "table" /\ w = t
    /\ \A s \in Space : f \in st[s] <=> u = "stack" /\ w = s
    /\ \A s \in Space, v \in Vpn :
           v \in DOMAIN mp[s] /\ mp[s][v] = f <=> u = "page" /\ w = s /\ a = v

\* The use of each frame, whose it is, and at which page: each frame has one.
OwnedBy(fr, lk, dm, pg, st, mp, use, who, at) ==
    \A f \in Frame : Used(f, fr, lk, dm, pg, st, mp, use[f], who[f], at[f])

Own(fr, lk, dm, pg, st, mp) ==
    \E use, who, at : OwnedBy(fr, lk, dm, pg, st, mp, use, who, at)

OwnInv == Own(free, leaked, dma, pages, stack, maps)

\* Each table is a tree of its own pages.
TableInv ==
    /\ root[Kernel] # NoFrame
    /\ \A t \in Tables : Exists(t) => Tree(mem, root[t], pages[t])

\* The walk finds the pages in maps, whatever the page.
MapsInv ==
    \A s \in Space : Exists(s) =>
        \A v \in UserPage : translate(mem, root[s], v) =
                                IF v \in DOMAIN maps[s] THEN maps[s][v] ELSE NoFrame

\* Without a process there is nothing to give back.
DeadInv ==
    \A s \in Space : ~Exists(s) => /\ pages[s] = {} /\ stack[s] = {} /\ DOMAIN maps[s] = {}
                                   /\ s \notin zombies

\* The pages of access_continuously's window that are mapped.
Window == IF job.op = "map" THEN 0..(job.n - 1) ELSE IF job.op = "unmap" THEN job.n..1 ELSE {}

\* The kernel's own table maps the window and no other user page, and while
\* it grows, the window shows the buffer's pages.
WindowInv ==
    /\ \A v \in UserPage : translate(mem, root[Kernel], v) # NoFrame <=> \E k \in Window : v = Trampoline + k
    /\ job.op = "map" => \A k \in Window : translate(mem, root[Kernel], Trampoline + k) =
                                              translate(mem, root[job.s], First + k)

\* A call works for live processes, with a buffer of two pages.
JobInv ==
    /\ job.op # "none" => Live(job.s)
    /\ job.op = "fork" => Live(job.t) /\ job.s # job.t
    /\ job.op \in {"map", "unmap"} => /\ First \in Vpn /\ EndPage = First + 1
                                      /\ LastPage \in {First, First + 1}
                                      /\ job.n \in 0..2

\* A TrapContext names the table of its process, or the kernel's while the
\* process is in user mode, except between execve's reset and its end.
HartInv ==
    /\ user # Kernel => Live(user) /\ job = NoJob
    /\ satp = root[user]
    /\ \A s \in Space : Live(s) /\ ~(job.op = "exec" /\ job.s = s) =>
           context[s] = IF s = user THEN root[Kernel] ELSE root[s]
    /\ DOMAIN tlb \in SUBSET UserPage /\ tlb = [v \in DOMAIN tlb |-> tlb[v]]
    /\ job.op \notin {"map", "unmap"} => \A v \in DOMAIN tlb : tlb[v] = translate(mem, satp, v)

Inv ==
    TypeInv /\ OwnInv /\ TableInv /\ MapsInv /\ DeadInv /\ WindowInv /\ JobInv /\ HartInv

-----------------------------------------------------------------------------
(* What an allocation and a drop do to the owners *)

LEMMA PageMaps ==
  /\ NoMap \in PageMap /\ DOMAIN NoMap = {}
  /\ \A g \in PageMap : DOMAIN g \in SUBSET Vpn /\ \A v \in DOMAIN g : g[v] \in Frame
  /\ \A g \in PageMap, v \in Vpn, f \in Frame :
         /\ With(g, v, f) \in PageMap
         /\ DOMAIN With(g, v, f) = DOMAIN g \cup {v}
         /\ With(g, v, f)[v] = f
         /\ \A w \in DOMAIN g : w # v => With(g, v, f)[w] = g[w]
  /\ \A g \in PageMap, v \in Vpn :
         /\ Without(g, v) \in PageMap
         /\ DOMAIN Without(g, v) = DOMAIN g \ {v}
         /\ \A w \in DOMAIN g \ {v} : Without(g, v)[w] = g[w]
<1>1. NoMap \in PageMap /\ DOMAIN NoMap = {}
  <2>1. NoMap \in [{} -> Frame] /\ {} \in SUBSET Vpn
    BY Zenon DEF NoMap
  <2> QED BY <2>1, Zenon DEF PageMap, NoMap
<1>2. ASSUME NEW g \in PageMap PROVE DOMAIN g \in SUBSET Vpn /\ \A v \in DOMAIN g : g[v] \in Frame
  BY Zenon DEF PageMap
<1>3. ASSUME NEW g \in PageMap, NEW v \in Vpn, NEW f \in Frame
      PROVE  /\ With(g, v, f) \in PageMap
             /\ DOMAIN With(g, v, f) = DOMAIN g \cup {v}
             /\ With(g, v, f)[v] = f
             /\ \A w \in DOMAIN g : w # v => With(g, v, f)[w] = g[w]
  <2>1. With(g, v, f) \in [DOMAIN g \cup {v} -> Frame] /\ DOMAIN g \cup {v} \in SUBSET Vpn
    BY <1>2, Zenon DEF With
  <2> QED BY <2>1, Zenon DEF PageMap, With
<1>4. ASSUME NEW g \in PageMap, NEW v \in Vpn
      PROVE  /\ Without(g, v) \in PageMap
             /\ DOMAIN Without(g, v) = DOMAIN g \ {v}
             /\ \A w \in DOMAIN g \ {v} : Without(g, v)[w] = g[w]
  <2>1. Without(g, v) \in [DOMAIN g \ {v} -> Frame] /\ DOMAIN g \ {v} \in SUBSET Vpn
    BY <1>2, Zenon DEF Without
  <2> QED BY <2>1, Zenon DEF PageMap, Without
<1> QED BY <1>1, <1>2, <1>3, <1>4, Zenon

\* Free pages become tables of t.
LEMMA TakeTables ==
  ASSUME NEW fr, NEW lk, NEW dm, NEW pg \in [Tables -> SUBSET Frame], NEW st, NEW mp,
         Own(fr, lk, dm, pg, st, mp), NEW t \in Tables, NEW S \in SUBSET fr, fr \in SUBSET Frame
  PROVE  Own(fr \ S, lk, dm, [pg EXCEPT ![t] = pg[t] \cup S], st, mp)
<1> DEFINE fr2 == fr \ S
           pg2 == [pg EXCEPT ![t] = pg[t] \cup S]
<1>1. PICK use, who, at : OwnedBy(fr, lk, dm, pg, st, mp, use, who, at)
  BY Zenon DEF Own
<1> DEFINE use2 == [f \in Frame |-> IF f \in S THEN "table" ELSE use[f]]
           who2 == [f \in Frame |-> IF f \in S THEN t ELSE who[f]]
<1>2. \A f \in Frame : f \in fr2 <=> f \in fr /\ f \notin S
  BY Zenon
<1>3. \A f \in Frame, u \in Tables : f \in pg2[u] <=> f \in pg[u] \/ (u = t /\ f \in S)
  BY Zenon
<1>4. \A f \in Frame : /\ f \in S => use2[f] = "table" /\ who2[f] = t
                       /\ f \notin S => use2[f] = use[f] /\ who2[f] = who[f]
  BY Zenon
<1>5. \A f \in S : f \in Frame /\ use[f] = "free"
  BY <1>1, Zenon DEF OwnedBy, Used
<1> HIDE DEF fr2, pg2, use2, who2
<1>6. OwnedBy(fr2, lk, dm, pg2, st, mp, use2, who2, at)
  <2> SUFFICES ASSUME NEW f \in Frame PROVE Used(f, fr2, lk, dm, pg2, st, mp, use2[f], who2[f], at[f])
    BY Zenon DEF OwnedBy
  <2>1. Used(f, fr, lk, dm, pg, st, mp, use[f], who[f], at[f])
    BY <1>1, Zenon DEF OwnedBy
  <2> QED BY <1>2, <1>3, <1>4, <1>5, <2>1, SMTT(20) DEF Used
<1> QED BY <1>6, Zenon DEF Own, fr2, pg2

\* A free page is mapped at v for s.
LEMMA TakePage ==
  ASSUME NEW fr, NEW lk, NEW dm, NEW pg, NEW st, NEW mp \in [Space -> PageMap],
         Own(fr, lk, dm, pg, st, mp), NEW s \in Space, NEW v \in Vpn \ DOMAIN mp[s], NEW g \in fr,
         fr \in SUBSET Frame
  PROVE  Own(fr \ {g}, lk, dm, pg, st, [mp EXCEPT ![s] = With(mp[s], v, g)])
<1> DEFINE fr2 == fr \ {g}
           mp2 == [mp EXCEPT ![s] = With(mp[s], v, g)]
           Maps(m, u, w, f) == w \in DOMAIN m[u] /\ m[u][w] = f
<1>1. PICK use, who, at : OwnedBy(fr, lk, dm, pg, st, mp, use, who, at)
  BY Zenon DEF Own
<1> DEFINE use2 == [f \in Frame |-> IF f = g THEN "page" ELSE use[f]]
           who2 == [f \in Frame |-> IF f = g THEN s ELSE who[f]]
           at2 == [f \in Frame |-> IF f = g THEN v ELSE at[f]]
<1>2. \A f \in Frame : f \in fr2 <=> f \in fr /\ f # g
  BY Zenon
<1>3. \A f \in Frame, u \in Space, w \in Vpn :
          Maps(mp2, u, w, f) <=> Maps(mp, u, w, f) \/ (u = s /\ w = v /\ f = g)
  <2>1. g \in Frame /\ mp[s] \in PageMap
    BY Zenon
  <2>2. /\ DOMAIN With(mp[s], v, g) = DOMAIN mp[s] \cup {v}
        /\ With(mp[s], v, g)[v] = g
        /\ \A w \in DOMAIN mp[s] : w # v => With(mp[s], v, g)[w] = mp[s][w]
    BY <2>1, Zenon DEF With
  <2>3. mp2[s] = With(mp[s], v, g) /\ \A u \in Space : u # s => mp2[u] = mp[u]
    BY Zenon
  <2> HIDE DEF mp2
  <2> QED BY <2>2, <2>3, Zenon
<1>4. \A f \in Frame : /\ f = g => use2[f] = "page" /\ who2[f] = s /\ at2[f] = v
                       /\ f # g => use2[f] = use[f] /\ who2[f] = who[f] /\ at2[f] = at[f]
  BY Zenon
<1>5. g \in Frame /\ use[g] = "free"
  BY <1>1, Zenon DEF OwnedBy, Used
<1>6. \A f \in Frame, u \in Space, w \in Vpn :
          Maps(mp, u, w, f) <=> use[f] = "page" /\ who[f] = u /\ at[f] = w
  BY <1>1, Zenon DEF OwnedBy, Used
<1> HIDE DEF fr2, mp2, use2, who2, at2
<1>7. \A f \in Frame, u \in Space, w \in Vpn :
          Maps(mp2, u, w, f) <=> use2[f] = "page" /\ who2[f] = u /\ at2[f] = w
  <2> HIDE DEF Maps
  <2> QED BY <1>3, <1>4, <1>5, <1>6
<1>8. OwnedBy(fr2, lk, dm, pg, st, mp2, use2, who2, at2)
  <2> SUFFICES ASSUME NEW f \in Frame PROVE Used(f, fr2, lk, dm, pg, st, mp2, use2[f], who2[f], at2[f])
    BY Zenon DEF OwnedBy
  <2>1. Used(f, fr, lk, dm, pg, st, mp, use[f], who[f], at[f])
    BY <1>1, Zenon DEF OwnedBy
  <2> QED BY <1>2, <1>4, <1>5, <1>7, <2>1, SMTT(20) DEF Used
<1> QED BY <1>8, Zenon DEF Own, fr2, mp2

\* PhyPage::drop of the page that s has at v.
LEMMA DropPage ==
  ASSUME NEW fr, NEW lk, NEW dm, NEW pg, NEW st, NEW mp \in [Space -> PageMap],
         Own(fr, lk, dm, pg, st, mp), NEW s \in Space, NEW v \in DOMAIN mp[s]
  PROVE  Own(fr \cup {mp[s][v]}, lk, dm, pg, st, [mp EXCEPT ![s] = Without(mp[s], v)])
<1> DEFINE g == mp[s][v]
           fr2 == fr \cup {g}
           mp2 == [mp EXCEPT ![s] = Without(mp[s], v)]
           Maps(m, u, w, f) == w \in DOMAIN m[u] /\ m[u][w] = f
<1>1. PICK use, who, at : OwnedBy(fr, lk, dm, pg, st, mp, use, who, at)
  BY Zenon DEF Own
<1> DEFINE use2 == [f \in Frame |-> IF f = g THEN "free" ELSE use[f]]
<1>2. \A f \in Frame : f \in fr2 <=> f \in fr \/ f = g
  BY Zenon
<1>3. \A f \in Frame, u \in Space, w \in Vpn :
          Maps(mp2, u, w, f) <=> Maps(mp, u, w, f) /\ ~(u = s /\ w = v)
  BY Zenon DEF Without
<1>4. \A f \in Frame : /\ f = g => use2[f] = "free"
                       /\ f # g => use2[f] = use[f]
  BY Zenon
<1>5. v \in Vpn /\ g \in Frame
  BY PageMaps, Zenon
<1>6. \A f \in Frame, u \in Space, w \in Vpn :
          Maps(mp, u, w, f) <=> use[f] = "page" /\ who[f] = u /\ at[f] = w
  BY <1>1, Zenon DEF OwnedBy, Used
<1>7. use[g] = "page" /\ who[g] = s /\ at[g] = v /\ Maps(mp, s, v, g)
  BY <1>5, <1>6, SMTT(20)
<1>10. \A f \in Frame : Maps(mp, s, v, f) => f = g
  BY Zenon
<1> HIDE DEF fr2, mp2, use2, g
<1>8. \A f \in Frame, u \in Space, w \in Vpn :
          Maps(mp2, u, w, f) <=> use2[f] = "page" /\ who[f] = u /\ at[f] = w
  <2> HIDE DEF Maps
  <2> QED BY <1>3, <1>4, <1>5, <1>6, <1>7, <1>10
<1>9. OwnedBy(fr2, lk, dm, pg, st, mp2, use2, who, at)
  <2> SUFFICES ASSUME NEW f \in Frame PROVE Used(f, fr2, lk, dm, pg, st, mp2, use2[f], who[f], at[f])
    BY Zenon DEF OwnedBy
  <2>1. Used(f, fr, lk, dm, pg, st, mp, use[f], who[f], at[f])
    BY <1>1, Zenon DEF OwnedBy
  <2> QED BY <1>2, <1>4, <1>5, <1>7, <1>8, <2>1, Zenon DEF Used
<1> QED BY <1>9, Zenon DEF Own, fr2, mp2, g

\* The drop of all the pages of s.
LEMMA DropPages ==
  ASSUME NEW fr, NEW lk, NEW dm, NEW pg, NEW st, NEW mp \in [Space -> PageMap],
         Own(fr, lk, dm, pg, st, mp), NEW s \in Space
  PROVE  Own(fr \cup {mp[s][v] : v \in DOMAIN mp[s]}, lk, dm, pg, st, [mp EXCEPT ![s] = NoMap])
<1> DEFINE S == {mp[s][v] : v \in DOMAIN mp[s]}
           fr2 == fr \cup S
           mp2 == [mp EXCEPT ![s] = NoMap]
           Maps(m, u, w, f) == w \in DOMAIN m[u] /\ m[u][w] = f
<1>1. PICK use, who, at : OwnedBy(fr, lk, dm, pg, st, mp, use, who, at)
  BY Zenon DEF Own
<1> DEFINE use2 == [f \in Frame |-> IF f \in S THEN "free" ELSE use[f]]
<1>2. \A f \in Frame : f \in fr2 <=> f \in fr \/ f \in S
  BY Zenon
<1>3. \A f \in Frame, u \in Space, w \in Vpn :
          Maps(mp2, u, w, f) <=> Maps(mp, u, w, f) /\ u # s
  BY Zenon DEF NoMap
<1>4. \A f \in Frame : /\ f \in S => use2[f] = "free"
                       /\ f \notin S => use2[f] = use[f]
  BY Zenon
<1>5. \A f \in Frame, u \in Space, w \in Vpn :
          Maps(mp, u, w, f) <=> use[f] = "page" /\ who[f] = u /\ at[f] = w
  BY <1>1, Zenon DEF OwnedBy, Used
<1>6. \A f \in Frame : f \in S <=> use[f] = "page" /\ who[f] = s
  <2> SUFFICES ASSUME NEW f \in Frame PROVE f \in S <=> use[f] = "page" /\ who[f] = s
    BY Zenon
  <2>1. f \in S <=> \E w \in Vpn : Maps(mp, s, w, f)
    BY PageMaps
  <2>2. use[f] = "page" => at[f] \in Vpn
    BY <1>1, Zenon DEF OwnedBy, Used
  <2> HIDE DEF S, Maps
  <2> QED BY <1>5, <2>1, <2>2, Zenon
<1> HIDE DEF fr2, mp2, use2, S
<1>7. \A f \in Frame, u \in Space, w \in Vpn :
          Maps(mp2, u, w, f) <=> use2[f] = "page" /\ who[f] = u /\ at[f] = w
  <2> HIDE DEF Maps
  <2> QED BY <1>3, <1>4, <1>5, <1>6
<1>8. OwnedBy(fr2, lk, dm, pg, st, mp2, use2, who, at)
  <2> SUFFICES ASSUME NEW f \in Frame PROVE Used(f, fr2, lk, dm, pg, st, mp2, use2[f], who[f], at[f])
    BY Zenon DEF OwnedBy
  <2>1. Used(f, fr, lk, dm, pg, st, mp, use[f], who[f], at[f])
    BY <1>1, Zenon DEF OwnedBy
  <2> QED BY <1>2, <1>4, <1>6, <1>7, <2>1, Zenon DEF Used
<1> QED BY <1>8, Zenon DEF Own, fr2, mp2, S

\* The drop of all the tables of t.
LEMMA DropTables ==
  ASSUME NEW fr, NEW lk, NEW dm, NEW pg \in [Tables -> SUBSET Frame], NEW st, NEW mp,
         Own(fr, lk, dm, pg, st, mp), NEW t \in Tables
  PROVE  Own(fr \cup pg[t], lk, dm, [pg EXCEPT ![t] = {}], st, mp)
<1> DEFINE fr2 == fr \cup pg[t]
           pg2 == [pg EXCEPT ![t] = {}]
<1>1. PICK use, who, at : OwnedBy(fr, lk, dm, pg, st, mp, use, who, at)
  BY Zenon DEF Own
<1> DEFINE use2 == [f \in Frame |-> IF f \in pg[t] THEN "free" ELSE use[f]]
<1>2. \A f \in Frame : f \in fr2 <=> f \in fr \/ f \in pg[t]
  BY Zenon
<1>3. \A f \in Frame, u \in Tables : f \in pg2[u] <=> f \in pg[u] /\ u # t
  BY Zenon
<1>4. \A f \in Frame : /\ f \in pg[t] => use2[f] = "free"
                       /\ f \notin pg[t] => use2[f] = use[f]
  BY Zenon
<1>5. \A f \in Frame : f \in pg[t] <=> use[f] = "table" /\ who[f] = t
  BY <1>1, Zenon DEF OwnedBy, Used
<1> HIDE DEF fr2, pg2, use2
<1>6. OwnedBy(fr2, lk, dm, pg2, st, mp, use2, who, at)
  <2> SUFFICES ASSUME NEW f \in Frame PROVE Used(f, fr2, lk, dm, pg2, st, mp, use2[f], who[f], at[f])
    BY Zenon DEF OwnedBy
  <2>1. Used(f, fr, lk, dm, pg, st, mp, use[f], who[f], at[f])
    BY <1>1, Zenon DEF OwnedBy
  <2> QED BY <1>2, <1>3, <1>4, <1>5, <2>1 DEF Used
<1> QED BY <1>6, Zenon DEF Own, fr2, pg2

\* Free pages become the stack of s.
LEMMA TakeStack ==
  ASSUME NEW fr, NEW lk, NEW dm, NEW pg, NEW st \in [Space -> SUBSET Frame], NEW mp,
         Own(fr, lk, dm, pg, st, mp), NEW s \in Space, NEW S \in SUBSET fr, fr \in SUBSET Frame,
         st[s] = {}
  PROVE  Own(fr \ S, lk, dm, pg, [st EXCEPT ![s] = S], mp)
<1> DEFINE fr2 == fr \ S
           st2 == [st EXCEPT ![s] = S]
<1>1. PICK use, who, at : OwnedBy(fr, lk, dm, pg, st, mp, use, who, at)
  BY Zenon DEF Own
<1> DEFINE use2 == [f \in Frame |-> IF f \in S THEN "stack" ELSE use[f]]
           who2 == [f \in Frame |-> IF f \in S THEN s ELSE who[f]]
<1>2. \A f \in Frame : f \in fr2 <=> f \in fr /\ f \notin S
  BY Zenon
<1>3. \A f \in Frame, u \in Space : f \in st2[u] <=> f \in st[u] \/ (u = s /\ f \in S)
  BY Zenon
<1>4. \A f \in Frame : /\ f \in S => use2[f] = "stack" /\ who2[f] = s
                       /\ f \notin S => use2[f] = use[f] /\ who2[f] = who[f]
  BY Zenon
<1>5. \A f \in S : f \in Frame /\ use[f] = "free"
  BY <1>1, Zenon DEF OwnedBy, Used
<1> HIDE DEF fr2, st2, use2, who2
<1>6. OwnedBy(fr2, lk, dm, pg, st2, mp, use2, who2, at)
  <2> SUFFICES ASSUME NEW f \in Frame PROVE Used(f, fr2, lk, dm, pg, st2, mp, use2[f], who2[f], at[f])
    BY Zenon DEF OwnedBy
  <2>1. Used(f, fr, lk, dm, pg, st, mp, use[f], who[f], at[f])
    BY <1>1, Zenon DEF OwnedBy
  <2> QED BY <1>2, <1>3, <1>4, <1>5, <2>1 DEF Used
<1> QED BY <1>6, Zenon DEF Own, fr2, st2

\* The drop of the stack of s.
LEMMA DropStack ==
  ASSUME NEW fr, NEW lk, NEW dm, NEW pg, NEW st \in [Space -> SUBSET Frame], NEW mp,
         Own(fr, lk, dm, pg, st, mp), NEW s \in Space
  PROVE  Own(fr \cup st[s], lk, dm, pg, [st EXCEPT ![s] = {}], mp)
<1> DEFINE fr2 == fr \cup st[s]
           st2 == [st EXCEPT ![s] = {}]
<1>1. PICK use, who, at : OwnedBy(fr, lk, dm, pg, st, mp, use, who, at)
  BY Zenon DEF Own
<1> DEFINE use2 == [f \in Frame |-> IF f \in st[s] THEN "free" ELSE use[f]]
<1>2. \A f \in Frame : f \in fr2 <=> f \in fr \/ f \in st[s]
  BY Zenon
<1>3. \A f \in Frame, u \in Space : f \in st2[u] <=> f \in st[u] /\ u # s
  BY Zenon
<1>4. \A f \in Frame : /\ f \in st[s] => use2[f] = "free"
                       /\ f \notin st[s] => use2[f] = use[f]
  BY Zenon
<1>5. \A f \in Frame : f \in st[s] <=> use[f] = "stack" /\ who[f] = s
  BY <1>1, Zenon DEF OwnedBy, Used
<1> HIDE DEF fr2, st2, use2
<1>6. OwnedBy(fr2, lk, dm, pg, st2, mp, use2, who, at)
  <2> SUFFICES ASSUME NEW f \in Frame PROVE Used(f, fr2, lk, dm, pg, st2, mp, use2[f], who[f], at[f])
    BY Zenon DEF OwnedBy
  <2>1. Used(f, fr, lk, dm, pg, st, mp, use[f], who[f], at[f])
    BY <1>1, Zenon DEF OwnedBy
  <2> QED BY <1>2, <1>3, <1>4, <1>5, <2>1 DEF Used
<1> QED BY <1>6, Zenon DEF Own, fr2, st2

\* Free pages are taken by alloc_many beyond those it returns, or by the
\* device's queue.
LEMMA TakeOther ==
  ASSUME NEW fr, NEW lk, NEW dm, NEW pg, NEW st, NEW mp,
         Own(fr, lk, dm, pg, st, mp), NEW S \in SUBSET fr, fr \in SUBSET Frame
  PROVE  /\ Own(fr \ S, lk \cup S, dm, pg, st, mp)
         /\ Own(fr \ S, lk, dm \cup S, pg, st, mp)
<1> DEFINE fr2 == fr \ S
           lk2 == lk \cup S
           dm2 == dm \cup S
<1>1. PICK use, who, at : OwnedBy(fr, lk, dm, pg, st, mp, use, who, at)
  BY Zenon DEF Own
<1> DEFINE Use(name) == [f \in Frame |-> IF f \in S THEN name ELSE use[f]]
           use2 == Use("leaked")
           use3 == Use("dma")
<1>2. \A f \in Frame : /\ f \in fr2 <=> f \in fr /\ f \notin S
                       /\ f \in lk2 <=> f \in lk \/ f \in S
                       /\ f \in dm2 <=> f \in dm \/ f \in S
  BY Zenon
<1>3. \A f \in Frame : /\ f \in S => use2[f] = "leaked" /\ use3[f] = "dma"
                       /\ f \notin S => use2[f] = use[f] /\ use3[f] = use[f]
  BY Zenon
<1>4. \A f \in S : f \in Frame /\ use[f] = "free"
  BY <1>1, Zenon DEF OwnedBy, Used
<1> HIDE DEF fr2, lk2, dm2, use2, use3
<1>5. OwnedBy(fr2, lk2, dm, pg, st, mp, use2, who, at)
  <2> SUFFICES ASSUME NEW f \in Frame PROVE Used(f, fr2, lk2, dm, pg, st, mp, use2[f], who[f], at[f])
    BY Zenon DEF OwnedBy
  <2>1. Used(f, fr, lk, dm, pg, st, mp, use[f], who[f], at[f])
    BY <1>1, Zenon DEF OwnedBy
  <2> QED BY <1>2, <1>3, <1>4, <2>1 DEF Used
<1>6. OwnedBy(fr2, lk, dm2, pg, st, mp, use3, who, at)
  <2> SUFFICES ASSUME NEW f \in Frame PROVE Used(f, fr2, lk, dm2, pg, st, mp, use3[f], who[f], at[f])
    BY Zenon DEF OwnedBy
  <2>1. Used(f, fr, lk, dm, pg, st, mp, use[f], who[f], at[f])
    BY <1>1, Zenon DEF OwnedBy
  <2> QED BY <1>2, <1>3, <1>4, <2>1 DEF Used
<1> QED BY <1>5, <1>6, Zenon DEF Own, fr2, lk2, dm2

-----------------------------------------------------------------------------
(* What the invariant says *)

LEMMA UserPages ==
  /\ Vpn \in SUBSET UserPage /\ UserPage \in SUBSET Nat
  /\ \A v \in Vpn : v + 1 \in UserPage
  /\ Trampoline \in UserPage /\ Trampoline + 1 \in UserPage
  /\ Kernel \in Tables /\ Space \in SUBSET Tables /\ Kernel \notin Space
  /\ Frame \in SUBSET Nat /\ NoFrame \notin Nat
<1>1. UserPage \in SUBSET Nat
  BY DEF UserPage
<1>2. FrameCount \in Nat
  BY ConstantsAssumption, Zenon
<1>3. Frame \in SUBSET Nat /\ NoFrame \notin Nat
  BY <1>2 DEF Frame, NoFrame
<1> QED BY ConstantsAssumption, <1>1, <1>3, Zenon DEF Tables

\* No frame has two owners.
LEMMA Disjoint ==
  ASSUME TypeInv, OwnInv
  PROVE  /\ \A t \in Tables : free \cap pages[t] = {}
         /\ \A t, u \in Tables : t # u => pages[t] \cap pages[u] = {}
         /\ \A s \in Space : \A v \in DOMAIN maps[s] :
                /\ v \in Vpn /\ maps[s][v] \in Frame
                /\ maps[s][v] \notin free
                /\ \A t \in Tables : maps[s][v] \notin pages[t]
<1>1. PICK use, who, at : OwnedBy(free, leaked, dma, pages, stack, maps, use, who, at)
  BY Zenon DEF OwnInv, Own
<1>2. \A t \in Tables : pages[t] \in SUBSET Frame
  BY Zenon DEF TypeInv
<1>3. \A s \in Space : maps[s] \in PageMap
  BY Zenon DEF TypeInv
<1>4. \A s \in Space : \A v \in DOMAIN maps[s] : v \in Vpn /\ maps[s][v] \in Frame
  BY <1>3, PageMaps, Zenon
<1>5. \A s \in Space : \A v \in DOMAIN maps[s] : use[maps[s][v]] = "page"
  BY <1>1, <1>4, Zenon DEF OwnedBy, Used
<1>6. \A f \in Frame : /\ f \in free <=> use[f] = "free"
                       /\ \A t \in Tables : f \in pages[t] <=> use[f] = "table" /\ who[f] = t
  BY <1>1, Zenon DEF OwnedBy, Used
<1> QED BY <1>2, <1>4, <1>5, <1>6

\* The pages of the processes are kept.
PagesKept == \A s \in Space : \A v \in DOMAIN maps[s] : mem'[maps[s][v]] = mem[maps[s][v]]

\* A step that writes to tables and free frames only touches no page.
LEMMA KeptPages ==
  ASSUME Inv, \A f \in Frame : f \notin free /\ (\A t \in Tables : f \notin pages[t]) => mem'[f] = mem[f]
  PROVE  PagesKept
  BY Disjoint, Zenon DEF Inv, PagesKept

\* A table that a step leaves alone stays a tree, and its walks find the same.
Kept(t) == /\ root'[t] = root[t] /\ pages'[t] = pages[t]
           /\ \A f \in pages[t] : mem'[f] = mem[f]

LEMMA KeptTable ==
  ASSUME TableInv, NEW t \in Tables, Kept(t), Exists(t)
  PROVE  /\ Tree(mem', root'[t], pages'[t])
         /\ \A v \in UserPage : translate(mem', root'[t], v) = translate(mem, root[t], v)
<1>1. Tree(mem, root[t], pages[t])
  BY Zenon DEF TableInv
<1>2. root'[t] = root[t] /\ pages'[t] = pages[t] /\ \A f \in pages[t] : mem'[f] = mem[f]
  BY Zenon DEF Kept
<1>3. /\ Tree(mem', root[t], pages[t])
      /\ \A v \in UserPage : translate(mem', root[t], v) = translate(mem, root[t], v)
  BY <1>1, <1>2, SameWalk DEF SameTranslations
<1> QED BY <1>2, <1>3, Zenon

\* What a process has mapped is in Frame.
LEMMA Translated ==
  ASSUME TypeInv, OwnInv, MapsInv, NEW s \in Space, Exists(s), NEW v \in UserPage,
         translate(mem, root[s], v) # NoFrame
  PROVE  /\ v \in Vpn /\ v \in DOMAIN maps[s] /\ translate(mem, root[s], v) = maps[s][v]
         /\ maps[s][v] \in Frame /\ maps[s][v] \notin free
         /\ \A t \in Tables : maps[s][v] \notin pages[t]
<1>1. v \in DOMAIN maps[s] /\ translate(mem, root[s], v) = maps[s][v]
  BY Zenon DEF MapsInv
<1> QED BY <1>1, Disjoint, Zenon

-----------------------------------------------------------------------------
(* What is common to several steps *)

\* A panic, or a step that changes only halted and calls.
LEMMA NothingChanges ==
  ASSUME Inv, UNCHANGED <<allocation, tables, processes, hart, job>>
  PROVE  Inv'
<1>1. /\ free' = free /\ leaked' = leaked /\ mem' = mem /\ root' = root /\ pages' = pages
      /\ maps' = maps /\ stack' = stack /\ zombies' = zombies /\ context' = context /\ dma' = dma
      /\ user' = user /\ satp' = satp /\ tlb' = tlb /\ job' = job
  BY Zenon DEF allocation, tables, processes, hart
<1>2. TypeInv' /\ OwnInv' /\ TableInv' /\ MapsInv' /\ DeadInv'
  BY <1>1, Zenon DEF Inv, TypeInv, OwnInv, TableInv, MapsInv, DeadInv, Exists
<1>3. WindowInv' /\ JobInv' /\ HartInv'
  BY <1>1 DEF Inv, WindowInv, JobInv, HartInv, Window, First, EndPage, LastPage, Live, Exists
<1> QED BY <1>2, <1>3, Zenon DEF Inv

\* The tables of all others than s are kept; s has the table that it should.
LEMMA OneTable ==
  ASSUME Inv, NEW s \in Space,
         \A t \in Tables \ {s} : Exists(t) => Kept(t),
         \A t \in Tables \ {s} : root'[t] = root[t],
         \A t \in Space \ {s} : maps'[t] = maps[t],
         root'[s] # NoFrame =>
             /\ Tree(mem', root'[s], pages'[s])
             /\ \A v \in UserPage : translate(mem', root'[s], v) =
                                        IF v \in DOMAIN maps'[s] THEN maps'[s][v] ELSE NoFrame
  PROVE  TableInv' /\ MapsInv'
<1>1. \A t \in Tables \ {s} : Exists(t) =>
          /\ Tree(mem', root'[t], pages'[t])
          /\ \A v \in UserPage : translate(mem', root'[t], v) = translate(mem, root[t], v)
  BY KeptTable, Zenon DEF Inv
<1>2. TableInv'
  <2>1. root'[Kernel] # NoFrame
    BY UserPages, Zenon DEF Inv, TableInv
  <2>2. \A t \in Tables : root'[t] # NoFrame => Tree(mem', root'[t], pages'[t])
    BY <1>1, Zenon DEF Exists
  <2> QED BY <2>1, <2>2, Zenon DEF TableInv, Exists
<1>3. MapsInv'
  <2>1. \A t \in Space \ {s} : root'[t] # NoFrame =>
            \A v \in UserPage : translate(mem', root'[t], v) =
                                    IF v \in DOMAIN maps'[t] THEN maps'[t][v] ELSE NoFrame
    <3> SUFFICES ASSUME NEW t \in Space \ {s}, root'[t] # NoFrame, NEW v \in UserPage
                 PROVE  translate(mem', root'[t], v) =
                            IF v \in DOMAIN maps'[t] THEN maps'[t][v] ELSE NoFrame
      BY Zenon
    <3>1. t \in Tables \ {s} /\ Exists(t)
      BY UserPages, Zenon DEF Exists
    <3>2. translate(mem', root'[t], v) = translate(mem, root[t], v)
      BY <1>1, <3>1, Zenon
    <3>3. translate(mem, root[t], v) = IF v \in DOMAIN maps[t] THEN maps[t][v] ELSE NoFrame
      BY <3>1, Zenon DEF Inv, MapsInv
    <3> QED BY <3>2, <3>3, Zenon
  <2>2. \A t \in Space : root'[t] # NoFrame =>
            \A v \in UserPage : translate(mem', root'[t], v) =
                                    IF v \in DOMAIN maps'[t] THEN maps'[t][v] ELSE NoFrame
    BY <2>1, Zenon
  <2> QED BY <2>2, Zenon DEF MapsInv, Exists
<1> QED BY <1>2, <1>3, Zenon

\* All tables are kept.
LEMMA NoTable ==
  ASSUME Inv, \A t \in Tables : Exists(t) => Kept(t), root' = root, maps' = maps
  PROVE  TableInv' /\ MapsInv'
<1>1. InitSpace \in Space
  BY ConstantsAssumption, Zenon
<1>2. root'[InitSpace] # NoFrame =>
          /\ Tree(mem', root'[InitSpace], pages'[InitSpace])
          /\ \A v \in UserPage : translate(mem', root'[InitSpace], v) =
                 IF v \in DOMAIN maps'[InitSpace] THEN maps'[InitSpace][v] ELSE NoFrame
  BY <1>1, KeptTable, UserPages, Zenon DEF Inv, MapsInv, Exists
<1> QED BY <1>1, <1>2, OneTable, Zenon

\* The kernel's table is kept, and the kernel works on no window.
LEMMA NoWindow ==
  ASSUME Inv, Kept(Kernel), job.op \notin {"map", "unmap"}, job'.op \notin {"map", "unmap"}
  PROVE  WindowInv' /\ \A v \in UserPage : translate(mem', root'[Kernel], v) = translate(mem, root[Kernel], v)
<1>1. \A v \in UserPage : translate(mem', root'[Kernel], v) = translate(mem, root[Kernel], v)
  BY KeptTable, UserPages, Zenon DEF Inv, TableInv, Exists
<1>2. \A v \in UserPage : translate(mem, root[Kernel], v) = NoFrame
  BY Zenon DEF Inv, WindowInv, Window
<1> QED BY <1>1, <1>2, Zenon DEF WindowInv, Window

\* A step of the kernel on behalf of no window leaves the hart as it should be.
LEMMA KernelHart ==
  ASSUME Inv, user = Kernel, UNCHANGED hart, Kept(Kernel),
         job.op \notin {"map", "unmap"}, job'.op \notin {"map", "unmap"},
         \A s \in Space : root'[s] # NoFrame /\ s \notin zombies' /\ ~(job'.op = "exec" /\ job'.s = s)
                          => context'[s] = root'[s]
  PROVE  HartInv'
<1>1. user' = Kernel /\ satp' = satp /\ tlb' = tlb
  BY Zenon DEF hart
<1>2. satp = root[Kernel] /\ root'[Kernel] = root[Kernel]
  BY Zenon DEF Inv, HartInv, Kept
<1>3. \A v \in DOMAIN tlb : tlb[v] = translate(mem, satp, v)
  BY Zenon DEF Inv, HartInv
<1>4. \A v \in UserPage : translate(mem', satp, v) = translate(mem, satp, v)
  BY <1>2, NoWindow, Zenon
<1>5. \A v \in DOMAIN tlb : tlb[v] = translate(mem', satp, v)
  BY <1>3, <1>4, Zenon DEF Inv, HartInv
<1>6. DOMAIN tlb \in SUBSET UserPage /\ tlb = [v \in DOMAIN tlb |-> tlb[v]]
  BY Zenon DEF Inv, HartInv
<1> QED BY <1>1, <1>2, <1>5, <1>6, UserPages, Zenon DEF HartInv, Live, Exists

-----------------------------------------------------------------------------
(* Each step keeps the invariant *)

LEMMA InitInv == Init => Inv
<1> SUFFICES ASSUME Init PROVE Inv
  BY Zenon
<1>0. 0 \in Frame /\ InitSpace \in Space
  BY ConstantsAssumption DEF Frame
<1>1. NoJob \in JobType /\ NoJob.op = "none"
  BY <1>0, Zenon DEF NoJob, JobType
<1>2. TypeInv
  <2>1. mem \in Mem
    BY ContentTypes, Zenon DEF Init, Mem
  <2>2. root \in [Tables -> Frame \cup {NoFrame}] /\ pages \in [Tables -> SUBSET Frame]
    BY <1>0, Zenon DEF Init
  <2>3. maps \in [Space -> PageMap]
    BY PageMaps, Zenon DEF Init
  <2> QED BY <1>1, <2>1, <2>2, <2>3, UserPages, Zenon DEF Init, TypeInv
<1>3. OwnInv
  <2> DEFINE use == [f \in Frame |-> IF f = 0 THEN "table" ELSE "free"]
             who == [f \in Frame |-> Kernel]
  <2>1. OwnedBy(free, leaked, dma, pages, stack, maps, use, who, who)
    BY <1>0, UserPages, Zenon DEF OwnedBy, Used, Init, NoMap
  <2> QED BY <2>1, Zenon DEF OwnInv, Own
<1>4. Tree(mem, 0, {0}) /\ \A v \in UserPage : translate(mem, 0, v) = NoFrame
  BY <1>0, NewTree, Zenon DEF Init
<1>5. /\ root[Kernel] = 0 /\ pages[Kernel] = {0} /\ 0 # NoFrame
      /\ \A s \in Space : root[s] = NoFrame /\ pages[s] = {} /\ stack[s] = {} /\ maps[s] = NoMap
  BY UserPages, <1>0, Zenon DEF Init
<1>6. TableInv /\ MapsInv
  BY <1>4, <1>5, Zenon DEF TableInv, MapsInv, Exists, Tables
<1>7. DeadInv /\ JobInv
  BY <1>1, <1>5, PageMaps, Zenon DEF Init, DeadInv, JobInv
<1>8. WindowInv
  BY <1>1, <1>4, <1>5, Zenon DEF Init, WindowInv, Window
<1>9. HartInv
  BY <1>1, <1>5, Zenon DEF Init, HartInv, Live, Exists, NoMap
<1> QED BY <1>2, <1>3, <1>6, <1>7, <1>8, <1>9, Zenon DEF Inv

\* trap_ret_u: the TrapContext holds the process's table, and gets the
\* kernel's.
LEMMA TrapRet ==
  ASSUME Inv, NEW s \in Space, trap_ret_u(s)
  PROVE  Inv'
<1>1. /\ free' = free /\ leaked' = leaked /\ mem' = mem /\ root' = root /\ pages' = pages
      /\ maps' = maps /\ stack' = stack /\ zombies' = zombies /\ dma' = dma /\ job' = job
      /\ user' = s /\ satp' = context[s] /\ tlb' = NoMap
      /\ context' = [context EXCEPT ![s] = satp]
  BY Zenon DEF trap_ret_u, allocation, tables
<1>2. user = Kernel /\ job = NoJob /\ job.op = "none" /\ Live(s) /\ s # Kernel
  BY UserPages, Zenon DEF trap_ret_u, Idle, NoJob
<1>3. context[s] = root[s] /\ satp = root[Kernel]
  BY <1>2, Zenon DEF Inv, HartInv
<1>4. TypeInv'
  BY <1>1, <1>3, UserPages, Zenon DEF Inv, TypeInv
<1>5. OwnInv' /\ TableInv' /\ MapsInv' /\ DeadInv'
  BY <1>1, Zenon DEF Inv, OwnInv, TableInv, MapsInv, DeadInv, Exists
<1>6. WindowInv' /\ JobInv'
  BY <1>1, Zenon DEF Inv, WindowInv, JobInv, Window, First, EndPage, LastPage, Live, Exists
<1>7. HartInv'
  <2>1. context'[s] = root[Kernel] /\ \A t \in Space : t # s => context'[t] = context[t]
    BY <1>1, <1>3, Zenon DEF Inv, TypeInv
  <2>2. \A t \in Space : Live(t) => context[t] = root[t]
    BY <1>2, UserPages, Zenon DEF Inv, HartInv
  <2> QED BY <1>1, <1>2, <1>3, <2>1, <2>2, Zenon DEF HartInv, Live, Exists, NoMap
<1> QED BY <1>4, <1>5, <1>6, <1>7, Zenon DEF Inv

\* trap_save_u, the other way round.
LEMMA TrapSave ==
  ASSUME Inv, trap_save_u
  PROVE  Inv'
<1>1. /\ free' = free /\ leaked' = leaked /\ mem' = mem /\ root' = root /\ pages' = pages
      /\ maps' = maps /\ stack' = stack /\ zombies' = zombies /\ dma' = dma /\ job' = job
      /\ user' = Kernel /\ satp' = context[user] /\ tlb' = NoMap
      /\ context' = [context EXCEPT ![user] = satp]
  BY Zenon DEF trap_save_u, allocation, tables
<1>2. user \in Space /\ Live(user) /\ job = NoJob /\ job.op = "none"
  BY DEF trap_save_u, Inv, HartInv, TypeInv, Tables, NoJob
<1>3. context[user] = root[Kernel] /\ satp = root[user]
  BY <1>2, Zenon DEF Inv, HartInv
<1>4. TypeInv'
  BY <1>1, <1>2, <1>3, UserPages, Zenon DEF Inv, TypeInv
<1>5. OwnInv' /\ TableInv' /\ MapsInv' /\ DeadInv'
  BY <1>1, Zenon DEF Inv, OwnInv, TableInv, MapsInv, DeadInv, Exists
<1>6. WindowInv' /\ JobInv'
  BY <1>1, Zenon DEF Inv, WindowInv, JobInv, Window, First, EndPage, LastPage, Live, Exists
<1>7. HartInv'
  <2>1. context'[user] = root[user] /\ \A t \in Space : t # user => context'[t] = context[t]
    BY <1>1, <1>2, <1>3, Zenon DEF Inv, TypeInv
  <2>2. \A t \in Space : Live(t) /\ t # user => context[t] = root[t]
    BY <1>2, Zenon DEF Inv, HartInv
  <2>3. \A t \in Space : Live(t) => context'[t] = root[t]
    BY <2>1, <2>2, Zenon
  <2> QED BY <1>1, <1>2, <1>3, <2>3, UserPages, Zenon DEF HartInv, Live, Exists, NoMap
<1> QED BY <1>4, <1>5, <1>6, <1>7, Zenon DEF Inv

\* The hart caches what the walk finds.
LEMMA WalkStep ==
  ASSUME Inv, NEW v \in UserPage, Walk(v)
  PROVE  Inv'
<1>1. /\ free' = free /\ leaked' = leaked /\ mem' = mem /\ root' = root /\ pages' = pages
      /\ maps' = maps /\ stack' = stack /\ zombies' = zombies /\ dma' = dma /\ job' = job
      /\ user' = user /\ satp' = satp /\ context' = context
      /\ tlb' = With(tlb, v, translate(mem, satp, v))
  BY Zenon DEF Walk, allocation, tables, processes
<1>2. TypeInv' /\ OwnInv' /\ TableInv' /\ MapsInv' /\ DeadInv'
  BY <1>1, Zenon DEF Inv, TypeInv, OwnInv, TableInv, MapsInv, DeadInv, Exists
<1>3. WindowInv' /\ JobInv'
  BY <1>1, Zenon DEF Inv, WindowInv, JobInv, Window, First, EndPage, LastPage, Live, Exists
<1>4. HartInv'
  <2>1. /\ DOMAIN tlb' = DOMAIN tlb \cup {v} /\ tlb' = [w \in DOMAIN tlb' |-> tlb'[w]]
        /\ \A w \in DOMAIN tlb' : tlb'[w] = IF w = v THEN translate(mem, satp, v) ELSE tlb[w]
    BY <1>1, Zenon DEF With
  <2> QED BY <1>1, <2>1, Zenon DEF Inv, HartInv, Live, Exists
<1> QED BY <1>2, <1>3, <1>4, Zenon DEF Inv

\* A store in user mode goes to a page of the process.
LEMMA StoreStep ==
  ASSUME Inv, NEW v \in Vpn, UserStore(v)
  PROVE  Inv'
<1> DEFINE f == IF v \in DOMAIN tlb THEN tlb[v] ELSE translate(mem, satp, v)
<1>1. /\ free' = free /\ leaked' = leaked /\ root' = root /\ pages' = pages
      /\ maps' = maps /\ stack' = stack /\ zombies' = zombies /\ dma' = dma /\ job' = job
      /\ user' = user /\ satp' = satp /\ tlb' = tlb /\ context' = context
      /\ f # NoFrame /\ mem' = [mem EXCEPT ![f] = Junk]
  BY Zenon DEF UserStore, tables, processes, hart
<1>2. user \in Space /\ Live(user) /\ job = NoJob /\ job.op = "none"
  BY DEF UserStore, Inv, HartInv, TypeInv, Tables, NoJob
<1>3. f = translate(mem, root[user], v)
  BY <1>2, Zenon DEF Inv, HartInv
<1>4. f \in Frame /\ \A t \in Tables : f \notin pages[t]
  BY <1>1, <1>2, <1>3, UserPages, Translated DEF Live, Inv
<1> HIDE DEF f
<1>5. mem' \in Mem /\ \A g \in Frame \ {f} : mem'[g] = mem[g]
  BY <1>1, <1>4, ContentTypes, Zenon DEF Inv, TypeInv, Mem
<1>6. \A t \in Tables : Kept(t)
  BY <1>1, <1>4, <1>5, Zenon DEF Kept, Inv, TypeInv
<1>7. TableInv' /\ MapsInv'
  BY <1>1, <1>6, NoTable, Zenon
<1>8. TypeInv' /\ OwnInv' /\ DeadInv' /\ JobInv'
  BY <1>1, <1>5, Zenon DEF Inv, TypeInv, OwnInv, DeadInv, JobInv, First, EndPage, LastPage, Live, Exists
<1>9. WindowInv'
  BY <1>1, <1>2, <1>6, UserPages, NoWindow, Zenon
<1>10. HartInv'
  <2>1. Kept(user) /\ user \in Tables /\ Exists(user)
    BY <1>2, <1>6, UserPages, Zenon DEF Live
  <2>2. \A w \in UserPage : translate(mem', root'[user], w) = translate(mem, root[user], w)
    BY <2>1, KeptTable, Zenon DEF Inv
  <2> QED BY <1>1, <2>2, Zenon DEF Inv, HartInv, Live, Exists
<1> QED BY <1>7, <1>8, <1>9, <1>10, Zenon DEF Inv

\* The pages a buffer touches, when it does not end before the first does.
LEMMA TwoPages ==
  ASSUME NEW P \in Nat \ {0}, NEW v \in Nat, NEW o \in 0..(P - 1), NEW n \in 1..P,
         NEW va, va = v * P + o
  PROVE  /\ va \in Nat /\ va \div P = v /\ va % P = o
         /\ o + n >= P => /\ (va + n) \div P = v + 1
                          /\ (va + n - 1) \div P \in {v, v + 1}
<1>1. v * P = P * v /\ P * v \in Nat /\ P * (v + 1) = P * v + P
  BY Multiples
<1>2. va = P * v + o /\ va \in Nat
  BY <1>1
<1>3. va \div P = v /\ va % P = o
  BY <1>2, DivModUnique, Zenon
<1>4. ASSUME o + n >= P
      PROVE  (va + n) \div P = v + 1
  <2>1. va + n = P * (v + 1) + (o + n - P) /\ o + n - P \in 0..(P - 1) /\ va + n \in Nat
    BY <1>1, <1>2, <1>4
  <2> QED BY <2>1, DivModUnique
<1>5. ASSUME o + n >= P
      PROVE  (va + n - 1) \div P \in {v, v + 1}
  <2>1. CASE o + n = P
    <3>1. va + n - 1 = P * v + (P - 1) /\ P - 1 \in 0..(P - 1) /\ va + n - 1 \in Nat
      BY <1>1, <1>2, <2>1
    <3> QED BY <3>1, DivModUnique, Zenon
  <2>2. CASE o + n > P
    <3>1. /\ va + n - 1 = P * (v + 1) + (o + n - 1 - P) /\ o + n - 1 - P \in 0..(P - 1)
          /\ va + n - 1 \in Nat
      BY <1>1, <1>2, <2>2
    <3> QED BY <3>1, DivModUnique
  <2> QED BY <1>5, <2>1, <2>2
<1> QED BY <1>2, <1>3, <1>4, <1>5, Zenon

\* getdents64 writes to one page, or begins to map the window.
LEMMA GetdentsStep ==
  ASSUME Inv, NEW s \in Space, NEW v \in Vpn, NEW o \in 0..(PAGE_SIZE - 1), NEW n \in 1..PAGE_SIZE,
         NEW va, va = v * PAGE_SIZE + o, getdents64(s, va, n)
  PROVE  Inv'
<1> DEFINE f == translate(mem, root[s], v)
<1>0. PAGE_SIZE \in Nat \ {0} /\ v \in Nat /\ v \in UserPage
  BY ConstantsAssumption, UserPages, Zenon
<1>1. /\ va \in Nat /\ va \div PAGE_SIZE = v /\ va % PAGE_SIZE = o
      /\ o + n >= PAGE_SIZE => /\ (va + n) \div PAGE_SIZE = v + 1
                               /\ (va + n - 1) \div PAGE_SIZE \in {v, v + 1}
  <2> DEFINE P == PAGE_SIZE
  <2>1. P \in Nat \ {0} /\ v \in Nat /\ o \in 0..(P - 1) /\ n \in 1..P /\ va = v * P + o
    BY <1>0, Zenon
  <2> HIDE DEF P
  <2>2. /\ va \in Nat /\ va \div P = v /\ va % P = o
        /\ o + n >= P => (va + n) \div P = v + 1 /\ (va + n - 1) \div P \in {v, v + 1}
    BY <2>1, TwoPages, Zenon
  <2> QED BY <2>2, Zenon DEF P
<1>2. user = Kernel /\ job = NoJob /\ job.op = "none" /\ Live(s)
  BY Zenon DEF getdents64, Call, Idle, NoJob
<1>3. CASE f = NoFrame
  <2>1. UNCHANGED <<allocation, tables, processes, hart, job>>
    BY <1>1, <1>3, Zenon DEF getdents64, Panic
  <2> QED BY <2>1, NothingChanges, Zenon
<1>4. CASE f # NoFrame /\ o + n < PAGE_SIZE
  <2>1. /\ free' = free /\ leaked' = leaked /\ root' = root /\ pages' = pages
        /\ maps' = maps /\ stack' = stack /\ zombies' = zombies /\ dma' = dma /\ job' = job
        /\ context' = context /\ UNCHANGED hart /\ mem' = [mem EXCEPT ![f] = Junk]
    BY <1>1, <1>4, Zenon DEF getdents64, tables, processes
  <2>2. f \in Frame /\ \A t \in Tables : f \notin pages[t]
    BY <1>0, <1>2, <1>4, Translated DEF Live, Inv
  <2> HIDE DEF f
  <2>3. mem' \in Mem /\ \A g \in Frame \ {f} : mem'[g] = mem[g]
    BY <2>1, <2>2, ContentTypes, Zenon DEF Inv, TypeInv, Mem
  <2>4. \A t \in Tables : Kept(t)
    BY <2>1, <2>2, <2>3, Zenon DEF Kept, Inv, TypeInv
  <2>5. TableInv' /\ MapsInv'
    BY <2>1, <2>4, NoTable, Zenon
  <2>6. TypeInv' /\ OwnInv' /\ DeadInv' /\ JobInv'
    BY <2>1, <2>3, Zenon DEF Inv, TypeInv, OwnInv, DeadInv, JobInv, First, EndPage, LastPage, Live, Exists, hart
  <2>7. WindowInv'
    BY <1>2, <2>1, <2>4, UserPages, NoWindow, Zenon
  <2>8. HartInv'
    <3>1. \A t \in Space : Live(t) => context[t] = root[t]
      BY <1>2, UserPages, Zenon DEF Inv, HartInv
    <3> QED BY <1>2, <2>1, <2>4, <3>1, UserPages, KernelHart, Zenon DEF Live, Exists
  <2> QED BY <2>5, <2>6, <2>7, <2>8, Zenon DEF Inv
<1>5. CASE f # NoFrame /\ o + n >= PAGE_SIZE
  <2>1. ~(o + n < PAGE_SIZE)
    BY <1>0, <1>5
  <2>2. /\ free' = free /\ leaked' = leaked /\ mem' = mem /\ root' = root /\ pages' = pages
        /\ maps' = maps /\ stack' = stack /\ zombies' = zombies /\ dma' = dma
        /\ context' = context /\ user' = user /\ satp' = satp /\ tlb' = tlb
        /\ job' = [Job("map", s) EXCEPT !.va = va, !.size = n]
    BY <1>1, <1>5, <2>1, Zenon DEF getdents64, allocation, tables, processes, hart
  <2>3. /\ job' \in JobType /\ job'.op = "map" /\ job'.s = s /\ job'.va = va /\ job'.size = n
        /\ job'.n = 0
    <3>1. n \in Nat /\ InitSpace \in Space
      BY <1>0, ConstantsAssumption
    <3>2. job' = [op |-> "map", s |-> s, t |-> InitSpace, va |-> va, size |-> n, n |-> 0]
      BY <2>2, Zenon DEF Job, NoJob
    <3> QED BY <1>1, <3>1, <3>2, Zenon DEF JobType
  <2>4. TypeInv' /\ OwnInv' /\ TableInv' /\ MapsInv' /\ DeadInv'
    BY <2>2, <2>3, Zenon DEF Inv, TypeInv, OwnInv, TableInv, MapsInv, DeadInv, Exists
  <2>5. WindowInv'
    <3>1. Window = {} /\ Window' = {}
      BY <1>2, <2>3 DEF Window
    <3> QED BY <2>2, <3>1, Zenon DEF Inv, WindowInv
  <2>6. JobInv'
    BY <1>1, <1>2, <1>5, <2>2, <2>3 DEF JobInv, First, EndPage, LastPage, Live, Exists
  <2>7. HartInv'
    BY <1>2, <2>2, <2>3, Zenon DEF Inv, HartInv, Live, Exists
  <2> QED BY <2>4, <2>5, <2>6, <2>7, Zenon DEF Inv
<1>6. o + n < PAGE_SIZE \/ o + n >= PAGE_SIZE
  BY <1>0
<1> QED BY <1>3, <1>4, <1>5, <1>6, Zenon

-----------------------------------------------------------------------------
(* The window *)

LEMMA KernelTable ==
  ASSUME Inv, \A t \in Space : Exists(t) => Kept(t), root' = root, maps' = maps,
         Tree(mem', root[Kernel], pages'[Kernel])
  PROVE  TableInv' /\ MapsInv'
<1>1. \A t \in Space : Exists(t) =>
          /\ Tree(mem', root'[t], pages'[t])
          /\ \A v \in UserPage : translate(mem', root'[t], v) = translate(mem, root[t], v)
  BY KeptTable, UserPages, Zenon DEF Inv
<1>2. TableInv'
  <2>1. root'[Kernel] # NoFrame
    BY Zenon DEF Inv, TableInv
  <2>2. \A t \in Tables : root'[t] # NoFrame => Tree(mem', root'[t], pages'[t])
    BY <1>1, Zenon DEF Exists, Tables
  <2> QED BY <2>1, <2>2, Zenon DEF TableInv, Exists
<1>3. MapsInv'
  BY <1>1, Zenon DEF Inv, MapsInv, Exists
<1> QED BY <1>2, <1>3, Zenon

\* Where the loops over the window are.
LEMMA InWindow ==
  ASSUME Inv, job.op \in {"map", "unmap"}
  PROVE  /\ user = Kernel /\ satp = root[Kernel]
         /\ job.s \in Space /\ Live(job.s) /\ Exists(job.s)
         /\ First \in Nat /\ First \in UserPage /\ First + 1 \in UserPage
         /\ Trampoline \in Nat
         /\ job.n \in {0, 1, 2}
         /\ EndPage = First + 1 /\ LastPage \in {First, First + 1}
         /\ First + job.n <= EndPage <=> job.n # 2
         /\ First + job.n > EndPage <=> job.n = 2
<1>1. user = Kernel
  BY DEF Inv, HartInv, NoJob
<1>2. job.s \in Space /\ Live(job.s) /\ Exists(job.s)
  BY Zenon DEF Inv, JobInv, TypeInv, JobType, Live
<1>3. First \in Vpn /\ EndPage = First + 1 /\ LastPage \in {First, First + 1} /\ job.n \in 0..2
  BY Zenon DEF Inv, JobInv
<1>4. First \in Nat /\ First \in UserPage /\ First + 1 \in UserPage /\ Trampoline \in Nat
  BY <1>3, UserPages, Zenon
<1>5. job.n \in {0, 1, 2}
  BY <1>3
<1>6. satp = root[Kernel]
  BY <1>1, Zenon DEF Inv, HartInv
<1>7. /\ First + job.n <= EndPage <=> job.n # 2
      /\ First + job.n > EndPage <=> job.n = 2
  BY <1>3, <1>4, <1>5
<1> QED BY <1>1, <1>2, <1>3, <1>4, <1>5, <1>6, <1>7, Zenon

\* The accessor writes to pages of the process.
LEMMA AccessorStep ==
  ASSUME Inv, Accessor
  PROVE  Inv'
<1> DEFINE W == Trampoline..(Trampoline + LastPage - First)
           S == {f \in Frame : \E v \in W : tlb'[v] = f}
<1>1. /\ free' = free /\ leaked' = leaked /\ root' = root /\ pages' = pages
      /\ maps' = maps /\ stack' = stack /\ zombies' = zombies /\ dma' = dma
      /\ user' = user /\ satp' = satp /\ context' = context
      /\ tlb' = [v \in W |-> translate(mem, satp, v)]
      /\ job' = [job EXCEPT !.op = "unmap", !.n = 0]
      /\ job.op = "map" /\ First + job.n > EndPage
  BY Zenon DEF Accessor, Continue, tables, processes
<1>2. mem' = [f \in Frame |-> IF f \in S THEN Junk ELSE mem[f]]
  BY Zenon DEF Accessor
<1>3. /\ user = Kernel /\ satp = root[Kernel] /\ job.s \in Space /\ Exists(job.s)
      /\ First \in Nat /\ First \in UserPage /\ First + 1 \in UserPage /\ Trampoline \in Nat
      /\ LastPage \in {First, First + 1} /\ job.n = 2
  BY <1>1, InWindow, Zenon
<1>4. \A v \in W : v \in UserPage /\ \E k \in {0, 1} : v = Trampoline + k
  BY <1>3, UserPages
<1>5. Window = {0, 1}
  BY <1>1, <1>3 DEF Window
<1>6. \A k \in {0, 1} : /\ translate(mem, satp, Trampoline + k) # NoFrame
                        /\ translate(mem, satp, Trampoline + k) = translate(mem, root[job.s], First + k)
                        /\ First + k \in UserPage
  <2> TAKE k \in {0, 1}
  <2>1. Trampoline + k \in UserPage /\ First + k \in UserPage
    BY <1>3, UserPages
  <2> QED BY <1>1, <1>3, <1>5, <2>1, Zenon DEF Inv, WindowInv
<1>7. \A f \in S, t \in Tables : f \notin pages[t]
  <2> SUFFICES ASSUME NEW v \in W, NEW t \in Tables
               PROVE  translate(mem, satp, v) \notin pages[t]
    BY <1>1, Zenon
  <2>1. PICK k \in {0, 1} : v = Trampoline + k
    BY <1>4, Zenon
  <2> QED BY <1>3, <1>6, <2>1, Translated DEF Inv
<1> HIDE DEF S
<1>8. mem' \in Mem
  BY <1>2, ContentTypes, Zenon DEF Inv, TypeInv, Mem
<1>9. \A t \in Tables : Kept(t)
  BY <1>1, <1>2, <1>7, Zenon DEF Kept, Inv, TypeInv
<1>10. TableInv' /\ MapsInv'
  BY <1>1, <1>9, NoTable, Zenon
<1>11. /\ job' \in JobType /\ job'.op = "unmap" /\ job'.s = job.s /\ job'.n = 0
       /\ job'.va = job.va /\ job'.size = job.size
  BY <1>1, Zenon DEF Inv, TypeInv, JobType
<1>12. TypeInv' /\ OwnInv' /\ DeadInv'
  BY <1>1, <1>8, <1>11, Zenon DEF Inv, TypeInv, OwnInv, DeadInv, Exists
<1>13. JobInv'
  BY <1>1, <1>11 DEF Inv, JobInv, First, EndPage, LastPage, Live, Exists
<1>14. WindowInv'
  <2>1. Window' = {0, 1}
    BY <1>11 DEF Window
  <2>2. \A v \in UserPage : translate(mem', root'[Kernel], v) = translate(mem, root[Kernel], v)
    BY <1>9, KeptTable, UserPages, Zenon DEF Inv, TableInv, Exists
  <2> QED BY <1>5, <1>11, <2>1, <2>2, Zenon DEF Inv, WindowInv
<1>15. HartInv'
  <2>1. DOMAIN tlb' \in SUBSET UserPage /\ tlb' = [v \in DOMAIN tlb' |-> tlb'[v]]
    BY <1>1, <1>4, Zenon
  <2> HIDE DEF W
  <2> QED BY <1>1, <1>3, <1>11, <2>1, Zenon DEF Inv, HartInv, Live, Exists
<1> QED BY <1>10, <1>12, <1>13, <1>14, <1>15, Zenon DEF Inv

\* unmap_many takes a page of the window away, or ends with a flush.
LEMMA TrampolineUnmapStep ==
  ASSUME Inv, TrampolineUnmap
  PROVE  Inv' /\ PagesKept
<1>1. /\ free' = free /\ leaked' = leaked /\ root' = root /\ pages' = pages
      /\ maps' = maps /\ stack' = stack /\ zombies' = zombies /\ dma' = dma
      /\ user' = user /\ satp' = satp /\ context' = context /\ job.op = "unmap"
  BY Zenon DEF TrampolineUnmap, Continue, tables, processes
<1>2. /\ user = Kernel /\ satp = root[Kernel] /\ job.s \in Space
      /\ Trampoline \in Nat /\ job.n \in {0, 1, 2}
      /\ First + job.n > EndPage <=> job.n = 2
  BY <1>1, InWindow, Zenon
<1>3. CASE job.n = 2
  <2>1. job' = NoJob /\ tlb' = NoMap /\ mem' = mem
    BY <1>2, <1>3, Zenon DEF TrampolineUnmap, flush_page_table
  <2>2. NoJob \in JobType /\ NoJob.op = "none"
    BY ConstantsAssumption, Zenon DEF NoJob, JobType
  <2>3. TypeInv' /\ OwnInv' /\ TableInv' /\ MapsInv' /\ DeadInv'
    BY <1>1, <2>1, <2>2, Zenon DEF Inv, TypeInv, OwnInv, TableInv, MapsInv, DeadInv, Exists
  <2>4. Window = {} /\ Window' = {}
    BY <1>1, <1>3, <2>1, <2>2 DEF Window
  <2>5. WindowInv'
    BY <1>1, <2>1, <2>2, <2>4, Zenon DEF Inv, WindowInv
  <2>6. JobInv'
    BY <2>1, <2>2, Zenon DEF JobInv
  <2>7. HartInv'
    BY <1>1, <1>2, <2>1, <2>2, Zenon DEF Inv, HartInv, Live, Exists, NoMap
  <2> QED BY <2>1, <2>3, <2>5, <2>6, <2>7, Zenon DEF Inv, PagesKept
<1>4. CASE job.n # 2
  <2> DEFINE r == root[Kernel]
             v == Trampoline + job.n
             P == pages[Kernel]
  <2>1. /\ mem' = SetLeaf(mem, r, v, Invalid) /\ job' = [job EXCEPT !.n = job.n + 1] /\ tlb' = tlb
    BY <1>2, <1>4, Zenon DEF TrampolineUnmap
  <2>2. v \in UserPage /\ mem \in Mem /\ Tree(mem, r, P) /\ Invalid \in PTE /\ ~Invalid.valid
    BY <1>2, <1>4, UserPages DEF Inv, TypeInv, TableInv, Exists, Invalid, PTE
  <2>3. \A w \in UserPage : translate(mem, r, w) # NoFrame <=> \E k \in job.n..1 : w = Trampoline + k
    BY <1>1, Zenon DEF Inv, WindowInv, Window
  <2>4. translate(mem, r, v) # NoFrame
    BY <1>2, <1>4, <2>2, <2>3
  <2>5. Has3(mem, r, v)
    BY <2>2, <2>4, TranslateIs, Zenon
  <2> HIDE DEF v, r, P
  <2>6. /\ mem' \in Mem /\ Tree(mem', r, P)
        /\ \A f \in Frame \ P : mem'[f] = mem[f]
        /\ translate(mem', r, v) = NoFrame
        /\ \A w \in UserPage : w # v => translate(mem', r, w) = translate(mem, r, w)
    BY <2>1, <2>2, <2>5, LeafSet
  <2>7. \A t \in Space : Kept(t)
    <3>1. \A t \in Space : pages[t] \in SUBSET Frame /\ pages[t] \cap P = {}
      BY Disjoint, UserPages, Zenon DEF Inv, TypeInv, P
    <3> QED BY <1>1, <2>6, <3>1, Zenon DEF Kept
  <2>8. TableInv' /\ MapsInv'
    BY <1>1, <2>6, <2>7, KernelTable, Zenon DEF r, P
  <2>9. /\ job' \in JobType /\ job'.op = "unmap" /\ job'.s = job.s /\ job'.n = job.n + 1
        /\ job'.va = job.va /\ job'.size = job.size
    BY <1>1, <1>2, <2>1 DEF Inv, TypeInv, JobType
  <2>10. TypeInv' /\ OwnInv' /\ DeadInv'
    BY <1>1, <2>6, <2>9, Zenon DEF Inv, TypeInv, OwnInv, DeadInv, Exists
  <2>11. JobInv'
    BY <1>1, <1>2, <1>4, <2>9 DEF Inv, JobInv, First, EndPage, LastPage, Live, Exists
  <2>12. WindowInv'
    <3>1. Window' = (job.n + 1)..1
      BY <2>9, Zenon DEF Window
    <3>2. \A w \in UserPage : translate(mem', r, w) # NoFrame <=>
                                  \E k \in (job.n + 1)..1 : w = Trampoline + k
      BY <1>2, <1>4, <2>3, <2>6 DEF v
    <3> QED BY <1>1, <2>9, <3>1, <3>2, Zenon DEF WindowInv, r
  <2>13. HartInv'
    BY <1>1, <1>2, <2>1, <2>9, Zenon DEF Inv, HartInv, Live, Exists
  <2>14. PagesKept
    BY <2>6, KeptPages, UserPages, Zenon DEF P
  <2> QED BY <2>8, <2>10, <2>11, <2>12, <2>13, <2>14, Zenon DEF Inv
<1> QED BY <1>3, <1>4, Zenon

\* The tables of t grow by free pages: the tables of the others are kept, and
\* the owners are as they should be.
LEMMA Grown ==
  ASSUME Inv, NEW t \in Tables, NEW fr, NEW P,
         fr \in SUBSET free, P = pages[t] \cup (free \ fr),
         \A f \in Frame \ (P \cup (free \ fr)) : mem'[f] = mem[f],
         root' = root, pages' = [pages EXCEPT ![t] = P]
  PROVE  /\ \A u \in Tables \ {t} : Kept(u)
         /\ Own(fr, leaked, dma, pages', stack, maps)
<1>1. /\ pages \in [Tables -> SUBSET Frame] /\ free \in SUBSET Frame
      /\ \A u \in Tables : free \cap pages[u] = {}
      /\ \A u \in Tables : u # t => pages[t] \cap pages[u] = {}
  BY Disjoint, Zenon DEF Inv, TypeInv
<1>2. \A u \in Tables \ {t} : Kept(u)
  BY <1>1, Zenon DEF Kept
<1>3. Own(free \ (free \ fr), leaked, dma, [pages EXCEPT ![t] = pages[t] \cup (free \ fr)], stack, maps)
  <2>1. Own(free, leaked, dma, pages, stack, maps) /\ free \ fr \in SUBSET free
    BY Zenon DEF Inv, OwnInv
  <2> QED BY <1>1, <2>1, TakeTables, Zenon
<1>4. free \ (free \ fr) = fr
  BY Zenon
<1> QED BY <1>2, <1>3, <1>4, Zenon

\* A page of the buffer is mapped in the kernel's table.
LEMMA TrampolineMapStep ==
  ASSUME Counting, Inv, TrampolineMap
  PROVE  Inv' /\ PagesKept
<1> DEFINE r == root[Kernel]
           v == Trampoline + job.n
           P == pages[Kernel]
           f == translate(mem, root[job.s], First + job.n)
           x == map(State(free, mem, P), r, v, f)
<1>1. job.op = "map" /\ First + job.n <= EndPage
  BY Zenon DEF TrampolineMap, Continue
<1>2. /\ user = Kernel /\ satp = root[Kernel] /\ job.s \in Space /\ Live(job.s) /\ Exists(job.s)
      /\ Trampoline \in Nat /\ job.n \in {0, 1}
      /\ First \in UserPage /\ First + 1 \in UserPage /\ First \in Nat
  BY <1>1, InWindow, Zenon
<1>3. CASE f = NoFrame \/ ~Enough(Missing(r, v)) \/ translate(mem, r, v) # NoFrame
  <2>1. UNCHANGED <<allocation, tables, processes, hart, job>>
    BY <1>3, Zenon DEF TrampolineMap, Panic
  <2> QED BY <2>1, NothingChanges, Zenon DEF allocation, PagesKept
<1>4. CASE ~(f = NoFrame \/ ~Enough(Missing(r, v)) \/ translate(mem, r, v) # NoFrame)
  <2>1. /\ free' = x.free /\ mem' = x.mem /\ pages' = [pages EXCEPT ![Kernel] = x.pages]
        /\ job' = [job EXCEPT !.n = job.n + 1]
        /\ leaked' = leaked /\ root' = root /\ maps' = maps /\ stack' = stack /\ zombies' = zombies
        /\ context' = context /\ dma' = dma /\ user' = user /\ satp' = satp /\ tlb' = tlb
    BY <1>4, Zenon DEF TrampolineMap, processes, hart
  <2>2. First + job.n \in UserPage /\ v \in UserPage
    BY <1>2, UserPages
  <2>3. f \in Nat
    <3> DEFINE u == First + job.n
    <3>1. u \in UserPage /\ translate(mem, root[job.s], u) # NoFrame
      BY <1>4, <2>2, Zenon
    <3> HIDE DEF u
    <3>2. translate(mem, root[job.s], u) \in Frame
      BY <1>2, <3>1, Translated DEF Inv
    <3> QED BY <3>2, UserPages, Zenon DEF u
  <2>4. /\ mem \in Mem /\ Tree(mem, r, P) /\ free \in SUBSET Frame /\ free \cap P = {}
    BY Disjoint, UserPages, Zenon DEF Inv, TypeInv, TableInv, Exists
  <2>5. Spare(free, mem, r, v)
    BY <1>4, <2>4, EnoughIsSpare, Zenon DEF Enough
  <2> HIDE DEF r, v, P, f
  <2>6. /\ x.free \in SUBSET free /\ x.pages = P \cup (free \ x.free)
        /\ x.mem \in Mem /\ Tree(x.mem, r, x.pages)
        /\ translate(x.mem, r, v) = f
        /\ \A w \in UserPage : w # v => translate(x.mem, r, w) = translate(mem, r, w)
        /\ \A g \in Frame \ x.pages : x.mem[g] = mem[g]
    <3>1. MapsTo(x, free, mem, P, r, v, f)
      BY <2>2, <2>3, <2>4, <2>5, Mapped, Zenon
    <3> HIDE DEF x
    <3> QED BY <3>1, Zenon DEF MapsTo
  <2> HIDE DEF x
  <2>7. /\ \A u \in Tables \ {Kernel} : Kept(u)
        /\ Own(x.free, leaked, dma, pages', stack, maps)
    <3>1. \A g \in Frame \ (x.pages \cup (free \ x.free)) : mem'[g] = mem[g]
      BY <2>1, <2>6, Zenon
    <3> QED BY <2>1, <2>6, <3>1, Grown, UserPages, Zenon DEF P
  <2>8. pages'[Kernel] = x.pages /\ pages' \in [Tables -> SUBSET Frame]
    BY <2>1, <2>4, <2>6, UserPages, Zenon DEF Inv, TypeInv, P
  <2>9. TableInv' /\ MapsInv'
    BY <2>1, <2>6, <2>7, <2>8, KernelTable, UserPages, Zenon DEF r
  <2>10. /\ job' \in JobType /\ job'.op = "map" /\ job'.s = job.s /\ job'.n = job.n + 1
         /\ job'.va = job.va /\ job'.size = job.size
    BY <1>1, <1>2, <2>1 DEF Inv, TypeInv, JobType
  <2>11. TypeInv' /\ OwnInv'
    BY <2>1, <2>4, <2>6, <2>7, <2>8, <2>10, Zenon DEF Inv, TypeInv, OwnInv
  <2>12. DeadInv'
    BY <2>1, <2>7, UserPages, Zenon DEF Inv, DeadInv, Exists, Kept
  <2>13. JobInv'
    BY <1>1, <1>2, <2>1, <2>10 DEF Inv, JobInv, First, EndPage, LastPage, Live, Exists
  <2>14. WindowInv'
    <3>1. Window = 0..(job.n - 1) /\ Window' = 0..job.n /\ First' = First
      BY <1>1, <1>2, <2>10 DEF Window, First
    <3>2. \A w \in UserPage : translate(mem', r, w) # NoFrame <=> \E k \in 0..job.n : w = Trampoline + k
      <4>1. \A w \in UserPage : translate(mem, r, w) # NoFrame <=>
                                    \E k \in 0..(job.n - 1) : w = Trampoline + k
        BY <3>1, Zenon DEF Inv, WindowInv, r
      <4> QED BY <1>2, <1>4, <2>1, <2>6, <4>1 DEF v
    <3>3. \A w \in UserPage : translate(mem', root[job.s], w) = translate(mem, root[job.s], w)
      <4>1. job.s \in Tables \ {Kernel}
        BY <1>2, UserPages, Zenon
      <4>2. \A w \in UserPage : translate(mem', root'[job.s], w) = translate(mem, root[job.s], w)
        BY <1>2, <2>7, <4>1, KeptTable, Zenon DEF Inv
      <4> QED BY <2>1, <4>2, Zenon
    <3>4. \A k \in 0..job.n : translate(mem', r, Trampoline + k) = translate(mem', root[job.s], First + k)
      <4> TAKE k \in 0..job.n
      <4>1. k \in {0, 1} /\ First + k \in UserPage /\ Trampoline + k \in UserPage
        BY <1>2, UserPages
      <4>2. CASE k = job.n
        BY <2>1, <2>6, <3>3, <4>1, <4>2, Zenon DEF v, f
      <4>3. CASE k # job.n
        <5>1. k \in 0..(job.n - 1) /\ Trampoline + k # v
          BY <1>2, <4>1, <4>3 DEF v
        <5>2. translate(mem, r, Trampoline + k) = translate(mem, root[job.s], First + k)
          BY <1>1, <3>1, <5>1, Zenon DEF Inv, WindowInv, r
        <5> QED BY <2>1, <2>6, <3>3, <4>1, <5>1, <5>2, Zenon
      <4> QED BY <4>2, <4>3, Zenon
    <3> QED BY <2>1, <2>10, <3>1, <3>2, <3>4, Zenon DEF WindowInv, r
  <2>15. HartInv'
    BY <1>1, <1>2, <2>1, <2>10, Zenon DEF Inv, HartInv, Live, Exists
  <2>16. PagesKept
    BY <2>1, <2>6, KeptPages, UserPages, Zenon DEF P
  <2> QED BY <2>9, <2>11, <2>12, <2>13, <2>14, <2>15, <2>16, Zenon DEF Inv
<1> QED BY <1>3, <1>4, Zenon

-----------------------------------------------------------------------------
(* Mapping and unmapping the pages of a process *)

\* The context of every live process names its table while the kernel runs.
LEMMA Contexts ==
  ASSUME Inv, user = Kernel
  PROVE  \A s \in Space : Live(s) /\ ~(job.op = "exec" /\ job.s = s) => context[s] = root[s]
BY UserPages, Zenon DEF Inv, HartInv

\* The page v of s is the new one, as its caller filled it, and the other
\* pages are kept; or nothing has changed.
PageMapped(s, v, m) ==
    \/ UNCHANGED <<allocation, tables, processes, hart, job>>
    \/ /\ v \notin DOMAIN maps[s] /\ maps' = [maps EXCEPT ![s] = With(maps[s], v, NextPage)]
       /\ job' = job /\ PagesKept /\ NextPage \in Frame /\ mem'[NextPage] = m[NextPage]

\* ProcessMemory::map, in the memory its caller leaves: the page it allocated
\* may have been filled.
LEMMA MapPageStep ==
  ASSUME Counting, Inv, NEW s \in Space, Live(s), NEW v \in Vpn, NEW m \in Mem,
         \A f \in Frame \ {NextPage} : m[f] = mem[f],
         user = Kernel, job.op \notin {"map", "unmap"}, MapPage(s, v, m)
  PROVE  Inv' /\ PageMapped(s, v, m)
<1> DEFINE r == root[s]
           P == pages[s]
           a == NextPage
           fr == free \ {a}
           y == map(State(fr, m, P), r, v, a)
<1>1. CASE ~Enough(1 + Missing(r, v)) \/ translate(mem, r, v) # NoFrame
  <2>1. UNCHANGED <<allocation, tables, processes, hart, job>>
    BY <1>1, Zenon DEF MapPage, Panic
  <2> QED BY <2>1, NothingChanges, Zenon DEF PageMapped
<1>2. CASE ~(~Enough(1 + Missing(r, v)) \/ translate(mem, r, v) # NoFrame)
  <2>1. /\ free' = y.free /\ mem' = y.mem /\ pages' = [pages EXCEPT ![s] = y.pages]
        /\ maps' = [maps EXCEPT ![s] = With(maps[s], v, a)]
        /\ leaked' = leaked /\ root' = root /\ stack' = stack /\ zombies' = zombies
        /\ context' = context /\ dma' = dma /\ UNCHANGED hart /\ job' = job /\ user' = user
    BY <1>2, Zenon DEF MapPage, processes, hart
  <2>2. s \in Tables /\ s # Kernel /\ Exists(s) /\ v \in UserPage
    BY UserPages, Zenon DEF Live
  <2>3. /\ mem \in Mem /\ Tree(mem, r, P) /\ free \in SUBSET Frame /\ free \cap P = {}
        /\ pages \in [Tables -> SUBSET Frame] /\ maps \in [Space -> PageMap]
    BY <2>2, Disjoint, Zenon DEF Inv, TypeInv, TableInv
  <2>4. free # {} /\ a \in free /\ a \in Nat /\ Spare(fr, mem, r, v)
    <3>1. free # {}
      BY <1>2, <2>3, EnoughIsSpare, Zenon DEF Enough
    <3>2. a \in free
      BY <2>3, <3>1, OnePage, Zenon DEF NextPage
    <3> HIDE DEF a
    <3> QED BY <1>2, <2>3, <3>1, <3>2, EnoughIsSpare, UserPages, Zenon DEF Enough
  <2>5. translate(mem, r, v) = NoFrame /\ v \notin DOMAIN maps[s]
    <3>1. \A w \in DOMAIN maps[s] : maps[s][w] # NoFrame
      BY Disjoint, UserPages, Zenon DEF Inv
    <3> QED BY <1>2, <2>2, <3>1, Zenon DEF Inv, MapsInv
  <2> HIDE DEF a, r, P
  <2>6. \A f \in Frame \ {a} : m[f] = mem[f]
    BY Zenon DEF a
  <2>7. /\ Tree(m, r, P) /\ Spare(fr, m, r, v)
        /\ \A w \in UserPage : translate(m, r, w) = translate(mem, r, w)
    <3>1. \A f \in P : m[f] = mem[f]
      BY <2>3, <2>4, <2>6, Zenon DEF Tree
    <3>2. Tree(m, r, P) /\ SameTables(m, mem, r) /\ SameTranslations(m, mem, r)
      BY <2>3, <3>1, SameWalk, Zenon
    <3> HIDE DEF fr
    <3> QED BY <2>2, <2>4, <3>2, Zenon DEF Spare, SameTables, SameTranslations
  <2>8. fr \in SUBSET Frame /\ fr \cap P = {}
    BY <2>3, Zenon
  <2> HIDE DEF fr
  <2>9. /\ y.free \in SUBSET fr /\ y.pages = P \cup (fr \ y.free)
        /\ y.mem \in Mem /\ Tree(y.mem, r, y.pages)
        /\ translate(y.mem, r, v) = a
        /\ \A w \in UserPage : w # v => translate(y.mem, r, w) = translate(m, r, w)
        /\ \A g \in Frame \ y.pages : y.mem[g] = m[g]
    <3>1. MapsTo(y, fr, m, P, r, v, a)
      BY <2>2, <2>4, <2>7, <2>8, Mapped, Zenon
    <3> HIDE DEF y
    <3> QED BY <3>1, Zenon DEF MapsTo
  <2> HIDE DEF y
  <2>10. \A t \in Tables \ {s} : Kept(t)
    <3>1. \A t \in Tables \ {s} : pages[t] \cap free = {} /\ pages[t] \cap P = {} /\ pages[t] \in SUBSET Frame
      BY <2>2, <2>3, Disjoint, Zenon DEF Inv, P
    <3>2. \A t \in Tables \ {s} : \A f \in pages[t] : f \in Frame \ y.pages /\ f # a
      BY <2>4, <2>9, <3>1, Zenon DEF fr
    <3> QED BY <2>1, <2>2, <2>3, <2>6, <2>9, <3>2, Zenon DEF Kept
  <2>11. Own(y.free, leaked, dma, pages', stack, maps')
    <3>1. Own(fr, leaked, dma, pages, stack, maps')
      <4>1. Own(free, leaked, dma, pages, stack, maps) /\ v \in Vpn \ DOMAIN maps[s]
        BY <2>5, Zenon DEF Inv, OwnInv
      <4> QED BY <2>1, <2>3, <2>4, <4>1, TakePage, Zenon DEF fr
    <3>2. Own(fr \ (fr \ y.free), leaked, dma, [pages EXCEPT ![s] = pages[s] \cup (fr \ y.free)], stack, maps')
      <4>1. fr \ y.free \in SUBSET fr
        BY Zenon
      <4> QED BY <2>2, <2>3, <2>8, <3>1, <4>1, TakeTables, Zenon
    <3>3. fr \ (fr \ y.free) = y.free
      BY <2>9, Zenon
    <3>4. pages' = [pages EXCEPT ![s] = pages[s] \cup (fr \ y.free)]
      BY <2>1, <2>9, Zenon DEF P
    <3> QED BY <3>2, <3>3, <3>4, Zenon
  <2>12. /\ maps'[s] = With(maps[s], v, a) /\ \A t \in Space \ {s} : maps'[t] = maps[t]
         /\ pages'[s] = y.pages /\ a \in Frame
         /\ maps' \in [Space -> PageMap] /\ pages' \in [Tables -> SUBSET Frame]
    <3>1. a \in Frame /\ maps[s] \in PageMap /\ y.pages \in SUBSET Frame
      BY <2>3, <2>4, <2>8, <2>9, Zenon DEF Tree
    <3>2. With(maps[s], v, a) \in PageMap
      BY <3>1, PageMaps, Zenon
    <3> QED BY <2>1, <2>2, <2>3, <3>1, <3>2, Zenon
  <2>13. \A w \in UserPage : translate(mem', root'[s], w) =
                                 IF w \in DOMAIN maps'[s] THEN maps'[s][w] ELSE NoFrame
    <3>1. /\ DOMAIN maps'[s] = DOMAIN maps[s] \cup {v}
          /\ maps'[s][v] = a
          /\ \A w \in DOMAIN maps[s] : w # v => maps'[s][w] = maps[s][w]
      BY <2>12, Zenon DEF With
    <3>2. \A w \in UserPage : translate(mem, r, w) =
                                 IF w \in DOMAIN maps[s] THEN maps[s][w] ELSE NoFrame
      BY <2>2, Zenon DEF Inv, MapsInv, r
    <3>3. root'[s] = r
      BY <2>1, Zenon DEF r
    <3> SUFFICES ASSUME NEW w \in UserPage
                 PROVE  translate(mem', root'[s], w) =
                            IF w \in DOMAIN maps'[s] THEN maps'[s][w] ELSE NoFrame
      OBVIOUS
    <3>4. CASE w = v
      BY <2>1, <2>9, <3>1, <3>3, <3>4, Zenon
    <3>5. CASE w # v
      <4>1. translate(mem', root'[s], w) = translate(mem, r, w)
        BY <2>1, <2>7, <2>9, <3>3, <3>5, Zenon
      <4> QED BY <3>1, <3>2, <3>5, <4>1, Zenon
    <3> QED BY <3>4, <3>5, Zenon
  <2>14. TableInv' /\ MapsInv'
    <3>1. Tree(mem', root'[s], pages'[s])
      BY <2>1, <2>9, <2>12, Zenon DEF r
    <3> QED BY <2>1, <2>10, <2>12, <2>13, <3>1, OneTable, Zenon
  <2>15. TypeInv' /\ OwnInv'
    <3>1. free' \in SUBSET Frame
      BY <2>1, <2>8, <2>9, Zenon
    <3> QED BY <2>1, <2>9, <2>11, <2>12, <3>1, Zenon DEF Inv, TypeInv, OwnInv
  <2>16. DeadInv'
    BY <2>1, <2>2, <2>10, <2>12, UserPages, Zenon DEF Inv, DeadInv, Exists, Kept
  <2>17. Kept(Kernel)
    BY <2>2, <2>10, UserPages, Zenon
  <2>18. WindowInv' /\ JobInv'
    BY <2>1, <2>17, NoWindow, Zenon DEF Inv, JobInv, Live, Exists
  <2>19. HartInv'
    <3>1. \A t \in Space : root'[t] # NoFrame /\ t \notin zombies' /\ ~(job'.op = "exec" /\ job'.s = t)
                           => context'[t] = root'[t]
      BY <2>1, Contexts, Zenon DEF Live, Exists
    <3> QED BY <2>1, <2>17, <3>1, KernelHart, Zenon
  <2>20. PageMapped(s, v, m)
    <3>1. a \notin y.pages
      BY <2>3, <2>4, <2>9, Zenon DEF fr
    <3>2. mem'[a] = m[a]
      BY <2>1, <2>9, <2>12, <3>1, Zenon
    <3>3. \A f \in Frame : f \notin free /\ (\A t \in Tables : f \notin pages[t]) => mem'[f] = mem[f]
      BY <2>1, <2>2, <2>4, <2>6, <2>9, Zenon DEF fr, P
    <3>4. PagesKept
      BY <3>3, KeptPages, Zenon
    <3> QED BY <2>1, <2>5, <2>12, <3>2, <3>4, Zenon DEF PageMapped, a
  <2> QED BY <2>14, <2>15, <2>16, <2>18, <2>19, <2>20, Zenon DEF Inv
<1> QED BY <1>1, <1>2, Zenon

\* The page that has just been allocated is cleared, and may be filled.
LEMMA Fills ==
  ASSUME TypeInv, NEW c \in Content
  PROVE  /\ PhyPage_alloc(mem, NextPage) \in Mem
         /\ \A f \in Frame \ {NextPage} : PhyPage_alloc(mem, NextPage)[f] = mem[f]
         /\ Filled(c) \in Mem
         /\ \A f \in Frame \ {NextPage} : Filled(c)[f] = mem[f]
<1> DEFINE a == NextPage
           m == PhyPage_alloc(mem, a)
<1>1. mem \in Mem
  BY Zenon DEF TypeInv
<1> HIDE DEF a
<1>2. m \in Mem /\ \A f \in Frame \ {a} : m[f] = mem[f]
  BY <1>1, ContentTypes, Zenon DEF PhyPage_alloc, Mem
<1>3. Filled(c) = [m EXCEPT ![a] = c]
  BY Zenon DEF Filled, a
<1> HIDE DEF m
<1>4. Filled(c) \in Mem /\ \A f \in Frame \ {a} : Filled(c)[f] = mem[f]
  BY <1>2, <1>3, Zenon DEF Mem
<1> QED BY <1>2, <1>4, Zenon DEF a, m

LEMMA MmapStep ==
  ASSUME Counting, Inv, NEW s \in Space, NEW v \in Vpn, mmap(s, v)
  PROVE  Inv'
<1>1. user = Kernel /\ job.op = "none" /\ Live(s) /\ MapPage(s, v, PhyPage_alloc(mem, NextPage))
  BY Zenon DEF mmap, Call, Idle, NoJob
<1>2. /\ PhyPage_alloc(mem, NextPage) \in Mem
      /\ \A f \in Frame \ {NextPage} : PhyPage_alloc(mem, NextPage)[f] = mem[f]
  BY Fills, ContentTypes, Zenon DEF Inv
<1> QED BY <1>1, <1>2, MapPageStep, Zenon

\* The next page of a loop.
LEMMA NextOf ==
  ASSUME Counting, NEW rest \in SUBSET Vpn, rest # {}
  PROVE  Min(rest) \in rest
<1>1. rest \in SUBSET Nat
  BY UserPages, Zenon
<1>2. PICK m \in rest : \A x \in rest : m <= x
  BY <1>1, Zenon DEF Counting
<1> QED BY <1>1, <1>2, MinIs

\* The end of a loop that has no window.
LEMMA LoopEnds ==
  ASSUME Inv, user = Kernel, job.op \notin {"map", "unmap"}, job' = NoJob,
         UNCHANGED <<allocation, tables, stack, zombies, dma, hart>>,
         context' \in [Space -> Frame \cup {NoFrame}],
         \A s \in Space : Live(s) => context'[s] = root[s]
  PROVE  Inv'
<1>1. /\ free' = free /\ leaked' = leaked /\ mem' = mem /\ root' = root /\ pages' = pages
      /\ maps' = maps /\ stack' = stack /\ zombies' = zombies /\ dma' = dma
      /\ user' = user /\ satp' = satp /\ tlb' = tlb
  BY Zenon DEF allocation, tables, hart
<1>2. NoJob \in JobType /\ NoJob.op = "none"
  BY ConstantsAssumption, Zenon DEF NoJob, JobType
<1>3. TypeInv' /\ OwnInv' /\ TableInv' /\ MapsInv' /\ DeadInv'
  BY <1>1, <1>2, Zenon DEF Inv, TypeInv, OwnInv, TableInv, MapsInv, DeadInv, Exists
<1>4. Kept(Kernel)
  BY <1>1, Zenon DEF Kept
<1>5. WindowInv' /\ JobInv'
  BY <1>2, <1>4, NoWindow, Zenon DEF JobInv
<1>6. HartInv'
  BY <1>1, <1>2, <1>4, KernelHart, Zenon DEF Live, Exists
<1> QED BY <1>3, <1>5, <1>6, Zenon DEF Inv

LEMMA CopyStep ==
  ASSUME Counting, Inv, copy_from
  PROVE  Inv'
<1> DEFINE rest == DOMAIN maps[job.s] \ DOMAIN maps[job.t]
           v == Min(rest)
           c == mem[maps[job.s][v]]
<1>1. job.op = "fork" /\ job.s \in Space /\ job.t \in Space /\ Live(job.t)
  BY Zenon DEF copy_from, Continue, Inv, JobInv, TypeInv, JobType
<1>2. user = Kernel
  BY <1>1 DEF Inv, HartInv, NoJob
<1>3. CASE rest = {}
  <2>1. job' = NoJob /\ UNCHANGED <<allocation, tables, processes, hart>>
    BY <1>3, Zenon DEF copy_from
  <2>2. context' = context /\ UNCHANGED <<stack, zombies, dma>>
    BY <2>1, Zenon DEF processes
  <2>3. \A s \in Space : Live(s) => context'[s] = root[s]
    BY <1>1, <1>2, <2>2, Contexts, Zenon
  <2>4. context' \in [Space -> Frame \cup {NoFrame}]
    BY <2>2, Zenon DEF Inv, TypeInv
  <2> QED BY <1>1, <1>2, <2>1, <2>2, <2>3, <2>4, LoopEnds, Zenon
<1>4. CASE rest # {}
  <2>1. MapPage(job.t, v, Filled(c))
    BY <1>4, Zenon DEF copy_from
  <2>2. rest \in SUBSET Vpn
    BY <1>1, Disjoint, Zenon DEF Inv
  <2>3. v \in rest
    BY <1>4, <2>2, NextOf, Zenon
  <2>4. v \in Vpn /\ c \in Content
    BY <1>1, <2>2, <2>3, Disjoint, Zenon DEF Inv, TypeInv, Mem
  <2> HIDE DEF v, c
  <2>5. Filled(c) \in Mem /\ \A f \in Frame \ {NextPage} : Filled(c)[f] = mem[f]
    BY <2>4, Fills, Zenon DEF Inv
  <2> QED BY <1>1, <1>2, <2>1, <2>4, <2>5, MapPageStep, Zenon
<1> QED BY <1>3, <1>4, Zenon

LEMMA LoadStep ==
  ASSUME Counting, Inv, load_elf
  PROVE  Inv'
<1> DEFINE rest == (ImagePages \cup {UserStack}) \ DOMAIN maps[job.s]
           v == Min(rest)
           m == IF v \in ImagePages THEN Filled(Image) ELSE PhyPage_alloc(mem, NextPage)
<1>1. job.op \in {"load", "exec"} /\ job.s \in Space /\ Live(job.s)
  BY Zenon DEF load_elf, Continue, Inv, JobInv, TypeInv, JobType
<1>2. user = Kernel
  BY <1>1 DEF Inv, HartInv, NoJob
<1>3. CASE rest = {}
  <2>1. /\ job' = NoJob /\ UNCHANGED <<allocation, tables, stack, zombies, dma, hart>>
        /\ context' = IF job.op = "exec" THEN [context EXCEPT ![job.s] = root[job.s]] ELSE context
    BY <1>3, Zenon DEF load_elf
  <2>2. context' \in [Space -> Frame \cup {NoFrame}]
    BY <1>1, <2>1, UserPages, Zenon DEF Inv, TypeInv
  <2>3. \A s \in Space : Live(s) => context'[s] = root[s]
    <3>1. \A s \in Space : Live(s) /\ ~(job.op = "exec" /\ job.s = s) => context[s] = root[s]
      BY <1>2, Contexts, Zenon
    <3> QED BY <1>1, <2>1, <3>1, Zenon DEF Inv, TypeInv
  <2> QED BY <1>1, <1>2, <2>1, <2>2, <2>3, LoopEnds, Zenon
<1>4. CASE rest # {}
  <2>1. MapPage(job.s, v, m)
    BY <1>4, Zenon DEF load_elf
  <2>2. rest \in SUBSET Vpn
    BY ConstantsAssumption, Zenon
  <2>3. v \in rest
    BY <1>4, <2>2, NextOf, Zenon
  <2>4. v \in Vpn
    BY <2>2, <2>3, Zenon
  <2> HIDE DEF v
  <2>5. m \in Mem /\ \A f \in Frame \ {NextPage} : m[f] = mem[f]
    BY Fills, ContentTypes, Zenon DEF Inv
  <2> HIDE DEF m
  <2> QED BY <1>1, <1>2, <2>1, <2>4, <2>5, MapPageStep, Zenon
<1> QED BY <1>3, <1>4, Zenon

\* ProcessMemory::unmap: the page is dropped and its leaf cleared.
LEMMA UnmapStep ==
  ASSUME Inv, NEW s \in Space, NEW v \in Vpn, unmap(s, v)
  PROVE  Inv' /\ PagesKept
<1> DEFINE r == root[s]
           P == pages[s]
<1>1. user = Kernel /\ job = NoJob /\ job.op = "none" /\ Live(s) /\ v \in DOMAIN maps[s]
  BY Zenon DEF unmap, Call, Idle, NoJob
<1>2. s \in Tables /\ s # Kernel /\ Exists(s) /\ v \in UserPage
  BY <1>1, UserPages, Zenon DEF Live
<1>3. translate(mem, r, v) = maps[s][v] /\ maps[s][v] # NoFrame /\ maps[s][v] \in Frame
  BY <1>1, <1>2, Disjoint, UserPages, Zenon DEF Inv, MapsInv
<1>4. /\ mem' = SetLeaf(mem, r, v, Invalid) /\ free' = free \cup {maps[s][v]}
      /\ maps' = [maps EXCEPT ![s] = Without(maps[s], v)]
      /\ leaked' = leaked /\ root' = root /\ pages' = pages /\ stack' = stack /\ zombies' = zombies
      /\ context' = context /\ dma' = dma /\ UNCHANGED hart /\ job' = job /\ user' = user
  BY <1>1, <1>3, Zenon DEF unmap, Drop, processes, hart
<1>5. mem \in Mem /\ Tree(mem, r, P) /\ Invalid \in PTE /\ ~Invalid.valid /\ maps \in [Space -> PageMap]
  BY <1>2, Zenon DEF Inv, TypeInv, TableInv, Invalid, PTE
<1>6. Has3(mem, r, v)
  BY <1>2, <1>3, <1>5, TranslateIs, Zenon
<1> HIDE DEF r, P
<1>7. /\ mem' \in Mem /\ Tree(mem', r, P)
      /\ \A f \in Frame \ P : mem'[f] = mem[f]
      /\ translate(mem', r, v) = NoFrame
      /\ \A w \in UserPage : w # v => translate(mem', r, w) = translate(mem, r, w)
  BY <1>2, <1>4, <1>5, <1>6, LeafSet
<1>8. \A t \in Tables \ {s} : Kept(t)
  <2>1. \A t \in Tables \ {s} : pages[t] \in SUBSET Frame /\ pages[t] \cap P = {}
    BY <1>2, Disjoint, Zenon DEF Inv, TypeInv, P
  <2> QED BY <1>4, <1>7, <2>1, Zenon DEF Kept
<1>9. /\ maps'[s] = Without(maps[s], v) /\ \A t \in Space \ {s} : maps'[t] = maps[t]
      /\ maps' \in [Space -> PageMap]
  <2>1. Without(maps[s], v) \in PageMap
    BY <1>5, PageMaps, Zenon
  <2> QED BY <1>4, <1>5, <2>1, Zenon
<1>10. \A w \in UserPage : translate(mem', root'[s], w) =
                               IF w \in DOMAIN maps'[s] THEN maps'[s][w] ELSE NoFrame
  <2>1. DOMAIN maps'[s] = DOMAIN maps[s] \ {v} /\ \A w \in DOMAIN maps'[s] : maps'[s][w] = maps[s][w]
    BY <1>9, Zenon DEF Without
  <2>2. \A w \in UserPage : translate(mem, r, w) =
                               IF w \in DOMAIN maps[s] THEN maps[s][w] ELSE NoFrame
    BY <1>2, Zenon DEF Inv, MapsInv, r
  <2>3. root'[s] = r
    BY <1>4, Zenon DEF r
  <2> QED BY <1>7, <2>1, <2>2, <2>3, Zenon
<1>11. TableInv' /\ MapsInv'
  <2>1. Tree(mem', root'[s], pages'[s])
    BY <1>4, <1>7, Zenon DEF r, P
  <2> QED BY <1>4, <1>8, <1>9, <1>10, <2>1, OneTable, Zenon
<1>12. OwnInv'
  <2>1. Own(free, leaked, dma, pages, stack, maps)
    BY Zenon DEF Inv, OwnInv
  <2>2. Own(free \cup {maps[s][v]}, leaked, dma, pages, stack, [maps EXCEPT ![s] = Without(maps[s], v)])
    BY <1>1, <1>5, <2>1, DropPage, Zenon
  <2> QED BY <1>4, <2>2, Zenon DEF OwnInv
<1>13. TypeInv'
  <2>1. free' \in SUBSET Frame
    BY <1>3, <1>4, Zenon DEF Inv, TypeInv
  <2> QED BY <1>4, <1>7, <1>9, <2>1, Zenon DEF Inv, TypeInv
<1>14. DeadInv' /\ JobInv'
  BY <1>1, <1>2, <1>4, <1>9, Zenon DEF Inv, DeadInv, JobInv, Exists
<1>15. Kept(Kernel)
  BY <1>2, <1>8, UserPages, Zenon
<1>16. WindowInv'
  BY <1>1, <1>4, <1>15, NoWindow, Zenon
<1>17. HartInv'
  <2>1. \A t \in Space : root'[t] # NoFrame /\ t \notin zombies' => context'[t] = root'[t]
    BY <1>1, <1>4, Contexts, Zenon DEF Live, Exists
  <2> QED BY <1>1, <1>4, <1>15, <2>1, KernelHart, Zenon
<1>18. PagesKept
  BY <1>2, <1>7, KeptPages, Zenon DEF P
<1> QED BY <1>11, <1>12, <1>13, <1>14, <1>16, <1>17, <1>18, Zenon DEF Inv

\* A process gets a new root, from a free frame, and has no page yet.
LEMMA NewRoot ==
  ASSUME Inv, NEW s \in Space, NEW r \in free, UNCHANGED hart, user = Kernel,
         mem' = [mem EXCEPT ![r] = NewTable],
         root' = [root EXCEPT ![s] = r], pages' = [pages EXCEPT ![s] = {r}],
         \A t \in Space \ {s} : maps'[t] = maps[t], DOMAIN maps'[s] = {},
         job.op \notin {"map", "unmap"}, job'.op \notin {"map", "unmap"}
  PROVE  /\ mem' \in Mem
         /\ root' \in [Tables -> Frame \cup {NoFrame}] /\ root'[s] = r
         /\ \A t \in Tables \ {s} : root'[t] = root[t] /\ pages'[t] = pages[t]
         /\ pages' \in [Tables -> SUBSET Frame]
         /\ TableInv' /\ MapsInv' /\ WindowInv' /\ Kept(Kernel) /\ r # NoFrame
<1>1. /\ r \in Frame /\ s \in Tables /\ s # Kernel /\ mem \in Mem
      /\ root \in [Tables -> Frame \cup {NoFrame}] /\ pages \in [Tables -> SUBSET Frame]
  BY UserPages, Zenon DEF Inv, TypeInv
<1>2. mem' \in Mem /\ mem'[r] = NewTable /\ \A f \in Frame \ {r} : mem'[f] = mem[f]
  BY <1>1, ContentTypes, Zenon DEF Mem
<1>3. /\ root' \in [Tables -> Frame \cup {NoFrame}] /\ root'[s] = r
      /\ \A t \in Tables \ {s} : root'[t] = root[t] /\ pages'[t] = pages[t]
      /\ pages' \in [Tables -> SUBSET Frame] /\ pages'[s] = {r}
  BY <1>1, Zenon
<1>4. \A t \in Tables \ {s} : Kept(t)
  <2>1. \A t \in Tables : r \notin pages[t]
    BY Disjoint, Zenon DEF Inv
  <2> QED BY <1>1, <1>2, <1>3, <2>1 DEF Kept
<1>5. Tree(mem', root'[s], pages'[s]) /\ \A v \in UserPage : translate(mem', root'[s], v) = NoFrame
  <2>1. PICK m : m = mem'
    BY Zenon
  <2>2. Tree(m, r, {r}) /\ \A v \in UserPage : translate(m, r, v) = NoFrame
    <3>1. m[r] = NewTable
      BY <1>2, <2>1, Zenon
    <3> QED BY ONLY <1>1, <3>1, NewTree, Zenon
  <2> QED BY <1>3, <2>1, <2>2, Zenon
<1>6. TableInv' /\ MapsInv'
  <2>1. \A v \in UserPage : translate(mem', root'[s], v) =
                               IF v \in DOMAIN maps'[s] THEN maps'[s][v] ELSE NoFrame
    BY <1>5, Zenon
  <2> QED BY <1>3, <1>4, <1>5, <2>1, OneTable, Zenon
<1>7. Kept(Kernel)
  BY <1>1, <1>4, UserPages, Zenon
<1>8. WindowInv'
  BY <1>7, NoWindow, Zenon
<1>9. r # NoFrame
  BY <1>1, UserPages, Zenon
<1> QED BY <1>2, <1>3, <1>6, <1>7, <1>8, <1>9, Zenon

\* ProcessMemory::new and the kernel stack, for spawn and fork.
LEMMA NewStep ==
  ASSUME Counting, Inv, NEW s \in Space, ~Exists(s), user = Kernel, job = NoJob, NEW j \in JobType,
         j.op \in {"load", "fork"},
         j.op = "load" => j.s = s,
         j.op = "fork" => Live(j.s) /\ j.t = s,
         New(s, j)
  PROVE  Inv'
<1> DEFINE taken == Taken(free, StackPages)
           own == Owned(free, StackPages)
           r == alloc(free \ taken, 1)
           rest == taken \ own
           fr1 == free \ rest
           fr2 == fr1 \ own
<1>1. CASE ~CanAlloc(free, StackPages) \/ free = taken
  <2>1. UNCHANGED <<allocation, tables, processes, hart, job>>
    BY <1>1, Zenon DEF New, Panic
  <2> QED BY <2>1, NothingChanges, Zenon
<1>2. CASE ~(~CanAlloc(free, StackPages) \/ free = taken)
  <2>1. /\ free' = free \ (taken \cup {r}) /\ leaked' = leaked \cup rest
        /\ mem' = [mem EXCEPT ![r] = NewTable]
        /\ root' = [root EXCEPT ![s] = r] /\ pages' = [pages EXCEPT ![s] = {r}]
        /\ stack' = [stack EXCEPT ![s] = own] /\ context' = [context EXCEPT ![s] = r]
        /\ job' = j /\ maps' = maps /\ dma' = dma /\ zombies' = zombies /\ UNCHANGED hart
        /\ user' = user
    BY <1>2, Zenon DEF New, hart
  <2>2. /\ free \in SUBSET Frame /\ pages \in [Tables -> SUBSET Frame]
        /\ stack \in [Space -> SUBSET Frame] /\ leaked \in SUBSET Frame
        /\ context \in [Space -> Frame \cup {NoFrame}]
    BY Zenon DEF Inv, TypeInv
  <2>3. taken \in SUBSET free /\ own \in SUBSET taken
    BY <1>2, <2>2, ManyPages, Zenon
  <2>4. r \in free \ taken
    <3>1. free \ taken # {} /\ free \ taken \in SUBSET Frame
      BY <1>2, <2>2, <2>3, Zenon
    <3> HIDE DEF taken
    <3> QED BY <3>1, OnePage, Zenon
  <2>5. pages[s] = {} /\ stack[s] = {} /\ DOMAIN maps[s] = {} /\ s \notin zombies
    BY Zenon DEF Inv, DeadInv
  <2> HIDE DEF taken, own, r
  <2>6. job.op = "none" /\ s \in Tables /\ r \in free
    BY <2>4, UserPages, Zenon DEF NoJob
  <2>7. /\ mem' \in Mem
        /\ root' \in [Tables -> Frame \cup {NoFrame}] /\ root'[s] = r
        /\ \A t \in Tables \ {s} : root'[t] = root[t] /\ pages'[t] = pages[t]
        /\ pages' \in [Tables -> SUBSET Frame]
        /\ TableInv' /\ MapsInv' /\ WindowInv' /\ Kept(Kernel) /\ r # NoFrame
    BY <2>1, <2>5, <2>6, NewRoot, Zenon
  <2>8. OwnInv'
    <3>1. Own(free, leaked, dma, pages, stack, maps)
      BY Zenon DEF Inv, OwnInv
    <3>2. Own(fr1, leaked \cup rest, dma, pages, stack, maps)
      <4>1. rest \in SUBSET free
        BY <2>3, Zenon
      <4> HIDE DEF rest
      <4> QED BY <2>2, <3>1, <4>1, TakeOther, Zenon
    <3>3. own \in SUBSET fr1 /\ fr1 \in SUBSET Frame /\ fr2 = free \ taken
      BY <2>2, <2>3, Zenon
    <3> HIDE DEF fr1
    <3>4. Own(fr2, leaked \cup rest, dma, pages, stack', maps)
      BY <2>1, <2>2, <2>5, <3>2, <3>3, TakeStack, Zenon
    <3>5. {r} \in SUBSET fr2 /\ fr2 \in SUBSET Frame
      BY <2>2, <2>4, <3>3, Zenon
    <3> HIDE DEF fr2
    <3>6. Own(fr2 \ {r}, leaked \cup rest, dma, [pages EXCEPT ![s] = pages[s] \cup {r}], stack', maps)
      BY <2>2, <2>6, <3>4, <3>5, TakeTables, Zenon
    <3>7. fr2 \ {r} = free' /\ pages[s] \cup {r} = {r}
      BY <2>1, <2>5, <3>3, Zenon
    <3> QED BY <2>1, <3>6, <3>7, Zenon DEF OwnInv
  <2>9. TypeInv'
    <3>1. free' \in SUBSET Frame /\ leaked' \in SUBSET Frame /\ own \in SUBSET Frame /\ r \in Frame
      BY <2>1, <2>2, <2>3, <2>4, Zenon
    <3>2. stack' \in [Space -> SUBSET Frame] /\ context' \in [Space -> Frame \cup {NoFrame}]
      BY <2>1, <2>2, <3>1, Zenon
    <3> QED BY <2>1, <2>7, <3>1, <3>2, Zenon DEF Inv, TypeInv
  <2>10. DeadInv'
    <3>1. \A t \in Space \ {s} : stack'[t] = stack[t] /\ t \in Tables
      BY <2>1, <2>2, UserPages, Zenon
    <3> QED BY <2>1, <2>7, <3>1, Zenon DEF Inv, DeadInv, Exists
  <2>11. JobInv'
    <3>1. Live(s)'
      BY <2>1, <2>5, <2>7, Zenon DEF Live, Exists
    <3>2. j.op = "fork" => j.s # s /\ Live(j.s)'
      <4>1. j.s \in Space
        BY Zenon DEF JobType
      <4> QED BY <2>1, <2>7, <4>1, UserPages, Zenon DEF Live, Exists
    <3> QED BY <2>1, <3>1, <3>2, Zenon DEF JobInv
  <2>12. HartInv'
    <3>1. context'[s] = r /\ \A t \in Space \ {s} : context'[t] = context[t] /\ t \in Tables
      BY <2>1, <2>2, UserPages, Zenon
    <3>2. \A t \in Space : root'[t] # NoFrame /\ t \notin zombies' => context'[t] = root'[t]
      BY <2>1, <2>6, <2>7, <3>1, Contexts, Zenon DEF Live, Exists
    <3> QED BY <2>1, <2>6, <2>7, <3>2, KernelHart, Zenon
  <2> QED BY <2>7, <2>8, <2>9, <2>10, <2>11, <2>12, Zenon DEF Inv
<1> QED BY <1>1, <1>2, Zenon

LEMMA SpawnStep ==
  ASSUME Counting, Inv, spawn
  PROVE  Inv'
<1>1. user = Kernel /\ job = NoJob /\ ~Exists(InitSpace) /\ New(InitSpace, Job("load", InitSpace))
  BY Zenon DEF spawn, Idle
<1>2. InitSpace \in Space /\ Job("load", InitSpace) \in JobType
  BY ConstantsAssumption, Zenon DEF Job, NoJob, JobType
<1>3. Job("load", InitSpace).op = "load" /\ Job("load", InitSpace).s = InitSpace
  BY Zenon DEF Job, NoJob
<1> QED BY <1>1, <1>2, <1>3, NewStep, Zenon

LEMMA ForkStep ==
  ASSUME Counting, Inv, NEW p \in Space, NEW c \in Space, fork(p, c)
  PROVE  Inv'
<1> DEFINE j == [Job("fork", p) EXCEPT !.t = c]
<1>1. user = Kernel /\ job = NoJob /\ ~Exists(c) /\ Live(p) /\ New(c, j)
  BY Zenon DEF fork, Call, Idle
<1>2. j \in JobType /\ j.op = "fork" /\ j.s = p /\ j.t = c
  BY ConstantsAssumption, Zenon DEF Job, NoJob, JobType
<1> HIDE DEF j
<1> QED BY <1>1, <1>2, NewStep, Zenon

\* ProcessMemory::reset, with the new root, for execve and exit.
LEMMA ResetStep ==
  ASSUME Inv, NEW s \in Space, Live(s), user = Kernel, job = NoJob, free # {}, reset(s),
         UNCHANGED <<leaked, stack, context, dma, hart>>,
         \/ job' = Job("exec", s) /\ zombies' = zombies
         \/ job' = job /\ zombies' = zombies \cup {s}
  PROVE  Inv'
<1> DEFINE r == alloc(free, 1)
           M == {maps[s][v] : v \in DOMAIN maps[s]}
           P == pages[s]
           fr1 == free \cup M
           fr2 == fr1 \cup P
           pg == [pages EXCEPT ![s] = {}]
<1>1. /\ free' = (free \ {r}) \cup (M \cup P)
      /\ mem' = [mem EXCEPT ![r] = NewTable]
      /\ root' = [root EXCEPT ![s] = r] /\ pages' = [pages EXCEPT ![s] = {r}]
      /\ maps' = [maps EXCEPT ![s] = NoMap]
      /\ leaked' = leaked /\ stack' = stack /\ context' = context /\ dma' = dma /\ UNCHANGED hart
      /\ user' = user
  BY Zenon DEF reset, Drop, MappedFrames, hart
<1>2. /\ free \in SUBSET Frame /\ pages \in [Tables -> SUBSET Frame] /\ maps \in [Space -> PageMap]
      /\ zombies \in SUBSET Space /\ P \in SUBSET Frame
      /\ s \in Tables /\ s # Kernel
  BY UserPages, Zenon DEF Inv, TypeInv
<1>3. r \in free
  BY <1>2, OnePage, Zenon
<1>4. M \in SUBSET Frame /\ r \notin M /\ r \notin P
  BY <1>2, <1>3, Disjoint, Zenon DEF Inv
<1>5. /\ maps' \in [Space -> PageMap] /\ maps'[s] = NoMap
      /\ \A t \in Space \ {s} : maps'[t] = maps[t]
      /\ DOMAIN maps'[s] = {}
  <2>1. NoMap \in PageMap /\ DOMAIN NoMap = {}
    BY PageMaps, Zenon
  <2> QED BY <1>1, <1>2, <2>1, Zenon
<1> HIDE DEF r
<1>6. /\ job.op = "none" /\ job' \in JobType /\ job'.op \in {"none", "exec"}
      /\ job'.op = "exec" => job'.s = s
  <2>1. NoJob \in JobType /\ NoJob.op = "none"
    BY ConstantsAssumption, Zenon DEF NoJob, JobType
  <2>2. Job("exec", s) \in JobType /\ Job("exec", s).op = "exec" /\ Job("exec", s).s = s
    BY ConstantsAssumption, Zenon DEF NoJob, Job, JobType
  <2>3. job' = Job("exec", s) \/ job' = NoJob
    BY Zenon
  <2> QED BY <2>1, <2>2, <2>3, Zenon
<1>7. /\ mem' \in Mem
      /\ root' \in [Tables -> Frame \cup {NoFrame}] /\ root'[s] = r
      /\ \A t \in Tables \ {s} : root'[t] = root[t] /\ pages'[t] = pages[t]
      /\ pages' \in [Tables -> SUBSET Frame]
      /\ TableInv' /\ MapsInv' /\ WindowInv' /\ Kept(Kernel) /\ r # NoFrame
  BY <1>1, <1>3, <1>5, <1>6, NewRoot, Zenon
<1>8. OwnInv'
  <2>1. Own(free, leaked, dma, pages, stack, maps)
    BY Zenon DEF Inv, OwnInv
  <2>2. Own(fr1, leaked, dma, pages, stack, maps')
    BY <1>1, <1>2, <2>1, DropPages, Zenon
  <2>3. fr1 \in SUBSET Frame
    BY <1>2, <1>4, Zenon
  <2> HIDE DEF fr1, M
  <2>4. Own(fr2, leaked, dma, pg, stack, maps')
    BY <1>2, <2>2, DropTables, Zenon
  <2>5. fr2 \in SUBSET Frame /\ {r} \in SUBSET fr2 /\ pg \in [Tables -> SUBSET Frame] /\ pg[s] = {}
    BY <1>2, <1>3, <2>3, Zenon DEF fr1
  <2>6. fr2 \ {r} = free' /\ [pg EXCEPT ![s] = {r}] = pages'
    BY <1>1, <1>2, <1>3, <1>4, Zenon DEF fr1
  <2> HIDE DEF fr2, pg, P
  <2>7. Own(fr2 \ {r}, leaked, dma, [pg EXCEPT ![s] = pg[s] \cup {r}], stack, maps')
    BY <1>2, <2>4, <2>5, TakeTables, Zenon
  <2>8. pg[s] \cup {r} = {r}
    BY <2>5, Zenon
  <2> QED BY <1>1, <2>6, <2>7, <2>8, Zenon DEF OwnInv
<1> HIDE DEF M, P
<1>9. TypeInv'
  <2>1. free' \in SUBSET Frame /\ zombies' \in SUBSET Space
    BY <1>1, <1>2, <1>4, Zenon
  <2> QED BY <1>1, <1>5, <1>6, <1>7, <2>1, Zenon DEF Inv, TypeInv
<1>10. DeadInv'
  <2>1. \A t \in Space \ {s} : t \in Tables /\ (t \in zombies' <=> t \in zombies)
    BY UserPages, Zenon
  <2> QED BY <1>1, <1>5, <1>7, <2>1, Zenon DEF Inv, DeadInv, Exists
<1>11. JobInv'
  <2>1. job'.op = "exec" => Live(s)'
    <3>1. job'.op = "exec" => zombies' = zombies
      BY <1>6, Zenon
    <3> QED BY <1>7, <3>1, Zenon DEF Live, Exists
  <2> QED BY <1>6, <2>1, Zenon DEF JobInv
<1>12. HartInv'
  <2>1. \A t \in Space \ {s} : t \in Tables /\ (t \in zombies' <=> t \in zombies)
    BY UserPages, Zenon
  <2>2. s \in zombies' \/ (job'.op = "exec" /\ job'.s = s)
    BY <1>6, Zenon DEF Job, NoJob
  <2>3. \A t \in Space \ {s} : root'[t] # NoFrame /\ t \notin zombies' => context'[t] = root'[t]
    BY <1>1, <1>6, <1>7, <2>1, Contexts, Zenon DEF Live, Exists
  <2>4. \A t \in Space : root'[t] # NoFrame /\ t \notin zombies' /\ ~(job'.op = "exec" /\ job'.s = t)
                         => context'[t] = root'[t]
    BY <2>2, <2>3, Zenon
  <2> QED BY <1>1, <1>6, <1>7, <2>4, KernelHart, Zenon
<1> QED BY <1>7, <1>8, <1>9, <1>10, <1>11, <1>12, Zenon DEF Inv

LEMMA ExecveStep ==
  ASSUME Inv, NEW s \in Space, execve(s)
  PROVE  Inv'
<1>1. CASE free = {}
  <2>1. UNCHANGED <<allocation, tables, processes, hart, job>>
    BY <1>1, Zenon DEF execve, Panic
  <2> QED BY <2>1, NothingChanges, Zenon
<1>2. CASE free # {}
  <2>1. /\ reset(s) /\ job' = Job("exec", s) /\ zombies' = zombies
        /\ UNCHANGED <<leaked, stack, context, dma, hart>>
    BY <1>2, Zenon DEF execve, processes
  <2> QED BY <1>2, <2>1, ResetStep, Zenon DEF execve, Call, Idle
<1> QED BY <1>1, <1>2, Zenon

LEMMA ExitStep ==
  ASSUME Inv, NEW s \in Space, exit(s)
  PROVE  Inv'
<1>1. CASE free = {}
  <2>1. UNCHANGED <<allocation, tables, processes, hart, job>>
    BY <1>1, Zenon DEF exit, Panic
  <2> QED BY <2>1, NothingChanges, Zenon
<1>2. CASE free # {}
  <2>1. /\ reset(s) /\ job' = job /\ zombies' = zombies \cup {s}
        /\ UNCHANGED <<leaked, stack, context, dma, hart>>
    BY <1>2, Zenon DEF exit
  <2> QED BY <1>2, <2>1, ResetStep, Zenon DEF exit, Call, Idle
<1> QED BY <1>1, <1>2, Zenon

\* The drop of a reaped process.
LEMMA DropStep ==
  ASSUME Inv, NEW s \in Space, DropProcess(s)
  PROVE  Inv'
<1> DEFINE M == {maps[s][v] : v \in DOMAIN maps[s]}
           P == pages[s]
           S == stack[s]
           fr1 == free \cup M
           fr2 == fr1 \cup P
<1>1. /\ user = Kernel /\ job = NoJob /\ job.op = "none" /\ s \in zombies
      /\ free' = free \cup (M \cup P \cup S) /\ mem' = mem
      /\ root' = [root EXCEPT ![s] = NoFrame] /\ pages' = [pages EXCEPT ![s] = {}]
      /\ maps' = [maps EXCEPT ![s] = NoMap] /\ stack' = [stack EXCEPT ![s] = {}]
      /\ context' = [context EXCEPT ![s] = NoFrame] /\ zombies' = zombies \ {s}
      /\ leaked' = leaked /\ dma' = dma /\ UNCHANGED hart /\ job' = job /\ user' = user
  BY Zenon DEF DropProcess, Idle, NoJob, Drop, MappedFrames, hart
<1>2. /\ free \in SUBSET Frame /\ pages \in [Tables -> SUBSET Frame] /\ maps \in [Space -> PageMap]
      /\ root \in [Tables -> Frame \cup {NoFrame}] /\ stack \in [Space -> SUBSET Frame]
      /\ context \in [Space -> Frame \cup {NoFrame}] /\ zombies \in SUBSET Space
      /\ P \in SUBSET Frame /\ S \in SUBSET Frame /\ s \in Tables /\ s # Kernel
  BY UserPages, Zenon DEF Inv, TypeInv
<1>3. M \in SUBSET Frame
  BY Disjoint, Zenon DEF Inv
<1>4. /\ root' \in [Tables -> Frame \cup {NoFrame}] /\ root'[s] = NoFrame
      /\ \A t \in Tables \ {s} : root'[t] = root[t] /\ pages'[t] = pages[t]
      /\ pages' \in [Tables -> SUBSET Frame] /\ pages'[s] = {}
  BY <1>1, <1>2, Zenon
<1>5. /\ maps' \in [Space -> PageMap] /\ DOMAIN maps'[s] = {}
      /\ stack' \in [Space -> SUBSET Frame] /\ stack'[s] = {}
      /\ context' \in [Space -> Frame \cup {NoFrame}]
      /\ \A t \in Space \ {s} : /\ maps'[t] = maps[t] /\ stack'[t] = stack[t]
                                /\ context'[t] = context[t] /\ t \in Tables
                                /\ (t \in zombies' <=> t \in zombies)
  <2>1. NoMap \in PageMap /\ DOMAIN NoMap = {}
    BY PageMaps, Zenon
  <2> QED BY <1>1, <1>2, <2>1, UserPages, Zenon
<1>6. \A t \in Tables \ {s} : Kept(t)
  BY <1>1, <1>4, Zenon DEF Kept
<1>7. Kept(Kernel)
  BY <1>2, <1>6, UserPages, Zenon
<1>8. TableInv' /\ MapsInv'
  BY <1>4, <1>5, <1>6, OneTable, Zenon
<1>9. WindowInv' /\ JobInv'
  BY <1>1, <1>7, NoWindow, Zenon DEF JobInv
<1>10. OwnInv'
  <2>1. Own(free, leaked, dma, pages, stack, maps)
    BY Zenon DEF Inv, OwnInv
  <2>2. Own(fr1, leaked, dma, pages, stack, maps')
    BY <1>1, <1>2, <2>1, DropPages, Zenon
  <2> HIDE DEF M
  <2>3. free' = fr2 \cup S
    BY <1>1, Zenon
  <2> HIDE DEF fr1
  <2>4. Own(fr2, leaked, dma, pages', stack, maps')
    BY <1>1, <1>2, <2>2, DropTables, Zenon
  <2> HIDE DEF fr2
  <2>5. Own(fr2 \cup S, leaked, dma, pages', stack', maps')
    BY <1>1, <1>2, <2>4, DropStack, Zenon
  <2> QED BY <1>1, <2>3, <2>5, Zenon DEF OwnInv
<1> HIDE DEF M, P, S
<1>11. TypeInv'
  <2>1. free' \in SUBSET Frame /\ zombies' \in SUBSET Space
    BY <1>1, <1>2, <1>3, Zenon
  <2> QED BY <1>1, <1>4, <1>5, <2>1, Zenon DEF Inv, TypeInv
<1>12. DeadInv'
  BY <1>1, <1>4, <1>5, Zenon DEF Inv, DeadInv, Exists
<1>13. HartInv'
  <2>1. \A t \in Space : root'[t] # NoFrame /\ t \notin zombies' => context'[t] = root'[t]
    BY <1>1, <1>4, <1>5, Contexts, Zenon DEF Live, Exists
  <2> QED BY <1>1, <1>7, <2>1, KernelHart, Zenon
<1> QED BY <1>8, <1>9, <1>10, <1>11, <1>12, <1>13, Zenon DEF Inv

\* Frames that are free change, and nothing but the allocation with them.
LEMMA FreeFrames ==
  ASSUME Inv, user = Kernel, job = NoJob,
         UNCHANGED <<tables, stack, zombies, context, hart, job>>,
         mem' \in Mem, \A f \in Frame \ free : mem'[f] = mem[f],
         free' \in SUBSET Frame, leaked' \in SUBSET Frame, dma' \in SUBSET Frame, OwnInv'
  PROVE  Inv'
<1>1. /\ root' = root /\ pages' = pages /\ maps' = maps /\ stack' = stack /\ zombies' = zombies
      /\ context' = context /\ UNCHANGED hart /\ job' = job /\ user' = user /\ job.op = "none"
  BY Zenon DEF tables, hart, NoJob
<1>2. \A t \in Tables : Kept(t)
  <2>1. \A t \in Tables : pages[t] \in SUBSET Frame /\ free \cap pages[t] = {}
    BY Disjoint, Zenon DEF Inv, TypeInv
  <2> QED BY <1>1, <2>1, Zenon DEF Kept
<1>3. TableInv' /\ MapsInv'
  BY <1>1, <1>2, NoTable, Zenon
<1>4. Kept(Kernel)
  BY <1>2, UserPages, Zenon
<1>5. TypeInv' /\ DeadInv'
  BY <1>1, Zenon DEF Inv, TypeInv, DeadInv, Exists
<1>6. WindowInv' /\ JobInv'
  BY <1>1, <1>4, NoWindow, Zenon DEF JobInv
<1>7. HartInv'
  <2>1. \A t \in Space : root'[t] # NoFrame /\ t \notin zombies' => context'[t] = root'[t]
    BY <1>1, Contexts, Zenon DEF Live, Exists
  <2> QED BY <1>1, <1>4, <2>1, KernelHart, Zenon
<1> QED BY <1>3, <1>5, <1>6, <1>7, Zenon DEF Inv

\* VirtioHal::dma_alloc keeps what the allocator rounded up to.
LEMMA DmaStep ==
  ASSUME Counting, Inv, NEW n \in BufferPages, dma_alloc(n)
  PROVE  Inv'
<1> DEFINE taken == Taken(free, n)
           own == Owned(free, n)
<1>1. CASE ~CanAlloc(free, n)
  <2>1. UNCHANGED <<allocation, tables, processes, hart, job>>
    BY <1>1, Zenon DEF dma_alloc, Panic
  <2> QED BY <2>1, NothingChanges, Zenon
<1>2. CASE CanAlloc(free, n)
  <2>1. /\ user = Kernel /\ job = NoJob /\ dma = {} /\ dma' = taken /\ free' = free \ taken
        /\ mem' = [f \in Frame |-> IF f \in own THEN HalfCleared(f) ELSE mem[f]]
        /\ leaked' = leaked
        /\ UNCHANGED <<tables, stack, zombies, context, hart, job>>
    BY <1>2, Zenon DEF dma_alloc, Idle
  <2>2. free \in SUBSET Frame /\ leaked \in SUBSET Frame /\ mem \in Mem
    BY Zenon DEF Inv, TypeInv
  <2>3. taken \in SUBSET free /\ own \in SUBSET taken
    BY <1>2, <2>2, ManyPages, Zenon
  <2> HIDE DEF taken, own
  <2>4. \A f \in Frame : HalfCleared(f) \in Content
    <3>1. Invalid \in PTE
      BY Zenon DEF Invalid, PTE
    <3> QED BY <2>2, <3>1, Zenon DEF HalfCleared, Mem, Content
  <2>5. mem' \in Mem /\ \A f \in Frame \ free : mem'[f] = mem[f]
    BY <2>1, <2>2, <2>3, <2>4, Zenon DEF Mem
  <2>6. OwnInv'
    <3>1. Own(free, leaked, dma, pages, stack, maps)
      BY Zenon DEF Inv, OwnInv
    <3>2. Own(free \ taken, leaked, dma \cup taken, pages, stack, maps)
      BY <2>2, <2>3, <3>1, TakeOther, Zenon
    <3>3. dma \cup taken = taken
      BY <2>1, Zenon
    <3> QED BY <2>1, <3>2, <3>3, Zenon DEF OwnInv, tables
  <2>7. free' \in SUBSET Frame /\ leaked' \in SUBSET Frame /\ dma' \in SUBSET Frame
    BY <2>1, <2>2, <2>3, Zenon
  <2> QED BY <2>1, <2>5, <2>6, <2>7, FreeFrames, Zenon
<1> QED BY <1>1, <1>2, Zenon

\* VirtIOBlock::read gives back the pages of its buffer, and not what they
\* were rounded up to.
LEMMA ReadStep ==
  ASSUME Counting, Inv, NEW n \in BufferPages, ReadBuffer(n)
  PROVE  Inv'
<1> DEFINE taken == Taken(free, n)
           own == Owned(free, n)
           rest == taken \ own
<1>1. CASE ~CanAlloc(free, n)
  <2>1. UNCHANGED <<allocation, tables, processes, hart, job>>
    BY <1>1, Zenon DEF ReadBuffer, Panic
  <2> QED BY <2>1, NothingChanges, Zenon
<1>2. CASE CanAlloc(free, n)
  <2>1. /\ user = Kernel /\ job = NoJob /\ free' = free \ rest /\ leaked' = leaked \cup rest
        /\ mem' = [f \in Frame |-> IF f \in own THEN Junk ELSE mem[f]] /\ dma' = dma
        /\ UNCHANGED <<tables, stack, zombies, context, hart, job>>
    BY <1>2, Zenon DEF ReadBuffer, Call, Idle, processes
  <2>2. /\ free \in SUBSET Frame /\ leaked \in SUBSET Frame /\ dma \in SUBSET Frame
        /\ mem \in Mem
    BY Zenon DEF Inv, TypeInv
  <2>3. own \in SUBSET free /\ rest \in SUBSET free
    BY <1>2, <2>2, ManyPages, Zenon
  <2> HIDE DEF own, rest
  <2>4. mem' \in Mem /\ \A f \in Frame \ free : mem'[f] = mem[f]
    BY <2>1, <2>2, <2>3, ContentTypes, Zenon DEF Mem
  <2>5. OwnInv'
    <3>1. Own(free, leaked, dma, pages, stack, maps)
      BY Zenon DEF Inv, OwnInv
    <3>2. Own(free \ rest, leaked \cup rest, dma, pages, stack, maps)
      BY <2>2, <2>3, <3>1, TakeOther, Zenon
    <3> QED BY <2>1, <3>2, Zenon DEF OwnInv, tables
  <2>6. free' \in SUBSET Frame /\ leaked' \in SUBSET Frame /\ dma' \in SUBSET Frame
    BY <2>1, <2>2, <2>3, Zenon
  <2> QED BY <2>1, <2>4, <2>5, <2>6, FreeFrames, Zenon
<1> QED BY <1>1, <1>2, Zenon

LEMMA NextInv ==
  ASSUME Counting, Inv, [Next]_vars
  PROVE  Inv'
<1>1. CASE spawn
  BY <1>1, SpawnStep, Zenon
<1>2. CASE load_elf
  BY <1>2, LoadStep, Zenon
<1>3. CASE copy_from
  BY <1>3, CopyStep, Zenon
<1>4. CASE TrampolineMap
  BY <1>4, TrampolineMapStep, Zenon
<1>5. CASE Accessor
  BY <1>5, AccessorStep, Zenon
<1>6. CASE TrampolineUnmap
  BY <1>6, TrampolineUnmapStep, Zenon
<1>7. CASE trap_save_u
  BY <1>7, TrapSave, Zenon
<1>8. ASSUME NEW p \in Space, NEW c \in Space, fork(p, c) PROVE Inv'
  BY <1>8, ForkStep, Zenon
<1>9. ASSUME NEW s \in Space, execve(s) \/ exit(s) \/ DropProcess(s) \/ trap_ret_u(s) PROVE Inv'
  BY <1>9, ExecveStep, ExitStep, DropStep, TrapRet, Zenon
<1>10. ASSUME NEW s \in Space, NEW v \in Vpn, mmap(s, v) \/ unmap(s, v) PROVE Inv'
  BY <1>10, MmapStep, UnmapStep, Zenon
<1>11. ASSUME NEW v \in Vpn, UserStore(v) PROVE Inv'
  BY <1>11, StoreStep, Zenon
<1>12. ASSUME NEW v \in IF user = Kernel THEN {Trampoline} ELSE Vpn, Walk(v) PROVE Inv'
  <2>1. v \in UserPage
    BY UserPages, Zenon
  <2> QED BY <1>12, <2>1, WalkStep, Zenon
<1>13. ASSUME NEW n \in BufferPages, ReadBuffer(n) \/ dma_alloc(n) PROVE Inv'
  BY <1>13, ReadStep, DmaStep, Zenon
<1>14. ASSUME NEW s \in Space, NEW v \in Vpn, NEW o \in 0..(PAGE_SIZE - 1), NEW n \in 1..PAGE_SIZE,
              getdents64(s, v * PAGE_SIZE + o, n)
       PROVE  Inv'
  BY <1>14, GetdentsStep, Zenon
<1>15. CASE UNCHANGED vars
  BY <1>15, NothingChanges, Zenon DEF vars
<1> QED BY <1>1, <1>2, <1>3, <1>4, <1>5, <1>6, <1>7, <1>8, <1>9, <1>10, <1>11, <1>12, <1>13,
           <1>14, <1>15, Zenon DEF Next

-----------------------------------------------------------------------------
(* Separate address spaces *)

\* What a process sees, by its maps; the child of a fork that is under way
\* sees nothing.
Hidden(s) == job.op = "fork" /\ job.t = s
Seen(s) == [v \in {w \in DOMAIN maps[s] : ~Hidden(s)} |-> mem[maps[s][v]]]
ViewSeen == \A s \in Space : View[s] = Seen(s)

\* What copy_from has copied so far is what the parent has.
CopyInv ==
    job.op = "fork" =>
        /\ DOMAIN maps[job.t] \in SUBSET DOMAIN maps[job.s]
        /\ \A v \in DOMAIN maps[job.t] : mem[maps[job.t][v]] = mem[maps[job.s][v]]

\* The walk gives a process the pages of its maps.
LEMMA ViewIs == Inv => ViewSeen
<1> SUFFICES ASSUME Inv, NEW s \in Space PROVE View[s] = Seen(s)
  BY Zenon DEF ViewSeen
<1> DEFINE A == {v \in Vpn : /\ Exists(s)
                             /\ ~(job.op = "fork" /\ job.t = s)
                             /\ translate(mem, root[s], v) # NoFrame}
           B == {w \in DOMAIN maps[s] : ~Hidden(s)}
<1>1. View[s] = [v \in A |-> mem[translate(mem, root[s], v)]]
  BY Zenon DEF View
<1>2. \A v \in DOMAIN maps[s] : v \in Vpn /\ v \in UserPage /\ maps[s][v] # NoFrame
  BY Disjoint, UserPages, Zenon DEF Inv
<1>3. Exists(s) => \A v \in Vpn : translate(mem, root[s], v) =
                                      IF v \in DOMAIN maps[s] THEN maps[s][v] ELSE NoFrame
  BY UserPages, Zenon DEF Inv, MapsInv
<1>4. ~Exists(s) => DOMAIN maps[s] = {}
  BY Zenon DEF Inv, DeadInv
<1>5. A = B
  BY <1>2, <1>3, <1>4, Zenon DEF Hidden
<1>6. \A v \in B : translate(mem, root[s], v) = maps[s][v]
  BY <1>2, <1>3, <1>4, Zenon
<1> HIDE DEF A, B
<1>7. [v \in A |-> mem[translate(mem, root[s], v)]] = [v \in B |-> mem[maps[s][v]]]
  BY <1>5, <1>6, Zenon
<1> QED BY <1>1, <1>7, Zenon DEF Seen, B

\* No process sees a change.
LEMMA Stutters ==
  ASSUME ViewSeen, ViewSeen', \A s \in Space : Seen(s)' = Seen(s)
  PROVE  View' = View
<1>1. View = [s \in Space |-> View[s]]
  BY Zenon DEF View
<1>2. View' = [s \in Space |-> View'[s]]
  BY Zenon DEF View
<1>3. \A s \in Space : View'[s] = View[s]
  BY Zenon DEF ViewSeen
<1> QED BY <1>1, <1>2, <1>3, Zenon

\* One process sees a change that AddressSpaces allows.
LEMMA Changes ==
  ASSUME ViewSeen, ViewSeen', NEW s \in Space, \A t \in Space \ {s} : Seen(t)' = Seen(t),
         Memory!Change(Seen(s), Seen(s)')
  PROVE  Memory!Next
<1>1. /\ View[s] = Seen(s) /\ View'[s] = Seen(s)'
      /\ \A t \in Space \ {s} : View'[t] = View[t]
  BY Zenon DEF ViewSeen
<1>2. Memory!Change(View[s], View'[s])
  BY <1>1, Zenon
<1> QED BY <1>1, <1>2, Zenon DEF Memory!Next

\* A process whose pages are kept sees what it saw.
LEMMA SeenSame ==
  ASSUME NEW s, maps'[s] = maps[s], \A v \in DOMAIN maps[s] : mem'[maps[s][v]] = mem[maps[s][v]],
         (Hidden(s)' <=> Hidden(s)) \/ DOMAIN maps[s] = {}
  PROVE  Seen(s)' = Seen(s)
<1> DEFINE D == {w \in DOMAIN maps[s] : ~Hidden(s)}
           E == {w \in DOMAIN maps'[s] : ~Hidden(s)'}
<1>1. E = D
  BY Zenon
<1>2. Seen(s)' = [v \in E |-> mem'[maps'[s][v]]] /\ Seen(s) = [v \in D |-> mem[maps[s][v]]]
  BY Zenon DEF Seen
<1>3. \A v \in D : mem'[maps'[s][v]] = mem[maps[s][v]]
  BY Zenon
<1> HIDE DEF D, E
<1> QED BY <1>1, <1>2, <1>3, Zenon

\* The child of a fork that is under way sees nothing.
LEMMA SeenHidden ==
  ASSUME NEW s, Hidden(s)
  PROVE  Seen(s) = Memory!Nothing
<1>1. {w \in DOMAIN maps[s] : ~Hidden(s)} = {}
  BY Zenon
<1>2. Seen(s) = [v \in {} |-> mem[maps[s][v]]]
  BY <1>1, Zenon DEF Seen
<1> QED BY <1>2, Zenon DEF Memory!Nothing

\* Everybody else sees all their pages.
LEMMA SeenShown ==
  ASSUME NEW s, ~Hidden(s)
  PROVE  Seen(s) = [v \in DOMAIN maps[s] |-> mem[maps[s][v]]]
<1>1. {w \in DOMAIN maps[s] : ~Hidden(s)} = DOMAIN maps[s]
  BY Zenon
<1> QED BY <1>1, Zenon DEF Seen

\* The pages are kept, and nobody begins or ends to see.
LEMMA QuietStep ==
  ASSUME Inv, Inv', maps' = maps, PagesKept,
         \A s \in Space : (Hidden(s)' <=> Hidden(s)) \/ DOMAIN maps[s] = {}
  PROVE  View' = View
<1>1. ViewSeen /\ ViewSeen'
  BY ViewIs, PTL
<1>2. \A s \in Space : Seen(s)' = Seen(s)
  BY SeenSame, Zenon DEF PagesKept
<1> QED BY <1>1, <1>2, Stutters, Zenon

\* A page belongs to one process.
LEMMA OwnPages ==
  ASSUME Inv, NEW s \in Space, NEW t \in Space, s # t
  PROVE  \A v \in DOMAIN maps[s], w \in DOMAIN maps[t] : maps[s][v] # maps[t][w]
<1>1. PICK use, who, at : OwnedBy(free, leaked, dma, pages, stack, maps, use, who, at)
  BY Zenon DEF Inv, OwnInv, Own
<1>2. \A p \in Space : \A v \in DOMAIN maps[p] : v \in Vpn /\ maps[p][v] \in Frame
  BY Disjoint, Zenon DEF Inv
<1>3. \A f \in Frame, p \in Space, v \in Vpn :
          v \in DOMAIN maps[p] /\ maps[p][v] = f <=> use[f] = "page" /\ who[f] = p /\ at[f] = v
  BY <1>1, Zenon DEF OwnedBy, Used
<1>4. ASSUME NEW v \in DOMAIN maps[s], NEW w \in DOMAIN maps[t], maps[s][v] = maps[t][w] PROVE FALSE
  <2>1. who[maps[s][v]] = s /\ who[maps[t][w]] = t
    BY <1>2, <1>3
  <2> QED BY <1>4, <2>1, Zenon
<1> QED BY <1>4, Zenon

\* A store to pages of s.
LEMMA StoreView ==
  ASSUME Inv, Inv', NEW s \in Space, maps' = maps, job.op # "fork", job'.op # "fork",
         \A f \in Frame : mem'[f] = mem[f] \/ (mem'[f] = Junk /\ \E v \in DOMAIN maps[s] : f = maps[s][v])
  PROVE  Memory!Next
<1>1. ViewSeen /\ ViewSeen'
  BY ViewIs, PTL
<1>2. \A t \in Space : ~Hidden(t) /\ ~Hidden(t)'
  BY Zenon DEF Hidden
<1>3. \A t \in Space : \A v \in DOMAIN maps[t] : maps[t][v] \in Frame
  BY Disjoint, Zenon DEF Inv
<1>4. ASSUME NEW t \in Space \ {s} PROVE Seen(t)' = Seen(t)
  <2>1. \A v \in DOMAIN maps[t] : mem'[maps[t][v]] = mem[maps[t][v]]
    BY <1>3, OwnPages, Zenon
  <2> QED BY <1>2, <2>1, SeenSame, Zenon
<1>5. /\ Seen(s) = [v \in DOMAIN maps[s] |-> mem[maps[s][v]]]
      /\ Seen(s)' = [v \in DOMAIN maps[s] |-> mem'[maps[s][v]]]
  <2>1. /\ {w \in DOMAIN maps[s] : ~Hidden(s)} = DOMAIN maps[s]
        /\ {w \in DOMAIN maps'[s] : ~Hidden(s)'} = DOMAIN maps[s]
    BY <1>2, Zenon
  <2> QED BY <2>1, Zenon DEF Seen
<1>6. /\ DOMAIN Seen(s)' = DOMAIN Seen(s)
      /\ \A v \in DOMAIN Seen(s) : Seen(s)'[v] \in {Seen(s)[v], Junk}
  <2>1. DOMAIN Seen(s)' = DOMAIN maps[s] /\ DOMAIN Seen(s) = DOMAIN maps[s]
    BY <1>5, Zenon
  <2>2. ASSUME NEW v \in DOMAIN maps[s] PROVE Seen(s)'[v] \in {Seen(s)[v], Junk}
    <3>1. Seen(s)'[v] = mem'[maps[s][v]] /\ Seen(s)[v] = mem[maps[s][v]]
      BY <1>5, Zenon
    <3>2. mem'[maps[s][v]] = mem[maps[s][v]] \/ mem'[maps[s][v]] = Junk
      BY <1>3, Zenon
    <3> QED BY <3>1, <3>2, Zenon
  <2> QED BY <2>1, <2>2, Zenon
<1>7. Memory!Change(Seen(s), Seen(s)')
  BY <1>6, Zenon DEF Memory!Change, Memory!Store
<1> QED BY <1>1, <1>4, <1>7, Changes, Zenon

\* A page more.
LEMMA MapView ==
  ASSUME Inv, Inv', NEW s \in Space, NEW v \in Vpn, NEW m, PageMapped(s, v, m),
         job.op # "fork", NextPage \in Frame => m[NextPage] \in {Zero, Image}
  PROVE  Memory!Next \/ View' = View
<1>1. CASE UNCHANGED <<allocation, tables, processes, hart, job>>
  BY <1>1, QuietStep, Zenon DEF allocation, tables, Hidden, PagesKept
<1>2. CASE /\ v \notin DOMAIN maps[s] /\ maps' = [maps EXCEPT ![s] = With(maps[s], v, NextPage)]
           /\ job' = job /\ PagesKept /\ NextPage \in Frame /\ mem'[NextPage] = m[NextPage]
  <2>1. ViewSeen /\ ViewSeen'
    BY ViewIs, PTL
  <2>2. \A t \in Space : ~Hidden(t) /\ ~Hidden(t)'
    BY <1>2, Zenon DEF Hidden
  <2>3. maps \in [Space -> PageMap]
    BY Zenon DEF Inv, TypeInv
  <2>4. maps'[s] = With(maps[s], v, NextPage) /\ \A t \in Space \ {s} : maps'[t] = maps[t]
    BY <1>2, <2>3, Zenon
  <2>5. ASSUME NEW t \in Space \ {s} PROVE Seen(t)' = Seen(t)
    BY <1>2, <2>2, <2>4, SeenSame, Zenon DEF PagesKept
  <2>6. /\ Seen(s) = [w \in DOMAIN maps[s] |-> mem[maps[s][w]]]
        /\ Seen(s)' = [w \in DOMAIN maps'[s] |-> mem'[maps'[s][w]]]
    <3>1. {w \in DOMAIN maps'[s] : ~Hidden(s)'} = DOMAIN maps'[s]
      BY <2>2, Zenon
    <3> QED BY <2>2, <3>1, SeenShown, Zenon DEF Seen
  <2>7. PICK x \in {Zero, Image} : x = mem'[NextPage]
    BY <1>2, Zenon
  <2>8. /\ DOMAIN maps'[s] = DOMAIN maps[s] \cup {v} /\ maps'[s][v] = NextPage
        /\ \A w \in DOMAIN maps[s] : w # v => maps'[s][w] = maps[s][w]
    BY <2>4, Zenon DEF With
  <2>9. DOMAIN Seen(s) = DOMAIN maps[s] /\ \A w \in DOMAIN maps[s] : Seen(s)[w] = mem[maps[s][w]]
    BY <2>6, Zenon
  <2>10. \A w \in DOMAIN maps'[s] : mem'[maps'[s][w]] = IF w = v THEN x ELSE Seen(s)[w]
    <3> TAKE w \in DOMAIN maps'[s]
    <3>1. CASE w = v
      BY <2>7, <2>8, <3>1, Zenon
    <3>2. CASE w # v
      <4>1. w \in DOMAIN maps[s] /\ maps'[s][w] = maps[s][w]
        BY <2>8, <3>2, Zenon
      <4>2. mem'[maps[s][w]] = mem[maps[s][w]]
        BY <1>2, <4>1, Zenon DEF PagesKept
      <4> QED BY <2>9, <3>2, <4>1, <4>2, Zenon
    <3> QED BY <3>1, <3>2, Zenon
  <2>11. Seen(s)' = [w \in DOMAIN Seen(s) \cup {v} |-> IF w = v THEN x ELSE Seen(s)[w]]
    <3>1. Seen(s)' = [w \in DOMAIN maps'[s] |-> IF w = v THEN x ELSE Seen(s)[w]]
      BY <2>6, <2>10, Zenon
    <3> QED BY <2>8, <2>9, <3>1, Zenon
  <2>12. v \in Vpn \ DOMAIN Seen(s)
    BY <1>2, <2>9, Zenon
  <2>13. Memory!Change(Seen(s), Seen(s)')
    BY <2>11, <2>12, Zenon DEF Memory!Change, Memory!Map
  <2> QED BY <2>1, <2>5, <2>13, Changes, Zenon
<1> QED BY <1>1, <1>2, Zenon DEF PageMapped

\* A page less.
LEMMA UnmapView ==
  ASSUME Inv, Inv', NEW s \in Space, NEW v \in DOMAIN maps[s], job.op # "fork", job' = job,
         maps' = [maps EXCEPT ![s] = Without(maps[s], v)], PagesKept
  PROVE  Memory!Next
<1>1. ViewSeen /\ ViewSeen'
  BY ViewIs, PTL
<1>2. \A t \in Space : ~Hidden(t) /\ ~Hidden(t)'
  BY Zenon DEF Hidden
<1>3. maps \in [Space -> PageMap]
  BY Zenon DEF Inv, TypeInv
<1>4. maps'[s] = Without(maps[s], v) /\ \A t \in Space \ {s} : maps'[t] = maps[t]
  BY <1>3, Zenon
<1>5. ASSUME NEW t \in Space \ {s} PROVE Seen(t)' = Seen(t)
  BY <1>2, <1>4, SeenSame, Zenon DEF PagesKept
<1>6. /\ Seen(s) = [w \in DOMAIN maps[s] |-> mem[maps[s][w]]]
      /\ Seen(s)' = [w \in DOMAIN maps'[s] |-> mem'[maps'[s][w]]]
  <2>1. {w \in DOMAIN maps'[s] : ~Hidden(s)'} = DOMAIN maps'[s]
    BY <1>2, Zenon
  <2> QED BY <1>2, <2>1, SeenShown, Zenon DEF Seen
<1>7. DOMAIN maps'[s] = DOMAIN maps[s] \ {v} /\ \A w \in DOMAIN maps'[s] : maps'[s][w] = maps[s][w]
  BY <1>4, Zenon DEF Without
<1>8. DOMAIN Seen(s) = DOMAIN maps[s] /\ \A w \in DOMAIN maps[s] : Seen(s)[w] = mem[maps[s][w]]
  BY <1>6, Zenon
<1>9. \A w \in DOMAIN maps'[s] : mem'[maps'[s][w]] = Seen(s)[w]
  BY <1>7, <1>8 DEF PagesKept
<1>10. Seen(s)' = [w \in DOMAIN Seen(s) \ {v} |-> Seen(s)[w]]
  <2>1. Seen(s)' = [w \in DOMAIN maps'[s] |-> Seen(s)[w]]
    BY <1>6, <1>9, Zenon
  <2> QED BY <1>7, <1>8, <2>1, Zenon
<1>11. Memory!Change(Seen(s), Seen(s)')
  BY <1>8, <1>10, Zenon DEF Memory!Change, Memory!Unmap
<1> QED BY <1>1, <1>5, <1>11, Changes, Zenon

\* No page left.
LEMMA ClearView ==
  ASSUME Inv, Inv', NEW s \in Space, job.op # "fork", job'.op # "fork",
         maps' = [maps EXCEPT ![s] = NoMap],
         \A t \in Space \ {s} : \A v \in DOMAIN maps[t] : mem'[maps[t][v]] = mem[maps[t][v]]
  PROVE  Memory!Next
<1>1. ViewSeen /\ ViewSeen'
  BY ViewIs, PTL
<1>2. \A t \in Space : ~Hidden(t) /\ ~Hidden(t)'
  BY Zenon DEF Hidden
<1>3. maps \in [Space -> PageMap]
  BY Zenon DEF Inv, TypeInv
<1>4. maps'[s] = NoMap /\ \A t \in Space \ {s} : maps'[t] = maps[t]
  BY <1>3, Zenon
<1>5. ASSUME NEW t \in Space \ {s} PROVE Seen(t)' = Seen(t)
  BY <1>2, <1>4, SeenSame, Zenon
<1>6. Seen(s)' = Memory!Nothing
  <2>1. {w \in DOMAIN maps'[s] : ~Hidden(s)'} = {}
    BY <1>4, PageMaps, Zenon
  <2>2. Seen(s)' = [w \in {} |-> mem'[maps'[s][w]]]
    BY <2>1, Zenon DEF Seen
  <2> QED BY <2>2, Zenon DEF Memory!Nothing
<1>7. Memory!Change(Seen(s), Seen(s)')
  BY <1>6, Zenon DEF Memory!Change, Memory!Clear
<1> QED BY <1>1, <1>5, <1>7, Changes, Zenon

\* What the steps must show.
Refined == CopyInv' /\ (Memory!Next \/ View' = View)

\* Nothing that matters has changed.
LEMMA QuietRefines ==
  ASSUME Inv, Inv', CopyInv, maps' = maps, PagesKept, job' = job
  PROVE  Refined
<1>1. View' = View
  BY QuietStep, Zenon DEF Hidden
<1>2. CopyInv'
  <2> SUFFICES ASSUME job.op = "fork" PROVE CopyInv'
    BY Zenon DEF CopyInv
  <2>1. job.s \in Space /\ job.t \in Space
    BY Zenon DEF Inv, TypeInv, JobType
  <2> QED BY <2>1, Zenon DEF CopyInv, PagesKept
<1> QED BY <1>1, <1>2, Zenon DEF Refined

\* A panic, a trap and a walk leave memory and tables alone.
LEMMA PanicRefines ==
  ASSUME Inv, Inv', CopyInv, UNCHANGED <<allocation, tables, job>>
  PROVE  Refined
  BY QuietRefines, Zenon DEF allocation, tables, PagesKept

\* copy_from: what the child has is what the parent has, and the child sees it
\* once it has everything.
LEMMA CopyRefines ==
  ASSUME Counting, Inv, Inv', CopyInv, copy_from
  PROVE  Refined
<1>1. job.op = "fork" /\ job.s \in Space /\ job.t \in Space /\ job.s # job.t /\ Live(job.t)
  BY Zenon DEF copy_from, Continue, Inv, JobInv, TypeInv, JobType
<1>2. PICK p \in Space, t \in Space : p = job.s /\ t = job.t
  BY <1>1, Zenon
<1> DEFINE rest == DOMAIN maps[p] \ DOMAIN maps[t]
           v == Min(rest)
           c == mem[maps[p][v]]
<1>3. user = Kernel
  BY <1>1 DEF Inv, HartInv, NoJob
<1>4. ViewSeen /\ ViewSeen'
  BY ViewIs, PTL
<1>5. Hidden(t) /\ \A u \in Space \ {t} : ~Hidden(u)
  BY <1>1, <1>2, Zenon DEF Hidden
<1>6. Seen(t) = Memory!Nothing
  BY <1>5, SeenHidden, Zenon
<1>7. /\ DOMAIN maps[t] \in SUBSET DOMAIN maps[p]
      /\ \A w \in DOMAIN maps[t] : mem[maps[t][w]] = mem[maps[p][w]]
  BY <1>1, <1>2, Zenon DEF CopyInv
<1>8. CASE rest = {}
  <2>1. job' = NoJob /\ UNCHANGED <<allocation, tables>>
    BY <1>2, <1>8, Zenon DEF copy_from
  <2>2. maps' = maps /\ mem' = mem /\ job'.op = "none"
    BY <2>1, Zenon DEF allocation, tables, NoJob
  <2>3. \A u \in Space : ~Hidden(u)'
    BY <2>2 DEF Hidden
  <2>4. ASSUME NEW u \in Space \ {t} PROVE Seen(u)' = Seen(u)
    BY <1>5, <2>2, <2>3, SeenSame, Zenon
  <2>5. Seen(p) = [w \in DOMAIN maps[p] |-> mem[maps[p][w]]]
    <3>1. ~Hidden(p)
      BY <1>1, <1>2, <1>5, Zenon
    <3> QED BY <3>1, SeenShown, Zenon
  <2>6. Seen(t)' = [w \in DOMAIN maps[t] |-> mem[maps[t][w]]]
    <3>1. {w \in DOMAIN maps'[t] : ~Hidden(t)'} = DOMAIN maps[t]
      BY <2>2, <2>3, Zenon
    <3> QED BY <2>2, <3>1, Zenon DEF Seen
  <2>7. DOMAIN maps[t] = DOMAIN maps[p]
    BY <1>7, <1>8, Zenon
  <2>8. Seen(t)' = Seen(p)
    BY <1>7, <2>5, <2>6, <2>7, Zenon
  <2>9. View[p] = Seen(p)
    BY <1>4, Zenon DEF ViewSeen
  <2>10. Memory!Change(Seen(t), Seen(t)')
    BY <1>6, <2>8, <2>9, Zenon DEF Memory!Change, Memory!Fork
  <2>11. Memory!Next
    BY <1>4, <2>4, <2>10, Changes, Zenon
  <2>12. CopyInv'
    BY <2>2 DEF CopyInv
  <2> QED BY <2>11, <2>12, Zenon DEF Refined
<1>9. CASE rest # {}
  <2>1. MapPage(t, v, Filled(c))
    BY <1>2, <1>9, Zenon DEF copy_from
  <2>2. rest \in SUBSET Vpn
    BY <1>1, Disjoint, Zenon DEF Inv
  <2>3. v \in rest
    BY <1>9, <2>2, NextOf, Zenon
  <2>4. v \in Vpn /\ v \in DOMAIN maps[p] /\ c \in Content
    BY <1>1, <2>2, <2>3, Disjoint, Zenon DEF Inv, TypeInv, Mem
  <2> HIDE DEF v, c
  <2>6. Filled(c) \in Mem /\ \A f \in Frame \ {NextPage} : Filled(c)[f] = mem[f]
    BY <2>4, Fills, Zenon DEF Inv
  <2>7. PageMapped(t, v, Filled(c))
    BY <1>1, <1>2, <1>3, <2>1, <2>4, <2>6, MapPageStep
  <2>8. CASE UNCHANGED <<allocation, tables, processes, hart, job>>
    BY <2>8, PanicRefines, Zenon
  <2>9. CASE /\ v \notin DOMAIN maps[t] /\ maps' = [maps EXCEPT ![t] = With(maps[t], v, NextPage)]
             /\ job' = job /\ PagesKept /\ NextPage \in Frame /\ mem'[NextPage] = Filled(c)[NextPage]
    <3>1. maps \in [Space -> PageMap] /\ mem \in Mem
      BY Zenon DEF Inv, TypeInv
    <3>2. maps'[t] = With(maps[t], v, NextPage) /\ \A u \in Space \ {t} : maps'[u] = maps[u]
      BY <2>9, <3>1, Zenon
    <3>3. \A u \in Space : Hidden(u)' <=> Hidden(u)
      BY <2>9, Zenon DEF Hidden
    <3>4. ASSUME NEW u \in Space \ {t} PROVE Seen(u)' = Seen(u)
      BY <2>9, <3>2, <3>3, SeenSame, Zenon DEF PagesKept
    <3>5. Seen(t)' = Memory!Nothing
      <4>1. {w \in DOMAIN maps'[t] : ~Hidden(t)'} = {}
        BY <1>5, <3>3, Zenon
      <4>2. Seen(t)' = [w \in {} |-> mem'[maps'[t][w]]]
        BY <4>1, Zenon DEF Seen
      <4> QED BY <4>2, Zenon DEF Memory!Nothing
    <3>6. View' = View
      BY <1>4, <1>6, <3>4, <3>5, Stutters, Zenon
    <3>7. mem'[NextPage] = c
      <4>1. PhyPage_alloc(mem, NextPage) \in Mem
        BY <2>4, Fills, Zenon DEF Inv
      <4> QED BY <2>9, <4>1, Zenon DEF Filled, Mem
    <3>8. /\ DOMAIN maps'[t] = DOMAIN maps[t] \cup {v} /\ maps'[t][v] = NextPage
          /\ \A w \in DOMAIN maps[t] : w # v => maps'[t][w] = maps[t][w]
      BY <3>2, Zenon DEF With
    <3>9. maps'[p] = maps[p] /\ mem'[maps[p][v]] = c
      BY <1>1, <1>2, <2>4, <2>9, <3>2 DEF PagesKept, c
    <3>10. ASSUME NEW w \in DOMAIN maps'[t] PROVE mem'[maps'[t][w]] = mem'[maps'[p][w]]
      <4>1. CASE w = v
        BY <3>7, <3>8, <3>9, <4>1, Zenon
      <4>2. CASE w # v
        <5>1. w \in DOMAIN maps[t] /\ w \in DOMAIN maps[p] /\ maps'[t][w] = maps[t][w]
          BY <1>7, <3>8, <4>2, Zenon
        <5>2. mem'[maps[t][w]] = mem[maps[t][w]] /\ mem'[maps[p][w]] = mem[maps[p][w]]
          BY <2>9, <5>1, Zenon DEF PagesKept
        <5> QED BY <1>7, <3>9, <5>1, <5>2, Zenon
      <4> QED BY <4>1, <4>2, Zenon
    <3>11. job'.s = p /\ job'.t = t
      BY <1>2, <2>9, Zenon
    <3>12. DOMAIN maps'[t] \in SUBSET DOMAIN maps'[p]
      BY <1>7, <2>4, <3>8, <3>9, Zenon
    <3>13. CopyInv'
      BY <3>10, <3>11, <3>12, Zenon DEF CopyInv
    <3> QED BY <3>6, <3>13, Zenon DEF Refined
  <2> QED BY <2>7, <2>8, <2>9, Zenon DEF PageMapped
<1> QED BY <1>8, <1>9, Zenon

\* Process::new, for spawn and fork: an address space without pages.
LEMMA NewRefines ==
  ASSUME Counting, Inv, Inv', CopyInv, NEW s \in Space, ~Exists(s), job = NoJob, NEW j,
         j.op = "fork" => j.t = s, New(s, j)
  PROVE  Refined
<1> DEFINE taken == Taken(free, StackPages)
           r == alloc(free \ taken, 1)
<1>1. CASE ~CanAlloc(free, StackPages) \/ free = taken
  <2>1. UNCHANGED <<allocation, tables, job>>
    BY <1>1, Zenon DEF New, Panic
  <2> QED BY <2>1, PanicRefines, Zenon
<1>2. CASE ~(~CanAlloc(free, StackPages) \/ free = taken)
  <2>1. mem' = [mem EXCEPT ![r] = NewTable] /\ maps' = maps /\ job' = j
    BY <1>2, Zenon DEF New
  <2>2. free \in SUBSET Frame /\ mem \in Mem
    BY Zenon DEF Inv, TypeInv
  <2>3. taken \in SUBSET free
    BY <1>2, <2>2, ManyPages, Zenon
  <2>4. r \in free
    <3>1. free \ taken # {} /\ free \ taken \in SUBSET Frame
      BY <1>2, <2>2, <2>3, Zenon
    <3> HIDE DEF taken
    <3> QED BY <3>1, OnePage, Zenon
  <2>5. DOMAIN maps[s] = {}
    BY Zenon DEF Inv, DeadInv
  <2> HIDE DEF r
  <2>6. PagesKept
    <3>1. \A f \in Frame : f # r => mem'[f] = mem[f]
      BY <2>1, <2>2, Zenon DEF Mem
    <3> QED BY <2>4, <3>1, KeptPages, Zenon
  <2>7. job.op = "none"
    BY Zenon DEF NoJob
  <2>8. \A u \in Space : (Hidden(u)' <=> Hidden(u)) \/ DOMAIN maps[u] = {}
    <3>1. \A u \in Space : ~Hidden(u) /\ (Hidden(u)' => u = s)
      BY <2>1, <2>7 DEF Hidden
    <3> QED BY <2>5, <3>1, Zenon
  <2>9. View' = View
    BY <2>1, <2>6, <2>8, QuietStep, Zenon
  <2>10. CopyInv'
    <3> SUFFICES ASSUME job'.op = "fork" PROVE CopyInv'
      BY Zenon DEF CopyInv
    <3>1. job'.t = s /\ DOMAIN maps'[s] = {}
      BY <2>1, <2>5, Zenon
    <3> QED BY <3>1, Zenon DEF CopyInv
  <2> QED BY <2>9, <2>10, Zenon DEF Refined
<1> QED BY <1>1, <1>2, Zenon

\* The first process begins without pages.
LEMMA SpawnRefines ==
  ASSUME Counting, Inv, Inv', CopyInv, spawn
  PROVE  Refined
<1> DEFINE j == Job("load", InitSpace)
<1>1. job = NoJob /\ ~Exists(InitSpace) /\ New(InitSpace, j) /\ InitSpace \in Space
  BY ConstantsAssumption, Zenon DEF spawn, Idle
<1>2. j.op = "load"
  BY Zenon DEF Job, NoJob
<1>3. j.op # "fork"
  BY <1>2
<1> HIDE DEF j
<1> QED BY <1>1, <1>3, NewRefines, Zenon

\* So does the child of a fork.
LEMMA ForkRefines ==
  ASSUME Counting, Inv, Inv', CopyInv, NEW p \in Space, NEW c \in Space, fork(p, c)
  PROVE  Refined
<1> DEFINE j == [Job("fork", p) EXCEPT !.t = c]
<1>1. job = NoJob /\ ~Exists(c) /\ New(c, j)
  BY Zenon DEF fork, Call, Idle
<1>2. j.t = c
  BY Zenon DEF Job, NoJob
<1> HIDE DEF j
<1> QED BY <1>1, <1>2, NewRefines, Zenon

\* ProcessMemory::reset, for execve and exit: the process loses its pages, and
\* the frame of its new table is no page of another.
LEMMA ResetRefines ==
  ASSUME Inv, Inv', NEW s \in Space, job = NoJob, job'.op # "fork", free # {}, reset(s)
  PROVE  Refined
<1> DEFINE r == alloc(free, 1)
<1>1. mem' = [mem EXCEPT ![r] = NewTable] /\ maps' = [maps EXCEPT ![s] = NoMap]
  BY Zenon DEF reset
<1>2. free \in SUBSET Frame /\ mem \in Mem
  BY Zenon DEF Inv, TypeInv
<1>3. r \in free
  BY <1>2, OnePage, Zenon
<1> HIDE DEF r
<1>4. PagesKept
  <2>1. \A f \in Frame : f # r => mem'[f] = mem[f]
    BY <1>1, <1>2, Zenon DEF Mem
  <2> QED BY <1>3, <2>1, KeptPages, Zenon
<1>5. job.op # "fork"
  BY DEF NoJob
<1>6. Memory!Next
  BY <1>1, <1>4, <1>5, ClearView, Zenon DEF PagesKept
<1> QED BY <1>6, Zenon DEF Refined, CopyInv

\* execve clears the caller's address space.
LEMMA ExecveRefines ==
  ASSUME Inv, Inv', CopyInv, NEW s \in Space, execve(s)
  PROVE  Refined
<1>1. CASE free = {}
  <2>1. UNCHANGED <<allocation, tables, job>>
    BY <1>1, Zenon DEF execve, Panic
  <2> QED BY <2>1, PanicRefines, Zenon
<1>2. CASE free # {}
  <2>1. job = NoJob /\ reset(s) /\ job' = Job("exec", s)
    BY <1>2, Zenon DEF execve, Call, Idle
  <2>2. Job("exec", s).op = "exec"
    BY Zenon DEF Job, NoJob
  <2>3. job'.op # "fork"
    BY <2>1, <2>2
  <2> QED BY <1>2, <2>1, <2>3, ResetRefines, Zenon
<1> QED BY <1>1, <1>2, Zenon

\* exit does so too.
LEMMA ExitRefines ==
  ASSUME Inv, Inv', CopyInv, NEW s \in Space, exit(s)
  PROVE  Refined
<1>1. CASE free = {}
  <2>1. UNCHANGED <<allocation, tables, job>>
    BY <1>1, Zenon DEF exit, Panic
  <2> QED BY <2>1, PanicRefines, Zenon
<1>2. CASE free # {}
  <2>1. job = NoJob /\ reset(s) /\ job' = job
    BY <1>2, Zenon DEF exit, Call, Idle
  <2>2. job'.op # "fork"
    BY <2>1 DEF NoJob
  <2> QED BY <1>2, <2>1, <2>2, ResetRefines, Zenon
<1> QED BY <1>1, <1>2, Zenon

\* A process that was reaped has no pages.
LEMMA DropRefines ==
  ASSUME Inv, Inv', NEW s \in Space, DropProcess(s)
  PROVE  Refined
<1>1. job = NoJob /\ job' = job /\ mem' = mem /\ maps' = [maps EXCEPT ![s] = NoMap]
  BY Zenon DEF DropProcess, Idle
<1>2. job.op # "fork" /\ job'.op # "fork"
  BY <1>1 DEF NoJob
<1>3. Memory!Next
  BY <1>1, <1>2, ClearView, Zenon
<1> QED BY <1>2, <1>3, Zenon DEF Refined, CopyInv

\* brk, mmap and a growing stack: a cleared page.
LEMMA MmapRefines ==
  ASSUME Counting, Inv, Inv', CopyInv, NEW s \in Space, NEW v \in Vpn, mmap(s, v)
  PROVE  Refined
<1> DEFINE m == PhyPage_alloc(mem, NextPage)
<1>1. user = Kernel /\ job = NoJob /\ job.op = "none" /\ Live(s) /\ MapPage(s, v, m)
  BY Zenon DEF mmap, Call, Idle, NoJob
<1>2. /\ m \in Mem /\ \A f \in Frame \ {NextPage} : m[f] = mem[f]
      /\ NextPage \in Frame => m[NextPage] = Zero
  <2>1. mem \in Mem
    BY Zenon DEF Inv, TypeInv
  <2>2. NextPage \in Frame => m[NextPage] = Zero
    BY <2>1, Zenon DEF PhyPage_alloc, Mem
  <2> QED BY <2>2, Fills, ContentTypes, Zenon DEF Inv
<1> HIDE DEF m
<1>3. job.op # "fork" /\ job.op \notin {"map", "unmap"}
  BY <1>1
<1>4. PageMapped(s, v, m)
  BY <1>1, <1>2, <1>3, MapPageStep, Zenon
<1>5. Memory!Next \/ View' = View
  BY <1>2, <1>3, <1>4, MapView, Zenon
<1>6. job' = job
  BY <1>4, Zenon DEF PageMapped
<1> QED BY <1>3, <1>5, <1>6, Zenon DEF Refined, CopyInv

\* load_elf: a page of the image, or the cleared page of the stack.
LEMMA LoadRefines ==
  ASSUME Counting, Inv, Inv', CopyInv, load_elf
  PROVE  Refined
<1>1. job.op \in {"load", "exec"} /\ job.s \in Space /\ Live(job.s)
  BY Zenon DEF load_elf, Continue, Inv, JobInv, TypeInv, JobType
<1>2. PICK s \in Space : s = job.s
  BY <1>1, Zenon
<1> DEFINE rest == (ImagePages \cup {UserStack}) \ DOMAIN maps[s]
           v == Min(rest)
           m == IF v \in ImagePages THEN Filled(Image) ELSE PhyPage_alloc(mem, NextPage)
<1>3. user = Kernel /\ job.op # "fork" /\ job.op \notin {"map", "unmap"}
  BY <1>1 DEF Inv, HartInv, NoJob
<1>4. CASE rest = {}
  <2>1. job' = NoJob /\ UNCHANGED <<allocation, tables>>
    BY <1>2, <1>4, Zenon DEF load_elf
  <2>2. maps' = maps /\ mem' = mem /\ job'.op # "fork"
    BY <2>1 DEF allocation, tables, NoJob
  <2>3. View' = View
    BY <1>3, <2>2, QuietStep, Zenon DEF Hidden, PagesKept
  <2> QED BY <2>2, <2>3, Zenon DEF Refined, CopyInv
<1>5. CASE rest # {}
  <2>1. MapPage(s, v, m)
    BY <1>2, <1>5, Zenon DEF load_elf
  <2>2. rest \in SUBSET Vpn
    BY ConstantsAssumption, Zenon
  <2>3. v \in rest
    BY <1>5, <2>2, NextOf, Zenon
  <2>4. v \in Vpn
    BY <2>2, <2>3, Zenon
  <2>5. m \in Mem /\ \A f \in Frame \ {NextPage} : m[f] = mem[f]
    BY Fills, ContentTypes, Zenon DEF Inv
  <2>6. NextPage \in Frame => m[NextPage] \in {Zero, Image}
    <3>1. mem \in Mem /\ PhyPage_alloc(mem, NextPage) \in Mem
      BY Fills, ContentTypes, Zenon DEF Inv, TypeInv
    <3>2. NextPage \in Frame => PhyPage_alloc(mem, NextPage)[NextPage] = Zero
      BY <3>1, Zenon DEF PhyPage_alloc, Mem
    <3>3. NextPage \in Frame => Filled(Image)[NextPage] = Image
      BY <3>1, Zenon DEF Filled, Mem
    <3> QED BY <3>2, <3>3, Zenon
  <2> HIDE DEF v, m
  <2>7. PageMapped(s, v, m)
    BY <1>1, <1>2, <1>3, <2>1, <2>4, <2>5, MapPageStep, Zenon
  <2>8. PICK x, n : x = v /\ n = m
    BY Zenon
  <2>9. Memory!Next \/ View' = View
    BY <1>3, <2>4, <2>6, <2>7, <2>8, MapView, Zenon
  <2>10. job' = job
    BY <2>7, Zenon DEF PageMapped
  <2> QED BY <1>3, <2>9, <2>10, Zenon DEF Refined, CopyInv
<1> QED BY <1>4, <1>5, Zenon

\* ProcessMemory::unmap.
LEMMA UnmapRefines ==
  ASSUME Inv, Inv', CopyInv, NEW s \in Space, NEW v \in Vpn, unmap(s, v)
  PROVE  Refined
<1>1. CASE translate(mem, root[s], v) = NoFrame
  <2>1. UNCHANGED <<allocation, tables, job>>
    BY <1>1, Zenon DEF unmap, Panic
  <2> QED BY <2>1, PanicRefines, Zenon
<1>2. CASE translate(mem, root[s], v) # NoFrame
  <2>1. /\ job = NoJob /\ job' = job /\ v \in DOMAIN maps[s]
        /\ maps' = [maps EXCEPT ![s] = Without(maps[s], v)]
    BY <1>2, Zenon DEF unmap, Call, Idle
  <2>2. job.op # "fork"
    BY <2>1 DEF NoJob
  <2>3. Memory!Next
    BY <2>1, <2>2, UnmapStep, UnmapView, Zenon
  <2> QED BY <2>1, <2>2, <2>3, Zenon DEF Refined, CopyInv
<1> QED BY <1>1, <1>2, Zenon

\* dma_alloc and VirtIOBlock::read write to frames that nobody has mapped.
LEMMA DeviceRefines ==
  ASSUME Inv, Inv', CopyInv, job' = job, UNCHANGED tables,
         NEW own \in SUBSET free, \A f \in Frame \ own : mem'[f] = mem[f]
  PROVE  Refined
<1>1. PagesKept
  BY KeptPages, Zenon
<1> QED BY <1>1, QuietRefines, Zenon DEF tables

\* The virtqueue is in free frames.
LEMMA DmaRefines ==
  ASSUME Counting, Inv, Inv', CopyInv, NEW n \in BufferPages, dma_alloc(n)
  PROVE  Refined
<1> DEFINE own == Owned(free, n)
<1>1. CASE ~CanAlloc(free, n)
  <2>1. UNCHANGED <<allocation, tables, job>>
    BY <1>1, Zenon DEF dma_alloc, Panic
  <2> QED BY <2>1, PanicRefines, Zenon
<1>2. CASE CanAlloc(free, n)
  <2>1. /\ job' = job /\ UNCHANGED tables
        /\ mem' = [f \in Frame |-> IF f \in own THEN HalfCleared(f) ELSE mem[f]]
    BY <1>2, Zenon DEF dma_alloc
  <2>2. free \in SUBSET Frame
    BY Zenon DEF Inv, TypeInv
  <2>3. own \in SUBSET free
    BY <1>2, <2>2, ManyPages, Zenon
  <2> HIDE DEF own
  <2>4. \A f \in Frame \ own : mem'[f] = mem[f]
    BY <2>1, Zenon
  <2> QED BY <2>1, <2>3, <2>4, DeviceRefines, Zenon
<1> QED BY <1>1, <1>2, Zenon

\* The read buffer is in free frames.
LEMMA ReadRefines ==
  ASSUME Counting, Inv, Inv', CopyInv, NEW n \in BufferPages, ReadBuffer(n)
  PROVE  Refined
<1> DEFINE own == Owned(free, n)
<1>1. CASE ~CanAlloc(free, n)
  <2>1. UNCHANGED <<allocation, tables, job>>
    BY <1>1, Zenon DEF ReadBuffer, Panic
  <2> QED BY <2>1, PanicRefines, Zenon
<1>2. CASE CanAlloc(free, n)
  <2>1. /\ job' = job /\ UNCHANGED tables
        /\ mem' = [f \in Frame |-> IF f \in own THEN Junk ELSE mem[f]]
    BY <1>2, Zenon DEF ReadBuffer
  <2>2. free \in SUBSET Frame
    BY Zenon DEF Inv, TypeInv
  <2>3. own \in SUBSET free
    BY <1>2, <2>2, ManyPages, Zenon
  <2> HIDE DEF own
  <2>4. \A f \in Frame \ own : mem'[f] = mem[f]
    BY <2>1, Zenon
  <2> QED BY <2>1, <2>3, <2>4, DeviceRefines, Zenon
<1> QED BY <1>1, <1>2, Zenon

\* A step of another call that keeps the pages.
LEMMA KeepsRefine ==
  ASSUME Inv, Inv', maps' = maps, PagesKept, job.op # "fork", job'.op # "fork"
  PROVE  Refined
<1>1. View' = View
  BY QuietStep, Zenon DEF Hidden
<1> QED BY <1>1, Zenon DEF Refined, CopyInv

\* The window's tables are the kernel's own.
LEMMA TrampolineRefines ==
  ASSUME Counting, Inv, Inv', TrampolineMap \/ TrampolineUnmap
  PROVE  Refined
<1>1. PagesKept
  BY TrampolineMapStep, TrampolineUnmapStep, Zenon
<1>2. /\ job.op \in {"map", "unmap"} /\ maps' = maps
      /\ job' = job \/ job' = NoJob \/ job' = [job EXCEPT !.n = @ + 1]
  BY Zenon DEF TrampolineMap, TrampolineUnmap, Continue, Panic, tables
<1>3. job'.op \in {"map", "unmap", "none"}
  <2>1. NoJob.op = "none" /\ [job EXCEPT !.n = @ + 1].op = job.op
    BY Zenon DEF Inv, TypeInv, JobType, NoJob
  <2> QED BY <1>2, <2>1
<1>4. job.op # "fork" /\ job'.op # "fork"
  BY <1>2, <1>3
<1> QED BY <1>1, <1>2, <1>4, KeepsRefine, Zenon

\* What a walk of a process's table finds is a page of the process.
LEMMA WalkedPage ==
  ASSUME Inv, NEW s \in Space, Exists(s), NEW v \in UserPage, translate(mem, root[s], v) # NoFrame
  PROVE  v \in DOMAIN maps[s] /\ translate(mem, root[s], v) = maps[s][v]
  BY Zenon DEF Inv, MapsInv

\* A store in user mode.
LEMMA StoreRefines ==
  ASSUME Inv, Inv', NEW v \in Vpn, UserStore(v)
  PROVE  Refined
<1> DEFINE f == IF v \in DOMAIN tlb THEN tlb[v] ELSE translate(mem, satp, v)
<1>1. maps' = maps /\ job' = job /\ f # NoFrame /\ mem' = [mem EXCEPT ![f] = Junk]
  BY Zenon DEF UserStore, tables
<1>2. user \in Space /\ Live(user) /\ job = NoJob /\ job.op = "none"
  BY DEF UserStore, Inv, HartInv, TypeInv, Tables, NoJob
<1>3. f = translate(mem, root[user], v)
  BY <1>2, Zenon DEF Inv, HartInv
<1>4. PICK s \in Space : s = user
  BY <1>2, Zenon
<1>5. v \in DOMAIN maps[s] /\ f = maps[s][v]
  <2>1. Exists(s) /\ v \in UserPage /\ translate(mem, root[s], v) # NoFrame
    BY <1>1, <1>2, <1>3, <1>4, UserPages, Zenon DEF Live
  <2> QED BY <1>3, <1>4, <2>1, WalkedPage, Zenon
<1> HIDE DEF f
<1>6. mem \in Mem
  BY Zenon DEF Inv, TypeInv
<1>7. \A g \in Frame : mem'[g] = mem[g] \/ (mem'[g] = Junk /\ \E w \in DOMAIN maps[s] : g = maps[s][w])
  BY <1>1, <1>5, <1>6, Zenon DEF Mem
<1>8. job.op # "fork" /\ job'.op # "fork"
  BY <1>1, <1>2
<1>9. Memory!Next
  BY <1>1, <1>7, <1>8, StoreView, Zenon
<1> QED BY <1>8, <1>9, Zenon DEF Refined, CopyInv

\* getdents64 writes to one page of the caller, or begins to map the window.
LEMMA GetdentsRefines ==
  ASSUME Inv, Inv', CopyInv, NEW s \in Space, NEW v \in Vpn, NEW o \in 0..(PAGE_SIZE - 1),
         NEW n \in 1..PAGE_SIZE, NEW va, va = v * PAGE_SIZE + o, getdents64(s, va, n)
  PROVE  Refined
<1> DEFINE f == translate(mem, root[s], v)
<1>1. PAGE_SIZE \in Nat \ {0} /\ v \in Nat /\ v \in UserPage
  BY ConstantsAssumption, UserPages, Zenon
<1>2. va \div PAGE_SIZE = v
  <2> DEFINE P == PAGE_SIZE
  <2>1. P \in Nat \ {0} /\ v \in Nat /\ o \in 0..(P - 1) /\ n \in 1..P /\ va = v * P + o
    BY <1>1, Zenon
  <2> HIDE DEF P
  <2>2. /\ va \in Nat /\ va \div P = v /\ va % P = o
        /\ o + n >= P => (va + n) \div P = v + 1 /\ (va + n - 1) \div P \in {v, v + 1}
    BY <2>1, TwoPages, Zenon
  <2> QED BY <2>2, Zenon DEF P
<1>3. job = NoJob /\ job.op = "none" /\ Live(s)
  BY Zenon DEF getdents64, Call, Idle, NoJob
<1>4. CASE f = NoFrame
  <2>1. UNCHANGED <<allocation, tables, job>>
    BY <1>2, <1>4, Zenon DEF getdents64, Panic
  <2> QED BY <2>1, PanicRefines, Zenon
<1>5. CASE f # NoFrame /\ (va % PAGE_SIZE) + n < PAGE_SIZE
  <2>1. maps' = maps /\ job' = job /\ mem' = [mem EXCEPT ![f] = Junk]
    BY <1>2, <1>5, Zenon DEF getdents64, tables
  <2>2. v \in DOMAIN maps[s] /\ f = maps[s][v]
    <3>1. Exists(s)
      BY <1>3, Zenon DEF Live
    <3> QED BY <1>1, <1>5, <3>1, WalkedPage, Zenon
  <2> HIDE DEF f
  <2>3. mem \in Mem
    BY Zenon DEF Inv, TypeInv
  <2>4. \A g \in Frame : mem'[g] = mem[g] \/ (mem'[g] = Junk /\ \E w \in DOMAIN maps[s] : g = maps[s][w])
    BY <2>1, <2>2, <2>3, Zenon DEF Mem
  <2>5. job.op # "fork" /\ job'.op # "fork"
    BY <1>3, <2>1
  <2>6. Memory!Next
    BY <2>1, <2>4, <2>5, StoreView, Zenon
  <2> QED BY <2>5, <2>6, Zenon DEF Refined, CopyInv
<1>6. CASE f # NoFrame /\ ~((va % PAGE_SIZE) + n < PAGE_SIZE)
  <2>1. /\ mem' = mem /\ maps' = maps
        /\ job' = [Job("map", s) EXCEPT !.va = va, !.size = n]
    BY <1>2, <1>6, Zenon DEF getdents64, allocation, tables
  <2>2. job'.op = "map"
    BY <2>1, Zenon DEF Job, NoJob
  <2>3. job.op # "fork" /\ job'.op # "fork"
    BY <1>3, <2>2
  <2> QED BY <2>1, <2>3, KeepsRefine, Zenon DEF PagesKept
<1> QED BY <1>4, <1>5, <1>6, Zenon

\* The window shows two pages of the caller of access_continuously, and
\* nobody else's.
LEMMA AccessorRefines ==
  ASSUME Inv, Inv', Accessor
  PROVE  Refined
<1> DEFINE W == Trampoline..(Trampoline + LastPage - First)
<1>1. /\ maps' = maps /\ tlb' = [v \in W |-> translate(mem, satp, v)]
      /\ mem' = [f \in Frame |-> IF \E v \in W : tlb'[v] = f THEN Junk ELSE mem[f]]
      /\ job' = [job EXCEPT !.op = "unmap", !.n = 0]
      /\ job.op = "map" /\ First + job.n > EndPage
  BY Zenon DEF Accessor, Continue, tables
<1>2. /\ satp = root[Kernel] /\ job.s \in Space /\ Exists(job.s)
      /\ First \in Nat /\ First \in UserPage /\ First + 1 \in UserPage /\ Trampoline \in Nat
      /\ LastPage \in {First, First + 1} /\ job.n = 2
  BY <1>1, InWindow, Zenon
<1>3. PICK s \in Space : s = job.s
  BY <1>2, Zenon
<1>4. Window = {0, 1}
  BY <1>1, <1>2 DEF Window
<1>5. ASSUME NEW v \in W PROVE \E w \in DOMAIN maps[s] : tlb'[v] = maps[s][w]
  <2>1. PICK k \in {0, 1} : v = Trampoline + k
    BY <1>2
  <2>2. Trampoline + k \in UserPage /\ First + k \in UserPage
    BY <1>2, UserPages
  <2>3. /\ translate(mem, satp, v) # NoFrame
        /\ translate(mem, satp, v) = translate(mem, root[s], First + k)
    BY <1>1, <1>2, <1>3, <1>4, <2>1, <2>2, Zenon DEF Inv, WindowInv
  <2>4. /\ First + k \in DOMAIN maps[s]
        /\ translate(mem, root[s], First + k) = maps[s][First + k]
    BY <1>2, <1>3, <2>2, <2>3, WalkedPage, Zenon
  <2> QED BY <1>1, <2>3, <2>4, Zenon
<1> HIDE DEF W
<1>6. \A g \in Frame : mem'[g] = mem[g] \/ (mem'[g] = Junk /\ \E w \in DOMAIN maps[s] : g = maps[s][w])
  BY <1>1, <1>5, Zenon
<1>7. job'.op = "unmap"
  BY <1>1, Zenon DEF Inv, TypeInv, JobType
<1>8. job.op # "fork" /\ job'.op # "fork"
  BY <1>1, <1>7
<1>9. Memory!Next
  BY <1>1, <1>6, <1>8, StoreView, Zenon
<1> QED BY <1>8, <1>9, Zenon DEF Refined, CopyInv

\* Every step is one that separate address spaces may take, or none.
LEMMA NextRefines ==
  ASSUME Counting, Inv, Inv', CopyInv, [Next]_vars
  PROVE  Refined
<1>1. CASE spawn
  BY <1>1, SpawnRefines, Zenon
<1>2. CASE load_elf
  BY <1>2, LoadRefines, Zenon
<1>3. CASE copy_from
  BY <1>3, CopyRefines, Zenon
<1>4. CASE TrampolineMap \/ TrampolineUnmap
  BY <1>4, TrampolineRefines, Zenon
<1>5. CASE Accessor
  BY <1>5, AccessorRefines, Zenon
<1>6. CASE trap_save_u
  BY <1>6, PanicRefines, Zenon DEF trap_save_u
<1>7. ASSUME NEW p \in Space, NEW c \in Space, fork(p, c) PROVE Refined
  BY <1>7, ForkRefines, Zenon
<1>8. ASSUME NEW s \in Space, execve(s) \/ exit(s) \/ DropProcess(s) PROVE Refined
  BY <1>8, ExecveRefines, ExitRefines, DropRefines, Zenon
<1>9. ASSUME NEW s \in Space, trap_ret_u(s) PROVE Refined
  BY <1>9, PanicRefines, Zenon DEF trap_ret_u
<1>10. ASSUME NEW s \in Space, NEW v \in Vpn, mmap(s, v) \/ unmap(s, v) PROVE Refined
  BY <1>10, MmapRefines, UnmapRefines, Zenon
<1>11. ASSUME NEW v \in Vpn, UserStore(v) PROVE Refined
  BY <1>11, StoreRefines, Zenon
<1>12. ASSUME NEW v, Walk(v) PROVE Refined
  BY <1>12, PanicRefines, Zenon DEF Walk
<1>13. ASSUME NEW n \in BufferPages, ReadBuffer(n) \/ dma_alloc(n) PROVE Refined
  BY <1>13, ReadRefines, DmaRefines, Zenon
<1>14. ASSUME NEW s \in Space, NEW v \in Vpn, NEW o \in 0..(PAGE_SIZE - 1), NEW n \in 1..PAGE_SIZE,
              getdents64(s, v * PAGE_SIZE + o, n)
       PROVE  Refined
  BY <1>14, GetdentsRefines, Zenon
<1>15. CASE UNCHANGED vars
  BY <1>15, PanicRefines, Zenon DEF vars
<1> QED BY <1>1, <1>2, <1>3, <1>4, <1>5, <1>6, <1>7, <1>8, <1>9, <1>10, <1>11, <1>12, <1>13,
           <1>14, <1>15, Zenon DEF Next

\* At first nobody sees anything.
LEMMA InitRefines == Init => CopyInv /\ Memory!Init
<1> SUFFICES ASSUME Init PROVE CopyInv /\ Memory!Init
  BY Zenon
<1>1. Inv /\ job.op # "fork" /\ \A s \in Space : maps[s] = NoMap
  <2>1. job.op # "fork"
    BY DEF Init, NoJob
  <2> QED BY <2>1, InitInv, Zenon DEF Init
<1>2. ViewSeen
  BY <1>1, ViewIs, Zenon
<1>3. ASSUME NEW s \in Space PROVE View[s] = Memory!Nothing
  <2>1. {w \in DOMAIN maps[s] : ~Hidden(s)} = {}
    BY <1>1, PageMaps, Zenon
  <2>2. Seen(s) = [v \in {} |-> mem[maps[s][v]]]
    BY <2>1, Zenon DEF Seen
  <2> QED BY <1>2, <2>2, Zenon DEF ViewSeen, Memory!Nothing
<1>4. View = [s \in Space |-> View[s]]
  BY Zenon DEF View
<1>5. View = [s \in Space |-> Memory!Nothing]
  BY <1>3, <1>4, Zenon
<1> QED BY <1>1, <1>5, Zenon DEF CopyInv, Memory!Init

-----------------------------------------------------------------------------
(* Counting *)
INSTANCE FiniteSetTheorems

\* Every set of naturals that is not empty has a least element: the intervals
\* up to its elements are well founded under inclusion.
LEMMA LeastNatural ==
  ASSUME NEW S \in SUBSET Nat, S # {}
  PROVE  \E m \in S : \A n \in S : m <= n
<1> DEFINE T == {0..n : n \in S}
           R == StrictSubsetOrdering(Nat)
<1>1. T \subseteq FiniteSubsetsOf(Nat) /\ T # {}
  <2>1. \A n \in S : IsFiniteSet(0..n) /\ 0..n \in SUBSET Nat
    BY FS_Interval
  <2> QED BY <2>1, Zenon DEF FiniteSubsetsOf
<1>2. IsWellFoundedOn(R, FiniteSubsetsOf(Nat))
  BY FS_StrictSubsetOrderingWellFounded, Zenon
<1> HIDE DEF T, R
<1>3. PICK x \in T : \A y \in T : ~(<<y, x>> \in R)
  BY <1>1, <1>2, WFMin, Zenon
<1>4. PICK m \in S : x = 0..m
  BY Zenon DEF T
<1>5. ASSUME NEW n \in S, n < m
      PROVE  FALSE
  <2>1. 0..n \in T /\ ~(<<0..n, 0..m>> \in R)
    BY <1>3, <1>4, Zenon DEF T
  <2>2. 0..n \subseteq 0..m /\ 0..n # 0..m /\ 0..n \subseteq Nat /\ 0..m \subseteq Nat
    <3>1. m \in 0..m /\ ~(m \in 0..n)
      BY <1>5
    <3>2. 0..n \subseteq 0..m /\ 0..n \subseteq Nat /\ 0..m \subseteq Nat
      BY <1>5
    <3> QED BY <3>1, <3>2, Zenon
  <2>3. <<0..n, 0..m>> \in R
    BY <2>2, Zenon DEF R, StrictSubsetOrdering
  <2> QED BY <2>1, <2>3, Zenon
<1> QED BY <1>5

\* The facts about sets of numbers and of frames that the steps use.
LEMMA Counts == Counting
<1>1. ASSUME NEW fr \in SUBSET Frame
      PROVE  /\ Cardinality(fr) \in Nat
             /\ Cardinality(fr) >= 1 => fr # {}
             /\ Cardinality(fr) >= 2 => \A a \in fr : fr \ {a} # {}
             /\ Cardinality(fr) >= 3 => \A a \in fr : \A b \in fr \ {a} : (fr \ {a}) \ {b} # {}
  <2>1. FrameCount \in Nat
    BY ConstantsAssumption, Zenon
  <2>2. IsFiniteSet(Frame)
    BY <2>1, FS_Interval DEF Frame
  <2>3. IsFiniteSet(fr) /\ Cardinality(fr) \in Nat
    BY <2>2, FS_Subset, FS_CardinalityType, Zenon
  <2>4. \A a \in fr : IsFiniteSet(fr \ {a}) /\ Cardinality(fr \ {a}) = Cardinality(fr) - 1
    BY <2>3, FS_RemoveElement, Zenon
  <2>5. ASSUME NEW a \in fr, NEW b \in fr \ {a}
        PROVE  Cardinality((fr \ {a}) \ {b}) = Cardinality(fr) - 2
    <3>1. IsFiniteSet(fr \ {a}) /\ Cardinality(fr \ {a}) = Cardinality(fr) - 1
      BY <2>4, Zenon
    <3>2. Cardinality((fr \ {a}) \ {b}) = Cardinality(fr \ {a}) - 1
      BY <3>1, FS_RemoveElement, Zenon
    <3> QED BY <2>3, <3>1, <3>2
  <2>6. Cardinality({}) = 0
    BY FS_EmptySet, Zenon
  <2>7. Cardinality(fr) >= 1 => fr # {}
    BY <2>3, <2>6
  <2>8. Cardinality(fr) >= 2 => \A a \in fr : fr \ {a} # {}
    BY <2>3, <2>4, <2>6
  <2>9. Cardinality(fr) >= 3 => \A a \in fr : \A b \in fr \ {a} : (fr \ {a}) \ {b} # {}
    BY <2>3, <2>5, <2>6
  <2> QED BY <2>3, <2>7, <2>8, <2>9, Zenon
<1>2. \A S \in SUBSET Nat : S # {} => \E m \in S : \A n \in S : m <= n
  BY LeastNatural, Zenon
<1> QED BY <1>1, <1>2, Zenon DEF Counting

LEMMA Invariance == Spec => []Inv
<1>1. Inv /\ [Next]_vars => Inv'
  BY Counts, NextInv, Zenon
<1> QED BY <1>1, InitInv, PTL DEF Spec

\* The use that OwnedBy gives a frame leaves it one owner at most: each of the
\* sets that Owners counts is empty or has the one member that OwnedBy names.
LEMMA OneOwner ==
  ASSUME TypeInv, OwnInv, NEW f \in Frame
  PROVE  Owners(f) + (IF f \in free THEN 1 ELSE 0) + (IF f \in leaked THEN 1 ELSE 0) = 1
<1> DEFINE A == {t \in Tables : f \in pages[t]}
           B == {e \in Space \X Vpn : e[2] \in DOMAIN maps[e[1]] /\ maps[e[1]][e[2]] = f}
           C == {s \in Space : f \in stack[s]}
<1>1. PICK use, who, at : OwnedBy(free, leaked, dma, pages, stack, maps, use, who, at)
  BY Zenon DEF OwnInv, Own
<1> DEFINE u == use[f]
           w == who[f]
           x == at[f]
<1>2. /\ u \in {"free", "leaked", "dma", "table", "stack", "page"}
      /\ f \in free <=> u = "free"
      /\ f \in leaked <=> u = "leaked"
      /\ f \in dma <=> u = "dma"
  BY <1>1, Zenon DEF OwnedBy, Used
<1>3. IF u = "table" THEN A = {w} ELSE A = {}
  BY <1>1 DEF OwnedBy, Used
<1>4. IF u = "stack" THEN C = {w} ELSE C = {}
  BY <1>1 DEF OwnedBy, Used
<1>5. IF u = "page" THEN B = {<<w, x>>} ELSE B = {}
  <2>1. \A s \in Space, v \in Vpn :
            v \in DOMAIN maps[s] /\ maps[s][v] = f <=> u = "page" /\ w = s /\ x = v
    BY <1>1, Zenon DEF OwnedBy, Used
  <2>2. u = "page" => w \in Space /\ x \in Vpn
    BY <1>1, Zenon DEF OwnedBy, Used
  <2> HIDE DEF u, w, x
  <2> QED BY <2>1, <2>2
<1>6. Owners(f) = Cardinality(A) + Cardinality(B) + Cardinality(C) + (IF f \in dma THEN 1 ELSE 0)
  BY Zenon DEF Owners
<1> HIDE DEF A, B, C, u, w, x
<1>7. Cardinality({}) = 0 /\ Cardinality({w}) = 1 /\ Cardinality({<<w, x>>}) = 1
  BY FS_EmptySet, FS_Singleton, Zenon
<1>8. /\ Cardinality(A) = IF u = "table" THEN 1 ELSE 0
      /\ Cardinality(B) = IF u = "page" THEN 1 ELSE 0
      /\ Cardinality(C) = IF u = "stack" THEN 1 ELSE 0
  BY <1>3, <1>4, <1>5, <1>7, Zenon
<1> QED BY <1>2, <1>6, <1>8

\* Every frame is free, or has one owner that will give it back, or is one of
\* those alloc_many took beyond the pages it returned: whatever the number of
\* processes and frames, and wherever the allocator puts what it is asked for,
\* the drops of PhyPage, PageTable, ProcessMemory and Process free nothing
\* twice and lose nothing else.
THEOREM EveryFrameHasOneOwner == Spec => []FramesAccounted
<1>1. Inv => FramesAccounted
  BY OneOwner, Zenon DEF Inv, FramesAccounted
<1> QED BY <1>1, Invariance, PTL

\* PageTable's tree and ProcessMemory::maps say the same of every page: what
\* map and unmap do to three levels of tables in shared memory never touches
\* the translation of another page or of another process.
THEOREM TablesAgreeWithMaps == Spec => []MapsMatchTable
<1>1. Inv => MapsMatchTable
  BY UserPages, Zenon DEF Inv, MapsInv, MapsMatchTable
<1> QED BY <1>1, Invariance, PTL

\* satp is the table of whoever runs, and the TLB holds what its walk finds
\* now: trap_ret_u and trap_save_u exchange satp with the TrapContext in step
\* with each other through every fork, execve and exit.
THEOREM HartUsesItsTable == Spec => []TranslationIsCurrent
<1>1. Inv => TranslationIsCurrent
  BY Zenon DEF Inv, HartInv, TranslationIsCurrent
<1> QED BY <1>1, Invariance, PTL

\* Tables in shared frames, copies page by page and a window in the kernel's
\* table implement an address space for each process: whatever map, unmap,
\* copy_from, reset, the device and access_continuously do to a frame, it shows
\* in one process only, a page starts cleared or with the binary, and fork
\* gives the child what the parent has.
THEOREM SeparateAddressSpaces == Spec => ImplementsAddressSpaces
<1>1. Init => CopyInv /\ Memory!Init
  BY InitRefines, Zenon
<1>2. Inv /\ Inv' /\ CopyInv /\ [Next]_vars => CopyInv' /\ (Memory!Next \/ View' = View)
  BY Counts, NextRefines, Zenon DEF Refined
<1>3. Inv /\ Inv' /\ CopyInv /\ [Next]_vars => CopyInv' /\ [Memory!Next]_View
  BY <1>2, Zenon
<1> QED BY <1>1, <1>3, Invariance, PTL DEF Spec, ImplementsAddressSpaces, Memory!Spec
=============================================================================
