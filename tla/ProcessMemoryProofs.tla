------------------------ MODULE ProcessMemoryProofs ------------------------
(***************************************************************************)
(* Proofs about ProcessMemory, for every page size, layout, set of         *)
(* programs and number of calls.                                           *)
(*                                                                         *)
(* MemInv is the inductive invariant.  Beside what the theorems state it   *)
(* keeps the sizes natural, prog_end and stack_top on page boundaries (a   *)
(* page of the heap that brk reaches into begins at or after prog_end; the *)
(* page before stack_top is the one that ends there), and prog_end above 0 *)
(* once a program is loaded, so that brk - 1 is an address.  The search of *)
(* mmap is then a question about one state: Found says that a range it     *)
(* returns is free, FindsRoom that below the lowest page mapped above a    *)
(* gap the search starts a test that finds the gap.                        *)
(***************************************************************************)
EXTENDS ProcessMemory, TLAPS

(* Pages and bytes *)

\* A page has at least two bytes.
LEMMA PageSize == PAGE_SIZE \in Nat /\ PAGE_SIZE > 1
  BY ConstantsAssumption, Zenon

\* A page number times the page size is an address.
LEMMA Product == \A a \in Int : a * PAGE_SIZE \in Int
  BY PageSize

\* Pages that follow one another begin at least a page size apart.
LEMMA Scaled ==
  ASSUME NEW a \in Int, NEW b \in Int
  PROVE  /\ a <= b => a * PAGE_SIZE <= b * PAGE_SIZE
         /\ a < b => a * PAGE_SIZE + PAGE_SIZE <= b * PAGE_SIZE
  BY PageSize

\* An address lies in the page VirtPageId::from gives.
LEMMA Quotient ==
  ASSUME NEW a \in Nat
  PROVE  /\ a \div PAGE_SIZE \in Nat
         /\ (a \div PAGE_SIZE) * PAGE_SIZE <= a
         /\ a < (a \div PAGE_SIZE) * PAGE_SIZE + PAGE_SIZE
  BY PageSize

\* The page of an address is the only one whose bytes contain it.
LEMMA PageOf ==
  ASSUME NEW a \in Nat, NEW k \in Int
  PROVE  /\ k * PAGE_SIZE <= a => k <= a \div PAGE_SIZE
         /\ a < k * PAGE_SIZE + PAGE_SIZE => a \div PAGE_SIZE <= k
<1>1. PICK q \in Nat : q = a \div PAGE_SIZE /\ q * PAGE_SIZE <= a /\ a < q * PAGE_SIZE + PAGE_SIZE
  BY Quotient
<1>2. q < k => q * PAGE_SIZE + PAGE_SIZE <= k * PAGE_SIZE
  BY Scaled
<1>3. k < q => k * PAGE_SIZE + PAGE_SIZE <= q * PAGE_SIZE
  BY Scaled
<1>4. q * PAGE_SIZE \in Int /\ k * PAGE_SIZE \in Int
  BY Product
<1> QED BY <1>1, <1>2, <1>3, <1>4, PageSize

\* Addr::round_up gives the first page boundary at or after an address.
LEMMA RoundedUp ==
  ASSUME NEW x \in Nat
  PROVE  \E u \in Nat : /\ round_up(x) = u * PAGE_SIZE /\ round_up(x) \div PAGE_SIZE = u
                        /\ x <= u * PAGE_SIZE /\ u * PAGE_SIZE < x + PAGE_SIZE
<1>1. PICK y \in Nat : y = x + PAGE_SIZE - 1
  BY PageSize
<1>2. PICK u \in Nat : u = y \div PAGE_SIZE /\ u * PAGE_SIZE <= y /\ y < u * PAGE_SIZE + PAGE_SIZE
  BY Quotient
<1>3. u * PAGE_SIZE \in Nat
  BY PageSize
<1>4. (u * PAGE_SIZE) \div PAGE_SIZE = u
  <2>1. PICK z \in Nat : z = u * PAGE_SIZE
    BY <1>3
  <2>2. z \div PAGE_SIZE \in Nat
    BY Quotient
  <2>3. u <= z \div PAGE_SIZE /\ z \div PAGE_SIZE <= u
    BY <2>1, PageOf, PageSize
  <2> QED BY <2>1, <2>2, <2>3
<1>5. round_up(x) = u * PAGE_SIZE
  BY <1>1, <1>2 DEF round_up
<1>6. x <= u * PAGE_SIZE /\ u * PAGE_SIZE < x + PAGE_SIZE
  BY <1>1, <1>2, <1>3, PageSize
<1> QED BY <1>4, <1>5, <1>6

-----------------------------------------------------------------------------
(* The inductive invariant *)

Covered == Mapped \cup holes

Multiple(a) == \E k \in Nat : a = k * PAGE_SIZE

MemInv ==
    /\ Mapped \subseteq Nat /\ holes \subseteq Nat
    /\ prog_end \in Nat /\ brk \in Nat /\ stack_top \in Nat
    /\ Multiple(prog_end) /\ Multiple(stack_top)
    /\ IF loaded # <<>> THEN prog_end > 0 ELSE brk = prog_end
    /\ RegionsInBounds
    /\ UsableMemoryIsMapped

\* ProcessMemory::new meets the invariant.
LEMMA InitInv == Init => MemInv
<1> SUFFICES ASSUME Init PROVE MemInv
  BY Zenon
<1>1. Mapped = {} /\ holes = {} /\ prog_end = 0 /\ brk = 0 /\ stack_top = StackPage * PAGE_SIZE
      /\ loaded = <<>>
  BY Zenon DEF Init, Mapped
<1>2. StackPage \in Nat /\ stack_top \in Nat /\ 0 = 0 * PAGE_SIZE
  BY <1>1, ConstantsAssumption
<1>3. Multiple(prog_end) /\ Multiple(stack_top)
  BY <1>1, <1>2 DEF Multiple
<1>4. RegionsInBounds
  BY <1>1 DEF RegionsInBounds
<1>5. UsableMemoryIsMapped
  BY <1>1, Zenon DEF UsableMemoryIsMapped
<1> QED BY <1>1, <1>2, <1>3, <1>4, <1>5 DEF MemInv

\* What is usable stays so when no covered page is given up.
LEMMA StillBacked ==
  ASSUME NEW a, NEW b, Backed(a, b), Covered \subseteq Covered'
  PROVE  Backed(a, b)'
  BY Zenon DEF Backed, Covered

\* A step that leaves the address space alone keeps the invariant.
LEMMA SameInv ==
  ASSUME MemInv, UNCHANGED <<maps, sizes, loaded, holes>>
  PROVE  MemInv'
  BY Zenon DEF MemInv, sizes, Multiple, Mapped, RegionsInBounds, UsableMemoryIsMapped, Backed

\* So does one that stops the kernel.
LEMMA PanicInv ==
  ASSUME MemInv, NEW why, Panic(why)
  PROVE  MemInv'
  BY SameInv, Zenon DEF Panic

\* mmap and munmap: pages become "mmap" or go, the sizes stay.
LEMMA RemapInv ==
  ASSUME MemInv, NEW S \in SUBSET Nat, UNCHANGED <<sizes, loaded>>,
         \/ maps' = With(S, "mmap") /\ holes' = holes \ S
         \/ maps' = Without(S) /\ holes' = holes \cup S
  PROVE  MemInv'
<1>1. Mapped' \subseteq Mapped \cup S /\ \A v \in Mapped' : maps'[v] # "mmap" => v \in Mapped /\ maps'[v] = maps[v]
  BY Zenon DEF With, Without, Mapped
<1>2. Covered \subseteq Covered'
  BY Zenon DEF With, Without, Mapped, Covered
<1>3. Mapped' \subseteq Nat /\ holes' \subseteq Nat
  BY <1>1, Zenon DEF MemInv
<1>4. prog_end' = prog_end /\ brk' = brk /\ stack_top' = stack_top
  BY Zenon DEF sizes
<1>5. RegionsInBounds'
  BY <1>1, <1>4, Zenon DEF MemInv, RegionsInBounds
<1>6. UsableMemoryIsMapped'
  BY <1>2, <1>4, StillBacked, Zenon DEF MemInv, UsableMemoryIsMapped
<1> QED BY <1>3, <1>4, <1>5, <1>6, Zenon DEF MemInv, Multiple

\* set_brk: the pages from the first that is not the heap's yet.
LEMMA GrowInv ==
  ASSUME MemInv, loaded # <<>>, NEW a \in Nat, brk < a,
         maps' = With(GrowthPages(a), "heap"), holes' = holes \ GrowthPages(a),
         brk' = a, UNCHANGED <<prog_end, min_brk, stack_top, loaded>>
  PROVE  MemInv'
<1> DEFINE G == GrowthPages(a)
<1>0. /\ prog_end \in Nat /\ brk \in Nat /\ stack_top \in Nat /\ prog_end <= brk /\ prog_end > 0
      /\ Mapped \subseteq Nat /\ holes \subseteq Nat
  BY Zenon DEF MemInv, RegionsInBounds
<1>1. PICK b \in Nat : b = brk - 1 /\ Before(brk) = b
  BY <1>0 DEF Before
<1>2. PICK lo \in Nat : /\ round_up(b) \div PAGE_SIZE = lo
                        /\ b <= lo * PAGE_SIZE /\ lo * PAGE_SIZE < b + PAGE_SIZE
  BY RoundedUp
<1>3. PICK hi \in Nat : /\ round_up(a) \div PAGE_SIZE = hi
                        /\ a <= hi * PAGE_SIZE /\ hi * PAGE_SIZE < a + PAGE_SIZE
  BY RoundedUp
<1>4. PICK k \in Nat : prog_end = k * PAGE_SIZE
  BY Zenon DEF MemInv, Multiple
<1>5. G = lo..(hi - 1)
  BY <1>1, <1>2, <1>3, Zenon DEF GrowthPages
<1>6. ASSUME NEW v \in G PROVE v \in Nat /\ v * PAGE_SIZE < a /\ v * PAGE_SIZE >= prog_end
  <2>1. v \in Nat /\ lo <= v /\ v < hi
    BY <1>5
  <2>2. v * PAGE_SIZE + PAGE_SIZE <= hi * PAGE_SIZE /\ lo * PAGE_SIZE <= v * PAGE_SIZE
    BY <2>1, Scaled
  <2>3. k <= lo
    <3>1. lo < k => lo * PAGE_SIZE + PAGE_SIZE <= k * PAGE_SIZE
      BY Scaled
    <3> QED BY <1>0, <1>1, <1>2, <1>4, <3>1, Product, PageSize
  <2>4. k * PAGE_SIZE <= lo * PAGE_SIZE
    BY <2>3, Scaled
  <2> QED BY <1>3, <1>4, <2>1, <2>2, <2>4, Product, PageSize
<1> HIDE DEF G
<1>7. /\ Mapped' = Mapped \cup G
      /\ \A v \in Mapped' : IF v \in G THEN maps'[v] = "heap" ELSE v \in Mapped /\ maps'[v] = maps[v]
  BY Zenon DEF With, Mapped, G
<1>8. Covered \subseteq Covered' /\ G \subseteq Covered'
  BY <1>7, Zenon DEF Covered, G
<1>9. Mapped' \subseteq Nat /\ holes' \subseteq Nat
  BY <1>0, <1>6, <1>7, Zenon
<1>10. RegionsInBounds'
  <2>1. prog_end <= a
    BY <1>0
  <2>2. ASSUME NEW v \in Mapped', maps'[v] = "heap"
        PROVE  v * PAGE_SIZE < a /\ v * PAGE_SIZE >= prog_end
    <3>1. CASE v \in G
      BY <1>6, <3>1, Zenon
    <3>2. CASE v \notin G
      <4>1. v \in Nat /\ v * PAGE_SIZE < brk /\ v * PAGE_SIZE >= prog_end
        BY <1>0, <1>7, <2>2, <3>2, Zenon DEF MemInv, RegionsInBounds
      <4> QED BY <1>0, <4>1, Product
    <3> QED BY <3>1, <3>2, Zenon
  <2>3. ASSUME NEW v \in Mapped', maps'[v] = "stack"
        PROVE  v * PAGE_SIZE >= stack_top
    BY <1>7, <2>3, Zenon DEF MemInv, RegionsInBounds
  <2> QED BY <2>1, <2>2, <2>3, Zenon DEF RegionsInBounds
<1>11. Backed(prog_end, a)'
  <2> SUFFICES ASSUME NEW va \in prog_end..(a - 1) PROVE Page(va) \in Covered'
    BY Zenon DEF Backed, Covered
  <2>1. va \in Nat /\ prog_end <= va /\ va < a
    BY <1>0
  <2>2. PICK p \in Nat : p = Page(va) /\ p * PAGE_SIZE <= va /\ va < p * PAGE_SIZE + PAGE_SIZE
    BY <2>1, Quotient DEF Page
  <2>3. CASE va < brk
    <3>1. va \in prog_end..(brk - 1)
      BY <1>0, <2>1, <2>3
    <3> QED BY <1>8, <3>1, Zenon DEF MemInv, UsableMemoryIsMapped, Backed, Covered
  <2>4. CASE brk <= va /\ lo <= p
    <3>1. p < hi
      <4>1. hi <= p => hi * PAGE_SIZE <= p * PAGE_SIZE
        BY Scaled
      <4> QED BY <1>3, <2>1, <2>2, <4>1, Product, PageSize
    <3> QED BY <1>5, <1>8, <2>2, <2>4, <3>1
  <2>5. CASE brk <= va /\ p < lo
    \* The byte before brk lies in the same page, and is the heap's.
    <3>1. p * PAGE_SIZE + PAGE_SIZE <= lo * PAGE_SIZE
      BY <2>5, Scaled
    <3>2. p * PAGE_SIZE <= b /\ b < p * PAGE_SIZE + PAGE_SIZE
      BY <1>0, <1>1, <1>2, <2>1, <2>2, <2>5, <3>1, Product, PageSize
    <3>3. Page(b) = p
      <4>1. b \div PAGE_SIZE \in Nat /\ p <= b \div PAGE_SIZE /\ b \div PAGE_SIZE <= p
        BY <3>2, Quotient, PageOf
      <4> QED BY <4>1 DEF Page
    <3>4. prog_end <= b
      <4>1. prog_end # brk
        <5>1. k <= p => k * PAGE_SIZE <= p * PAGE_SIZE
          BY Scaled
        <5>2. p < k => p * PAGE_SIZE + PAGE_SIZE <= k * PAGE_SIZE
          BY Scaled
        <5> QED BY <1>0, <1>1, <1>4, <2>1, <2>2, <3>2, <5>1, <5>2, Product, PageSize
      <4> QED BY <1>0, <1>1, <4>1
    <3>5. b \in prog_end..(brk - 1)
      BY <1>0, <1>1, <3>4
    <3>6. p \in Covered
      BY <3>3, <3>5, Zenon DEF MemInv, UsableMemoryIsMapped, Backed, Covered
    <3> QED BY <1>8, <2>2, <3>6, Zenon
  <2> QED BY <1>0, <2>1, <2>2, <2>3, <2>4, <2>5
<1>12. UsableMemoryIsMapped'
  BY <1>8, <1>11, StillBacked, Zenon DEF MemInv, UsableMemoryIsMapped
<1> QED BY <1>0, <1>9, <1>10, <1>12, Zenon DEF MemInv, Multiple

\* alloc_stack_if_possible: one page more.
LEMMA StackInv ==
  ASSUME MemInv, loaded # <<>>, NEW p \in Nat, p = Page(Before(stack_top)),
         maps' = With({p}, "stack"), stack_top' = p * PAGE_SIZE, holes' = holes \ {p},
         UNCHANGED <<prog_end, min_brk, brk, loaded>>
  PROVE  MemInv'
<1>0. /\ prog_end \in Nat /\ brk \in Nat /\ stack_top \in Nat
      /\ Mapped \subseteq Nat /\ holes \subseteq Nat
  BY Zenon DEF MemInv
<1>1. PICK k \in Nat : stack_top = k * PAGE_SIZE
  BY Zenon DEF MemInv, Multiple
<1>2. /\ p * PAGE_SIZE \in Nat /\ p * PAGE_SIZE <= stack_top
      /\ \A va \in Nat : p * PAGE_SIZE <= va /\ va < stack_top => Page(va) = p
  <2>1. PICK b \in Nat : b = Before(stack_top) /\ b <= stack_top /\ (stack_top = 0 \/ b = stack_top - 1)
    BY <1>0 DEF Before
  <2>2. p * PAGE_SIZE <= b /\ b < p * PAGE_SIZE + PAGE_SIZE
    BY <2>1, Quotient DEF Page
  <2>3. p * PAGE_SIZE \in Nat
    BY PageSize
  <2>4. ASSUME NEW va \in Nat, p * PAGE_SIZE <= va, va < stack_top PROVE Page(va) = p
    <3>1. va < p * PAGE_SIZE + PAGE_SIZE
      BY <1>0, <2>1, <2>2, <2>3, <2>4, PageSize
    <3>2. va \div PAGE_SIZE \in Nat /\ p <= va \div PAGE_SIZE /\ va \div PAGE_SIZE <= p
      BY <2>4, <3>1, Quotient, PageOf
    <3> QED BY <3>2 DEF Page
  <2> QED BY <1>0, <2>1, <2>2, <2>3, <2>4
<1>3. /\ Mapped' = Mapped \cup {p} /\ maps'[p] = "stack"
      /\ \A v \in Mapped' \ {p} : v \in Mapped /\ maps'[v] = maps[v]
  BY Zenon DEF With, Mapped
<1>4. Covered \subseteq Covered' /\ p \in Covered'
  BY <1>3, Zenon DEF Covered
<1>5. RegionsInBounds'
  <2>1. ASSUME NEW v \in Mapped', maps'[v] = "stack" PROVE v * PAGE_SIZE >= stack_top'
    <3>1. CASE v = p
      BY <1>2, <3>1
    <3>2. CASE v # p
      <4>1. v \in Nat /\ v * PAGE_SIZE >= stack_top
        BY <1>0, <1>3, <2>1, <3>2, Zenon DEF MemInv, RegionsInBounds
      <4> QED BY <1>0, <1>2, <4>1, Product
    <3> QED BY <3>1, <3>2, Zenon
  <2>2. ASSUME NEW v \in Mapped', maps'[v] = "heap" PROVE v \in Mapped /\ maps[v] = "heap"
    BY <1>3, <2>2, Zenon
  <2> QED BY <2>1, <2>2, Zenon DEF MemInv, RegionsInBounds
<1>6. Backed(p * PAGE_SIZE, StackPage * PAGE_SIZE)'
  <2> SUFFICES ASSUME NEW va \in (p * PAGE_SIZE)..(StackPage * PAGE_SIZE - 1) PROVE Page(va) \in Covered'
    BY Zenon DEF Backed, Covered
  <2>1. va \in Nat /\ p * PAGE_SIZE <= va /\ StackPage * PAGE_SIZE \in Nat /\ va < StackPage * PAGE_SIZE
    BY <1>2, ConstantsAssumption
  <2>2. CASE va < stack_top
    BY <1>2, <1>4, <2>1, <2>2, Zenon
  <2>3. CASE stack_top <= va
    <3>1. va \in stack_top..(StackPage * PAGE_SIZE - 1)
      BY <1>0, <2>1, <2>3
    <3> QED BY <1>4, <3>1, Zenon DEF MemInv, UsableMemoryIsMapped, Backed, Covered
  <2> QED BY <1>0, <2>1, <2>2, <2>3
<1>7. UsableMemoryIsMapped'
  BY <1>4, <1>6, StillBacked, Zenon DEF MemInv, UsableMemoryIsMapped
<1>8. Mapped' \subseteq Nat /\ holes' \subseteq Nat
  BY <1>0, <1>3, Zenon
<1>9. Multiple(stack_top)' /\ Multiple(prog_end)'
  BY Zenon DEF MemInv, Multiple
<1> QED BY <1>0, <1>2, <1>5, <1>7, <1>8, <1>9, Zenon DEF MemInv

-----------------------------------------------------------------------------
(* execve *)

\* The offset is the distance from the start of the page.
LEMMA OffsetIs ==
  ASSUME NEW a \in Nat
  PROVE  Offset(a) = a - Page(a) * PAGE_SIZE /\ Offset(a) \in Nat
  BY PageSize DEF Offset, Page

\* The pages of a segment are two intervals: count of them for the file's
\* bytes, from first on, and those up to need.
Intervals(s, first, count, max_vpn, need) ==
    /\ SegmentPages(s) = (first..(first + count - 1)) \cup ((max_vpn + 1)..need)
    /\ first = Page(s.va) /\ need = Page(s.va + s.memsz)
    /\ IF count = 0 THEN max_vpn = 0 ELSE max_vpn = first + count - 1
    /\ count = 0 => s.filesz = 0

\* load_elf's counts for a segment exist, whatever its sizes are.
LEMMA SegmentIntervals ==
  ASSUME NEW s \in [va : Nat, offset : Nat, filesz : Nat, memsz : Nat]
  PROVE  \E first, count, max_vpn, need \in Nat : Intervals(s, first, count, max_vpn, need)
<1>0. s.va \in Nat /\ s.offset \in Nat /\ s.filesz \in Nat /\ s.memsz \in Nat /\ s.va + s.memsz \in Nat
  OBVIOUS
<1>1. PICK off \in Nat : off = Offset(s.offset)
  BY <1>0, OffsetIs
<1>2. PICK y \in Nat : y = s.filesz + off + PAGE_SIZE - 1
  BY <1>0, PageSize
<1>3. PICK count \in Nat : count = y \div PAGE_SIZE /\ y < count * PAGE_SIZE + PAGE_SIZE
  BY Quotient
<1>4. count = 0 => s.filesz = 0
  <2>1. count = 0 => y < PAGE_SIZE
    BY <1>3, PageSize
  <2> QED BY <1>0, <1>2, <2>1, PageSize
<1>5. PICK first \in Nat : first = Page(s.va)
  BY <1>0, Quotient DEF Page
<1>6. PICK need \in Nat : need = Page(s.va + s.memsz)
  BY <1>0, Quotient DEF Page
<1>7. PICK m \in Nat : m = IF count = 0 THEN 0 ELSE first + count - 1
  OBVIOUS
<1>8. SegmentPages(s) = (first..(first + count - 1)) \cup ((m + 1)..need)
  BY <1>1, <1>2, <1>3, <1>5, <1>6, <1>7, Zenon DEF SegmentPages
<1>9. IF count = 0 THEN m = 0 ELSE m = first + count - 1
  BY <1>7, Zenon
<1>10. Intervals(s, first, count, m, need)
  BY <1>1, <1>4, <1>5, <1>6, <1>8, <1>9, Zenon DEF Intervals
<1> QED BY <1>10, Zenon

\* load_elf maps every page in which the segment has a byte.
LEMMA SegmentCovered ==
  ASSUME NEW s \in [va : Nat, offset : Nat, filesz : Nat, memsz : Nat], s.va >= PAGE_SIZE \/ s.filesz > 0,
         NEW va \in s.va..(s.va + s.memsz - 1)
  PROVE  Page(va) \in SegmentPages(s)
<1>0. s.va \in Nat /\ s.filesz \in Nat /\ s.memsz \in Nat
  OBVIOUS
<1>1. PICK first, count, max_vpn, need \in Nat : Intervals(s, first, count, max_vpn, need)
  BY SegmentIntervals, Zenon
<1> USE DEF Intervals
<1>2. PICK last \in Nat : last = s.va + s.memsz /\ s.va <= va /\ va < last
  BY <1>0
<1>3. va \in Nat
  BY <1>0
<1>4. PICK p \in Nat : p = Page(va) /\ p * PAGE_SIZE <= va
  BY <1>3, Quotient DEF Page
<1>5. p <= need
  <2>1. p * PAGE_SIZE <= last
    BY <1>2, <1>3, <1>4, Product
  <2>2. p <= last \div PAGE_SIZE
    BY <2>1, PageOf
  <2> QED BY <1>1, <1>2, <2>2, Zenon DEF Page
<1>6. first <= p
  <2>1. first * PAGE_SIZE <= s.va
    BY <1>0, <1>1, Quotient DEF Page
  <2>2. first * PAGE_SIZE <= va
    BY <1>0, <1>2, <1>3, <2>1, Product
  <2>3. first <= va \div PAGE_SIZE
    BY <1>3, <2>2, PageOf
  <2> QED BY <1>4, <2>3, Zenon DEF Page
<1>7. CASE count = 0
  <2>1. 1 * PAGE_SIZE <= s.va
    BY <1>0, <1>1, <1>7, PageSize
  <2>2. first # 0
    <3>1. 1 <= s.va \div PAGE_SIZE
      BY <1>0, <2>1, PageOf
    <3> QED BY <1>1, <3>1 DEF Page
  <2> QED BY <1>1, <1>4, <1>5, <1>6, <1>7, <2>2
<1>8. CASE count # 0
  BY <1>1, <1>4, <1>5, <1>6, <1>8
<1> QED BY <1>7, <1>8, Zenon

INSTANCE FiniteSetTheorems

\* Min and Max are what their names say: intervals 0..n, or the elements above
\* one, are finite sets, on which inclusion is well-founded.
LEMMA LeastNatural ==
  ASSUME NEW S \in SUBSET Nat, S # {}
  PROVE  Min(S) \in S /\ \A n \in S : Min(S) <= n
<1> DEFINE T == {0..n : n \in S}
           R == StrictSubsetOrdering(Nat)
<1>1. T \subseteq FiniteSubsetsOf(Nat) /\ T # {}
  <2>1. \A n \in S : IsFiniteSet(0..n) /\ 0..n \in SUBSET Nat
    BY FS_Interval
  <2> QED BY <2>1, Zenon DEF FiniteSubsetsOf
<1>2. IsWellFoundedOn(R, FiniteSubsetsOf(Nat))
  BY FS_StrictSubsetOrderingWellFounded, Zenon
<1> HIDE DEF T, R
<1>3. PICK x \in T : \A y \in T : ~(<<y, x>> \in R)
  BY <1>1, <1>2, WFMin, Zenon
<1>4. PICK m \in S : x = 0..m
  BY Zenon DEF T
<1>5. ASSUME NEW n \in S, n < m
      PROVE  FALSE
  <2>1. 0..n \in T /\ ~(<<0..n, 0..m>> \in R)
    BY <1>3, <1>4, Zenon DEF T
  <2>2. 0..n \subseteq 0..m /\ 0..n # 0..m /\ 0..n \subseteq Nat /\ 0..m \subseteq Nat
    <3>1. m \in 0..m /\ ~(m \in 0..n)
      BY <1>5
    <3>2. 0..n \subseteq 0..m /\ 0..n \subseteq Nat /\ 0..m \subseteq Nat
      BY <1>5
    <3> QED BY <3>1, <3>2, Zenon
  <2>3. <<0..n, 0..m>> \in R
    BY <2>2, Zenon DEF R, StrictSubsetOrdering
  <2> QED BY <2>1, <2>3, Zenon
<1>6. \A n \in S : m <= n
  BY <1>5
<1> QED BY <1>6, Zenon DEF Min

\* The same for the greatest element of a finite set.
LEMMA GreatestNatural ==
  ASSUME NEW S \in SUBSET Nat, S # {}, IsFiniteSet(S)
  PROVE  Max(S) \in S
<1> DEFINE Above(x) == {y \in S : y > x}
           T == {Above(x) : x \in S}
           R == StrictSubsetOrdering(S)
<1>1. T \subseteq FiniteSubsetsOf(S) /\ T # {}
  <2>1. \A x \in S : IsFiniteSet(Above(x)) /\ Above(x) \in SUBSET S
    BY FS_Subset, Zenon
  <2> QED BY <2>1, Zenon DEF FiniteSubsetsOf
<1>2. IsWellFoundedOn(R, FiniteSubsetsOf(S))
  BY FS_StrictSubsetOrderingWellFounded, Zenon
<1>3. PICK x \in T : \A y \in T : ~(<<y, x>> \in R)
  <2> HIDE DEF T, R
  <2> QED BY <1>1, <1>2, WFMin, Zenon
<1>4. PICK m \in S : x = Above(m)
  BY Zenon
<1>5. ASSUME NEW n \in S, n > m
      PROVE  FALSE
  <2>1. Above(n) \in T /\ ~(<<Above(n), Above(m)>> \in R)
    <3> HIDE DEF R, Above
    <3> QED BY <1>3, <1>4, Zenon
  <2>2. Above(n) \subseteq Above(m) /\ Above(n) # Above(m) /\ Above(n) \subseteq S /\ Above(m) \subseteq S
    <3>1. n \in Above(m) /\ n \notin Above(n)
      BY <1>5
    <3>2. ASSUME NEW z \in Above(n) PROVE z \in Above(m)
      BY <1>5, <3>2
    <3> QED BY <3>1, <3>2, Zenon
  <2>3. <<Above(n), Above(m)>> \in R
    <3> HIDE DEF Above
    <3> QED BY <2>2, Zenon DEF StrictSubsetOrdering
  <2> QED BY <2>1, <2>3, Zenon
<1>6. \A n \in S : m >= n
  BY <1>5
<1> QED BY <1>6, Zenon DEF Max

\* A segment has finitely many pages.
LEMMA SegmentIsFinite ==
  ASSUME NEW s \in [va : Nat, offset : Nat, filesz : Nat, memsz : Nat]
  PROVE  IsFiniteSet(SegmentPages(s)) /\ SegmentPages(s) \in SUBSET Nat
<1>1. PICK first, count, max_vpn, need \in Nat : Intervals(s, first, count, max_vpn, need)
  BY SegmentIntervals, Zenon
<1>2. IsFiniteSet(first..(first + count - 1)) /\ IsFiniteSet((max_vpn + 1)..need)
  <2>1. first \in Int /\ first + count - 1 \in Int /\ max_vpn + 1 \in Int /\ need \in Int
    OBVIOUS
  <2> QED BY <2>1, FS_Interval, Zenon
<1>3. (first..(first + count - 1)) \cup ((max_vpn + 1)..need) \in SUBSET Nat
  OBVIOUS
<1>4. IsFiniteSet((first..(first + count - 1)) \cup ((max_vpn + 1)..need))
  BY <1>2, FS_Union, Zenon
<1>5. SegmentPages(s) = (first..(first + count - 1)) \cup ((max_vpn + 1)..need)
  BY <1>1, Zenon DEF Intervals
<1> QED BY <1>3, <1>4, <1>5, Zenon

\* The image of a program is finite, so that it has a last page.
LEMMA ImageIsFinite ==
  ASSUME NEW elf \in Programs
  PROVE  IsFiniteSet(ImagePages(elf)) /\ ImagePages(elf) \in SUBSET Nat
<1>1. elf \in Seq([va : Nat, offset : Nat, filesz : Nat, memsz : Nat])
  BY ConstantsAssumption, Zenon
<1>2. /\ DOMAIN elf = 1..Len(elf) /\ Len(elf) \in Nat
      /\ \A i \in 1..Len(elf) : elf[i] \in [va : Nat, offset : Nat, filesz : Nat, memsz : Nat]
  <2> DEFINE Segments == [va : Nat, offset : Nat, filesz : Nat, memsz : Nat]
  <2> HIDE DEF Segments
  <2>1. elf \in Seq(Segments)
    BY <1>1, Zenon DEF Segments
  <2>2. DOMAIN elf = 1..Len(elf) /\ Len(elf) \in Nat /\ \A i \in 1..Len(elf) : elf[i] \in Segments
    BY <2>1
  <2> QED BY <2>2, Zenon DEF Segments
<1>3. \A i \in 1..Len(elf) :
        IsFiniteSet(SegmentPages(elf[i])) /\ SegmentPages(elf[i]) \in SUBSET Nat
  BY <1>2, SegmentIsFinite, Zenon
<1> DEFINE D == 1..Len(elf)
           Z == {SegmentPages(elf[i]) : i \in D}
<1>4. IsFiniteSet(D)
  BY <1>2, FS_Interval
<1> HIDE DEF D
<1>5. IsFiniteSet(Z)
  <2>1. [i \in D |-> SegmentPages(elf[i])] \in Surjection(D, Z)
    BY Zenon DEF Surjection
  <2> HIDE DEF Z
  <2> QED BY <1>4, <2>1, FS_Surjection, Zenon
<1>6. ImagePages(elf) = UNION Z
  BY <1>2, Zenon DEF ImagePages, D
<1>7. \A X \in Z : IsFiniteSet(X) /\ X \in SUBSET Nat
  BY <1>3, Zenon DEF D
<1> HIDE DEF Z
<1> QED BY <1>5, <1>6, <1>7, FS_UNION, Zenon

\* What the constants' assumption says of one segment of a program.
LEMMA Segment ==
  ASSUME NEW elf \in Programs, NEW i \in DOMAIN elf
  PROVE  elf[i] \in [va : Nat, offset : Nat, filesz : Nat, memsz : Nat] /\ (elf[i].va >= PAGE_SIZE \/ elf[i].filesz > 0)
<1> DEFINE Segments == [va : Nat, offset : Nat, filesz : Nat, memsz : Nat]
<1>1. elf \in Seq(Segments) /\ \A j \in 1..Len(elf) : elf[j].va >= PAGE_SIZE \/ elf[j].filesz > 0
  BY ConstantsAssumption, Zenon
<1> HIDE DEF Segments
<1>2. i \in 1..Len(elf) /\ elf[i] \in Segments
  BY <1>1
<1> QED BY <1>1, <1>2, Zenon DEF Segments

\* execve begins an address space that meets the invariant, whatever was there.
LEMMA ExecInv ==
  ASSUME NEW elf \in Programs, ~Clash(elf), Execve(elf)
  PROVE  MemInv'
<1> DEFINE pages == ImagePages(elf)
<1>0. StackPage \in Nat /\ StackPage - 1 \in Nat /\ PAGE_SIZE \in Nat /\ PAGE_SIZE > 1
  BY ConstantsAssumption
<1>1. pages \in SUBSET Nat /\ IsFiniteSet(pages \cup {0})
  <2>1. IsFiniteSet(pages) /\ pages \in SUBSET Nat
    BY ImageIsFinite, Zenon
  <2> HIDE DEF pages
  <2> QED BY <2>1, FS_AddElement, Zenon
<1>2. Max(pages \cup {0}) \in Nat
  <2>1. pages \cup {0} \in SUBSET Nat /\ pages \cup {0} # {}
    BY <1>1
  <2> HIDE DEF pages
  <2>2. Max(pages \cup {0}) \in pages \cup {0}
    BY <1>1, <2>1, GreatestNatural, Zenon
  <2> QED BY <2>1, <2>2, Zenon
<1>3. /\ maps' = [v \in pages \cup {StackPage - 1} |-> IF v \in pages THEN "prog" ELSE "stack"]
      /\ prog_end' = (Max(pages \cup {0}) + 1) * PAGE_SIZE
      /\ brk' = prog_end' /\ stack_top' = (StackPage - 1) * PAGE_SIZE
      /\ loaded' = elf /\ holes' = {}
  BY Zenon DEF Execve
<1>4. PICK k \in Nat : k = Max(pages \cup {0}) + 1 /\ k > 0
  BY <1>2
<1>5. /\ prog_end' = k * PAGE_SIZE /\ prog_end' \in Nat /\ prog_end' > 0 /\ brk' \in Nat
      /\ stack_top' \in Nat
  <2>1. k * PAGE_SIZE \in Nat /\ k * PAGE_SIZE > 0
    BY <1>0, <1>4
  <2>2. (StackPage - 1) * PAGE_SIZE \in Nat
    BY <1>0
  <2> QED BY <1>3, <1>4, <2>1, <2>2, Zenon
<1> HIDE DEF pages
<1>6. /\ Mapped' = pages \cup {StackPage - 1}
      /\ \A v \in Mapped' : maps'[v] # "heap" /\ (maps'[v] = "stack" => v = StackPage - 1)
  BY <1>3, Zenon DEF Mapped
<1>7. Mapped' \subseteq Nat /\ holes' \subseteq Nat
  BY <1>0, <1>1, <1>3, <1>6, Zenon
<1>8. RegionsInBounds'
  <2>1. prog_end' <= brk' /\ (StackPage - 1) * PAGE_SIZE >= stack_top'
    BY <1>3, <1>5
  <2> QED BY <1>6, <2>1, Zenon DEF RegionsInBounds
<1>9. ASSUME NEW i \in DOMAIN elf
      PROVE  Backed(elf[i].va, elf[i].va + elf[i].memsz)'
  <2>1. elf[i] \in [va : Nat, offset : Nat, filesz : Nat, memsz : Nat] /\ (elf[i].va >= PAGE_SIZE \/ elf[i].filesz > 0)
    BY Segment, Zenon
  <2>2. SegmentPages(elf[i]) \subseteq pages
    BY Zenon DEF pages, ImagePages
  <2>3. PICK a, b : a = elf[i].va /\ b = elf[i].va + elf[i].memsz
    BY Zenon
  <2>4. Backed(a, b)'
    <3> SUFFICES ASSUME NEW x \in a..(b - 1) PROVE Page(x) \in Mapped'
      BY Zenon DEF Backed
    <3>1. x \in elf[i].va..(elf[i].va + elf[i].memsz - 1)
      BY <2>1, <2>3
    <3>2. Page(x) \in SegmentPages(elf[i])
      BY <2>1, <3>1, SegmentCovered, Zenon
    <3> QED BY <1>6, <2>2, <3>2, Zenon
  <2> QED BY <2>3, <2>4, Zenon
<1>10. Backed(prog_end, brk)'
  <2>1. prog_end'..(brk' - 1) = {}
    BY <1>3, <1>5
  <2> QED BY <2>1, Zenon DEF Backed
<1>11. Backed(stack_top, StackPage * PAGE_SIZE)'
  <2> SUFFICES ASSUME NEW va \in stack_top'..(StackPage * PAGE_SIZE - 1) PROVE Page(va) \in Mapped'
    BY Zenon DEF Backed
  <2>1. PICK p \in Nat : p = StackPage - 1
    BY <1>0
  <2>2. /\ p * PAGE_SIZE = stack_top' /\ StackPage * PAGE_SIZE = p * PAGE_SIZE + PAGE_SIZE
        /\ p * PAGE_SIZE \in Nat
    BY <1>0, <1>3, <2>1
  <2>3. va \in Nat /\ p * PAGE_SIZE <= va /\ va < p * PAGE_SIZE + PAGE_SIZE
    BY <1>0, <2>2
  <2>4. va \div PAGE_SIZE \in Nat /\ p <= va \div PAGE_SIZE /\ va \div PAGE_SIZE <= p
    BY <2>3, Quotient, PageOf
  <2>5. Page(va) = p
    BY <2>4 DEF Page
  <2> QED BY <1>6, <2>1, <2>5, Zenon
<1>12. UsableMemoryIsMapped'
  BY <1>3, <1>9, <1>10, <1>11, Zenon DEF UsableMemoryIsMapped
<1>13. Multiple(prog_end)' /\ Multiple(stack_top)'
  BY <1>0, <1>3, <1>5, Zenon DEF Multiple
<1> QED BY <1>3, <1>5, <1>7, <1>8, <1>12, <1>13, Zenon DEF MemInv

-----------------------------------------------------------------------------
\* Every operation keeps the invariant.
LEMMA StepInv == MemInv /\ [Next]_vars => MemInv'
<1> SUFFICES ASSUME MemInv, [Next]_vars PROVE MemInv'
  BY Zenon
<1>1. ASSUME NEW elf \in Programs, Execve(elf) PROVE MemInv'
  <2>1. CASE Clash(elf)
    BY <1>1, <2>1, PanicInv, Zenon DEF Execve
  <2> QED BY <1>1, <2>1, ExecInv, Zenon
<1>2. CASE Fork
  <2>1. UNCHANGED <<maps, prog_end, brk, stack_top, loaded, holes>>
    BY <1>2, Zenon DEF Fork
  <2> QED BY <2>1, Zenon DEF MemInv, Multiple, Mapped, RegionsInBounds, UsableMemoryIsMapped, Backed
<1>3. ASSUME NEW a \in Address, set_brk(a) PROVE MemInv'
  <2>1. CASE UNCHANGED memVars
    BY <2>1, SameInv, Zenon DEF memVars
  <2>2. ASSUME NEW why, Panic(why) PROVE MemInv'
    BY <2>2, PanicInv, Zenon
  <2>3. CASE /\ ~(a < brk) /\ a # brk
             /\ maps' = With(GrowthPages(a), "heap") /\ holes' = holes \ GrowthPages(a)
             /\ brk' = a /\ UNCHANGED <<prog_end, min_brk, stack_top, loaded, halted>>
    <3>1. a \in Nat /\ brk \in Nat
      <4>1. StackPage * PAGE_SIZE \in Nat
        BY ConstantsAssumption
      <4>2. brk \in Nat
        BY Zenon DEF MemInv
      <4> QED BY <4>1, <4>2 DEF Address
    <3>2. brk < a
      BY <2>3, <3>1
    <3>3. loaded # <<>>
      BY <1>3, Zenon DEF set_brk, Running
    <3> QED BY <2>3, <3>1, <3>2, <3>3, GrowInv, Zenon
  <2> QED BY <1>3, <2>1, <2>2, <2>3, Zenon DEF set_brk
<1>4. ASSUME NEW a, NEW n, NEW fixed, NEW b, mmap(a, n, fixed, b) PROVE MemInv'
  <2>1. ASSUME NEW why, Panic(why) PROVE MemInv'
    BY <2>1, PanicInv, Zenon
  <2>2. CASE UNCHANGED memVars
    BY <2>2, SameInv, Zenon DEF memVars
  <2>3. ASSUME NEW range, range \subseteq Vpn, Populate(range, a, b) PROVE MemInv'
    <3>1. range \in SUBSET Nat
      BY <2>3, ConstantsAssumption DEF Vpn
    <3> QED BY <2>1, <2>3, <3>1, RemapInv, Zenon DEF Populate
  <2> QED BY <1>4, <2>1, <2>2, <2>3, Zenon DEF mmap
<1>5. ASSUME NEW a, NEW n, munmap(a, n) PROVE MemInv'
  <2>1. ASSUME NEW why, Panic(why) PROVE MemInv'
    BY <2>1, PanicInv, Zenon
  <2>2. Unmapped(a, n) \subseteq Vpn
    BY <1>5, Zenon DEF munmap
  <2>3. Unmapped(a, n) \in SUBSET Nat
    BY <2>2, ConstantsAssumption DEF Vpn
  <2> QED BY <1>5, <2>1, <2>3, RemapInv, Zenon DEF munmap
<1>6. ASSUME NEW a \in Address, Page(a) \in Vpn, StackFault(a) PROVE MemInv'
  <2>1. ASSUME NEW why, Panic(why) PROVE MemInv'
    BY <2>1, PanicInv, Zenon
  <2>2. Page(a) \in Nat /\ loaded # <<>>
    BY <1>6 DEF Vpn, StackFault, Running
  <2>3. CASE Page(a) = Page(Before(stack_top)) /\ Page(a) \notin Mapped
    <3>1. /\ maps' = With({Page(a)}, "stack") /\ stack_top' = Page(a) * PAGE_SIZE
          /\ holes' = holes \ {Page(a)} /\ UNCHANGED <<prog_end, min_brk, brk, loaded>>
      BY <1>6, <2>3, Zenon DEF StackFault
    <3> HIDE DEF Page
    <3> QED BY <2>2, <2>3, <3>1, StackInv, Zenon
  <2> QED BY <1>6, <2>1, <2>3, Zenon DEF StackFault
<1>7. CASE UNCHANGED vars
  BY <1>7, SameInv, Zenon DEF vars, memVars
<1> QED
  BY <1>1, <1>2, <1>3, <1>4, <1>5, <1>6, <1>7, Zenon DEF Next, Exec, Brk, Mmap, Munmap, Fault
-----------------------------------------------------------------------------
(* The search of mmap *)

\* The page real_brk lies in, from which set_brk and mmap go.
LEMMA RealBrk ==
  ASSUME MemInv
  PROVE  \E lo \in Nat : /\ lo = round_up(Before(brk)) \div PAGE_SIZE
                         /\ lo <= round_up(brk) \div PAGE_SIZE
<1>1. brk \in Nat
  BY Zenon DEF MemInv
<1>2. PICK b \in Nat : b = Before(brk) /\ b <= brk
  BY <1>1 DEF Before
<1>3. PICK lo \in Nat : /\ round_up(b) \div PAGE_SIZE = lo
                        /\ b <= lo * PAGE_SIZE /\ lo * PAGE_SIZE < b + PAGE_SIZE
  BY RoundedUp
<1>4. PICK hi \in Nat : /\ round_up(brk) \div PAGE_SIZE = hi
                        /\ brk <= hi * PAGE_SIZE /\ hi * PAGE_SIZE < brk + PAGE_SIZE
  BY <1>1, RoundedUp
<1>5. hi < lo => hi * PAGE_SIZE + PAGE_SIZE <= lo * PAGE_SIZE
  BY Scaled
<1>6. lo <= hi
  BY <1>1, <1>2, <1>3, <1>4, <1>5, Product, PageSize
<1> QED BY <1>2, <1>3, <1>4, <1>6, Zenon

\* A page the search starts from is below mmap_base.
LEMMA CandidateIs ==
  ASSUME MemInv, NEW c \in Candidates
  PROVE  c \in Nat /\ c < MmapPage
<1>0. MmapPage \in Nat
  BY ConstantsAssumption
<1>1. PICK lo \in Nat : lo = round_up(Before(brk)) \div PAGE_SIZE
  BY RealBrk, Zenon
<1>2. PICK w \in Mapped : c = w - 1 /\ w < MmapPage /\ w > lo
  BY <1>1, Zenon DEF Candidates
<1>3. w \in Nat
  BY Zenon DEF MemInv
<1> QED BY <1>0, <1>2, <1>3

\* The range below a start that passed check_collapse without underflow.
LEMMA FreeBelow ==
  ASSUME MemInv, NEW start \in Int, start < MmapPage, NEW n \in Nat, n > 0,
         ~Underflow(start, n), ~check_collapse(start, n),
         NEW first, first = start - n + 1
  PROVE  /\ first \in Nat
         /\ first..(first + n - 1) \cap Mapped = {}
         /\ first + n <= MmapPage
<1>0. MmapPage \in Int
  BY ConstantsAssumption
<1>1. first \in Nat /\ first + n <= MmapPage /\ first + n - 1 = start
  BY <1>0 DEF Underflow
<1>2. first..(first + n - 1) \cap Mapped = {}
  BY <1>1, Zenon DEF check_collapse
<1> QED BY <1>1, <1>2, Zenon

\* Where the search succeeds, the range is free and below mmap_base.
LEMMA Found ==
  ASSUME MemInv, NEW n \in Nat, n > 0, first_page(n) # NoPage, SearchEnds(n)
  PROVE  /\ first_page(n) \in Nat
         /\ first_page(n)..(first_page(n) + n - 1) \cap Mapped = {}
         /\ first_page(n) + n <= MmapPage
<1>0. MmapPage \in Nat /\ MmapPage > 0
  BY ConstantsAssumption
<1>1. CASE TopFits(n)
  <2>1. PICK start \in Nat : start = MmapPage - 1 /\ start < MmapPage
    BY <1>0
  <2>2. start \in Tested(n) /\ ~check_collapse(start, n)
    BY <1>1, <2>1, Zenon DEF TopFits, Tested
  <2>3. ~Underflow(start, n)
    BY <2>2, Zenon DEF SearchEnds
  <2>4. first_page(n) = MmapPage - n
    BY <1>1, Zenon DEF first_page
  <2>5. first_page(n) = start - n + 1
    BY <1>0, <2>1, <2>4
  <2> QED BY <2>1, <2>2, <2>3, <2>5, FreeBelow
<1>2. CASE ~TopFits(n)
  <2>1. Fitting(n) # {} /\ first_page(n) = Min(Fitting(n)) - n + 1
    BY <1>2, Zenon DEF first_page
  <2>2. \A c \in Fitting(n) : c \in Candidates /\ ~check_collapse(c, n)
    BY Zenon DEF Fitting
  <2>3. Fitting(n) \in SUBSET Nat
    BY <2>2, CandidateIs, Zenon
  <2>4. PICK c \in Fitting(n) : c = Min(Fitting(n)) /\ \A f \in Fitting(n) : c <= f
    BY <2>1, <2>3, LeastNatural, Zenon
  <2>5. c \in Nat /\ c < MmapPage /\ ~check_collapse(c, n) /\ c \in Tested(n)
    BY <1>2, <2>2, <2>4, CandidateIs, Zenon DEF Tested
  <2>6. ~Underflow(c, n)
    BY <2>5, Zenon DEF SearchEnds
  <2>7. first_page(n) = c - n + 1
    BY <2>1, <2>4, Zenon
  <2> QED BY <2>5, <2>6, <2>7, FreeBelow
<1> QED BY <1>1, <1>2, Zenon

\* A page of the heap that is not mapped is one the program had unmapped.
LEMMA HeapPage ==
  ASSUME MemInv, NEW v \in Nat, v * PAGE_SIZE \in prog_end..(brk - 1), v \notin Mapped
  PROVE  v \in holes
<1>0. prog_end \in Nat /\ brk \in Nat
  BY Zenon DEF MemInv
<1>1. loaded # <<>>
  <2>1. brk # prog_end
    BY <1>0
  <2> QED BY <2>1, Zenon DEF MemInv
<1>2. PICK x \in Nat : x = v * PAGE_SIZE
  BY PageSize
<1>3. Page(x) \in Mapped \cup holes
  BY <1>1, <1>2, Zenon DEF MemInv, UsableMemoryIsMapped, Backed
<1>4. Page(x) = v
  <2>1. x \div PAGE_SIZE \in Nat /\ v <= x \div PAGE_SIZE /\ x \div PAGE_SIZE <= v
    BY <1>2, Quotient, PageOf, PageSize
  <2> QED BY <2>1 DEF Page
<1> QED BY <1>3, <1>4, Zenon

\* The invariant makes the search safe ...
LEMMA TakesFree == MemInv => MmapTakesFreePages
<1> SUFFICES ASSUME MemInv, NEW n \in 1..StackPage, first_page(n) # NoPage, SearchEnds(n)
             PROVE  /\ (first_page(n)..(first_page(n) + n - 1)) \cap Mapped = {}
                    /\ first_page(n) + n <= MmapPage
                    /\ \A v \in first_page(n)..(first_page(n) + n - 1) :
                         v * PAGE_SIZE \in prog_end..(brk - 1) => v \in holes
  BY Zenon DEF MmapTakesFreePages
<1>1. n \in Nat /\ n > 0
  BY ConstantsAssumption
<1>2. PICK first \in Nat : /\ first = first_page(n)
                           /\ (first..(first + n - 1)) \cap Mapped = {}
                           /\ first + n <= MmapPage
  BY <1>1, Found, Zenon
<1>3. ASSUME NEW v \in first..(first + n - 1), v * PAGE_SIZE \in prog_end..(brk - 1)
      PROVE  v \in holes
  <2>1. v \in Nat
    BY <1>1
  <2>2. v \notin Mapped
    BY <1>2, Zenon
  <2> QED BY <1>3, <2>1, <2>2, HeapPage, Zenon
<1> QED BY <1>2, <1>3, Zenon

\* ... and complete: a gap it missed would be found from the page above it.
LEMMA FindsRoom == MemInv => MmapFindsRoom
<1> SUFFICES ASSUME MemInv, NEW n \in 1..StackPage, first_page(n) = NoPage, SearchEnds(n),
                    NEW a \in (round_up(brk) \div PAGE_SIZE)..(MmapPage - n),
                    (a..(a + n - 1)) \cap Mapped = {}
             PROVE  FALSE
  BY Zenon DEF MmapFindsRoom
<1>0. n \in Nat /\ n > 0 /\ MmapPage \in Nat /\ MmapPage > 0
  BY ConstantsAssumption
<1>1. PICK lo \in Nat : /\ lo = round_up(Before(brk)) \div PAGE_SIZE
                        /\ lo <= round_up(brk) \div PAGE_SIZE
  BY RealBrk, Zenon
<1>2. a \in Nat /\ lo <= a /\ a + n <= MmapPage
  <2>1. PICK hi \in Nat : hi = round_up(brk) \div PAGE_SIZE
    <3>1. brk \in Nat
      BY Zenon DEF MemInv
    <3> QED BY <3>1, RoundedUp
  <2> QED BY <1>0, <1>1, <2>1
\* The search found nothing that it could not use.
<1>3. ~TopFits(n) /\ Fitting(n) = {}
  <2>1. CASE TopFits(n)
    <3>1. MmapPage - 1 \in Tested(n)
      BY <2>1, Zenon DEF TopFits, Tested
    <3>2. ~Underflow(MmapPage - 1, n) /\ first_page(n) = MmapPage - n
      BY <2>1, <3>1, Zenon DEF SearchEnds, first_page
    <3> QED BY <1>0, <3>2 DEF Underflow, NoPage
  <2>2. CASE ~TopFits(n) /\ Fitting(n) # {}
    <3>1. first_page(n) = Min(Fitting(n)) - n + 1
      BY <2>2, Zenon DEF first_page
    <3>2. Fitting(n) \in SUBSET Nat
      BY CandidateIs, Zenon DEF Fitting
    <3>3. PICK c \in Fitting(n) : c = Min(Fitting(n)) /\ \A f \in Fitting(n) : c <= f
      BY <2>2, <3>2, LeastNatural, Zenon
    <3>4. c \in Nat /\ c \in Tested(n)
      BY <2>2, <3>2, <3>3, Zenon DEF Tested, Fitting
    <3>5. ~Underflow(c, n) /\ first_page(n) = c - n + 1
      BY <3>1, <3>3, <3>4, Zenon DEF SearchEnds
    <3> QED BY <1>0, <3>4, <3>5 DEF Underflow, NoPage
  <2> QED BY <2>1, <2>2, Zenon
<1> DEFINE Above == {w \in Mapped : a + n <= w /\ w < MmapPage}
<1>4. CASE Above = {}
  \* Nothing between the gap and mmap_base: the topmost range is free.
  <2>1. \A v \in (MmapPage - 1 - n + 1)..(MmapPage - 1) : v \notin Mapped
    <3> SUFFICES ASSUME NEW v \in (MmapPage - 1 - n + 1)..(MmapPage - 1), v \in Mapped PROVE FALSE
      BY Zenon
    <3>1. v \in Int /\ a <= v /\ v < MmapPage
      BY <1>0, <1>2
    <3>2. CASE v <= a + n - 1
      <4>1. v \in a..(a + n - 1)
        BY <1>0, <1>2, <3>1, <3>2
      <4> QED BY <4>1, Zenon
    <3>3. CASE a + n <= v
      BY <1>4, <3>1, <3>3, Zenon
    <3> QED BY <1>0, <1>2, <3>1, <3>2, <3>3
  <2>2. MmapPage - 1 \in (MmapPage - 1 - n + 1)..(MmapPage - 1)
    BY <1>0
  <2> QED BY <1>3, <2>1, <2>2, Zenon DEF TopFits, check_collapse
<1>5. CASE Above # {}
  \* The lowest mapped page above the gap: the search starts below it.
  <2>1. Above \in SUBSET Nat
    BY Zenon DEF MemInv
  <2> HIDE DEF Above
  <2>2. PICK w \in Above : \A x \in Above : w <= x
    BY <1>5, <2>1, LeastNatural, Zenon
  <2>3. w \in Mapped /\ w \in Nat /\ a + n <= w /\ w < MmapPage
    BY <2>1, <2>2, Zenon DEF Above
  <2>4. \A v \in (w - n)..(w - 1) : v \notin Mapped
    <3> SUFFICES ASSUME NEW v \in (w - n)..(w - 1), v \in Mapped PROVE FALSE
      BY Zenon
    <3>1. v \in Int /\ a <= v /\ v < w /\ v < MmapPage
      BY <1>0, <1>2, <2>3
    <3>2. CASE v <= a + n - 1
      <4>1. v \in a..(a + n - 1)
        BY <1>0, <1>2, <3>1, <3>2
      <4> QED BY <4>1, Zenon
    <3>3. CASE a + n <= v
      <4>1. v \in Above
        BY <3>1, <3>3, Zenon DEF Above
      <4>2. w <= v
        BY <2>2, <4>1, Zenon
      <4> QED BY <2>3, <3>1, <4>2
    <3> QED BY <1>0, <1>2, <3>1, <3>2, <3>3
  <2>5. w - 1 \in (w - n)..(w - 1) /\ w > lo /\ (w - 1) - n + 1 = w - n
    BY <1>0, <1>2, <2>3
  <2>6. w - 1 \in Candidates
    BY <1>1, <2>3, <2>4, <2>5, Zenon DEF Candidates
  <2>7. ~check_collapse(w - 1, n)
    BY <2>4, <2>5, Zenon DEF check_collapse
  <2> QED BY <1>3, <2>6, <2>7, Zenon DEF Fitting
<1> QED BY <1>4, <1>5, Zenon

\* The addresses given to the system calls are natural numbers.
LEMMA AddressIsNatural == \A a \in Address \cup {0, 1} : a \in Nat
<1>1. StackPage * PAGE_SIZE \in Nat
  BY ConstantsAssumption
<1> QED BY <1>1 DEF Address

\* A length that is not 0 asks mmap for at least one page.
LEMMA PageCount ==
  ASSUME NEW a \in Nat, NEW n \in Lengths
  PROVE  /\ (round_up(n) + Offset(a)) \div PAGE_SIZE \in Nat
         /\ (round_up(n) + Offset(a)) \div PAGE_SIZE > 0
<1>1. n \in Nat /\ n > 0
  <2>1. n \in Nat \ {0}
    BY ConstantsAssumption, Zenon
  <2> QED BY <2>1
<1>2. PICK u \in Nat : round_up(n) = u * PAGE_SIZE /\ n <= u * PAGE_SIZE
  BY <1>1, RoundedUp
<1>3. u > 0
  BY <1>1, <1>2, PageSize
<1>4. PICK off \in Nat : off = Offset(a)
  BY OffsetIs
<1>5. PICK y \in Nat : y = round_up(n) + off /\ u * PAGE_SIZE <= y
  <2>1. u * PAGE_SIZE \in Nat
    BY PageSize
  <2> QED BY <1>2, <2>1
<1>6. y \div PAGE_SIZE \in Nat /\ u <= y \div PAGE_SIZE
  BY <1>5, Quotient, PageOf
<1>7. y \div PAGE_SIZE > 0
  BY <1>3, <1>6
<1> QED BY <1>4, <1>5, <1>6, <1>7, Zenon

\* Of the ways the kernel stops, the assertion in set_pte under an mmap
\* without an address is not one.
LEMMA NoRemap ==
  ASSUME MemInv, Next, halted # "mmap remaps"
  PROVE  halted' # "mmap remaps"
<1>1. ASSUME NEW why, Panic(why), why # "mmap remaps" PROVE halted' # "mmap remaps"
  BY <1>1, Zenon DEF Panic
<1>2. ASSUME UNCHANGED halted PROVE halted' # "mmap remaps"
  BY <1>2, Zenon
<1>3. ASSUME NEW elf, Execve(elf) PROVE halted' # "mmap remaps"
  BY <1>1, <1>2, <1>3 DEF Execve
<1>4. CASE Fork
  BY <1>2, <1>4, Zenon DEF Fork
<1>5. ASSUME NEW a, set_brk(a) PROVE halted' # "mmap remaps"
  <2>1. /\ (IF \E v \in GrowthPages(a) \cap Mapped : maps[v] = "heap"
            THEN "brk remaps heap" ELSE "brk remaps") # "mmap remaps"
        /\ "brk shrinks" # "mmap remaps"
    OBVIOUS
  <2>2. UNCHANGED memVars => UNCHANGED halted
    BY Zenon DEF memVars
  <2> QED BY <1>1, <1>2, <1>5, <2>1, <2>2, Zenon DEF set_brk
<1>6. ASSUME NEW range, NEW a, NEW b, Populate(range, a, b) PROVE halted' # "mmap remaps"
  BY <1>1, <1>2, <1>6 DEF Populate
<1>7. ASSUME NEW a \in Nat, NEW n \in Lengths, NEW fixed, NEW b, mmap(a, n, fixed, b)
      PROVE  halted' # "mmap remaps"
  <2> DEFINE pages == (round_up(n) + Offset(a)) \div PAGE_SIZE
             first == IF fixed THEN Page(a) ELSE first_page(pages)
             range == first..(first + pages - 1)
  <2>1. pages \in Nat /\ pages > 0
    BY PageCount, Zenon
  <2>2. "mmap underflow" # "mmap remaps"
    OBVIOUS
  <2>3. UNCHANGED memVars => UNCHANGED halted
    BY Zenon DEF memVars
  <2> HIDE DEF pages
  <2>4. ~fixed /\ SearchEnds(pages) /\ first # NoPage => range \cap Mapped = {}
    BY <2>1, Found, Zenon
  <2>5. \/ Panic("mmap underflow") \/ UNCHANGED memVars
        \/ ~fixed /\ SearchEnds(pages) /\ first # NoPage /\ range \cap Mapped # {}
        \/ Populate(range, a, b)
    <3> HIDE DEF first, range
    <3> QED BY <1>7, Zenon DEF mmap, pages, first, range, SearchEnds
  <2> HIDE DEF first, range
  <2> QED BY <1>1, <1>2, <1>6, <2>2, <2>3, <2>4, <2>5, Zenon
<1>8. ASSUME NEW a, NEW n, munmap(a, n) PROVE halted' # "mmap remaps"
  BY <1>1, <1>2, <1>8 DEF munmap
<1>9. ASSUME NEW a, StackFault(a) PROVE halted' # "mmap remaps"
  BY <1>1, <1>2, <1>9 DEF StackFault
<1>10. \A a \in Address \cup {0, 1} : a \in Nat
  BY AddressIsNatural, Zenon
<1> QED BY <1>3, <1>4, <1>5, <1>7, <1>8, <1>9, <1>10, Zenon
           DEF Next, Exec, Brk, Mmap, Munmap, Fault

-----------------------------------------------------------------------------
(* Theorems *)

\* MemInv holds throughout.
LEMMA Invariant == Spec => []MemInv
  BY InitInv, StepInv, PTL DEF Spec

\* The bytes of the Load segments, of the heap up to brk and of the stack down
\* to stack_top have their pages, whatever sequence of execve, fork, brk, mmap,
\* munmap and stack faults a program makes: load_elf rounds a segment out to
\* its pages, and set_brk, which goes on from the page after brk - 1, leaves no
\* page of the heap out.
THEOREM UsableMemory == Spec => []UsableMemoryIsMapped
<1>1. MemInv => UsableMemoryIsMapped
  BY Zenon DEF MemInv
<1> QED BY <1>1, Invariant, PTL

\* set_brk maps no page beyond the one brk lies in and increase_user_stack
\* none below stack_top, and brk stays at or above the end of the program,
\* although a forked child has lost min_brk.
THEOREM Bounds == Spec => []RegionsInBounds
<1>1. MemInv => RegionsInBounds
  BY Zenon DEF MemInv
<1> QED BY <1>1, Invariant, PTL

\* What the search of mmap returns for any number of pages is free, below
\* mmap_base and outside of the heap.
THEOREM SearchIsSafe == Spec => []MmapTakesFreePages
  BY TakesFree, Invariant, PTL

\* mmap answers ENOMEM only where there is no gap of that size.
THEOREM SearchIsComplete == Spec => []MmapFindsRoom
  BY FindsRoom, Invariant, PTL

\* The assertion of PageTable::set_pte cannot fail in an mmap without an
\* address: the kernel does not stop there.
THEOREM MmapNeverRemaps == Spec => [](halted # "mmap remaps")
<1>1. Init => halted # "mmap remaps"
  BY DEF Init
<1>2. halted # "mmap remaps" /\ MemInv /\ [Next]_vars => (halted # "mmap remaps")'
  <2>1. UNCHANGED vars => halted' = halted
    BY Zenon DEF vars, memVars
  <2> QED BY <2>1, NoRemap, Zenon
<1> QED BY <1>1, <1>2, Invariant, PTL DEF Spec
=============================================================================
