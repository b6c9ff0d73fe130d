----------------------------- MODULE PipeProofs -----------------------------
(***************************************************************************)
(* Proofs about Pipe for any number of processes, any PIPE_SIZE, any       *)
(* lengths of reads and writes, with and without kernel preemption.        *)
(***************************************************************************)
EXTENDS Pipe, FiniteSetTheorems, SequenceTheorems, TLAPS

-----------------------------------------------------------------------------
(* Minimum, maximum and remainder *)

\* Every set of naturals that is not empty has a least element: the intervals
\* up to its elements are well founded under inclusion.
LEMMA LeastNatural ==
  ASSUME NEW S \in SUBSET Nat, S # {}
  PROVE  \E m \in S : \A n \in S : m <= n
<1> DEFINE T == {0..n : n \in S}
           R == StrictSubsetOrdering(Nat)
<1>1. T \subseteq FiniteSubsetsOf(Nat) /\ T # {}
  <2>1. \A n \in S : IsFiniteSet(0..n) /\ 0..n \in SUBSET Nat
    BY FS_Interval
  <2> QED BY <2>1, Zenon DEF FiniteSubsetsOf
<1>2. IsWellFoundedOn(R, FiniteSubsetsOf(Nat))
  BY FS_StrictSubsetOrderingWellFounded
<1> HIDE DEF T, R
<1>3. PICK x \in T : \A y \in T : ~(<<y, x>> \in R)
  BY <1>1, <1>2, WFMin
<1>4. PICK m \in S : x = 0..m
  BY DEF T
<1>5. ASSUME NEW n \in S, n < m
      PROVE  FALSE
  <2>1. 0..n \in T /\ ~(<<0..n, 0..m>> \in R)
    BY <1>3, <1>4 DEF T
  <2>2. 0..n \subseteq 0..m /\ 0..n # 0..m /\ 0..n \subseteq Nat /\ 0..m \subseteq Nat
    <3>1. m \in 0..m /\ ~(m \in 0..n)
      BY <1>5
    <3>2. 0..n \subseteq 0..m /\ 0..n \subseteq Nat /\ 0..m \subseteq Nat
      BY <1>5
    <3> QED BY <3>1, <3>2
  <2>3. <<0..n, 0..m>> \in R
    BY <2>2 DEF R, StrictSubsetOrdering
  <2> QED BY <2>1, <2>3
<1> QED BY <1>5

LEMMA MinIs ==
  ASSUME NEW S \in SUBSET Int, NEW m \in S, \A x \in S : m <= x
  PROVE  Min(S) = m
<1>1. \A x \in S : (\A y \in S : x <= y) => x = m
  OBVIOUS
<1>2. Min(S) \in S /\ \A y \in S : Min(S) <= y
  BY DEF Min
<1> QED BY <1>1, <1>2

LEMMA MaxIs ==
  ASSUME NEW S \in SUBSET Int, NEW m \in S, \A x \in S : x <= m
  PROVE  Max(S) = m
<1>1. \A x \in S : (\A y \in S : x >= y) => x = m
  OBVIOUS
<1>2. Max(S) \in S /\ \A y \in S : Max(S) >= y
  BY DEF Max
<1> QED BY <1>1, <1>2

\* Two positions of the stream that share a slot are at least the ring's size
\* apart.
LEMMA SameSlot ==
  ASSUME NEW j \in Nat, NEW k \in Nat, j < k, j % PIPE_SIZE = k % PIPE_SIZE
  PROVE  j + PIPE_SIZE <= k
<1> DEFINE a == j \div PIPE_SIZE
           b == k \div PIPE_SIZE
<1>1. /\ a \in Int /\ b \in Int
      /\ j = PIPE_SIZE * a + (j % PIPE_SIZE) /\ k = PIPE_SIZE * b + (k % PIPE_SIZE)
      /\ j % PIPE_SIZE \in Int
  BY ConstantsAssumption
<1> HIDE DEF a, b
<1>2. k - j = PIPE_SIZE * (b - a) /\ b - a \in Int
  BY <1>1, ConstantsAssumption
<1>3. b - a >= 1
  BY <1>2, ConstantsAssumption
<1>4. PIPE_SIZE * (b - a) >= PIPE_SIZE
  BY <1>2, <1>3, ConstantsAssumption
<1> QED BY <1>2, <1>4, ConstantsAssumption

LEMMA SlotOf ==
  ASSUME NEW k \in Nat
  PROVE  k % PIPE_SIZE \in Slots
BY ConstantsAssumption DEF Slots

LEMMA GreatestBelow ==
  ASSUME NEW S \in SUBSET Nat, S # {}, NEW N \in Nat, \A x \in S : x <= N
  PROVE  Max(S) \in S
<1> DEFINE T == {N - x : x \in S}
<1>1. T \in SUBSET Nat /\ T # {}
  <2>1. \A x \in S : N - x \in Nat
    OBVIOUS
  <2> QED BY <2>1
<1>2. PICK m \in T : \A n \in T : m <= n
  BY <1>1, LeastNatural
<1>3. PICK x \in S : m = N - x
  BY <1>2
<1>4. \A y \in S : y <= x
  <2> SUFFICES ASSUME NEW y \in S PROVE y <= x
    OBVIOUS
  <2>1. N - y \in T
    OBVIOUS
  <2>2. N - x <= N - y
    BY <2>1, <1>2, <1>3
  <2> QED BY <2>2
<1> QED BY <1>4, MaxIs

-----------------------------------------------------------------------------
(* What one turn of PipeBuffer::write and PipeBuffer::read does *)

LEMMA StoredBound ==
  ASSUME n_write \in Nat, n_read \in Nat, NEW n \in Nat
  PROVE  Stored(n) \in 0..n
<1> DEFINE S == {n} \cup {k \in 0..(n - 1) : Full(n_write + k, n_read)}
<1>1. S \in SUBSET Nat /\ S # {} /\ S \subseteq 0..n
  OBVIOUS
<1>2. Stored(n) = Min(S)
  BY DEF Stored
<1> HIDE DEF S
<1>3. PICK m \in S : \A x \in S : m <= x
  BY <1>1, LeastNatural
<1>4. Min(S) = m
  BY <1>1, <1>3, MinIs
<1> QED BY <1>1, <1>2, <1>4

LEMMA TakenBound ==
  ASSUME n_write \in Nat, n_read \in Nat, n_read <= n_write, NEW n \in Nat
  PROVE  Taken(n) \in 0..(n_write - n_read) /\ Taken(n) <= n
<1>1. CASE n <= n_write - n_read
  <2>1. Taken(n) = n
    BY <1>1, MinIs DEF Taken
  <2> QED BY <1>1, <2>1
<1>2. CASE ~(n <= n_write - n_read)
  <2>1. Taken(n) = n_write - n_read
    BY <1>2, MinIs DEF Taken
  <2> QED BY <1>2, <2>1
<1> QED BY <1>1, <1>2

\* The ring after a write of n bytes: the last PIPE_SIZE bytes are in place,
\* the new ones because nothing later of the same write shares their slot, the
\* old ones because the write does not reach their slot.
LEMMA RingStores ==
  ASSUME data \in [Slots -> Nat], n_write \in Nat, NEW n \in Nat
  PROVE  /\ Ring(n) \in [Slots -> Nat]
         /\ \A k \in n_write..(n_write + n - 1) :
              k >= n_write + n - PIPE_SIZE => Ring(n)[k % PIPE_SIZE] = k
         /\ \A k \in 0..(n_write - 1) :
              k >= n_write + n - PIPE_SIZE => Ring(n)[k % PIPE_SIZE] = data[k % PIPE_SIZE]
<1> DEFINE here(i) == {k \in n_write..(n_write + n - 1) : k % PIPE_SIZE = i}
<1>1. \A i \in Slots : Ring(n)[i] = IF here(i) = {} THEN data[i] ELSE Max(here(i))
  BY DEF Ring
<1>2. \A i \in Slots : here(i) \in SUBSET Nat /\ \A x \in here(i) : x <= n_write + n
  OBVIOUS
<1>3. \A i \in Slots : here(i) # {} => Max(here(i)) \in Nat
  <2> SUFFICES ASSUME NEW i \in Slots, here(i) # {} PROVE Max(here(i)) \in here(i)
    BY <1>2
  <2>1. n_write + n \in Nat
    OBVIOUS
  <2> HIDE DEF here
  <2> QED BY <1>2, <2>1, GreatestBelow
<1>4. Ring(n) \in [Slots -> Nat]
  BY <1>1, <1>3 DEF Ring
<1>5. ASSUME NEW k \in n_write..(n_write + n - 1), k >= n_write + n - PIPE_SIZE
      PROVE  Ring(n)[k % PIPE_SIZE] = k
  <2>1. k \in Nat /\ k % PIPE_SIZE \in Slots /\ k \in here(k % PIPE_SIZE)
    BY <1>5, SlotOf
  <2>2. \A x \in here(k % PIPE_SIZE) : x <= k
    <3> SUFFICES ASSUME NEW x \in here(k % PIPE_SIZE), x > k PROVE FALSE
      BY <2>1
    <3>1. x \in Nat /\ x % PIPE_SIZE = k % PIPE_SIZE /\ x <= n_write + n - 1
      OBVIOUS
    <3>2. k + PIPE_SIZE <= x
      BY <3>1, <2>1, SameSlot
    <3> QED BY <3>1, <3>2, <1>5, <2>1, ConstantsAssumption
  <2>3. Max(here(k % PIPE_SIZE)) = k
    <3>1. here(k % PIPE_SIZE) \in SUBSET Int
      OBVIOUS
    <3> HIDE DEF here
    <3> QED BY <2>1, <2>2, <3>1, MaxIs
  <2> QED BY <1>1, <2>1, <2>3
<1>6. ASSUME NEW k \in 0..(n_write - 1), k >= n_write + n - PIPE_SIZE
      PROVE  Ring(n)[k % PIPE_SIZE] = data[k % PIPE_SIZE]
  <2>1. k \in Nat /\ k % PIPE_SIZE \in Slots
    BY <1>6, SlotOf
  <2>2. here(k % PIPE_SIZE) = {}
    <3> SUFFICES ASSUME NEW x \in here(k % PIPE_SIZE) PROVE FALSE
      OBVIOUS
    <3>1. x \in Nat /\ x % PIPE_SIZE = k % PIPE_SIZE /\ x <= n_write + n - 1 /\ k < x
      BY <1>6
    <3>2. k + PIPE_SIZE <= x
      BY <3>1, <2>1, SameSlot
    <3> QED BY <3>1, <3>2, <1>6, <2>1, ConstantsAssumption
  <2> QED BY <1>1, <2>1, <2>2
<1> QED BY <1>4, <1>5, <1>6

-----------------------------------------------------------------------------
(* The inductive invariant *)

\* Readers never pass the writers, and the bytes between them fit the ring
\* unless a writer lapped it.
DataInv ==
    /\ n_read <= n_write
    /\ ~lapped => n_write - n_read <= PIPE_SIZE
    /\ RingHoldsLastBytes
    /\ FifoUnlessLapped

\* Whoever is between lock and drop is the holder.
LockInv ==
    /\ NobodyYieldsWithLock
    /\ \A p \in Proc : pc[p] \in {"locked", "yield"} => lock = p

Inv == TypeOK /\ DataInv /\ LockInv

USE ConstantsAssumption DEF bufVars, openVars, condVars

LEMMA InitInv == Init => Inv
<1> SUFFICES ASSUME Init PROVE Inv
  OBVIOUS
<1>1. TypeOK
  <2>1. data \in [Slots -> Nat] /\ received \in Seq(Nat)
    BY DEF Init
  <2> QED BY <2>1 DEF Init, TypeOK, Ops, Pcs
<1>2. DataInv
  BY DEF Init, DataInv, RingHoldsLastBytes, FifoUnlessLapped
<1>3. LockInv
  BY DEF Init, LockInv, NobodyYieldsWithLock
<1> QED BY <1>1, <1>2, <1>3 DEF Inv

\* The bytes PipeBuffer::read hands out.
LEMMA BytesTaken ==
  ASSUME TypeOK, DataInv, NEW n \in 0..(n_write - n_read)
  PROVE  /\ Bytes(n) \in Seq(Nat) /\ Len(Bytes(n)) = n
         /\ ~lapped => \A i \in 1..n : Bytes(n)[i] = n_read + i - 1
<1>1. n \in Nat /\ n_read \in Nat /\ n_write \in Nat
  BY DEF TypeOK
<1>2. \A i \in 1..n : n_read + i - 1 \in n_read..(n_write - 1) /\ n_read + i - 1 \in Nat
  BY <1>1
<1>3. \A i \in 1..n : data[(n_read + i - 1) % PIPE_SIZE] \in Nat
  BY <1>2, SlotOf DEF TypeOK
<1>4. Bytes(n) \in [1..n -> Nat]
  BY <1>3 DEF Bytes
<1>5. Bytes(n) \in Seq(Nat) /\ Len(Bytes(n)) = n
  <2>1. Bytes(n) \in Seq(Nat)
    BY <1>1, <1>4, SeqDef
  <2>2. DOMAIN Bytes(n) = 1..n /\ DOMAIN Bytes(n) = 1..Len(Bytes(n)) /\ Len(Bytes(n)) \in Nat
    BY <1>4, <2>1, LenProperties
  <2> QED BY <1>1, <2>1, <2>2
<1>6. ASSUME ~lapped, NEW i \in 1..n
      PROVE  Bytes(n)[i] = n_read + i - 1
  <2>1. n_read + i - 1 >= n_write - PIPE_SIZE
    BY <1>1, <1>6 DEF DataInv
  <2>2. data[(n_read + i - 1) % PIPE_SIZE] = n_read + i - 1
    BY <1>2, <2>1 DEF DataInv, RingHoldsLastBytes
  <2> QED BY <2>2 DEF Bytes
<1> QED BY <1>5, <1>6

LEMMA ReadData ==
  ASSUME Inv, NEW p \in Proc, Read(p)
  PROVE  DataInv' /\ n_read' \in Nat /\ received' \in Seq(Nat)
<1> DEFINE n == Taken(len[p])
<1>1. n \in 0..(n_write - n_read) /\ n_read \in Nat /\ n_write \in Nat
  BY TakenBound DEF Inv, TypeOK, DataInv
<1>2. /\ n_read' = n_read + n /\ received' = received \o Bytes(n)
      /\ UNCHANGED <<data, n_write, lapped>>
  BY DEF Read
<1> HIDE DEF n
<1>3. /\ Bytes(n) \in Seq(Nat) /\ Len(Bytes(n)) = n
      /\ ~lapped => \A i \in 1..n : Bytes(n)[i] = n_read + i - 1
  BY <1>1, BytesTaken DEF Inv
<1>4. received \in Seq(Nat)
  BY DEF Inv, TypeOK
<1>5. /\ received' \in Seq(Nat)
      /\ Len(received') = Len(received) + n
      /\ \A i \in 1..(Len(received) + n) :
           received'[i] = IF i <= Len(received) THEN received[i] ELSE Bytes(n)[i - Len(received)]
  BY <1>2, <1>3, <1>4, ConcatProperties
<1>6. n_read' <= n_write' /\ (~lapped' => n_write' - n_read' <= PIPE_SIZE)
  BY <1>1, <1>2 DEF Inv, DataInv
<1>7. RingHoldsLastBytes'
  <2> SUFFICES ASSUME NEW k \in n_read'..(n_write' - 1), k >= n_write' - PIPE_SIZE
               PROVE  data'[k % PIPE_SIZE] = k
    BY DEF RingHoldsLastBytes
  <2>1. k \in n_read..(n_write - 1) /\ k >= n_write - PIPE_SIZE
    BY <1>1, <1>2
  <2> QED BY <1>2, <2>1 DEF Inv, DataInv, RingHoldsLastBytes
<1>8. FifoUnlessLapped'
  <2> SUFFICES ASSUME ~lapped
               PROVE  Len(received') = n_read' /\ \A i \in 1..n_read' : received'[i] = i - 1
    BY <1>2 DEF FifoUnlessLapped
  <2>1. Len(received) = n_read /\ \A i \in 1..n_read : received[i] = i - 1
    BY DEF Inv, DataInv, FifoUnlessLapped
  <2>2. ASSUME NEW i \in 1..(n_read + n)
        PROVE  received'[i] = i - 1
    <3>1. CASE i <= n_read
      BY <3>1, <1>1, <1>5, <2>1
    <3>2. CASE ~(i <= n_read)
      <4>1. i - n_read \in 1..n
        BY <3>2, <1>1
      <4>2. Bytes(n)[i - n_read] = n_read + (i - n_read) - 1
        BY <4>1, <1>3
      <4> QED BY <3>2, <4>2, <1>1, <1>5, <2>1
    <3> QED BY <3>1, <3>2
  <2> QED BY <1>2, <1>5, <2>1, <2>2
<1> QED BY <1>1, <1>2, <1>5, <1>6, <1>7, <1>8 DEF DataInv

LEMMA WriteData ==
  ASSUME Inv, NEW p \in Proc, Write(p)
  PROVE  DataInv' /\ n_write' \in Nat /\ data' \in [Slots -> Nat] /\ lapped' \in BOOLEAN
<1> DEFINE n == Stored(len[p])
<1>1. n \in Nat /\ n_read \in Nat /\ n_write \in Nat /\ len[p] \in Nat
  BY StoredBound DEF Inv, TypeOK
<1>2. /\ data' = Ring(n) /\ n_write' = n_write + n
      /\ lapped' = (lapped \/ n_write + n - n_read > PIPE_SIZE)
      /\ UNCHANGED <<n_read, received>>
  BY DEF Write
<1> HIDE DEF n
<1>3. /\ Ring(n) \in [Slots -> Nat]
      /\ \A k \in n_write..(n_write + n - 1) :
           k >= n_write + n - PIPE_SIZE => Ring(n)[k % PIPE_SIZE] = k
      /\ \A k \in 0..(n_write - 1) :
           k >= n_write + n - PIPE_SIZE => Ring(n)[k % PIPE_SIZE] = data[k % PIPE_SIZE]
  BY <1>1, RingStores DEF Inv, TypeOK
<1>4. n_read' <= n_write' /\ (~lapped' => n_write' - n_read' <= PIPE_SIZE)
  <2>1. ~lapped' => ~(n_write + n - n_read > PIPE_SIZE)
    BY <1>2
  <2> QED BY <1>1, <1>2, <2>1 DEF Inv, DataInv
<1>5. RingHoldsLastBytes'
  <2> SUFFICES ASSUME NEW k \in n_read'..(n_write' - 1), k >= n_write' - PIPE_SIZE
               PROVE  data'[k % PIPE_SIZE] = k
    BY DEF RingHoldsLastBytes
  <2>0. k \in n_read..(n_write + n - 1) /\ k >= n_write + n - PIPE_SIZE
    <3>1. n_read' = n_read /\ n_write' = n_write + n
      BY <1>2
    <3> QED BY <3>1, <1>1
  <2>1. CASE k >= n_write
    <3>1. k \in n_write..(n_write + n - 1)
      BY <2>1, <2>0, <1>1
    <3> QED BY <3>1, <2>0, <1>2, <1>3
  <2>2. CASE k < n_write
    <3>1. k \in 0..(n_write - 1) /\ k \in n_read..(n_write - 1) /\ k >= n_write - PIPE_SIZE
      BY <2>2, <2>0, <1>1
    <3> QED BY <3>1, <2>0, <1>2, <1>3 DEF Inv, DataInv, RingHoldsLastBytes
  <2> QED BY <2>1, <2>2, <2>0, <1>1
<1>6. FifoUnlessLapped'
  BY <1>2 DEF Inv, DataInv, FifoUnlessLapped
<1> QED BY <1>1, <1>2, <1>3, <1>4, <1>5, <1>6 DEF DataInv, Inv, TypeOK

-----------------------------------------------------------------------------
(* Every step keeps it *)

\* The steps that leave the buffer alone.
LEMMA DataKept ==
  ASSUME DataInv, UNCHANGED bufVars
  PROVE  DataInv'
BY DEF DataInv, RingHoldsLastBytes, FifoUnlessLapped

\* Waking a list, or yielding, keeps the statuses typed.
LEMMA StatusTyped ==
  ASSUME TypeOK
  PROVE  /\ \A list \in SUBSET Proc : Woken(list) \in [Proc -> {"Ready", "Running", "Suspend"}]
         /\ \A n : WokenByWrite(n) \in [Proc -> {"Ready", "Running", "Suspend"}]
         /\ \A p \in Proc : Yielded(p) \in [Proc -> {"Ready", "Running", "Suspend"}]
BY DEF TypeOK, Woken, WokenByWrite, Yielded

LEMMA CallInv ==
  ASSUME Inv, NEW p \in Proc, NEW o \in Ops, NEW n \in Nat, Call(p, o, n)
  PROVE  Inv'
<1> USE DEF Call, At
<1>1. TypeOK'
  BY DEF Inv, TypeOK, Pcs
<1>2. DataInv'
  BY DataKept DEF Inv
<1>3. LockInv'
  BY DEF Inv, TypeOK, LockInv, NobodyYieldsWithLock
<1> QED BY <1>1, <1>2, <1>3 DEF Inv

LEMMA UserCallInv ==
  ASSUME Inv, NEW p \in Proc, UserCall(p)
  PROVE  Inv'
<1>1. 0 \in Nat /\ \A n \in 0..MaxLen : n \in Nat
  OBVIOUS
<1> QED BY <1>1, CallInv DEF UserCall, ReadCall, WriteCall, CloseCall, Ops

LEMMA LockStepInv ==
  ASSUME Inv, NEW p \in Proc, Lock(p)
  PROVE  Inv'
<1> USE DEF Lock
<1>1. TypeOK'
  BY DEF Inv, TypeOK, Pcs
<1>2. DataInv'
  BY DataKept DEF Inv
<1>3. LockInv'
  BY DEF Inv, TypeOK, LockInv, NobodyYieldsWithLock
<1> QED BY <1>1, <1>2, <1>3 DEF Inv

\* A step of the lock's holder under the lock, which keeps it or returns.
LEMMA HolderInv ==
  ASSUME TypeOK, LockInv, NEW p \in Proc, cur = p, pc[p] = "locked",
         Return(p) \/ (\E m \in Nat : Waiting(p, m)), UNCHANGED <<cur, sie>>
  PROVE  /\ LockInv'
         /\ lock' \in Proc \cup {None} /\ pc' \in [Proc -> Pcs]
         /\ op' \in [Proc -> Ops] /\ len' \in [Proc -> Nat]
<1>1. lock = p
  BY DEF LockInv
<1>2. CASE Return(p)
  BY <1>1, <1>2 DEF TypeOK, LockInv, NobodyYieldsWithLock, Return, Pcs, Ops
<1>3. ASSUME NEW m \in Nat, Waiting(p, m)
      PROVE  /\ LockInv'
             /\ lock' \in Proc \cup {None} /\ pc' \in [Proc -> Pcs]
             /\ op' \in [Proc -> Ops] /\ len' \in [Proc -> Nat]
  BY <1>1, <1>3 DEF TypeOK, LockInv, NobodyYieldsWithLock, Waiting, Pcs, Ops
<1> QED BY <1>2, <1>3

LEMMA ReadInv ==
  ASSUME Inv, NEW p \in Proc, Read(p)
  PROVE  Inv'
<1>1. DataInv' /\ n_read' \in Nat /\ received' \in Seq(Nat)
  BY ReadData
<1>2. cur = p /\ pc[p] = "locked" /\ len[p] \in Nat
  BY DEF Read, At, Inv, TypeOK
<1>3. Return(p) \/ (\E m \in Nat : Waiting(p, m))
  BY <1>2 DEF Read
<1>4. /\ LockInv'
      /\ lock' \in Proc \cup {None} /\ pc' \in [Proc -> Pcs]
      /\ op' \in [Proc -> Ops] /\ len' \in [Proc -> Nat]
  BY <1>2, <1>3, HolderInv DEF Inv, Read
<1>5. status' \in [Proc -> {"Ready", "Running", "Suspend"}]
  <2>1. /\ status \in [Proc -> {"Ready", "Running", "Suspend"}]
        /\ Woken(wait_write) \in [Proc -> {"Ready", "Running", "Suspend"}]
    BY StatusTyped DEF Inv, TypeOK
  <2> QED BY <2>1 DEF Read
<1>6. wait_write' \subseteq Proc
  BY DEF Inv, TypeOK, Read
<1>7. UNCHANGED <<data, n_write, lapped, openVars, wait_read, cur, sie>>
  BY DEF Read
<1> QED BY <1>1, <1>4, <1>5, <1>6, <1>7 DEF Inv, TypeOK

LEMMA WriteInv ==
  ASSUME Inv, NEW p \in Proc, Write(p)
  PROVE  Inv'
<1> DEFINE n == Stored(len[p])
<1>1. DataInv' /\ n_write' \in Nat /\ data' \in [Slots -> Nat] /\ lapped' \in BOOLEAN
  BY WriteData
<1>2. cur = p /\ pc[p] = "locked" /\ len[p] \in Nat /\ n \in 0..len[p]
  BY StoredBound DEF Write, At, Inv, TypeOK
<1>3. Return(p) \/ (\E m \in Nat : Waiting(p, m))
  <2>1. len[p] - n \in Nat
    BY <1>2
  <2>2. Return(p) \/ Waiting(p, len[p] - n)
    BY DEF Write
  <2> QED BY <2>1, <2>2
<1>4. /\ LockInv'
      /\ lock' \in Proc \cup {None} /\ pc' \in [Proc -> Pcs]
      /\ op' \in [Proc -> Ops] /\ len' \in [Proc -> Nat]
  BY <1>2, <1>3, HolderInv DEF Inv, Write
<1>5. status' \in [Proc -> {"Ready", "Running", "Suspend"}]
  <2>1. /\ status \in [Proc -> {"Ready", "Running", "Suspend"}]
        /\ WokenByWrite(n) \in [Proc -> {"Ready", "Running", "Suspend"}]
    BY StatusTyped DEF Inv, TypeOK
  <2> QED BY <2>1 DEF Write
<1>6. wait_read' \subseteq Proc
  BY DEF Inv, TypeOK, Write
<1>7. UNCHANGED <<n_read, received, openVars, wait_write, cur, sie>>
  BY DEF Write
<1> QED BY <1>1, <1>4, <1>5, <1>6, <1>7 DEF Inv, TypeOK

LEMMA CloseInv ==
  ASSUME Inv, NEW p \in Proc, CloseReader(p) \/ CloseWriter(p)
  PROVE  Inv'
<1>1. cur = p /\ pc[p] = "locked" /\ Return(p) /\ UNCHANGED <<bufVars, cur, sie>>
  BY DEF CloseReader, CloseWriter, At
<1>2. DataInv'
  BY <1>1, DataKept DEF Inv
<1>3. /\ LockInv'
      /\ lock' \in Proc \cup {None} /\ pc' \in [Proc -> Pcs]
      /\ op' \in [Proc -> Ops] /\ len' \in [Proc -> Nat]
  BY <1>1, HolderInv DEF Inv
<1>4. status' \in [Proc -> {"Ready", "Running", "Suspend"}]
  <2>1. /\ status \in [Proc -> {"Ready", "Running", "Suspend"}]
        /\ Woken(wait_write) \in [Proc -> {"Ready", "Running", "Suspend"}]
        /\ Woken(wait_read) \in [Proc -> {"Ready", "Running", "Suspend"}]
    BY StatusTyped DEF Inv, TypeOK
  <2> QED BY <2>1 DEF CloseReader, CloseWriter
<1>5. wait_read' \subseteq Proc /\ wait_write' \subseteq Proc
  BY DEF Inv, TypeOK, CloseReader, CloseWriter
<1>6. read_open' \in BOOLEAN /\ write_open' \in BOOLEAN
  BY DEF Inv, TypeOK, CloseReader, CloseWriter
<1> QED BY <1>1, <1>2, <1>3, <1>4, <1>5, <1>6 DEF Inv, TypeOK

\* Yielding, being preempted and being dispatched.
LEMMA HartInv ==
  ASSUME Inv, NEW p \in Proc, Yield(p) \/ Preempt(p) \/ Dispatch(p)
  PROVE  Inv'
<1>1. DataInv'
  BY DataKept DEF Inv, Yield, Preempt, Dispatch
<1>2. status' \in [Proc -> {"Ready", "Running", "Suspend"}]
  <2>1. /\ status \in [Proc -> {"Ready", "Running", "Suspend"}]
        /\ Yielded(p) \in [Proc -> {"Ready", "Running", "Suspend"}]
    BY StatusTyped DEF Inv, TypeOK
  <2> QED BY <2>1 DEF Yield, Preempt, Dispatch
<1>3. CASE Yield(p)
  <2>1. TypeOK'
    BY <1>2, <1>3 DEF Inv, TypeOK, Yield, Pcs
  <2>2. LockInv'
    BY <1>3 DEF Inv, TypeOK, LockInv, NobodyYieldsWithLock, Yield
  <2> QED BY <1>1, <2>1, <2>2 DEF Inv
<1>4. CASE Preempt(p)
  <2>1. TypeOK'
    BY <1>2, <1>4 DEF Inv, TypeOK, Preempt
  <2>2. LockInv'
    BY <1>4 DEF Inv, TypeOK, LockInv, NobodyYieldsWithLock, Preempt
  <2> QED BY <1>1, <2>1, <2>2 DEF Inv
<1>5. CASE Dispatch(p)
  <2>1. TypeOK'
    BY <1>2, <1>5 DEF Inv, TypeOK, Dispatch
  <2>2. LockInv'
    BY <1>5 DEF Inv, TypeOK, LockInv, NobodyYieldsWithLock, Dispatch
  <2> QED BY <1>1, <2>1, <2>2 DEF Inv
<1> QED BY <1>3, <1>4, <1>5

LEMMA NextInv == Inv /\ [Next]_vars => Inv'
<1> SUFFICES ASSUME Inv, [Next]_vars PROVE Inv'
  OBVIOUS
<1>1. ASSUME NEW p \in Proc, UserCall(p) \/ KernelStep(p) \/ Preempt(p) \/ Dispatch(p)
      PROVE  Inv'
  BY <1>1, UserCallInv, LockStepInv, ReadInv, WriteInv, CloseInv, HartInv DEF KernelStep
<1>2. CASE UNCHANGED vars
  BY <1>2 DEF vars, Inv, TypeOK, DataInv, RingHoldsLastBytes, FifoUnlessLapped, LockInv,
              NobodyYieldsWithLock
<1> QED BY <1>1, <1>2 DEF Next

THEOREM Invariance == Spec => []Inv
BY InitInv, NextInv, PTL DEF Spec

\* The last PIPE_SIZE bytes written, as far as they are unread, are in the slots
\* where PipeBuffer::read looks for them, after any interleaving of reads and
\* writes: the modulo of read_ptr and write_ptr is consistent.
THEOREM RingIsRight == Spec => []RingHoldsLastBytes
<1>1. Inv => RingHoldsLastBytes
  BY DEF Inv, DataInv
<1> QED BY <1>1, Invariance, PTL

\* Until a writer overruns the ring, which the test for a full buffer does not
\* prevent, PipeFile::read hands out the bytes written, in order, each once.
THEOREM Fifo == Spec => []FifoUnlessLapped
<1>1. Inv => FifoUnlessLapped
  BY DEF Inv, DataInv
<1> QED BY <1>1, Invariance, PTL

\* Nobody yields with the buffer's Spinlock, for any number of readers and
\* writers: a holder off the hart was preempted in a call that had yielded.
THEOREM LockIsDropped == Spec => []NobodyYieldsWithLock
<1>1. Inv => NobodyYieldsWithLock
  BY DEF Inv, LockInv
<1> QED BY <1>1, Invariance, PTL
=============================================================================
