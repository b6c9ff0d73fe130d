---------------------------- MODULE BlockProofs -----------------------------
(***************************************************************************)
(* Proofs about Block for any number of processes, any files, any cluster  *)
(* and sector sizes and any lengths and offsets of calls.                  *)
(***************************************************************************)
EXTENDS Block, SequenceTheorems, TLAPS

InCall == {"file", "chunk", "cur", "submit", "poll", "done"}
Handling == {"claim", "VIRTIO_BLOCKS", "queue", "peek_used", "complete", "return"}

ControlTypes ==
    /\ boot \in {"enable_irq", "register_interrupt_handler", "done"}
    /\ running \in Proc \cup {Worker} /\ sie \in BOOLEAN
    /\ pc \in [Proc -> InCall \cup {"user"}]
    /\ holder \in [Lock -> Proc \cup {NoOne, Handler}]
    /\ plic \in [pending : SUBSET {Irq}, claimed : SUBSET {Irq}, enabled : SUBSET Nat]
    /\ trap \in [at : Handling \cup {"none"}, irq : {0, Irq}, sie : BOOLEAN]
    /\ halted \in BOOLEAN

Calls == [want : Nat, got : Seq(Nat), from : Nat]

DataTypes ==
    /\ call \in [Proc -> Calls]
    /\ pos \in [File -> Nat] /\ \A f \in File : pos[f] <= Length[f]
    /\ cur \in [Handle -> 0..DeviceSize]

\* A call is not interrupted: its process is on the hart with interrupts off.
CallInv ==
    \A p \in Proc :
        /\ pc[p] \in InCall => running = p /\ ~sie /\ trap.at = "none"
        /\ pc[p] \in {"file", "chunk"} => Opened[p] # Device

\* Where a process, or the handler, has which locks.
HolderInv ==
    /\ \A p \in Proc :
         /\ holder["queue"] = p => pc[p] = "poll"
         /\ \A h \in Handle : holder[h] = p => h = MyHandle(p) /\ pc[p] \in {"submit", "poll"}
         /\ \A f \in File : holder[f] = p => f = Opened[p] /\ pc[p] \in {"chunk", "cur", "submit", "poll"}
         /\ holder["VIRTIO_BLOCKS"] # p
    /\ \A l \in Lock : holder[l] = Handler => l \in {"queue", "VIRTIO_BLOCKS"}
    /\ holder["VIRTIO_BLOCKS"] = Handler => trap.at \in {"queue", "peek_used"}
    /\ holder["queue"] = Handler => trap.at = "peek_used"

\* Only a polling process has a request with the device, and only one.
RequestInv ==
    /\ avail # NoRequest \/ used # {} => \E p \in Proc : pc[p] = "poll"
    /\ avail # NoRequest => used = {}

\* What a call has got, and where its file and the shared cursor stand.
GotInv(p) ==
    LET f == Opened[p]
        n == Len(call[p].got)
    IN  /\ n <= call[p].want
        /\ pc[p] = "file" => n = 0
        /\ pc[p] \in {"chunk", "cur", "submit", "poll"} /\ f # Device => pos[f] = call[p].from + n
        /\ pc[p] \in {"cur", "submit", "poll"} /\ f # Device =>
             Chunk(p) > 0 /\ cur[Volume] = Smaller(ChunkStart(p), DeviceSize)
        /\ pc[p] \in {"cur", "submit", "poll"} /\ f = Device => n = 0 /\ call[p].want > 0
        /\ pc[p] \in {"submit", "poll"} /\ f = Device => call[p].from = cur["device"]

ControlInv == ControlTypes /\ CallInv /\ HolderInv /\ RequestInv

OwnBytes(p) ==
    call[p].got = SubSeq(Content(Opened[p]), call[p].from + 1, call[p].from + Len(call[p].got))

DataInv == DataTypes /\ \A p \in Proc : GotInv(p) /\ OwnBytes(p)

Inv == ControlInv /\ DataInv

-----------------------------------------------------------------------------
(* Sectors and clusters *)

LEMMA DivMod ==
  ASSUME NEW a \in Nat, NEW b \in Nat \ {0}
  PROVE  /\ a \div b \in Nat /\ a % b \in 0..(b - 1)
         /\ a = b * (a \div b) + (a % b)
OBVIOUS

LEMMA Multiples ==
  ASSUME NEW a \in Nat, NEW b \in Nat
  PROVE  a * b \in Nat /\ a * b = b * a /\ (b >= 1 => a * b >= a)
OBVIOUS

\* Quotient and remainder are unique.
LEMMA DivModUnique ==
  ASSUME NEW a \in Nat, NEW b \in Nat \ {0}, NEW q \in Nat, NEW r \in 0..(b - 1), a = b * q + r
  PROVE  a \div b = q /\ a % b = r
<1> DEFINE c == a \div b
           d == a % b
<1>1. c \in Nat /\ d \in 0..(b - 1) /\ a = b * c + d
  BY DivMod
<1> HIDE DEF c, d
<1>2. b * (c - q) = r - d /\ c - q \in Int
  BY <1>1
<1>3. ~(c - q >= 1)
  <2> SUFFICES ASSUME c - q >= 1 PROVE FALSE
    OBVIOUS
  <2>1. b * (c - q) >= b
    BY <1>2, Multiples
  <2> QED BY <1>1, <1>2, <2>1
<1>4. ~(q - c >= 1)
  <2> SUFFICES ASSUME q - c >= 1 PROVE FALSE
    OBVIOUS
  <2>1. q - c \in Int /\ b * (q - c) >= b /\ b * (q - c) = d - r
    BY <1>1
  <2> QED BY <1>1, <2>1
<1>5. c = q
  BY <1>1, <1>3, <1>4
<1>6. d = r
  BY <1>1, <1>2, <1>5
<1> QED BY <1>5, <1>6 DEF c, d

\* What VirtIOBlock::read copies is what was asked for, wherever in a sector
\* it starts and ends: the sectors read cover it.
LEMMA BytesRead ==
  ASSUME NEW o \in 0..DeviceSize, NEW n \in Nat \ {0}, read_size(o, n) = n
  PROVE  /\ Bytes(o, n) \in Seq(Nat) /\ Len(Bytes(o, n)) = n
         /\ \A i \in 1..n : Bytes(o, n)[i] = o + i - 1
<1> DEFINE b == block_id(o)
           r == in_block_offset(o)
           x == r + n + SECTOR_SIZE - 1
           q == x \div SECTOR_SIZE
           kbuf == [i \in 1..(SECTOR_SIZE * q) |-> b * SECTOR_SIZE + i - 1]
<1>0. SECTOR_SIZE \in Nat \ {0} /\ DeviceSize \in Nat
  BY ConstantsAssumption
<1>1. o \in Nat /\ b \in Nat /\ r \in 0..(SECTOR_SIZE - 1) /\ o = SECTOR_SIZE * b + r
  <2>1. o \in Nat
    BY <1>0
  <2> QED BY <1>0, <2>1, DivMod DEF block_id, in_block_offset
<1>2. n <= DeviceSize - o
  BY <1>0 DEF read_size, Smaller
<1>3. must_read_size(o, n) = r + n
  <2>1. r + n <= DeviceSize - b * SECTOR_SIZE
    BY <1>0, <1>1, <1>2
  <2>2. must_read_size(o, n) = Smaller(r + n, DeviceSize - b * SECTOR_SIZE)
    BY DEF must_read_size
  <2> HIDE DEF b, r
  <2>3. r + n \in Int /\ b * SECTOR_SIZE \in Int
    BY <1>0, <1>1, Multiples
  <2> QED BY <2>1, <2>2, <2>3, <1>0 DEF Smaller
<1>4. Sectors(o, n) = q
  BY <1>3 DEF Sectors
<1>5. x \in Nat /\ q \in Nat /\ x % SECTOR_SIZE \in 0..(SECTOR_SIZE - 1)
      /\ x = SECTOR_SIZE * q + (x % SECTOR_SIZE)
  <2>1. x \in Nat
    BY <1>0, <1>1
  <2> HIDE DEF x
  <2> QED BY <1>0, <2>1, DivMod
<1>6. r + n <= SECTOR_SIZE * q /\ SECTOR_SIZE * q \in Nat /\ b * SECTOR_SIZE \in Nat
  <2>1. SECTOR_SIZE * q \in Nat /\ b * SECTOR_SIZE \in Nat
    BY <1>0, <1>1, <1>5, Multiples
  <2> HIDE DEF b, r, q
  <2> QED BY <1>0, <1>1, <1>5, <2>1
<1>7. Bytes(o, n) = SubSeq(kbuf, r + 1, r + n)
  BY <1>4 DEF Bytes, read_size, Smaller
<1>8. \A i \in (r + 1)..(r + n) : kbuf[i] \in Nat /\ kbuf[i] = b * SECTOR_SIZE + i - 1
  <2> HIDE DEF b, r, q
  <2> QED BY <1>0, <1>1, <1>6
<1> HIDE DEF kbuf, b, r, q, x
<1>9. /\ Bytes(o, n) \in Seq(Nat)
      /\ Len(Bytes(o, n)) = IF r + 1 <= r + n THEN (r + n) - (r + 1) + 1 ELSE 0
      /\ \A i \in 1..((r + n) - (r + 1) + 1) : Bytes(o, n)[i] = kbuf[(r + 1) + i - 1]
  <2>1. r + 1 \in Int /\ r + n \in Int
    BY <1>0, <1>1
  <2> QED BY <2>1, <1>7, <1>8, SubSeqProperties
<1>10. Len(Bytes(o, n)) = n
  BY <1>1, <1>9
<1>11. ASSUME NEW i \in 1..n
       PROVE  Bytes(o, n)[i] = o + i - 1
  <2>1. i \in 1..((r + n) - (r + 1) + 1) /\ (r + 1) + i - 1 = r + i /\ r + i \in (r + 1)..(r + n)
    BY <1>1
  <2>2. Bytes(o, n)[i] = b * SECTOR_SIZE + (r + i) - 1
    BY <2>1, <1>8, <1>9
  <2>3. b * SECTOR_SIZE + (r + i) - 1 = o + i - 1
    BY <1>0, <1>1, <1>6, Multiples
  <2> QED BY <2>2, <2>3
<1> QED BY <1>9, <1>10, <1>11

LEMMA SameCluster ==
  ASSUME NEW a \in Nat, NEW i \in Nat, (a % ClusterSize) + i < ClusterSize
  PROVE  /\ (a + i) \div ClusterSize = a \div ClusterSize
         /\ (a + i) % ClusterSize = (a % ClusterSize) + i
<1> DEFINE q == a \div ClusterSize
           r == a % ClusterSize
<1>0. ClusterSize \in Nat \ {0}
  BY ConstantsAssumption
<1>1. q \in Nat /\ r \in 0..(ClusterSize - 1) /\ a = ClusterSize * q + r
  BY <1>0, DivMod
<1>2. r + i < ClusterSize
  OBVIOUS
<1> HIDE DEF q, r
<1>3. r + i \in 0..(ClusterSize - 1) /\ a + i = ClusterSize * q + (r + i) /\ a + i \in Nat
  <2>1. ClusterSize * q \in Nat
    BY <1>0, <1>1, Multiples
  <2> QED BY <1>0, <1>1, <1>2, <2>1
<1>4. (a + i) \div ClusterSize = q /\ (a + i) % ClusterSize = r + i
  BY <1>0, <1>1, <1>3, DivModUnique
<1> QED BY <1>4 DEF q, r

LEMMA SmallerOf ==
  ASSUME NEW a \in Int, NEW b \in Int
  PROVE  Smaller(a, b) \in {a, b} /\ Smaller(a, b) <= a /\ Smaller(a, b) <= b
BY DEF Smaller

\* A chunk lies in one cluster, in the file and in the buffer, and its bytes are
\* the next ones of the file.
LEMMA ChunkOfFile ==
  ASSUME DataTypes, NEW p \in Proc, Opened[p] # Device, Len(call[p].got) <= call[p].want
  PROVE  /\ Chunk(p) \in Nat
         /\ Len(call[p].got) + Chunk(p) <= call[p].want
         /\ pos[Opened[p]] + Chunk(p) <= Length[Opened[p]]
         /\ Chunk(p) > 0 => ChunkStart(p) \in Nat
         /\ \A i \in 1..Chunk(p) : Content(Opened[p])[pos[Opened[p]] + i] = ChunkStart(p) + i - 1
<1> DEFINE f == Opened[p]
           a == pos[f]
           w == call[p].want
           g == Len(call[p].got)
           r == a % ClusterSize
           n == Chunk(p)
           len == Length[f]
           addr(i) == Clusters[f][(i \div ClusterSize) + 1]
<1>1. f \in File /\ f # Device /\ len \in Nat /\ ClusterSize \in Nat \ {0}
  BY ConstantsAssumption
<1>2. a \in Nat /\ a <= len
  BY <1>1 DEF DataTypes
<1>3. w \in Nat /\ g \in Nat /\ g <= w
  <2>1. call[p] \in Calls
    BY DEF DataTypes
  <2>2. call[p].want \in Nat /\ call[p].got \in Seq(Nat)
    BY <2>1 DEF Calls
  <2> QED BY <2>2
<1>4. r \in 0..(ClusterSize - 1)
  BY <1>1, <1>2, DivMod
<1>5. n = Smaller(w - g, Smaller(len - a, ClusterSize - r))
  BY DEF Chunk
<1>6. \A i \in 0..(len - 1) : addr(i) \in Nat
  BY <1>1, ConstantsAssumption
<1>7. ChunkStart(p) = addr(a) + r
  BY DEF ChunkStart
<1>8. \A i \in 1..len : Content(f)[i] = addr(i - 1) + ((i - 1) % ClusterSize)
  BY <1>1 DEF Content
<1>9. /\ (a % ClusterSize) = r
      /\ \A i \in Nat : (i \div ClusterSize) = (a \div ClusterSize) => addr(i) = addr(a)
  OBVIOUS
<1> HIDE DEF f, a, w, g, r, n, len, addr
<1>10. n \in Nat /\ n <= w - g /\ n <= len - a /\ n <= ClusterSize - r
  <2>1. len - a \in Int /\ ClusterSize - r \in Int /\ w - g \in Int
    BY <1>1, <1>2, <1>3, <1>4
  <2>2. Smaller(len - a, ClusterSize - r) \in {len - a, ClusterSize - r}
    BY <2>1, SmallerOf
  <2>3. /\ Smaller(len - a, ClusterSize - r) <= len - a
        /\ Smaller(len - a, ClusterSize - r) <= ClusterSize - r
    BY <2>1, SmallerOf
  <2>4. /\ n \in {w - g, Smaller(len - a, ClusterSize - r)}
        /\ n <= w - g /\ n <= Smaller(len - a, ClusterSize - r)
    BY <2>1, <2>2, <1>5, SmallerOf
  <2> QED BY <2>1, <2>2, <2>3, <2>4, <1>1, <1>2, <1>3, <1>4
<1>11. n > 0 => addr(a) \in Nat /\ addr(a) + r \in Nat
  <2>1. n > 0 => a \in 0..(len - 1)
    BY <1>1, <1>2, <1>10
  <2> QED BY <1>1, <1>4, <1>6, <2>1
<1>12. ASSUME NEW i \in 1..n
       PROVE  Content(f)[a + i] = ChunkStart(p) + i - 1
  <2>1. a + i \in 1..len /\ (a + i) - 1 = a + (i - 1) /\ i - 1 \in Nat /\ r + (i - 1) < ClusterSize
    BY <1>1, <1>2, <1>4, <1>10
  <2>2. /\ (a + (i - 1)) \div ClusterSize = a \div ClusterSize
        /\ (a + (i - 1)) % ClusterSize = r + (i - 1)
    BY <1>2, <1>9, <2>1, SameCluster
  <2>3. addr(a + (i - 1)) = addr(a)
    BY <1>2, <1>9, <2>1, <2>2
  <2>4. Content(f)[a + i] = addr(a) + (r + (i - 1))
    BY <1>8, <2>1, <2>2, <2>3
  <2>5. addr(a) \in Nat
    BY <1>10, <1>11
  <2> QED BY <2>4, <2>5, <1>1, <1>4, <1>7
<1>13. n \in Nat /\ g + n <= w /\ a + n <= len
  BY <1>1, <1>2, <1>3, <1>10
<1> QED BY <1>7, <1>11, <1>12, <1>13 DEF n, f, a, w, g, len

LEMMA Appended ==
  ASSUME NEW a \in Seq(Nat), NEW b \in Seq(Nat)
  PROVE  a \o b \in Seq(Nat) /\ Len(a \o b) = Len(a) + Len(b)
BY ConcatProperties

\* Appending the next bytes of a file to the bytes got from it so far.
LEMMA NextBytes ==
  ASSUME NEW C, NEW got \in Seq(Nat), NEW from \in Nat, NEW new \in Seq(Nat),
         got = SubSeq(C, from + 1, from + Len(got)),
         \A i \in 1..Len(new) : C[from + Len(got) + i] = new[i]
  PROVE  got \o new = SubSeq(C, from + 1, from + Len(got \o new))
<1> DEFINE g == Len(got)
           k == Len(new)
           all == got \o new
           sub == SubSeq(C, from + 1, from + (g + k))
           S == {C[j] : j \in (from + 1)..(from + (g + k))}
<1>1. g \in Nat /\ k \in Nat
  OBVIOUS
<1>2. /\ all \in Seq(Nat) /\ Len(all) = g + k
      /\ \A i \in 1..(g + k) : all[i] = IF i <= g THEN got[i] ELSE new[i - g]
  BY ConcatProperties
<1>3. /\ \A j \in (from + 1)..(from + (g + k)) : C[j] \in S
      /\ \A j \in (from + 1)..(from + g) : C[j] \in S
  BY <1>1
<1>4. got = SubSeq(C, from + 1, from + g) /\ \A i \in 1..k : C[from + g + i] = new[i]
  OBVIOUS
<1> HIDE DEF g, k, all, S
<1>5. from + 1 \in Int /\ from + g \in Int /\ from + (g + k) \in Int
  BY <1>1
<1>6. \A i \in 1..((from + g) - (from + 1) + 1) : got[i] = C[(from + 1) + i - 1]
  BY <1>3, <1>4, <1>5, SubSeqProperties
<1>7. /\ sub \in Seq(S)
      /\ Len(sub) = IF from + 1 <= from + (g + k) THEN (from + (g + k)) - (from + 1) + 1 ELSE 0
      /\ \A i \in 1..((from + (g + k)) - (from + 1) + 1) : sub[i] = C[(from + 1) + i - 1]
  BY <1>3, <1>5, SubSeqProperties
<1> HIDE DEF sub
<1>8. Len(sub) = g + k
  BY <1>1, <1>7
<1>9. \A i \in 1..(g + k) : sub[i] = C[from + i]
  <2>1. \A i \in 1..(g + k) : i \in 1..((from + (g + k)) - (from + 1) + 1) /\ (from + 1) + i - 1 = from + i
    BY <1>1
  <2> QED BY <1>7, <2>1
<1>10. \A i \in 1..g : got[i] = C[from + i]
  <2>1. \A i \in 1..g : i \in 1..((from + g) - (from + 1) + 1) /\ (from + 1) + i - 1 = from + i
    BY <1>1
  <2> QED BY <1>6, <2>1
<1>11. ASSUME NEW i \in 1..(g + k)
       PROVE  all[i] = sub[i]
  <2>1. CASE i <= g
    <3>1. i \in 1..g
      BY <1>1, <2>1
    <3> QED BY <1>2, <1>9, <1>10, <2>1, <3>1
  <2>2. CASE ~(i <= g)
    <3>1. i - g \in 1..k /\ from + g + (i - g) = from + i
      BY <1>1, <2>2
    <3>2. C[from + i] = new[i - g]
      BY <1>4, <3>1
    <3> QED BY <1>2, <1>9, <2>2, <3>2
  <2> QED BY <2>1, <2>2
<1>12. all \in Seq(Nat \cup S) /\ sub \in Seq(Nat \cup S)
  BY <1>2, <1>7, SeqMonotonic
<1>13. all = sub
  BY <1>2, <1>8, <1>11, <1>12, SeqEqual
<1> QED BY <1>2, <1>13 DEF all, sub

LEMMA LensPositive ==
  ASSUME NEW len \in Lens
  PROVE  len \in Nat /\ len > 0
<1>1. Lens \subseteq Nat \ {0}
  BY ConstantsAssumption
<1> QED BY <1>1

USE ConstantsAssumption
    DEF process, interrupt, Volume, Handle, Lock, NoOne, Handler, InCall, Handling, Goto

-----------------------------------------------------------------------------
(* Who runs, who has which lock, and the request of the device *)

LEMMA InitControl == Init => ControlInv
<1> SUFFICES ASSUME Init PROVE ControlInv
  OBVIOUS
<1>1. ControlTypes
  BY DEF Init, ControlTypes
<1>2. CallInv /\ HolderInv /\ RequestInv
  BY DEF Init, CallInv, HolderInv, RequestInv
<1> QED BY <1>1, <1>2 DEF ControlInv

LEMMA BootControl ==
  ASSUME ControlInv, enable_irq \/ register_interrupt_handler
  PROVE  ControlInv'
<1>1. EnableBit(Irq) \in Nat
  BY DEF EnableBit
<1>2. ControlTypes'
  BY <1>1 DEF enable_irq, register_interrupt_handler, ControlInv, ControlTypes
<1>3. CallInv' /\ HolderInv' /\ RequestInv'
  BY DEF enable_irq, register_interrupt_handler, ControlInv, CallInv, HolderInv, RequestInv
<1> QED BY <1>2, <1>3 DEF ControlInv

\* An interrupt is taken in user mode or where it is enabled: outside calls.
LEMMA TakeInterruptControl ==
  ASSUME ControlInv, TakeInterrupt
  PROVE  ControlInv'
<1> USE DEF TakeInterrupt, InUserMode
<1>1. ControlTypes'
  BY DEF ControlInv, ControlTypes
<1>2. \A p \in Proc : pc[p] = "user"
  BY DEF ControlInv, ControlTypes, CallInv
<1>3. CallInv'
  BY <1>2 DEF CallInv
<1>4. HolderInv' /\ RequestInv'
  BY DEF ControlInv, ControlTypes, HolderInv, RequestInv
<1> QED BY <1>1, <1>3, <1>4 DEF ControlInv

LEMMA claimControl ==
  ASSUME ControlInv, claim
  PROVE  ControlInv'
<1> DEFINE irq == IF Deliverable = {} THEN 0 ELSE CHOOSE i \in Deliverable : TRUE
<1>1. irq \in {0, Irq}
  BY DEF Deliverable, ControlInv, ControlTypes
<1>2. /\ trap.at = "claim"
      /\ plic' = [plic EXCEPT !.pending = @ \ {irq}, !.claimed = @ \cup ({irq} \ {0})]
      /\ trap' = [trap EXCEPT !.irq = irq,
                              !.at = IF irq = 0 THEN "return"
                                     ELSE IF irq \in table THEN "VIRTIO_BLOCKS" ELSE "complete"]
      /\ UNCHANGED <<boot, running, sie, process, holder, avail, used, table, halted>>
  BY DEF claim
<1> HIDE DEF irq
<1>3. ControlTypes'
  BY <1>1, <1>2 DEF ControlInv, ControlTypes
<1>4. CallInv' /\ HolderInv' /\ RequestInv'
  BY <1>2 DEF ControlInv, ControlTypes, CallInv, HolderInv, RequestInv
<1> QED BY <1>3, <1>4 DEF ControlInv

LEMMA HandlerLockControl ==
  ASSUME ControlInv, HandlerLock("VIRTIO_BLOCKS", "queue") \/ HandlerLock("queue", "peek_used")
  PROVE  ControlInv'
<1> USE DEF HandlerLock
<1>1. ControlTypes'
  BY DEF ControlInv, ControlTypes
<1>2. CallInv' /\ RequestInv'
  BY DEF ControlInv, ControlTypes, CallInv, RequestInv
<1>3. HolderInv'
  BY DEF ControlInv, ControlTypes, HolderInv
<1> QED BY <1>1, <1>2, <1>3 DEF ControlInv

LEMMA HandleControl ==
  ASSUME ControlInv, handle_irq \/ complete \/ TrapReturn
  PROVE  ControlInv'
<1>1. CASE handle_irq
  <2> USE DEF handle_irq
  <2>1. ControlTypes'
    <3>1. holder' \in [Lock -> Proc \cup {NoOne, Handler}]
      BY <1>1 DEF ControlInv, ControlTypes
    <3>2. trap' \in [at : Handling \cup {"none"}, irq : {0, Irq}, sie : BOOLEAN]
      BY <1>1 DEF ControlInv, ControlTypes
    <3> QED BY <1>1, <3>1, <3>2 DEF ControlInv, ControlTypes
  <2>2. CallInv' /\ RequestInv'
    BY <1>1 DEF ControlInv, ControlTypes, CallInv, RequestInv
  <2>3. HolderInv'
    BY <1>1 DEF ControlInv, ControlTypes, HolderInv
  <2> QED BY <2>1, <2>2, <2>3 DEF ControlInv
<1>2. CASE complete
  BY <1>2 DEF complete, ControlInv, ControlTypes, CallInv, HolderInv, RequestInv
<1>3. CASE TrapReturn
  BY <1>3 DEF TrapReturn, ControlInv, ControlTypes, CallInv, HolderInv, RequestInv
<1> QED BY <1>1, <1>2, <1>3

LEMMA HartControl ==
  ASSUME ControlInv, Timer \/ DeviceCompletes \/ \E p \in Proc : Dispatch(p)
  PROVE  ControlInv'
<1>1. CASE Timer
  <2>1. \A p \in Proc : pc[p] = "user"
    BY <1>1 DEF Timer, InUserMode, ControlInv, ControlTypes, CallInv
  <2> QED BY <1>1, <2>1 DEF Timer, ControlInv, ControlTypes, CallInv, HolderInv, RequestInv
<1>2. CASE DeviceCompletes
  BY <1>2 DEF DeviceCompletes, ControlInv, ControlTypes, CallInv, HolderInv, RequestInv
<1>3. ASSUME NEW p \in Proc, Dispatch(p)
      PROVE  ControlInv'
  <2>1. \A q \in Proc : pc[q] = "user"
    BY <1>3 DEF Dispatch, ControlInv, ControlTypes, CallInv
  <2> QED BY <1>3, <2>1 DEF Dispatch, ControlInv, ControlTypes, CallInv, HolderInv, RequestInv
<1> QED BY <1>1, <1>2, <1>3

\* While a process is on the hart, the others are in user mode.
LEMMA OthersInUser ==
  ASSUME ControlInv, NEW p \in Proc, running = p
  PROVE  \A q \in Proc \ {p} : pc[q] = "user"
BY DEF ControlInv, ControlTypes, CallInv

\* A step of a call that goes on at w.
LEMMA StepControl ==
  ASSUME ControlInv, NEW p \in Proc, running = p, trap.at = "none",
         NEW w \in InCall, Goto(p, w), ~sie', w \in {"file", "chunk"} => Opened[p] # Device,
         UNCHANGED <<boot, running, plic, trap>>, halted' \in BOOLEAN
  PROVE  /\ CallInv'
         /\ holder' \in [Lock -> Proc \cup {NoOne, Handler}] /\ sie' \in BOOLEAN => ControlTypes'
<1>1. \A q \in Proc \ {p} : pc[q] = "user"
  BY OthersInUser
<1> QED BY <1>1 DEF ControlInv, ControlTypes, CallInv

LEMMA readControl ==
  ASSUME ControlInv, NEW p \in Proc, NEW len \in Lens, read(p, len)
  PROVE  ControlInv'
<1>1. PICK w \in {"cur", "file"} : Goto(p, w) /\ (w = "file" => Opened[p] # Device)
  BY DEF read
<1>2. CallInv' /\ ControlTypes'
  BY <1>1, StepControl DEF read, At, ControlInv, ControlTypes
<1>3. \A l \in Lock : holder[l] # p
  BY DEF read, At, ControlInv, ControlTypes, HolderInv
<1>4. HolderInv'
  BY <1>1, <1>3 DEF read, ControlInv, ControlTypes, HolderInv
<1>5. RequestInv'
  BY <1>1 DEF read, At, ControlInv, ControlTypes, RequestInv
<1> QED BY <1>2, <1>4, <1>5 DEF ControlInv

LEMMA LockFileControl ==
  ASSUME ControlInv, NEW p \in Proc, LockFile(p)
  PROVE  ControlInv'
<1> USE DEF LockFile, Take
<1>1. Opened[p] \in File /\ ~sie
  BY DEF At, ControlInv, CallInv
<1>2. CallInv' /\ ControlTypes'
  BY <1>1, StepControl DEF At, ControlInv, ControlTypes
<1>3. HolderInv'
  BY <1>1 DEF At, ControlInv, ControlTypes, HolderInv
<1>4. RequestInv'
  BY DEF At, ControlInv, ControlTypes, RequestInv
<1> QED BY <1>2, <1>3, <1>4 DEF ControlInv

LEMMA seekControl ==
  ASSUME ControlInv, NEW p \in Proc, seek(p)
  PROVE  ControlInv'
<1>1. Opened[p] \in File /\ ~sie /\ At(p, "chunk")
  BY DEF At, ControlInv, CallInv, seek
<1>2. /\ \/ Goto(p, "done") /\ holder' = [holder EXCEPT ![Opened[p]] = NoOne]
         \/ Goto(p, "cur") /\ holder' = holder
      /\ UNCHANGED <<boot, running, sie, avail, used, interrupt, halted>>
  BY DEF seek
<1>3. CallInv' /\ ControlTypes'
  BY <1>1, <1>2, StepControl DEF At, ControlInv, ControlTypes
<1>4. HolderInv'
  BY <1>1, <1>2 DEF At, ControlInv, ControlTypes, HolderInv
<1>5. RequestInv'
  BY <1>1, <1>2 DEF At, ControlInv, ControlTypes, RequestInv
<1> QED BY <1>3, <1>4, <1>5 DEF ControlInv

LEMMA LockCurControl ==
  ASSUME ControlInv, NEW p \in Proc, LockCur(p)
  PROVE  ControlInv'
<1> USE DEF LockCur, Take
<1>1. MyHandle(p) \in Handle /\ ~sie
  BY DEF At, ControlInv, CallInv, MyHandle
<1>2. CallInv' /\ ControlTypes'
  BY <1>1, StepControl DEF At, ControlInv, ControlTypes
<1>3. HolderInv'
  BY <1>1 DEF At, ControlInv, ControlTypes, HolderInv
<1>4. RequestInv'
  BY DEF At, ControlInv, ControlTypes, RequestInv
<1> QED BY <1>2, <1>3, <1>4 DEF ControlInv

LEMMA SubmitControl ==
  ASSUME ControlInv, NEW p \in Proc, Submit(p)
  PROVE  ControlInv'
<1>1. At(p, "submit") /\ ~sie
  BY DEF Submit, At, ControlInv, CallInv
<1>2. CASE halted' = TRUE /\ UNCHANGED <<pc, holder, avail>>
  BY <1>2 DEF Submit, ControlInv, ControlTypes, CallInv, HolderInv, RequestInv
<1>3. CASE /\ Take(p, "queue") /\ Goto(p, "poll") /\ UNCHANGED halted
  <2>0. UNCHANGED <<boot, running, sie, used, interrupt>>
    BY DEF Submit
  <2>1. CallInv' /\ ControlTypes'
    BY <1>1, <1>3, <2>0, StepControl DEF Take, At, ControlInv, ControlTypes
  <2>2. HolderInv'
    BY <1>1, <1>3, <2>0 DEF Take, At, ControlInv, ControlTypes, HolderInv
  <2>3. used = {} /\ pc'[p] = "poll"
    <3>1. \A q \in Proc : pc[q] # "poll"
      BY <1>1, OthersInUser DEF At
    <3> QED BY <1>3, <3>1 DEF ControlInv, ControlTypes, RequestInv
  <2>4. RequestInv'
    BY <2>0, <2>3 DEF RequestInv
  <2> QED BY <2>1, <2>2, <2>4 DEF ControlInv
<1> QED BY <1>2, <1>3 DEF Submit

LEMMA PollControl ==
  ASSUME ControlInv, NEW p \in Proc, Poll(p)
  PROVE  ControlInv'
<1>1. At(p, "poll") /\ ~sie /\ used # {} /\ used' = {} /\ MyHandle(p) \in Handle
  BY DEF Poll, At, ControlInv, CallInv, MyHandle
<1>2. avail = NoRequest /\ UNCHANGED <<boot, running, sie, avail, interrupt>>
  BY <1>1 DEF Poll, ControlInv, RequestInv
<1>3. CASE halted' = TRUE /\ UNCHANGED <<pc, holder>>
  BY <1>1, <1>2, <1>3 DEF ControlInv, ControlTypes, CallInv, HolderInv, RequestInv
<1>4. CASE /\ holder' = [holder EXCEPT !["queue"] = NoOne, ![MyHandle(p)] = NoOne]
           /\ Goto(p, IF MyHandle(p) = Volume THEN "chunk" ELSE "done") /\ UNCHANGED halted
  <2>1. MyHandle(p) = Volume => Opened[p] # Device
    BY DEF MyHandle
  <2>2. CallInv' /\ ControlTypes'
    BY <1>1, <1>2, <1>4, <2>1, StepControl DEF At, ControlInv, ControlTypes
  <2>3. HolderInv'
    BY <1>1, <1>2, <1>4, <2>1 DEF At, ControlInv, ControlTypes, HolderInv, MyHandle
  <2>4. RequestInv'
    BY <1>1, <1>2 DEF RequestInv
  <2> QED BY <2>2, <2>3, <2>4 DEF ControlInv
<1> QED BY <1>3, <1>4 DEF Poll

LEMMA lseekControl ==
  ASSUME ControlInv, NEW p \in Proc, NEW whence, NEW o, lseek(p, whence, o)
  PROVE  ControlInv'
<1>1. UNCHANGED <<boot, running, sie, pc, call, holder, avail, used, interrupt>>
  BY DEF lseek
<1>2. halted' \in BOOLEAN
  BY DEF lseek, ControlInv, ControlTypes
<1> QED BY <1>1, <1>2 DEF ControlInv, ControlTypes, CallInv, HolderInv, RequestInv

LEMMA ReturnControl ==
  ASSUME ControlInv, NEW p \in Proc, Return(p)
  PROVE  ControlInv'
<1> USE DEF Return, At
<1>1. ControlTypes' /\ CallInv'
  BY DEF ControlInv, ControlTypes, CallInv
<1>2. HolderInv'
  BY DEF ControlInv, ControlTypes, HolderInv
<1>3. RequestInv'
  BY DEF ControlInv, ControlTypes, RequestInv
<1> QED BY <1>1, <1>2, <1>3 DEF ControlInv



-----------------------------------------------------------------------------
(* What calls read *)

\* A call that has got nothing has got its own bytes.
LEMMA NothingGot ==
  ASSUME NEW C, NEW from \in Nat
  PROVE  <<>> = SubSeq(C, from + 1, from + Len(<<>>))
<1>1. from + 1 \in Int /\ from + Len(<<>>) \in Int /\ from + Len(<<>>) < from + 1
  OBVIOUS
<1> QED BY <1>1, SubSeqEmpty

LEMMA InitData == Init => DataInv
<1> SUFFICES ASSUME Init PROVE DataInv
  OBVIOUS
<1>1. NoCall \in Calls /\ Len(NoCall.got) = 0 /\ NoCall.got = <<>> /\ NoCall.from = 0 /\ NoCall.want = 0
  BY DEF NoCall, Calls
<1>2. DataTypes
  BY <1>1 DEF Init, DataTypes
<1>3. ASSUME NEW p \in Proc
      PROVE  GotInv(p) /\ OwnBytes(p)
  <2>1. call[p] = NoCall /\ pc[p] = "user"
    BY DEF Init
  <2>2. GotInv(p)
    BY <1>1, <2>1 DEF GotInv
  <2>3. call[p].got = <<>> /\ call[p].from \in Nat
    BY <1>1, <2>1
  <2>4. OwnBytes(p)
    BY <2>3, NothingGot, Zenon DEF OwnBytes
  <2> QED BY <2>2, <2>4
<1> QED BY <1>2, <1>3 DEF DataInv

\* The steps outside calls.
LEMMA DataKept ==
  ASSUME DataInv, UNCHANGED <<pc, call, pos, cur>>
  PROVE  DataInv'
BY DEF DataInv, DataTypes, GotInv, OwnBytes, Chunk, ChunkStart

\* A step of one process keeps what the others got: they are in user mode.
LEMMA OthersData ==
  ASSUME Inv, NEW p \in Proc, running = p, NEW q \in Proc, q # p,
         pc'[q] = pc[q], call'[q] = call[q]
  PROVE  GotInv(q)' /\ OwnBytes(q)'
<1>1. pc[q] = "user"
  BY OthersInUser DEF Inv
<1>2. GotInv(q) /\ OwnBytes(q)
  BY DEF Inv, DataInv
<1>3. GotInv(q)'
  BY <1>1, <1>2 DEF GotInv
<1>4. OwnBytes(q)'
  BY <1>2 DEF OwnBytes
<1> QED BY <1>3, <1>4

LEMMA StepData ==
  ASSUME Inv, NEW p \in Proc, running = p, DataTypes', GotInv(p)', OwnBytes(p)',
         \A q \in Proc \ {p} : pc'[q] = pc[q] /\ call'[q] = call[q]
  PROVE  DataInv'
<1>1. \A q \in Proc \ {p} : GotInv(q)' /\ OwnBytes(q)'
  BY OthersData
<1> QED BY <1>1 DEF DataInv

LEMMA CallTypes ==
  ASSUME DataTypes, NEW p \in Proc
  PROVE  /\ call[p] \in Calls /\ call[p].got \in Seq(Nat) /\ Len(call[p].got) \in Nat
         /\ call[p].want \in Nat /\ call[p].from \in Nat
<1>1. call[p] \in Calls
  BY DEF DataTypes
<1>2. call[p].got \in Seq(Nat) /\ call[p].want \in Nat /\ call[p].from \in Nat
  BY <1>1 DEF Calls
<1> QED BY <1>1, <1>2, LenProperties

LEMMA readData ==
  ASSUME Inv, NEW p \in Proc, NEW len \in Lens, read(p, len)
  PROVE  DataInv'
<1> DEFINE c == [NoCall EXCEPT !.want = len]
<1>1. running = p /\ UNCHANGED <<pos, cur>> /\ call' = [call EXCEPT ![p] = c]
  BY DEF read, At
<1>2. PICK w \in {"cur", "file"} : Goto(p, w) /\ (w = "cur" => Opened[p] = Device)
  BY DEF read
<1>3. c \in Calls /\ c.want \in Nat /\ c.want > 0 /\ c.got = <<>> /\ c.from = 0
  <2>1. len \in Nat /\ len > 0
    BY LensPositive
  <2>2. c = [want |-> len, got |-> <<>>, from |-> 0]
    BY DEF NoCall
  <2>3. <<>> \in Seq(Nat)
    BY EmptySeq
  <2> HIDE DEF c
  <2>4. c \in Calls
    BY <2>1, <2>2, <2>3 DEF Calls
  <2> QED BY <2>1, <2>2, <2>4
<1> HIDE DEF c
<1>4. /\ pc'[p] = w /\ call'[p] = c
      /\ \A q \in Proc \ {p} : pc'[q] = pc[q] /\ call'[q] = call[q]
  BY <1>1, <1>2 DEF Inv, ControlInv, ControlTypes, DataInv, DataTypes
<1>5. DataTypes'
  BY <1>1, <1>3 DEF Inv, DataInv, DataTypes
<1>6. OwnBytes(p)'
  <2>1. call'[p].got = <<>> /\ call'[p].from \in Nat
    BY <1>3, <1>4
  <2> QED BY <2>1, NothingGot, Zenon DEF OwnBytes
<1>7. GotInv(p)'
  BY <1>2, <1>3, <1>4 DEF GotInv
<1> QED BY <1>1, <1>4, <1>5, <1>6, <1>7, StepData

LEMMA LockFileData ==
  ASSUME Inv, NEW p \in Proc, LockFile(p)
  PROVE  DataInv'
<1> DEFINE f == Opened[p]
           c == [call[p] EXCEPT !.from = pos[f]]
<1>1. /\ running = p /\ pc[p] = "file" /\ UNCHANGED <<pos, cur>>
      /\ call' = [call EXCEPT ![p] = c] /\ Goto(p, "chunk")
  BY DEF LockFile, At
<1>2. f \in File /\ pos[f] \in Nat /\ Len(call[p].got) = 0 /\ 0 <= call[p].want
  BY <1>1 DEF Inv, ControlInv, CallInv, DataInv, DataTypes, GotInv
<1>3. /\ call[p] \in Calls /\ call[p].got = <<>> /\ call[p].want \in Nat
  BY <1>2, CallTypes, EmptySeq DEF Inv, DataInv
<1>4. c \in Calls /\ c.got = <<>> /\ c.want = call[p].want /\ c.from = pos[f]
  BY <1>2, <1>3 DEF Calls
<1> HIDE DEF c
<1>5. /\ pc'[p] = "chunk" /\ call'[p] = c
      /\ \A q \in Proc \ {p} : pc'[q] = pc[q] /\ call'[q] = call[q]
  BY <1>1 DEF Inv, ControlInv, ControlTypes, DataInv, DataTypes
<1>6. DataTypes'
  BY <1>1, <1>4 DEF Inv, DataInv, DataTypes
<1>7. OwnBytes(p)'
  <2>1. call'[p].got = <<>> /\ call'[p].from \in Nat
    BY <1>2, <1>4, <1>5
  <2> QED BY <2>1, NothingGot, Zenon DEF OwnBytes
<1>8. GotInv(p)'
  <2>1. /\ Len(call'[p].got) = 0 /\ call'[p].want \in Nat /\ call'[p].from = pos[f]
        /\ pc'[p] = "chunk" /\ pos' = pos /\ pos[f] \in Nat
    BY <1>1, <1>2, <1>3, <1>4, <1>5
  <2> HIDE ConstantsAssumption
  <2> QED BY <2>1 DEF GotInv
<1> QED BY <1>1, <1>5, <1>6, <1>7, <1>8, StepData

LEMMA seekData ==
  ASSUME Inv, NEW p \in Proc, seek(p)
  PROVE  DataInv'
<1>1. running = p /\ pc[p] = "chunk" /\ UNCHANGED <<call, pos>> /\ Opened[p] # Device /\ Opened[p] \in File
  BY DEF seek, At, Inv, ControlInv, CallInv
<1>2. GotInv(p) /\ OwnBytes(p) /\ DataTypes
  BY DEF Inv, DataInv
<1>3. Chunk(p) \in Nat /\ (Chunk(p) > 0 => ChunkStart(p) \in Nat)
  BY <1>1, <1>2, ChunkOfFile DEF GotInv
<1>4. OwnBytes(p)' /\ Chunk(p)' = Chunk(p) /\ ChunkStart(p)' = ChunkStart(p)
  BY <1>1, <1>2 DEF OwnBytes, Chunk, ChunkStart
<1>5. CASE Chunk(p) = 0
  <2>1. Goto(p, "done") /\ cur' = cur
    BY <1>5 DEF seek
  <2>2. DataTypes'
    BY <1>1, <1>2, <2>1 DEF DataTypes
  <2>3. pc'[p] = "done" /\ \A q \in Proc \ {p} : pc'[q] = pc[q]
    BY <2>1 DEF Inv, ControlInv, ControlTypes
  <2>4. GotInv(p)'
    BY <1>1, <1>2, <2>3 DEF GotInv
  <2> QED BY <1>1, <1>4, <2>2, <2>3, <2>4, StepData
<1>6. CASE Chunk(p) # 0
  <2>1. Goto(p, "cur") /\ cur' = Moved(p)
    BY <1>6 DEF seek
  <2>2. ChunkStart(p) \in Nat /\ Chunk(p) > 0
    BY <1>3, <1>6
  <2>3. Smaller(ChunkStart(p), DeviceSize) \in 0..DeviceSize
    BY <2>2 DEF Smaller
  <2>4. DataTypes' /\ cur'[Volume] = Smaller(ChunkStart(p), DeviceSize)
    BY <1>1, <1>2, <2>1, <2>3 DEF DataTypes, Moved
  <2>5. pc'[p] = "cur" /\ \A q \in Proc \ {p} : pc'[q] = pc[q]
    BY <2>1 DEF Inv, ControlInv, ControlTypes
  <2>6. GotInv(p)'
    <3>1. Chunk(p)' > 0 /\ cur'[Volume] = Smaller(ChunkStart(p)', DeviceSize)
      BY <1>4, <2>2, <2>4
    <3> QED BY <1>1, <1>2, <2>5, <3>1 DEF GotInv
  <2> QED BY <1>1, <1>4, <2>4, <2>5, <2>6, StepData
<1> QED BY <1>5, <1>6

LEMMA LockCurData ==
  ASSUME Inv, NEW p \in Proc, LockCur(p)
  PROVE  DataInv'
<1>1. running = p /\ pc[p] = "cur" /\ UNCHANGED <<pos, cur>> /\ Goto(p, "submit")
  BY DEF LockCur, At
<1>2. GotInv(p) /\ OwnBytes(p) /\ DataTypes
  BY DEF Inv, DataInv
<1>3. pc'[p] = "submit" /\ \A q \in Proc \ {p} : pc'[q] = pc[q]
  BY <1>1 DEF Inv, ControlInv, ControlTypes
<1>4. CASE Opened[p] # Device
  <2>1. call' = call
    BY <1>4 DEF LockCur
  <2>2. DataTypes' /\ OwnBytes(p)'
    BY <1>1, <1>2, <2>1 DEF DataTypes, OwnBytes
  <2>3. GotInv(p)'
    BY <1>1, <1>2, <1>3, <1>4, <2>1 DEF GotInv, Chunk, ChunkStart
  <2> QED BY <1>1, <1>3, <2>1, <2>2, <2>3, StepData
<1>5. CASE Opened[p] = Device
  <2> DEFINE c == [call[p] EXCEPT !.from = cur["device"]]
  <2>1. call' = [call EXCEPT ![p] = c]
    BY <1>5 DEF LockCur
  <2>2. cur["device"] \in Nat /\ Len(call[p].got) = 0 /\ call[p].want > 0
    BY <1>1, <1>2, <1>5 DEF DataTypes, GotInv
  <2>3. call[p] \in Calls /\ call[p].got = <<>> /\ call[p].want \in Nat
    BY <1>2, <2>2, CallTypes, EmptySeq
  <2>4. c \in Calls /\ c.got = <<>> /\ c.want = call[p].want /\ c.from = cur["device"]
    BY <2>2, <2>3 DEF Calls
  <2> HIDE DEF c
  <2>5. call'[p] = c /\ \A q \in Proc \ {p} : call'[q] = call[q]
    BY <1>2, <2>1 DEF DataTypes
  <2>6. DataTypes'
    BY <1>1, <1>2, <2>1, <2>4 DEF DataTypes
  <2>7. OwnBytes(p)'
    <3>1. call'[p].got = <<>> /\ call'[p].from \in Nat
      BY <2>2, <2>4, <2>5
    <3> QED BY <3>1, NothingGot, Zenon DEF OwnBytes
  <2>8. GotInv(p)'
    BY <1>1, <1>3, <1>5, <2>2, <2>3, <2>4, <2>5 DEF GotInv
  <2> QED BY <1>1, <1>3, <2>5, <2>6, <2>7, <2>8, StepData
<1> QED BY <1>4, <1>5

LEMMA SubmitData ==
  ASSUME Inv, NEW p \in Proc, Submit(p)
  PROVE  DataInv'
<1>1. running = p /\ pc[p] = "submit" /\ UNCHANGED <<call, pos, cur>>
  BY DEF Submit, At
<1>2. CASE UNCHANGED pc
  BY <1>1, <1>2, DataKept DEF Inv
<1>3. CASE Goto(p, "poll")
  <2>1. GotInv(p) /\ OwnBytes(p) /\ DataTypes
    BY DEF Inv, DataInv
  <2>2. DataTypes' /\ OwnBytes(p)'
    BY <1>1, <2>1 DEF DataTypes, OwnBytes
  <2>3. pc'[p] = "poll" /\ \A q \in Proc \ {p} : pc'[q] = pc[q]
    BY <1>3 DEF Inv, ControlInv, ControlTypes
  <2>4. GotInv(p)'
    BY <1>1, <2>1, <2>3 DEF GotInv, Chunk, ChunkStart
  <2> QED BY <1>1, <2>2, <2>3, <2>4, StepData
<1> QED BY <1>2, <1>3 DEF Submit

\* The bytes a poll copies are the next ones of the file: the shared cursor is
\* where the call's own seek put it.
LEMMA PollBytes ==
  ASSUME Inv, NEW p \in Proc, pc[p] = "poll",
         read_size(cur[MyHandle(p)], BufLen(p)) = BufLen(p)
  PROVE  LET n == BufLen(p)
             new == Bytes(cur[MyHandle(p)], n)
         IN  /\ n \in Nat \ {0} /\ cur[MyHandle(p)] + n \in 0..DeviceSize
             /\ Len(call[p].got) + n <= call[p].want
             /\ new \in Seq(Nat) /\ Len(new) = n
             /\ \A i \in 1..n : Content(Opened[p])[call[p].from + Len(call[p].got) + i] = new[i]
<1> DEFINE o == cur[MyHandle(p)]
           n == BufLen(p)
           g == Len(call[p].got)
           from == call[p].from
           want == call[p].want
           C == Content(Opened[p])
<1>1. DataTypes /\ GotInv(p)
  BY DEF Inv, DataInv
<1>2. o \in 0..DeviceSize /\ MyHandle(p) \in Handle
  BY <1>1 DEF DataTypes, MyHandle, Handle
<1>3. g \in Nat /\ from \in Nat /\ want \in Nat
  BY <1>1, CallTypes
<1>4. read_size(o, n) = n
  OBVIOUS
<1>5. n \in Nat \ {0} /\ g + n <= want
  <2>1. CASE Opened[p] = Device
    BY <1>1, <1>3, <2>1 DEF GotInv, BufLen
  <2>2. CASE Opened[p] # Device
    <3>1. n = Chunk(p) /\ Chunk(p) > 0 /\ g <= want
      BY <1>1, <2>2 DEF GotInv, BufLen
    <3> QED BY <1>1, <2>2, <3>1, ChunkOfFile
  <2> QED BY <2>1, <2>2
<1>6. \A i \in 1..n : C[from + g + i] = o + i - 1
  <2>1. CASE Opened[p] = Device
    <3>1. g = 0 /\ from = o
      BY <1>1, <2>1 DEF GotInv, MyHandle
    <3>2. C = [i \in 1..DeviceSize |-> i - 1]
      BY <2>1 DEF Content
    <3> HIDE DEF C, o, n, g, from
    <3>3. n <= DeviceSize - o
      BY <1>2, <1>4, <1>5 DEF read_size, Smaller
    <3> QED BY <1>2, <1>5, <3>1, <3>2, <3>3
  <2>2. CASE Opened[p] # Device
    <3>1. /\ n = Chunk(p) /\ g <= want /\ pos[Opened[p]] = from + g
          /\ o = Smaller(ChunkStart(p), DeviceSize)
      BY <1>1, <2>2 DEF GotInv, MyHandle, BufLen
    <3>2. ChunkStart(p) \in Nat /\ \A i \in 1..n : C[from + g + i] = ChunkStart(p) + i - 1
      <4>1. /\ Chunk(p) > 0 => ChunkStart(p) \in Nat
            /\ \A i \in 1..Chunk(p) : C[pos[Opened[p]] + i] = ChunkStart(p) + i - 1
        BY <1>1, <2>2, <3>1, ChunkOfFile
      <4> HIDE DEF C, n, g, from
      <4> QED BY <1>5, <3>1, <4>1
    <3> HIDE DEF C, o, n, g, from
    <3>3. n <= DeviceSize - o
      BY <1>2, <1>4, <1>5 DEF read_size, Smaller
    <3>4. o = ChunkStart(p)
      BY <1>2, <1>5, <3>1, <3>2, <3>3 DEF Smaller
    <3> QED BY <3>2, <3>4
  <2> QED BY <2>1, <2>2
<1>7. /\ Bytes(o, n) \in Seq(Nat) /\ Len(Bytes(o, n)) = n
      /\ \A i \in 1..n : Bytes(o, n)[i] = o + i - 1
  <2> HIDE DEF o, n
  <2> QED BY <1>2, <1>4, <1>5, BytesRead
<1>8. o + n \in 0..DeviceSize
  <2> HIDE DEF o, n
  <2> QED BY <1>2, <1>4, <1>5 DEF read_size, Smaller
<1>9. \A i \in 1..n : C[from + g + i] = Bytes(o, n)[i]
  <2> HIDE DEF o, n, C, from, g
  <2> QED BY <1>6, <1>7
<1> QED BY <1>5, <1>7, <1>8, <1>9

LEMMA PollData ==
  ASSUME Inv, NEW p \in Proc, Poll(p)
  PROVE  DataInv'
<1> DEFINE h == MyHandle(p)
           f == Opened[p]
           n == BufLen(p)
           new == Bytes(cur[h], n)
           old == call[p]
           c == [old EXCEPT !.got = @ \o new]
<1>1. running = p /\ pc[p] = "poll"
  BY DEF Poll, At
<1>2. DataTypes /\ GotInv(p) /\ OwnBytes(p)
  BY DEF Inv, DataInv
<1>3. CASE UNCHANGED <<pc, call, pos, cur>>
  BY <1>3, DataKept DEF Inv
<1>4. CASE /\ read_size(cur[h], n) = n
           /\ call' = [call EXCEPT ![p] = c] /\ cur' = [cur EXCEPT ![h] = @ + n]
           /\ pos' = IF h = Volume THEN [pos EXCEPT ![f] = @ + n] ELSE pos
           /\ Goto(p, IF h = Volume THEN "chunk" ELSE "done")
  <2>1. /\ n \in Nat \ {0} /\ cur[h] + n \in 0..DeviceSize /\ Len(old.got) + n <= old.want
        /\ new \in Seq(Nat) /\ Len(new) = n
        /\ \A i \in 1..n : Content(f)[old.from + Len(old.got) + i] = new[i]
    BY <1>1, <1>4, PollBytes
  <2>2. /\ old \in Calls /\ old.got \in Seq(Nat) /\ Len(old.got) \in Nat
        /\ old.want \in Nat /\ old.from \in Nat
    BY <1>2, CallTypes
  <2>3. old.got \o new \in Seq(Nat) /\ Len(old.got \o new) = Len(old.got) + n
    <3> HIDE DEF old, new, n
    <3> QED BY <2>1, <2>2, Appended
  <2>4. h \in Handle /\ (h = Volume <=> f # Device) /\ f \in File \cup {Device}
    BY DEF MyHandle, Handle, Volume
  <2>5. f # Device => /\ f \in File /\ pos[f] = old.from + Len(old.got) /\ n = Chunk(p)
                      /\ pos[f] + n <= Length[f]
    <3>1. f # Device => pos[f] = old.from + Len(old.got) /\ n = Chunk(p) /\ Len(old.got) <= old.want
      BY <1>1, <1>2 DEF GotInv, BufLen
    <3> QED BY <1>2, <2>4, <3>1, ChunkOfFile
  <2>6. c \in Calls /\ c.got = old.got \o new /\ c.want = old.want /\ c.from = old.from
    <3> HIDE DEF old, new, n
    <3> QED BY <2>2, <2>3 DEF Calls
  <2>7. old.got = SubSeq(Content(f), old.from + 1, old.from + Len(old.got))
    BY <1>2 DEF OwnBytes
  <2>8. c.got = SubSeq(Content(f), c.from + 1, c.from + Len(c.got))
    <3> HIDE DEF old, new, n, f, c
    <3>1. \A i \in 1..Len(new) : Content(f)[old.from + Len(old.got) + i] = new[i]
      BY <2>1
    <3> DEFINE got == old.got
               from == old.from
               C == Content(f)
    <3>2. /\ got \in Seq(Nat) /\ from \in Nat /\ new \in Seq(Nat)
          /\ got = SubSeq(C, from + 1, from + Len(got))
          /\ \A i \in 1..Len(new) : C[from + Len(got) + i] = new[i]
      BY <2>1, <2>2, <2>7, <3>1
    <3>3. c.got = got \o new /\ c.from = from
      BY <2>6
    <3> HIDE ConstantsAssumption
    <3> HIDE DEF got, from, C
    <3>4. got \o new = SubSeq(C, from + 1, from + Len(got \o new))
      BY <3>2, NextBytes
    <3>5. c.got = SubSeq(C, c.from + 1, c.from + Len(c.got))
      BY <3>3, <3>4, Zenon
    <3> QED BY <3>5 DEF C
  <2> HIDE DEF c, new
  <2>9. /\ call'[p] = c /\ pc'[p] = IF h = Volume THEN "chunk" ELSE "done"
        /\ \A q \in Proc \ {p} : pc'[q] = pc[q] /\ call'[q] = call[q]
    BY <1>2, <1>4 DEF Inv, ControlInv, ControlTypes, DataTypes
  <2>10. DataTypes' /\ (f # Device => pos'[f] = pos[f] + n)
    <3>1. call' \in [Proc -> Calls] /\ cur' \in [Handle -> 0..DeviceSize]
      BY <1>2, <1>4, <2>1, <2>4, <2>6 DEF DataTypes
    <3> HIDE DEF n, h, f, old
    <3>2. CASE f = Device
      BY <1>2, <1>4, <2>4, <3>1, <3>2 DEF DataTypes
    <3>3. CASE f # Device
      <4>1. pos' = [pos EXCEPT ![f] = pos[f] + n] /\ pos[f] + n \in Nat
        <5>1. h = Volume /\ f \in File
          BY <2>4, <3>3
        <5>2. pos[f] \in Nat
          BY <1>2, <5>1 DEF DataTypes
        <5>3. pos' = [pos EXCEPT ![f] = pos[f] + n]
          BY <1>4, <5>1
        <5> QED BY <2>1, <5>2, <5>3
      <4> QED BY <1>2, <2>5, <3>1, <3>3, <4>1 DEF DataTypes
    <3> QED BY <3>2, <3>3
  <2>11. OwnBytes(p)'
    BY <2>8, <2>9 DEF OwnBytes
  <2>12. GotInv(p)'
    <3>1. Len(c.got) = Len(old.got) + n /\ Len(c.got) <= c.want
      BY <2>1, <2>3, <2>6
    <3>2. pc'[p] = "chunk" /\ f # Device => pos'[f] = c.from + Len(c.got)
      <4> DEFINE g == Len(old.got)
                 from == old.from
      <4>1. g \in Nat /\ from \in Nat /\ n \in Nat
        BY <2>1, <2>2
      <4>2. f # Device => pos'[f] = pos[f] + n /\ pos[f] = from + g
        BY <2>5, <2>10
      <4>3. c.from = from /\ Len(c.got) = g + n
        BY <2>6, <3>1
      <4> HIDE DEF g, from, n, f
      <4> QED BY <4>1, <4>2, <4>3
    <3>3. pc'[p] \in {"chunk", "done"}
      BY <2>9
    <3> QED BY <2>9, <3>1, <3>2, <3>3 DEF GotInv
  <2> QED BY <1>1, <2>9, <2>10, <2>11, <2>12, StepData
<1> QED BY <1>3, <1>4 DEF Poll

LEMMA lseekData ==
  ASSUME Inv, NEW p \in Proc, NEW whence \in {"Set", "Cur", "End"}, NEW o \in Offsets,
         lseek(p, whence, o)
  PROVE  DataInv'
<1>1. running = p /\ pc[p] = "user" /\ pc' = pc /\ call' = call /\ o \in Int /\ DataTypes
  BY DEF lseek, At, Inv, DataInv
<1>2. \A a \in Int, b \in Int : Target(whence, a, b, o) \in Int
  BY <1>1 DEF Target
<1>3. DataTypes'
  <2>1. CASE Opened[p] = Device
    <3> DEFINE t == Target(whence, cur["device"], DeviceSize, o)
               d == IF t < 0 THEN DeviceSize ELSE Smaller(t, DeviceSize)
    <3>1. t \in Int
      BY <1>1, <1>2 DEF DataTypes, Handle
    <3>2. pos' = pos /\ (cur' = [cur EXCEPT !["device"] = d] \/ cur' = cur)
      BY <2>1 DEF lseek
    <3> HIDE DEF t
    <3>3. d \in 0..DeviceSize
      BY <3>1 DEF Smaller
    <3> HIDE DEF d
    <3> QED BY <1>1, <3>2, <3>3 DEF DataTypes
  <2>2. CASE Opened[p] # Device
    <3> DEFINE f == Opened[p]
               t == Target(whence, pos[f], Length[f], o)
               d == FatFSFile_seek(f, whence, o)
    <3>1. f \in File /\ pos[f] \in Nat /\ Length[f] \in Nat /\ pos[f] <= Length[f] /\ t \in Int
      BY <1>1, <1>2, <2>2 DEF DataTypes
    <3>2. d = IF t < 0 THEN pos[f] ELSE Smaller(t, Length[f])
      BY DEF FatFSFile_seek
    <3>3. cur' = cur /\ pos' = [pos EXCEPT ![f] = d]
      BY <2>2 DEF lseek
    <3> HIDE DEF d, t, f
    <3>4. d \in Nat /\ d <= Length[f]
      BY <3>1, <3>2 DEF Smaller
    <3> QED BY <1>1, <3>1, <3>3, <3>4 DEF DataTypes
  <2> QED BY <2>1, <2>2
<1>4. OwnBytes(p)'
  BY <1>1 DEF Inv, DataInv, OwnBytes
<1>5. GotInv(p)'
  BY <1>1 DEF Inv, DataInv, GotInv
<1> QED BY <1>1, <1>3, <1>4, <1>5, StepData

LEMMA ReturnData ==
  ASSUME Inv, NEW p \in Proc, Return(p)
  PROVE  DataInv'
<1>1. running = p /\ UNCHANGED <<call, pos, cur>> /\ Goto(p, "user")
  BY DEF Return, At
<1>2. pc'[p] = "user" /\ \A q \in Proc \ {p} : pc'[q] = pc[q]
  BY <1>1 DEF Inv, ControlInv, ControlTypes
<1>3. DataTypes' /\ OwnBytes(p)'
  BY <1>1 DEF Inv, DataInv, DataTypes, OwnBytes
<1>4. GotInv(p)'
  BY <1>1, <1>2 DEF Inv, DataInv, GotInv
<1> QED BY <1>1, <1>2, <1>3, <1>4, StepData

-----------------------------------------------------------------------------
(* The theorems *)

LEMMA NextInv ==
  ASSUME Inv, [Next]_vars
  PROVE  Inv'
<1>0. ControlInv /\ DataInv
  BY DEF Inv
<1>1. CASE enable_irq \/ register_interrupt_handler
  <2>1. UNCHANGED <<pc, call, pos, cur>>
    BY <1>1 DEF enable_irq, register_interrupt_handler, process
  <2> QED BY <1>0, <1>1, <2>1, BootControl, DataKept DEF Inv
<1>2. CASE claim
  <2>1. UNCHANGED <<pc, call, pos, cur>>
    BY <1>2 DEF claim, process
  <2> QED BY <1>0, <1>2, <2>1, claimControl, DataKept DEF Inv
<1>3. CASE handle_irq \/ complete \/ TrapReturn
  <2>1. UNCHANGED <<pc, call, pos, cur>>
    BY <1>3 DEF handle_irq, complete, TrapReturn, process
  <2> QED BY <1>0, <1>3, <2>1, HandleControl, DataKept DEF Inv
<1>4. CASE HandlerLock("VIRTIO_BLOCKS", "queue") \/ HandlerLock("queue", "peek_used")
  <2>1. UNCHANGED <<pc, call, pos, cur>>
    BY <1>4 DEF HandlerLock, process
  <2> QED BY <1>0, <1>4, <2>1, HandlerLockControl, DataKept DEF Inv
<1>5. CASE TakeInterrupt
  <2>1. UNCHANGED <<pc, call, pos, cur>>
    BY <1>5 DEF TakeInterrupt, process
  <2> QED BY <1>0, <1>5, <2>1, TakeInterruptControl, DataKept DEF Inv
<1>6. CASE Timer \/ DeviceCompletes \/ \E p \in Proc : Dispatch(p)
  <2>1. UNCHANGED <<pc, call, pos, cur>>
    BY <1>6 DEF Timer, DeviceCompletes, Dispatch, process
  <2> QED BY <1>0, <1>6, <2>1, HartControl, DataKept DEF Inv
<1>7. CASE \E p \in Proc : Steps(p)
  <2>1. PICK p \in Proc : Steps(p)
    BY <1>7
  <2>2. CASE LockFile(p)
    BY <1>0, <2>2, LockFileControl, LockFileData DEF Inv
  <2>3. CASE seek(p)
    BY <1>0, <2>3, seekControl, seekData DEF Inv
  <2>4. CASE LockCur(p)
    BY <1>0, <2>4, LockCurControl, LockCurData DEF Inv
  <2>5. CASE Submit(p)
    BY <1>0, <2>5, SubmitControl, SubmitData DEF Inv
  <2>6. CASE Poll(p)
    BY <1>0, <2>6, PollControl, PollData DEF Inv
  <2>7. CASE Return(p)
    BY <1>0, <2>7, ReturnControl, ReturnData DEF Inv
  <2> QED BY <2>1, <2>2, <2>3, <2>4, <2>5, <2>6, <2>7 DEF Steps
<1>8. CASE \E p \in Proc : \E len \in Lens : read(p, len)
  BY <1>0, <1>8, readControl, readData DEF Inv
<1>9. CASE \E p \in Proc, whence \in {"Set", "Cur", "End"}, o \in Offsets : lseek(p, whence, o)
  BY <1>0, <1>9, lseekControl, lseekData DEF Inv
<1>10. CASE UNCHANGED vars
  <2>1. UNCHANGED <<pc, call, pos, cur>>
    BY <1>10 DEF vars, process
  <2>2. ControlTypes' /\ CallInv'
    BY <1>0, <1>10 DEF vars, process, interrupt, ControlInv, ControlTypes, CallInv
  <2>3. HolderInv' /\ RequestInv'
    BY <1>0, <1>10 DEF vars, process, interrupt, ControlInv, HolderInv, RequestInv
  <2> QED BY <1>0, <2>1, <2>2, <2>3, DataKept DEF Inv, ControlInv
<1> QED
  <2>1. CASE Kernel
    BY <2>1, <1>1, <1>2, <1>3, <1>4, <1>7 DEF Kernel
  <2> QED BY <2>1, <1>5, <1>6, <1>8, <1>9, <1>10 DEF Next

LEMMA Invariance == Spec => []Inv
<1>1. Init => Inv
  BY InitControl, InitData DEF Inv
<1>2. Inv /\ [Next]_vars => Inv'
  BY NextInv
<1> QED BY <1>1, <1>2, PTL DEF Spec

\* block::interrupt_handler and handle_irq never spin on a lock of the code they
\* interrupted, and never find an answer of the device they have no request
\* for.  An interrupt is taken only where no read call is under way: a call
\* starts with interrupts off and keeps the hart to its end.
THEOREM HandlerIsFree == Spec => []HandlerFindsDeviceIdle
<1>1. ASSUME Inv
      PROVE  HandlerFindsDeviceIdle
  <2>1. ControlTypes /\ CallInv /\ HolderInv /\ RequestInv
    BY <1>1 DEF Inv, ControlInv
  <2>2. trap.at # "none" => \A p \in Proc : pc[p] = "user"
    BY <2>1 DEF CallInv, ControlTypes
  <2>3. trap.at = "peek_used" => used = {}
    BY <2>1, <2>2 DEF RequestInv
  <2>4. ASSUME trap.at \in {"VIRTIO_BLOCKS", "queue"}
        PROVE  holder[trap.at] = NoOne
    <3>1. trap.at \in Lock /\ holder[trap.at] \in Proc \cup {NoOne, Handler}
      BY <2>1, <2>4 DEF ControlTypes, Lock
    <3>2. holder[trap.at] \notin Proc /\ holder[trap.at] # Handler
      BY <2>1, <2>2, <2>4 DEF HolderInv
    <3> QED BY <3>1, <3>2
  <2> QED BY <2>3, <2>4 DEF HandlerFindsDeviceIdle
<1> QED BY <1>1, Invariance, PTL

\* FatFSFile::read gets the bytes of its own file, for any files, clusters,
\* sectors, lengths and seeks, although all files share VirtIOBlockFile::cur.
THEOREM OwnBytesRead == Spec => []ReadsOwnBytes
<1>1. Inv => ReadsOwnBytes
  BY DEF Inv, DataInv, OwnBytes, ReadsOwnBytes
<1> QED BY <1>1, Invariance, PTL
=============================================================================
