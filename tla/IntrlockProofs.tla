--------------------------- MODULE IntrlockProofs ---------------------------
(***************************************************************************)
(* Proofs about Intrlock for any number of threads, locks and nested traps.*)
(***************************************************************************)
EXTENDS Intrlock, FiniteSetTheorems, TLAPS

\* Between disable_trap in push_interrupt and the enable_trap that undoes it.
Masked == {"push", "borrow", "pop"}
InLock == {"read_sie", "disable", "push", "borrow"}
InYield == {"get", "getting", "switch", "set_read", "set_reading", "set_write",
            "set_writing"}

\* A context that is not the running one holds nothing and counts nothing.
OthersInv ==
    /\ \A c \in Ctx : c # top => guards[c] = {} /\ pc[c] \notin Masked
    /\ \A c \in Ctx : c # top /\ pc[c] = "disable" => old_sie[c]

\* A level that is not on the stack is not inside anything.
StackInv == \A c \in Ctx : c[2] > level[c[1]] => pc[c] = "idle"

\* The running context is interruptible only outside its locks.
TopInv == sie => guards[top] = {} /\ pc[top] \notin Masked

\* A guard's lock is taken; a lock being taken is not guarded yet, and only
\* one context is taking it.
LocksInv ==
    \A c \in Ctx :
        /\ guards[c] \subseteq locked
        /\ pc[c] \in InLock => cur[c] \in locked \ guards[c]
        /\ \A d \in Ctx \ {c} : pc[c] \in InLock =>
             cur[c] \notin guards[d] /\ (pc[d] \in InLock => cur[d] # cur[c])

\* _do_yield runs without guards, so it reads and writes depth 0.
YieldInv ==
    \A c \in Ctx :
        /\ pc[c] \in InYield => guards[c] = {}
        /\ pc[c] \in {"set_write", "set_writing"} => local_depth[c] = 0

\* Where the SIE to be restored is kept.
BaseInv ==
    /\ pc[top] \notin Masked /\ guards[top] = {} => sie = base
    /\ pc[top] \in {"disable", "push"} /\ guards[top] = {} => old_sie[top] = base
    /\ depth > 0 => enabled = base

Inv == /\ TypeOK /\ OthersInv /\ StackInv /\ TopInv /\ LocksInv /\ YieldInv
       /\ DepthCountsGuards /\ BaseInv /\ PopNeverPanics

USE ConstantsAssumption
    DEF lockVars, infoVars, localVars, hartVars, Pcs, At, Goto, Masked, InLock, InYield

\* Counting the guards of one context.
LEMMA GuardCount ==
  ASSUME NEW G \in SUBSET Locks
  PROVE  /\ Cardinality(G) \in Nat
         /\ Cardinality(G) = 0 <=> G = {}
         /\ \A l \in Locks \ G : Cardinality(G \cup {l}) = Cardinality(G) + 1
         /\ \A l \in G : Cardinality(G \ {l}) = Cardinality(G) - 1
<1>1. IsFiniteSet(G)
  BY FS_Subset
<1> QED BY <1>1, FS_CardinalityType, FS_EmptySet, FS_AddElement, FS_RemoveElement

LEMMA TopFacts ==
  ASSUME TypeOK
  PROVE  /\ top \in Ctx /\ top[1] = run /\ top[2] = level[run]
         /\ guards[top] \in SUBSET Locks
         /\ Cardinality(guards[top]) \in Nat
         /\ Cardinality(guards[top]) = 0 <=> guards[top] = {}
         /\ \A c \in Ctx : c[2] > level[c[1]] => c # top
<1>1. top \in Ctx /\ top[1] = run /\ top[2] = level[run]
  BY DEF TypeOK, top, Ctx
<1>2. guards[top] \in SUBSET Locks
  BY <1>1 DEF TypeOK
<1>3. level[run] \in Int
  BY DEF TypeOK
<1>4. \A c \in Ctx : c[2] > level[c[1]] => c # top
  BY <1>1, <1>3
<1> QED BY <1>1, <1>2, <1>4, GuardCount

LEMMA InitInv == Init => Inv
<1> SUFFICES ASSUME Init PROVE Inv
  OBVIOUS
<1>1. TypeOK
  <2>1. level \in [Threads -> 0..MaxNest]
    BY DEF Init
  <2>2. local_depth \in [Ctx -> Nat] /\ guards \in [Ctx -> SUBSET Locks]
    BY DEF Init
  <2>3. old_sie \in [Ctx -> BOOLEAN] /\ local_enabled \in [Ctx -> BOOLEAN]
    BY DEF Init
  <2> QED BY <2>1, <2>2, <2>3 DEF Init, TypeOK
<1>2. top \in Ctx /\ Cardinality({}) = 0
  BY <1>1, TopFacts, FS_EmptySet
<1> QED
  BY <1>1, <1>2
     DEF Init, Inv, OthersInv, StackInv, TopInv, LocksInv, YieldInv,
         DepthCountsGuards, InPush, BaseInv, PopNeverPanics, Ctx

-----------------------------------------------------------------------------
\* The actions that leave the running context on the hart.

\* A lock is taken: by nobody else, so it is not guarded.
LEMMA AcquireInv ==
  ASSUME Inv, NEW l \in Locks, Acquire(l)
  PROVE  Inv'
<1> USE DEF Acquire
<1>1. top' = top
  BY DEF top
<1>2. /\ top \in Ctx
      /\ Cardinality(guards[top]) \in Nat
      /\ Cardinality(guards[top]) = 0 <=> guards[top] = {}
      /\ \A c \in Ctx : c[2] > level[c[1]] => c # top
  BY TopFacts DEF Inv
<1>3. TypeOK'
  BY <1>1, <1>2 DEF Inv, TypeOK
<1>4. OthersInv'
  BY <1>1, <1>2 DEF Inv, TypeOK, OthersInv, TopInv
<1>5. StackInv'
  BY <1>1, <1>2 DEF Inv, TypeOK, StackInv
<1>6. TopInv'
  BY <1>1, <1>2 DEF Inv, TypeOK, TopInv
<1>7. LocksInv'
  BY <1>1, <1>2 DEF Inv, TypeOK, OthersInv, LocksInv
<1>8. YieldInv'
  BY <1>1, <1>2 DEF Inv, TypeOK, YieldInv, DepthCountsGuards, InPush
<1>9. DepthCountsGuards'
  BY <1>1, <1>2 DEF Inv, TypeOK, TopInv, YieldInv, DepthCountsGuards, InPush
<1>10. BaseInv'
  BY <1>1, <1>2 DEF Inv, TypeOK, OthersInv, TopInv, YieldInv, DepthCountsGuards, InPush, BaseInv
<1>11. PopNeverPanics'
  BY <1>1, <1>2 DEF Inv, TopInv, DepthCountsGuards, InPush, PopNeverPanics
<1> QED BY <1>3, <1>4, <1>5, <1>6, <1>7, <1>8, <1>9, <1>10, <1>11 DEF Inv

\* push_interrupt reads SIE.
LEMMA ReadSieInv ==
  ASSUME Inv, ReadSie
  PROVE  Inv'
<1> USE DEF ReadSie
<1>1. top' = top
  BY DEF top
<1>2. /\ top \in Ctx
      /\ Cardinality(guards[top]) \in Nat
      /\ Cardinality(guards[top]) = 0 <=> guards[top] = {}
      /\ \A c \in Ctx : c[2] > level[c[1]] => c # top
  BY TopFacts DEF Inv
<1>3. TypeOK'
  BY <1>1, <1>2 DEF Inv, TypeOK
<1>4. OthersInv'
  BY <1>1, <1>2 DEF Inv, TypeOK, OthersInv, TopInv
<1>5. StackInv'
  BY <1>1, <1>2 DEF Inv, TypeOK, StackInv
<1>6. TopInv'
  BY <1>1, <1>2 DEF Inv, TypeOK, TopInv
<1>7. LocksInv'
  BY <1>1, <1>2 DEF Inv, TypeOK, OthersInv, LocksInv
<1>8. YieldInv'
  BY <1>1, <1>2 DEF Inv, TypeOK, YieldInv, DepthCountsGuards, InPush
<1>9. DepthCountsGuards'
  BY <1>1, <1>2 DEF Inv, TypeOK, TopInv, YieldInv, DepthCountsGuards, InPush
<1>10. BaseInv'
  BY <1>1, <1>2 DEF Inv, TypeOK, OthersInv, TopInv, YieldInv, DepthCountsGuards, InPush, BaseInv
<1>11. PopNeverPanics'
  BY <1>1, <1>2 DEF Inv, TopInv, DepthCountsGuards, InPush, PopNeverPanics
<1> QED BY <1>3, <1>4, <1>5, <1>6, <1>7, <1>8, <1>9, <1>10, <1>11 DEF Inv

\* push_interrupt clears SIE.
LEMMA DisableInv ==
  ASSUME Inv, Disable
  PROVE  Inv'
<1> USE DEF Disable
<1>1. top' = top
  BY DEF top
<1>2. /\ top \in Ctx
      /\ Cardinality(guards[top]) \in Nat
      /\ Cardinality(guards[top]) = 0 <=> guards[top] = {}
      /\ \A c \in Ctx : c[2] > level[c[1]] => c # top
  BY TopFacts DEF Inv
<1>3. TypeOK'
  BY <1>1, <1>2 DEF Inv, TypeOK
<1>4. OthersInv'
  BY <1>1, <1>2 DEF Inv, TypeOK, OthersInv, TopInv
<1>5. StackInv'
  BY <1>1, <1>2 DEF Inv, TypeOK, StackInv
<1>6. TopInv'
  BY <1>1, <1>2 DEF Inv, TypeOK, TopInv
<1>7. LocksInv'
  BY <1>1, <1>2 DEF Inv, TypeOK, OthersInv, LocksInv
<1>8. YieldInv'
  BY <1>1, <1>2 DEF Inv, TypeOK, YieldInv, DepthCountsGuards, InPush
<1>9. DepthCountsGuards'
  BY <1>1, <1>2 DEF Inv, TypeOK, TopInv, YieldInv, DepthCountsGuards, InPush
<1>10. BaseInv'
  BY <1>1, <1>2 DEF Inv, TypeOK, OthersInv, TopInv, YieldInv, DepthCountsGuards, InPush, BaseInv
<1>11. PopNeverPanics'
  BY <1>1, <1>2 DEF Inv, TopInv, DepthCountsGuards, InPush, PopNeverPanics
<1> QED BY <1>3, <1>4, <1>5, <1>6, <1>7, <1>8, <1>9, <1>10, <1>11 DEF Inv

\* push_interrupt counts.
LEMMA PushInv ==
  ASSUME Inv, Push
  PROVE  Inv'
<1> USE DEF Push
<1>1. top' = top
  BY DEF top
<1>2. /\ top \in Ctx
      /\ Cardinality(guards[top]) \in Nat
      /\ Cardinality(guards[top]) = 0 <=> guards[top] = {}
      /\ \A c \in Ctx : c[2] > level[c[1]] => c # top
  BY TopFacts DEF Inv
<1>3. TypeOK'
  BY <1>1, <1>2 DEF Inv, TypeOK
<1>4. OthersInv'
  BY <1>1, <1>2 DEF Inv, TypeOK, OthersInv, TopInv
<1>5. StackInv'
  BY <1>1, <1>2 DEF Inv, TypeOK, StackInv
<1>6. TopInv'
  BY <1>1, <1>2 DEF Inv, TypeOK, TopInv
<1>7. LocksInv'
  BY <1>1, <1>2 DEF Inv, TypeOK, OthersInv, LocksInv
<1>8. YieldInv'
  BY <1>1, <1>2 DEF Inv, TypeOK, YieldInv, DepthCountsGuards, InPush
<1>9. DepthCountsGuards'
  BY <1>1, <1>2 DEF Inv, TypeOK, TopInv, YieldInv, DepthCountsGuards, InPush
<1>10. BaseInv'
  BY <1>1, <1>2 DEF Inv, TypeOK, OthersInv, TopInv, YieldInv, DepthCountsGuards, InPush, BaseInv
<1>11. PopNeverPanics'
  BY <1>1, <1>2 DEF Inv, TopInv, DepthCountsGuards, InPush, PopNeverPanics
<1> QED BY <1>3, <1>4, <1>5, <1>6, <1>7, <1>8, <1>9, <1>10, <1>11 DEF Inv

\* The guard comes to exist.
LEMMA BorrowInv ==
  ASSUME Inv, Borrow
  PROVE  Inv'
<1> USE DEF Borrow
<1>1. top' = top
  BY DEF top
<1>2. /\ top \in Ctx
      /\ Cardinality(guards[top]) \in Nat
      /\ Cardinality(guards[top]) = 0 <=> guards[top] = {}
      /\ \A c \in Ctx : c[2] > level[c[1]] => c # top
  BY TopFacts DEF Inv
<1>3. TypeOK'
  <2>1. pc[top] = "borrow" /\ cur[top] \in Locks
    BY <1>2 DEF Inv, LocksInv, TypeOK
  <2>2. CASE cur[top] \in borrowed
    BY <2>2 DEF Inv, TypeOK
  <2>3. CASE cur[top] \notin borrowed
    BY <1>2, <2>1, <2>3 DEF Inv, TypeOK
  <2> QED BY <2>2, <2>3
<1>4. OthersInv'
  BY <1>1, <1>2 DEF Inv, TypeOK, OthersInv, TopInv
<1>5. StackInv'
  BY <1>1, <1>2 DEF Inv, TypeOK, StackInv
<1>6. TopInv'
  BY <1>1, <1>2 DEF Inv, TypeOK, TopInv
<1>7. LocksInv'
  <2>1. pc[top] = "borrow" /\ cur[top] \in locked
    BY <1>2 DEF Inv, LocksInv
  <2>2. CASE cur[top] \in borrowed
    BY <2>2 DEF Inv, LocksInv
  <2>3. CASE cur[top] \notin borrowed
    BY <1>2, <2>1, <2>3 DEF Inv, TypeOK, LocksInv
  <2> QED BY <2>2, <2>3
<1>8. YieldInv'
  BY <1>1, <1>2 DEF Inv, TypeOK, YieldInv, DepthCountsGuards, InPush
<1>9. DepthCountsGuards'
  <2>1. /\ pc[top] = "borrow" /\ cur[top] \in locked \ guards[top]
        /\ guards[top] \in SUBSET Locks /\ cur[top] \in Locks
    BY <1>2 DEF Inv, TypeOK, LocksInv
  <2>2. Cardinality(guards[top] \cup {cur[top]}) = Cardinality(guards[top]) + 1
    BY <2>1, GuardCount
  <2>3. ~sie
    BY <2>1 DEF Inv, TopInv
  <2>4. CASE cur[top] \in borrowed
    BY <1>1, <2>4 DEF Inv, DepthCountsGuards, InPush
  <2>5. CASE cur[top] \notin borrowed
    <3>1. guards'[top] = guards[top] \cup {cur[top]} /\ pc'[top] = "idle"
      BY <1>2, <2>5 DEF Inv, TypeOK
    <3>2. depth = Cardinality(guards[top]) + 1 /\ depth' = depth /\ sie' = sie
      BY <2>1 DEF Inv, DepthCountsGuards, InPush
    <3> QED BY <1>1, <1>2, <2>2, <2>3, <3>1, <3>2 DEF DepthCountsGuards, InPush
  <2> QED BY <2>4, <2>5
<1>10. BaseInv'
  <2>1. pc[top] = "borrow" /\ depth' = depth /\ enabled' = enabled /\ base' = base
    OBVIOUS
  <2>2. CASE cur[top] \in borrowed
    BY <1>1, <2>1, <2>2 DEF Inv, BaseInv
  <2>3. CASE cur[top] \notin borrowed
    <3>1. guards'[top] = guards[top] \cup {cur[top]} /\ pc'[top] = "idle"
      BY <1>2, <2>3 DEF Inv, TypeOK
    <3> QED BY <1>1, <2>1, <3>1 DEF Inv, BaseInv
  <2> QED BY <2>2, <2>3
<1>11. PopNeverPanics'
  BY <1>1, <1>2 DEF Inv, TopInv, DepthCountsGuards, InPush, PopNeverPanics
<1> QED BY <1>3, <1>4, <1>5, <1>6, <1>7, <1>8, <1>9, <1>10, <1>11 DEF Inv

\* The drop of a guard begins.
LEMMA UnlockInv ==
  ASSUME Inv, NEW l \in Locks, Unlock(l)
  PROVE  Inv'
<1> USE DEF Unlock
<1>1. top' = top
  BY DEF top
<1>2. /\ top \in Ctx
      /\ Cardinality(guards[top]) \in Nat
      /\ Cardinality(guards[top]) = 0 <=> guards[top] = {}
      /\ \A c \in Ctx : c[2] > level[c[1]] => c # top
  BY TopFacts DEF Inv
<1>3. TypeOK'
  BY <1>1, <1>2 DEF Inv, TypeOK
<1>4. OthersInv'
  BY <1>1, <1>2 DEF Inv, TypeOK, OthersInv, TopInv
<1>5. StackInv'
  BY <1>1, <1>2 DEF Inv, TypeOK, StackInv
<1>6. TopInv'
  BY <1>1, <1>2 DEF Inv, TypeOK, TopInv
<1>7. LocksInv'
  BY <1>1, <1>2 DEF Inv, TypeOK, OthersInv, LocksInv
<1>8. YieldInv'
  BY <1>1, <1>2 DEF Inv, TypeOK, YieldInv, DepthCountsGuards, InPush
<1>9. DepthCountsGuards'
  <2>1. Cardinality(guards[top] \ {l}) = Cardinality(guards[top]) - 1
    BY <1>2, GuardCount DEF Inv, TypeOK
  <2>2. ~sie
    BY DEF Inv, TopInv
  <2> QED BY <1>1, <1>2, <2>1, <2>2 DEF Inv, TypeOK, DepthCountsGuards, InPush
<1>10. BaseInv'
  BY <1>1, <1>2 DEF Inv, TypeOK, OthersInv, TopInv, YieldInv, DepthCountsGuards, InPush, BaseInv
<1>11. PopNeverPanics'
  BY <1>1, <1>2 DEF Inv, TopInv, DepthCountsGuards, InPush, PopNeverPanics
<1> QED BY <1>3, <1>4, <1>5, <1>6, <1>7, <1>8, <1>9, <1>10, <1>11 DEF Inv

\* pop_interrupt: its assertions hold.
LEMMA PopInv ==
  ASSUME Inv, Pop
  PROVE  Inv'
<1> USE DEF Pop
<1>1. top' = top
  BY DEF top
<1>2. /\ top \in Ctx
      /\ Cardinality(guards[top]) \in Nat
      /\ Cardinality(guards[top]) = 0 <=> guards[top] = {}
      /\ \A c \in Ctx : c[2] > level[c[1]] => c # top
  BY TopFacts DEF Inv
<1>3. TypeOK'
  BY <1>1, <1>2 DEF Inv, TypeOK
<1>4. OthersInv'
  <2>1. ~sie /\ depth # 0 /\ depth = Cardinality(guards[top]) + 1
    BY <1>2 DEF Inv, TopInv, DepthCountsGuards, InPush
  <2>2. /\ depth' = depth - 1 /\ sie' = (depth = 1 /\ enabled)
        /\ pc' = [pc EXCEPT ![top] = "release"]
        /\ UNCHANGED <<guards, enabled, base>>
    BY <2>1
  <2> QED BY <1>1, <1>2, <2>2 DEF Inv, TypeOK, OthersInv
<1>5. StackInv'
  BY <1>1, <1>2 DEF Inv, TypeOK, StackInv
<1>6. TopInv'
  <2>1. ~sie /\ depth # 0 /\ depth = Cardinality(guards[top]) + 1
    BY <1>2 DEF Inv, TopInv, DepthCountsGuards, InPush
  <2>2. /\ depth' = depth - 1 /\ sie' = (depth = 1 /\ enabled)
        /\ pc' = [pc EXCEPT ![top] = "release"]
        /\ UNCHANGED <<guards, enabled, base>>
    BY <2>1
  <2> QED BY <1>1, <1>2, <2>1, <2>2 DEF Inv, TypeOK, TopInv
<1>7. LocksInv'
  BY <1>1, <1>2 DEF Inv, TypeOK, OthersInv, LocksInv
<1>8. YieldInv'
  BY <1>1, <1>2 DEF Inv, TypeOK, YieldInv, DepthCountsGuards, InPush
<1>9. DepthCountsGuards'
  <2>1. ~sie /\ depth # 0 /\ depth = Cardinality(guards[top]) + 1
    BY <1>2 DEF Inv, TopInv, DepthCountsGuards, InPush
  <2>2. /\ depth' = depth - 1 /\ sie' = (depth = 1 /\ enabled)
        /\ pc' = [pc EXCEPT ![top] = "release"]
        /\ UNCHANGED <<guards, enabled, base>>
    BY <2>1
  <2> QED BY <1>1, <1>2, <2>1, <2>2 DEF Inv, TypeOK, DepthCountsGuards, InPush
<1>10. BaseInv'
  BY <1>1, <1>2 DEF Inv, TypeOK, OthersInv, TopInv, YieldInv, DepthCountsGuards, InPush, BaseInv
<1>11. PopNeverPanics'
  BY <1>1, <1>2 DEF Inv, TopInv, DepthCountsGuards, InPush, PopNeverPanics
<1> QED BY <1>3, <1>4, <1>5, <1>6, <1>7, <1>8, <1>9, <1>10, <1>11 DEF Inv

\* The borrow ends.
LEMMA ReleaseInv ==
  ASSUME Inv, Release
  PROVE  Inv'
<1> USE DEF Release
<1>1. top' = top
  BY DEF top
<1>2. /\ top \in Ctx
      /\ Cardinality(guards[top]) \in Nat
      /\ Cardinality(guards[top]) = 0 <=> guards[top] = {}
      /\ \A c \in Ctx : c[2] > level[c[1]] => c # top
  BY TopFacts DEF Inv
<1>3. TypeOK'
  BY <1>1, <1>2 DEF Inv, TypeOK
<1>4. OthersInv'
  BY <1>1, <1>2 DEF Inv, TypeOK, OthersInv, TopInv
<1>5. StackInv'
  BY <1>1, <1>2 DEF Inv, TypeOK, StackInv
<1>6. TopInv'
  BY <1>1, <1>2 DEF Inv, TypeOK, TopInv
<1>7. LocksInv'
  BY <1>1, <1>2 DEF Inv, TypeOK, OthersInv, LocksInv
<1>8. YieldInv'
  BY <1>1, <1>2 DEF Inv, TypeOK, YieldInv, DepthCountsGuards, InPush
<1>9. DepthCountsGuards'
  BY <1>1, <1>2 DEF Inv, TypeOK, TopInv, YieldInv, DepthCountsGuards, InPush
<1>10. BaseInv'
  BY <1>1, <1>2 DEF Inv, TypeOK, OthersInv, TopInv, YieldInv, DepthCountsGuards, InPush, BaseInv
<1>11. PopNeverPanics'
  BY <1>1, <1>2 DEF Inv, TopInv, DepthCountsGuards, InPush, PopNeverPanics
<1> QED BY <1>3, <1>4, <1>5, <1>6, <1>7, <1>8, <1>9, <1>10, <1>11 DEF Inv

\* A trap from user mode.
LEMMA UserTrapInv ==
  ASSUME Inv, UserTrap
  PROVE  Inv'
<1> USE DEF UserTrap
<1>1. top' = top
  BY DEF top
<1>2. /\ top \in Ctx
      /\ Cardinality(guards[top]) \in Nat
      /\ Cardinality(guards[top]) = 0 <=> guards[top] = {}
      /\ \A c \in Ctx : c[2] > level[c[1]] => c # top
  BY TopFacts DEF Inv
<1>3. TypeOK'
  BY <1>1, <1>2 DEF Inv, TypeOK
<1>4. OthersInv'
  BY <1>1, <1>2 DEF Inv, TypeOK, OthersInv, TopInv
<1>5. StackInv'
  BY <1>1, <1>2 DEF Inv, TypeOK, StackInv
<1>6. TopInv'
  BY <1>1, <1>2 DEF Inv, TypeOK, TopInv
<1>7. LocksInv'
  BY <1>1, <1>2 DEF Inv, TypeOK, OthersInv, LocksInv
<1>8. YieldInv'
  BY <1>1, <1>2 DEF Inv, TypeOK, YieldInv, DepthCountsGuards, InPush
<1>9. DepthCountsGuards'
  BY <1>1, <1>2 DEF Inv, TypeOK, TopInv, YieldInv, DepthCountsGuards, InPush
<1>10. BaseInv'
  <2>1. depth = 0
    BY <1>2 DEF Inv, DepthCountsGuards, InPush
  <2>2. pc[top] = "idle" /\ pc' = pc /\ sie' = FALSE /\ base' = FALSE /\ depth' = depth
    OBVIOUS
  <2>3. sie' = base' /\ pc'[top'] = "idle"
    BY <1>1, <2>2, Zenon
  <2>4. ~(depth' > 0)
    BY <2>1, <2>2
  <2> QED BY <2>3, <2>4 DEF BaseInv
<1>11. PopNeverPanics'
  BY <1>1, <1>2 DEF Inv, TopInv, DepthCountsGuards, InPush, PopNeverPanics
<1> QED BY <1>3, <1>4, <1>5, <1>6, <1>7, <1>8, <1>9, <1>10, <1>11 DEF Inv

\* _do_yield is called.
LEMMA DoYieldInv ==
  ASSUME Inv, DoYield
  PROVE  Inv'
<1> USE DEF DoYield
<1>1. top' = top
  BY DEF top
<1>2. /\ top \in Ctx
      /\ Cardinality(guards[top]) \in Nat
      /\ Cardinality(guards[top]) = 0 <=> guards[top] = {}
      /\ \A c \in Ctx : c[2] > level[c[1]] => c # top
  BY TopFacts DEF Inv
<1>3. TypeOK'
  BY <1>1, <1>2 DEF Inv, TypeOK
<1>4. OthersInv'
  BY <1>1, <1>2 DEF Inv, TypeOK, OthersInv, TopInv
<1>5. StackInv'
  BY <1>1, <1>2 DEF Inv, TypeOK, StackInv
<1>6. TopInv'
  BY <1>1, <1>2 DEF Inv, TypeOK, TopInv
<1>7. LocksInv'
  BY <1>1, <1>2 DEF Inv, TypeOK, OthersInv, LocksInv
<1>8. YieldInv'
  BY <1>1, <1>2 DEF Inv, TypeOK, YieldInv, DepthCountsGuards, InPush
<1>9. DepthCountsGuards'
  BY <1>1, <1>2 DEF Inv, TypeOK, TopInv, YieldInv, DepthCountsGuards, InPush
<1>10. BaseInv'
  BY <1>1, <1>2 DEF Inv, TypeOK, OthersInv, TopInv, YieldInv, DepthCountsGuards, InPush, BaseInv
<1>11. PopNeverPanics'
  BY <1>1, <1>2 DEF Inv, TopInv, DepthCountsGuards, InPush, PopNeverPanics
<1> QED BY <1>3, <1>4, <1>5, <1>6, <1>7, <1>8, <1>9, <1>10, <1>11 DEF Inv

\* _do_yield locks trap_info.
LEMMA LockTrapInfoInv ==
  ASSUME Inv, LockTrapInfo
  PROVE  Inv'
<1> USE DEF LockTrapInfo
<1>1. top' = top
  BY DEF top
<1>2. /\ top \in Ctx
      /\ Cardinality(guards[top]) \in Nat
      /\ Cardinality(guards[top]) = 0 <=> guards[top] = {}
      /\ \A c \in Ctx : c[2] > level[c[1]] => c # top
  BY TopFacts DEF Inv
<1>3. TypeOK'
  BY <1>1, <1>2 DEF Inv, TypeOK
<1>4. OthersInv'
  BY <1>1, <1>2 DEF Inv, TypeOK, OthersInv, TopInv
<1>5. StackInv'
  BY <1>1, <1>2 DEF Inv, TypeOK, StackInv
<1>6. TopInv'
  BY <1>1, <1>2 DEF Inv, TypeOK, TopInv
<1>7. LocksInv'
  BY <1>1, <1>2 DEF Inv, TypeOK, OthersInv, LocksInv
<1>8. YieldInv'
  BY <1>1, <1>2 DEF Inv, TypeOK, YieldInv, DepthCountsGuards, InPush
<1>9. DepthCountsGuards'
  BY <1>1, <1>2 DEF Inv, TypeOK, TopInv, YieldInv, DepthCountsGuards, InPush
<1>10. BaseInv'
  BY <1>1, <1>2 DEF Inv, TypeOK, OthersInv, TopInv, YieldInv, DepthCountsGuards, InPush, BaseInv
<1>11. PopNeverPanics'
  BY <1>1, <1>2 DEF Inv, TopInv, DepthCountsGuards, InPush, PopNeverPanics
<1> QED BY <1>3, <1>4, <1>5, <1>6, <1>7, <1>8, <1>9, <1>10, <1>11 DEF Inv

\* get_trap_enabled.
LEMMA GetTrapEnabledInv ==
  ASSUME Inv, GetTrapEnabled
  PROVE  Inv'
<1> USE DEF GetTrapEnabled
<1>1. top' = top
  BY DEF top
<1>2. /\ top \in Ctx
      /\ Cardinality(guards[top]) \in Nat
      /\ Cardinality(guards[top]) = 0 <=> guards[top] = {}
      /\ \A c \in Ctx : c[2] > level[c[1]] => c # top
  BY TopFacts DEF Inv
<1>3. TypeOK'
  BY <1>1, <1>2 DEF Inv, TypeOK
<1>4. OthersInv'
  BY <1>1, <1>2 DEF Inv, TypeOK, OthersInv, TopInv
<1>5. StackInv'
  BY <1>1, <1>2 DEF Inv, TypeOK, StackInv
<1>6. TopInv'
  BY <1>1, <1>2 DEF Inv, TypeOK, TopInv
<1>7. LocksInv'
  BY <1>1, <1>2 DEF Inv, TypeOK, OthersInv, LocksInv
<1>8. YieldInv'
  BY <1>1, <1>2 DEF Inv, TypeOK, YieldInv, DepthCountsGuards, InPush
<1>9. DepthCountsGuards'
  BY <1>1, <1>2 DEF Inv, TypeOK, TopInv, YieldInv, DepthCountsGuards, InPush
<1>10. BaseInv'
  BY <1>1, <1>2 DEF Inv, TypeOK, OthersInv, TopInv, YieldInv, DepthCountsGuards, InPush, BaseInv
<1>11. PopNeverPanics'
  BY <1>1, <1>2 DEF Inv, TopInv, DepthCountsGuards, InPush, PopNeverPanics
<1> QED BY <1>3, <1>4, <1>5, <1>6, <1>7, <1>8, <1>9, <1>10, <1>11 DEF Inv

\* set_trap_enabled reads depth 0 ...
LEMMA SetTrapReadInv ==
  ASSUME Inv, SetTrapRead
  PROVE  Inv'
<1> USE DEF SetTrapRead
<1>1. top' = top
  BY DEF top
<1>2. /\ top \in Ctx
      /\ Cardinality(guards[top]) \in Nat
      /\ Cardinality(guards[top]) = 0 <=> guards[top] = {}
      /\ \A c \in Ctx : c[2] > level[c[1]] => c # top
  BY TopFacts DEF Inv
<1>3. TypeOK'
  BY <1>1, <1>2 DEF Inv, TypeOK
<1>4. OthersInv'
  BY <1>1, <1>2 DEF Inv, TypeOK, OthersInv, TopInv
<1>5. StackInv'
  BY <1>1, <1>2 DEF Inv, TypeOK, StackInv
<1>6. TopInv'
  BY <1>1, <1>2 DEF Inv, TypeOK, TopInv
<1>7. LocksInv'
  BY <1>1, <1>2 DEF Inv, TypeOK, OthersInv, LocksInv
<1>8. YieldInv'
  BY <1>1, <1>2 DEF Inv, TypeOK, YieldInv, DepthCountsGuards, InPush
<1>9. DepthCountsGuards'
  BY <1>1, <1>2 DEF Inv, TypeOK, TopInv, YieldInv, DepthCountsGuards, InPush
<1>10. BaseInv'
  BY <1>1, <1>2 DEF Inv, TypeOK, OthersInv, TopInv, YieldInv, DepthCountsGuards, InPush, BaseInv
<1>11. PopNeverPanics'
  BY <1>1, <1>2 DEF Inv, TopInv, DepthCountsGuards, InPush, PopNeverPanics
<1> QED BY <1>3, <1>4, <1>5, <1>6, <1>7, <1>8, <1>9, <1>10, <1>11 DEF Inv

\* ... and writes it back, when it is still 0.
LEMMA SetTrapEnabledInv ==
  ASSUME Inv, SetTrapEnabled
  PROVE  Inv'
<1> USE DEF SetTrapEnabled
<1>1. top' = top
  BY DEF top
<1>2. /\ top \in Ctx
      /\ Cardinality(guards[top]) \in Nat
      /\ Cardinality(guards[top]) = 0 <=> guards[top] = {}
      /\ \A c \in Ctx : c[2] > level[c[1]] => c # top
  BY TopFacts DEF Inv
<1>3. TypeOK'
  BY <1>1, <1>2 DEF Inv, TypeOK
<1>4. OthersInv'
  BY <1>1, <1>2 DEF Inv, TypeOK, OthersInv, TopInv
<1>5. StackInv'
  BY <1>1, <1>2 DEF Inv, TypeOK, StackInv
<1>6. TopInv'
  BY <1>1, <1>2 DEF Inv, TypeOK, TopInv
<1>7. LocksInv'
  BY <1>1, <1>2 DEF Inv, TypeOK, OthersInv, LocksInv
<1>8. YieldInv'
  BY <1>1, <1>2 DEF Inv, TypeOK, YieldInv, DepthCountsGuards, InPush
<1>9. DepthCountsGuards'
  BY <1>1, <1>2 DEF Inv, TypeOK, TopInv, YieldInv, DepthCountsGuards, InPush
<1>10. BaseInv'
  BY <1>1, <1>2 DEF Inv, TypeOK, OthersInv, TopInv, YieldInv, DepthCountsGuards, InPush, BaseInv
<1>11. PopNeverPanics'
  BY <1>1, <1>2 DEF Inv, TopInv, DepthCountsGuards, InPush, PopNeverPanics
<1> QED BY <1>3, <1>4, <1>5, <1>6, <1>7, <1>8, <1>9, <1>10, <1>11 DEF Inv

-----------------------------------------------------------------------------
(***************************************************************************)
(* The actions that put another context on the hart: depth is 0, and the   *)
(* context that gets the hart holds nothing.                               *)
(***************************************************************************)
LEMMA KernelTrapInv ==
  ASSUME Inv, KernelTrap
  PROVE  Inv'
<1> USE DEF KernelTrap
<1>1. TypeOK'
  <2>1. level' \in [Threads -> 0..MaxNest] /\ sie' = FALSE /\ base' = FALSE
    BY DEF Inv, TypeOK
  <2> QED BY <2>1 DEF Inv, TypeOK
<1>2. /\ top \in Ctx /\ top' \in Ctx /\ top' # top
      /\ top'[2] > level[top'[1]]
      /\ Cardinality({}) = 0
  BY FS_EmptySet DEF Inv, TypeOK, top, Ctx
<1>3. /\ pc[top'] = "idle" /\ guards[top'] = {} /\ depth = 0
      /\ guards[top] = {} /\ pc[top] \notin Masked
      /\ pc[top] = "disable" => old_sie[top]
  BY <1>2 DEF Inv, TypeOK, OthersInv, StackInv, TopInv, DepthCountsGuards, BaseInv
<1>4. OthersInv'
  BY <1>2, <1>3 DEF Inv, OthersInv
<1>5. StackInv'
  BY DEF Inv, TypeOK, StackInv, Ctx
<1>6. (TopInv /\ BaseInv)'
  <2>1. sie' = FALSE /\ base' = FALSE /\ depth' = 0 /\ pc'[top'] = "idle"
    BY <1>3
  <2>2. sie' = base' /\ ~sie'
    BY <2>1, Zenon
  <2>3. ~(depth' > 0)
    BY <2>1
  <2> QED BY <2>1, <2>2, <2>3 DEF TopInv, BaseInv
<1>7. (LocksInv /\ YieldInv /\ PopNeverPanics)'
  BY DEF Inv, LocksInv, YieldInv, PopNeverPanics
<1>8. DepthCountsGuards'
  BY <1>2, <1>3 DEF DepthCountsGuards, InPush
<1> QED BY <1>1, <1>4, <1>5, <1>6, <1>7, <1>8 DEF Inv

LEMMA KernelTrapReturnInv ==
  ASSUME Inv, KernelTrapReturn
  PROVE  Inv'
<1> USE DEF KernelTrapReturn
<1>1. TypeOK'
  BY DEF Inv, TypeOK
<1>2. /\ top \in Ctx /\ top' \in Ctx /\ top' # top
      /\ Cardinality({}) = 0
  BY FS_EmptySet DEF Inv, TypeOK, top, Ctx
<1>3. /\ guards[top'] = {} /\ pc[top'] \notin Masked /\ depth = 0
      /\ pc[top'] = "disable" => old_sie[top']
  BY <1>2 DEF Inv, TypeOK, OthersInv, DepthCountsGuards, InPush
<1>4. OthersInv'
  BY <1>2, <1>3 DEF Inv, OthersInv
<1>5. StackInv'
  <2> SUFFICES ASSUME NEW c \in Ctx, c[2] > level'[c[1]]
               PROVE  pc[c] = "idle"
    BY DEF StackInv
  <2>1. c = <<c[1], c[2]>> /\ c[1] \in Threads /\ c[2] \in 0..MaxNest
    BY DEF Ctx
  <2>2. c = top \/ c[2] > level[c[1]]
    BY <2>1 DEF Inv, TypeOK, top
  <2> QED BY <2>2 DEF Inv, StackInv
<1>6. (TopInv /\ BaseInv)'
  <2>1. /\ sie' = TRUE /\ base' = TRUE /\ ~(depth' > 0)
        /\ guards'[top'] = {} /\ pc'[top'] \notin Masked
        /\ pc'[top'] = "disable" => old_sie'[top'] = TRUE
    BY <1>2, <1>3 DEF Inv, TypeOK
  <2> QED BY <2>1 DEF TopInv, BaseInv
<1>7. (LocksInv /\ YieldInv /\ PopNeverPanics)'
  BY DEF Inv, LocksInv, YieldInv, PopNeverPanics
<1>8. DepthCountsGuards'
  BY <1>2, <1>3 DEF DepthCountsGuards, InPush
<1> QED BY <1>1, <1>4, <1>5, <1>6, <1>7, <1>8 DEF Inv

LEMMA SwitchInv ==
  ASSUME Inv, NEW t \in Threads, Switch(t)
  PROVE  Inv'
<1> USE DEF Switch
<1>1. TypeOK'
  BY DEF Inv, TypeOK
<1>2. /\ top \in Ctx /\ top' \in Ctx
      /\ Cardinality({}) = 0
      /\ \A c \in Ctx : c[2] > level[c[1]] => c # top
  BY TopFacts, <1>1, FS_EmptySet DEF Inv, TypeOK, top, Ctx
<1>3. guards[top] = {} /\ depth = 0
  BY <1>2 DEF Inv, YieldInv, DepthCountsGuards, InPush
<1>4. \A c \in Ctx : /\ guards[c] = {} /\ pc'[c] \notin Masked
                     /\ pc'[c] = "disable" => old_sie[c]
  BY <1>2, <1>3 DEF Inv, TypeOK, OthersInv
<1>5. OthersInv'
  BY <1>4 DEF OthersInv
<1>6. StackInv'
  BY <1>2 DEF Inv, TypeOK, StackInv
<1>7. (TopInv /\ BaseInv)'
  <2>1. /\ sie' = TRUE /\ base' = TRUE /\ ~(depth' > 0)
        /\ guards'[top'] = {} /\ pc'[top'] \notin Masked
        /\ pc'[top'] = "disable" => old_sie'[top'] = TRUE
    BY <1>2, <1>3, <1>4 DEF Inv, TypeOK
  <2> QED BY <2>1 DEF TopInv, BaseInv
<1>8. (LocksInv /\ YieldInv /\ PopNeverPanics)'
  BY <1>2, <1>3 DEF Inv, TypeOK, LocksInv, YieldInv, PopNeverPanics
<1>9. DepthCountsGuards'
  <2>1. /\ guards'[top'] = {} /\ depth' = 0
        /\ pc'[top'] \notin {"borrow", "pop"}
    BY <1>2, <1>3, <1>4
  <2>2. Cardinality(guards'[top']) = 0
    BY <1>2, <2>1
  <2> HIDE DEF Switch
  <2> QED BY <2>1, <2>2 DEF DepthCountsGuards, InPush
<1> QED BY <1>1, <1>5, <1>6, <1>7, <1>8, <1>9 DEF Inv

LEMMA StutterInv ==
  ASSUME Inv, UNCHANGED vars
  PROVE  Inv'
<1>1. UNCHANGED top
  BY DEF vars, top
<1> QED
  BY <1>1 DEF vars, Inv, TypeOK, OthersInv, StackInv, TopInv, LocksInv, YieldInv,
              DepthCountsGuards, InPush, BaseInv, PopNeverPanics

-----------------------------------------------------------------------------
LEMMA StepInv == Inv /\ [Next]_vars => Inv'
  BY AcquireInv, UnlockInv, ReadSieInv, DisableInv, PushInv, BorrowInv, PopInv,
     ReleaseInv, UserTrapInv, KernelTrapInv, KernelTrapReturnInv, DoYieldInv,
     LockTrapInfoInv, GetTrapEnabledInv, SetTrapReadInv, SetTrapEnabledInv,
     SwitchInv, StutterInv DEF Next

\* Whoever holds an IntrlockGuard is neither interrupted nor switched out:
\* once push_interrupt has run, the comment on Intrlock is true.
THEOREM NotPreempted == Spec => []GuardsAreNotPreempted
<1>1. Inv => GuardsAreNotPreempted
  BY DEF Inv, OthersInv, TopInv, GuardsAreNotPreempted
<1> QED BY InitInv, StepInv, <1>1, PTL DEF Spec

\* trap_info.0 is exact, and 0 at every point where the hart can change hands.
THEOREM DepthIsExact == Spec => []DepthCountsGuards
<1>1. Inv => DepthCountsGuards
  BY DEF Inv
<1> QED BY InitInv, StepInv, <1>1, PTL DEF Spec

\* Dropping the last guard gives back the SIE the first one found.
THEOREM SieIsRestored == Spec => []SieRestored
<1>1. Inv => SieRestored
  BY DEF Inv, BaseInv, SieRestored
<1> QED BY InitInv, StepInv, <1>1, PTL DEF Spec

\* The assertions of pop_interrupt never fail.
THEOREM PopIsSafe == Spec => []PopNeverPanics
<1>1. Inv => PopNeverPanics
  BY DEF Inv
<1> QED BY InitInv, StepInv, <1>1, PTL DEF Spec
=============================================================================
