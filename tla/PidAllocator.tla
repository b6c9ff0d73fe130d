---------------------------- MODULE PidAllocator ----------------------------
(***************************************************************************)
(* process/pid.rs: RecycleAllocator, the allocator behind Pid.  max is the *)
(* largest identifier ever handed out, free the stack of returned ones.    *)
(* owners counts the Pid values that have an identifier: Pid::new makes    *)
(* one more, the Drop of a Pid one less.  Identifiers start at 1.          *)
(***************************************************************************)
EXTENDS Naturals, Sequences

CONSTANT MaxPid   \* bound of the model: no identifier above it is handed out

VARIABLES max, free, owners

vars == <<max, free, owners>>

\* Vec::contains, as used by the assertion of RecycleAllocator::free.
InFree(id) == \E i \in 1..Len(free) : free[i] = id

Init == max = 0 /\ free = <<>> /\ owners = [id \in 1..MaxPid |-> 0]

\* Mutated form of NextId: the counter before it is incremented.
NextId_NotIncremented == IF free # <<>> THEN free[Len(free)] ELSE max

\* The identifier RecycleAllocator::alloc is about to return: the last one
\* freed, or a new one.
NextId == IF free # <<>> THEN free[Len(free)] ELSE max + 1

\* Mutated form of alloc: what it returns stays on the stack.
alloc_NotPopped(id) ==
    /\ id = NextId
    /\ max' = IF free # <<>> THEN max ELSE max + 1
    /\ UNCHANGED free

\* RecycleAllocator::alloc returns id.
alloc(id) ==
    /\ id = NextId
    /\ IF free # <<>>
       THEN free' = SubSeq(free, 1, Len(free) - 1) /\ UNCHANGED max
       ELSE max' = max + 1 /\ UNCHANGED free

\* The two assertions of RecycleAllocator::free.
CanFree(id) == id <= max /\ ~InFree(id)

\* RecycleAllocator::free, after its assertions.
dealloc(id) == free' = Append(free, id) /\ UNCHANGED max

\* Pid::new.
New(id) == alloc(id) /\ owners' = [owners EXCEPT ![id] = @ + 1]

\* Drop of a Pid; a failed assertion panics, so nothing happens afterwards.
Drop(id) ==
    /\ owners[id] > 0
    /\ CanFree(id)
    /\ dealloc(id)
    /\ owners' = [owners EXCEPT ![id] = @ - 1]

Next ==
    \/ NextId <= MaxPid /\ New(NextId)
    \/ \E id \in 1..MaxPid : Drop(id)

Spec == Init /\ [][Next]_vars

-----------------------------------------------------------------------------
TypeOK == max \in Nat /\ free \in Seq(Nat) /\ owners \in [1..MaxPid -> Nat]

\* Every identifier of 1..max is either owned by exactly one Pid or on the
\* free stack, once: pid.rs hands out no identifier that is still owned, and
\* loses none (RecycleAllocator::alloc, free).
Partition ==
    /\ \A i, j \in 1..Len(free) : i # j => free[i] # free[j]
    /\ \A i \in 1..Len(free) : free[i] \in 1..max
    /\ \A id \in 1..MaxPid :
         owners[id] = IF id <= max /\ ~InFree(id) THEN 1 ELSE 0

\* Dropping a Pid never trips the assertions of RecycleAllocator::free
\* ("already freed", id <= max).
DropNeverPanics == \A id \in 1..MaxPid : owners[id] > 0 => CanFree(id)

\* The allocator is an IdPool of the Pids that exist: alloc never returns an
\* identifier in use, whatever order the Pids are dropped in.
Pool == INSTANCE IdPool WITH Ids <- 1..MaxPid
ImplementsIdPool == Pool!Spec
=============================================================================
