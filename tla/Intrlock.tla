------------------------------ MODULE Intrlock ------------------------------
(***************************************************************************)
(* core/intrlock.rs, core/interrupt_safe_cell.rs, the interrupt bookkeeping*)
(* of cpu/mod.rs (push_interrupt, pop_interrupt, trap_info) and _do_yield  *)
(* of process/task.rs, step by step, on one hart.                          *)
(*                                                                         *)
(* A thread is a kernel stack: the worker's or a process's.  A kernel trap *)
(* adds a level to the stack of the running thread.  A context is a thread *)
(* and a level; the running one is the top of the running thread.          *)
(*                                                                         *)
(* Left out: a thread that locks an Intrlock it already holds (it spins,   *)
(* see wait_for in module Process).                                        *)
(***************************************************************************)
EXTENDS Integers, FiniteSets

CONSTANTS
    Threads,
    Locks,     \* the Intrlocks
    None,
    MaxNest    \* bound of the model: kernel traps on one stack

ASSUME ConstantsAssumption ==
    /\ IsFiniteSet(Locks) /\ None \notin Locks
    /\ Threads # {}
    /\ MaxNest \in Nat

Ctx == Threads \X (0..MaxNest)

VARIABLES
    locked,       \* the locks whose AtomicBool is true
    borrowed,     \* the locks whose RefCell is mutably borrowed
    sie,          \* sstatus.SIE
    depth,        \* CPU::trap_info.0
    enabled,      \* CPU::trap_info.1
    trap_locked,  \* whether the Spinlock around trap_info is held
    run,          \* the running thread
    level,        \* the top level of each thread
    pc, cur,      \* where each context is, and in which lock
    guards,       \* the IntrlockGuards of each context
    old_sie,      \* the local of push_interrupt
    local_depth, local_enabled,  \* the copies of trap_info in _do_yield
    base,         \* SIE as the running context last got it from outside a lock
    panicked      \* the assertion that failed, "no" if none did

lockVars == <<locked, borrowed, guards, cur>>
localVars == <<local_depth, local_enabled>>
infoVars == <<depth, enabled, trap_locked, old_sie, localVars>>
hartVars == <<run, level, base>>
vars == <<lockVars, infoVars, hartVars, sie, pc, panicked>>

Pcs == {"idle", "read_sie", "disable", "push", "borrow", "pop", "release",
        "get", "getting", "switch", "set_read", "set_reading", "set_write", "set_writing"}

top == <<run, level[run]>>

Init ==
    /\ locked = {} /\ borrowed = {}
    /\ sie = TRUE /\ depth = 0 /\ enabled = FALSE /\ trap_locked = FALSE
    /\ run \in Threads
    /\ level = [t \in Threads |-> 0]
    /\ pc = [c \in Ctx |-> "idle"]
    /\ cur = [c \in Ctx |-> None]
    /\ guards = [c \in Ctx |-> {}]
    /\ old_sie = [c \in Ctx |-> FALSE]
    /\ local_depth = [c \in Ctx |-> 0]
    /\ local_enabled = [c \in Ctx |-> FALSE]
    /\ base = TRUE
    /\ panicked = "no"

At(l) == panicked = "no" /\ pc[top] = l

Goto(l) == pc' = [pc EXCEPT ![top] = l]

-----------------------------------------------------------------------------
\* Intrlock::lock: the compare_exchange that succeeds (a failing one spins).
Acquire(l) ==
    /\ At("idle")
    /\ l \notin locked
    /\ locked' = locked \cup {l}
    /\ cur' = [cur EXCEPT ![top] = l]
    /\ Goto("read_sie")
    /\ UNCHANGED <<borrowed, guards, infoVars, hartVars, sie, panicked>>

\* push_interrupt, in three steps: read SIE, clear it, count.
ReadSie ==
    /\ At("read_sie")
    /\ old_sie' = [old_sie EXCEPT ![top] = sie]
    /\ Goto("disable")
    /\ UNCHANGED <<lockVars, depth, enabled, trap_locked, localVars, hartVars, sie, panicked>>

\* Mutated form of Disable: SIE is left alone.
Disable_Missing ==
    /\ At("disable")
    /\ Goto("push")
    /\ UNCHANGED <<lockVars, infoVars, hartVars, sie, panicked>>

Disable ==
    /\ At("disable")
    /\ sie' = FALSE
    /\ Goto("push")
    /\ UNCHANGED <<lockVars, infoVars, hartVars, panicked>>

\* Mutated form of Push: the state before is recorded at every depth.
Push_AlwaysRecorded ==
    /\ At("push")
    /\ ~trap_locked
    /\ enabled' = old_sie[top]
    /\ depth' = depth + 1
    /\ Goto("borrow")
    /\ UNCHANGED <<lockVars, trap_locked, old_sie, localVars, hartVars, sie, panicked>>

Push ==
    /\ At("push")
    /\ ~trap_locked
    /\ enabled' = IF depth = 0 THEN old_sie[top] ELSE enabled
    /\ depth' = depth + 1
    /\ Goto("borrow")
    /\ UNCHANGED <<lockVars, trap_locked, old_sie, localVars, hartVars, sie, panicked>>

\* RefCell::borrow_mut, and the guard exists.
Borrow ==
    /\ At("borrow")
    /\ IF cur[top] \in borrowed
       THEN panicked' = "borrow_mut" /\ UNCHANGED <<borrowed, guards, pc>>
       ELSE /\ borrowed' = borrowed \cup {cur[top]}
            /\ guards' = [guards EXCEPT ![top] = @ \cup {cur[top]}]
            /\ Goto("idle")
            /\ UNCHANGED panicked
    /\ UNCHANGED <<locked, cur, infoVars, hartVars, sie>>

\* The guard of l is dropped: IntrlockGuard::drop unlocks ...
Unlock(l) ==
    /\ At("idle")
    /\ l \in guards[top]
    /\ locked' = locked \ {l}
    /\ guards' = [guards EXCEPT ![top] = @ \ {l}]
    /\ cur' = [cur EXCEPT ![top] = l]
    /\ Goto("pop")
    /\ UNCHANGED <<borrowed, infoVars, hartVars, sie, panicked>>

\* Mutated form of Pop: interrupts come back at any depth.
Pop_AnyDepth ==
    /\ At("pop")
    /\ ~trap_locked
    /\ IF sie \/ depth = 0
       THEN panicked' = "pop_interrupt" /\ UNCHANGED <<depth, sie, pc>>
       ELSE /\ depth' = depth - 1
            /\ sie' = enabled
            /\ Goto("release")
            /\ UNCHANGED panicked
    /\ UNCHANGED <<lockVars, enabled, trap_locked, old_sie, localVars, hartVars>>

\* Mutated form of Pop: the new depth is not stored back.
\* ... then the field data is dropped: pop_interrupt, with its assertions ...
Pop ==
    /\ At("pop")
    /\ ~trap_locked
    /\ IF sie \/ depth = 0
       THEN panicked' = "pop_interrupt" /\ UNCHANGED <<depth, sie, pc>>
       ELSE /\ depth' = depth - 1
            /\ sie' = (depth = 1 /\ enabled)
            /\ Goto("release")
            /\ UNCHANGED panicked
    /\ UNCHANGED <<lockVars, enabled, trap_locked, old_sie, localVars, hartVars>>

\* ... and last the RefMut, which ends the borrow.
Release ==
    /\ At("release")
    /\ borrowed' = borrowed \ {cur[top]}
    /\ cur' = [cur EXCEPT ![top] = None]
    /\ Goto("idle")
    /\ UNCHANGED <<locked, guards, infoVars, hartVars, sie, panicked>>

-----------------------------------------------------------------------------
\* A trap from user mode: the stack of the running thread is empty, SIE is 0.
UserTrap ==
    /\ At("idle") /\ level[run] = 0 /\ guards[top] = {}
    /\ sie' = FALSE
    /\ base' = FALSE
    /\ UNCHANGED <<lockVars, infoVars, run, level, pc, panicked>>

\* An interrupt in the kernel: a new level, with SIE cleared.
KernelTrap ==
    /\ panicked = "no" /\ sie
    /\ level[run] < MaxNest
    /\ level' = [level EXCEPT ![run] = @ + 1]
    /\ sie' = FALSE
    /\ base' = FALSE
    /\ UNCHANGED <<lockVars, infoVars, run, pc, panicked>>

\* The end of trap_save_s: the saved sstatus had SPIE set, sret enables.
KernelTrapReturn ==
    /\ At("idle") /\ level[run] > 0 /\ guards[top] = {}
    /\ level' = [level EXCEPT ![run] = @ - 1]
    /\ sie' = TRUE
    /\ base' = TRUE
    /\ UNCHANGED <<lockVars, infoVars, run, pc, panicked>>

-----------------------------------------------------------------------------
\* _do_yield, called without a guard: get_trap_enabled, the switch to the
\* worker and, later, back; set_trap_enabled.
DoYield ==
    /\ At("idle") /\ guards[top] = {}
    /\ Goto("get")
    /\ UNCHANGED <<lockVars, infoVars, hartVars, sie, panicked>>

\* trap_info.lock(), on the three occasions _do_yield takes it.
LockTrapInfo ==
    /\ \/ At("get") /\ Goto("getting")
       \/ At("set_read") /\ Goto("set_reading")
       \/ At("set_write") /\ Goto("set_writing")
    /\ ~trap_locked
    /\ trap_locked' = TRUE
    /\ UNCHANGED <<lockVars, depth, enabled, old_sie, localVars, hartVars, sie, panicked>>

GetTrapEnabled ==
    /\ At("getting")
    /\ local_enabled' = [local_enabled EXCEPT ![top] = enabled]
    /\ trap_locked' = FALSE
    /\ Goto("switch")
    /\ UNCHANGED <<lockVars, depth, enabled, old_sie, local_depth, hartVars, sie, panicked>>

\* The worker enables interrupts and runs thread t; context_switch leaves
\* sstatus alone, so t goes on with SIE set, whatever it had.
Switch(t) ==
    /\ At("switch")
    /\ Goto("set_read")
    /\ run' = t
    /\ sie' = TRUE
    /\ base' = TRUE
    /\ UNCHANGED <<lockVars, infoVars, level, panicked>>

\* set_trap_enabled: depth is read under one lock, written under another.
SetTrapRead ==
    /\ At("set_reading")
    /\ local_depth' = [local_depth EXCEPT ![top] = depth]
    /\ trap_locked' = FALSE
    /\ Goto("set_write")
    /\ UNCHANGED <<lockVars, depth, enabled, old_sie, local_enabled, hartVars, sie, panicked>>

SetTrapEnabled ==
    /\ At("set_writing")
    /\ depth' = local_depth[top]
    /\ enabled' = local_enabled[top]
    /\ trap_locked' = FALSE
    /\ Goto("idle")
    /\ UNCHANGED <<lockVars, old_sie, localVars, hartVars, sie, panicked>>

Next ==
    \/ \E l \in Locks : Acquire(l) \/ Unlock(l)
    \/ ReadSie \/ Disable \/ Push \/ Borrow
    \/ Pop \/ Release
    \/ UserTrap \/ KernelTrap \/ KernelTrapReturn
    \/ DoYield \/ LockTrapInfo \/ GetTrapEnabled \/ SetTrapRead \/ SetTrapEnabled
    \/ \E t \in Threads : Switch(t)

Spec == Init /\ [][Next]_vars

-----------------------------------------------------------------------------
TypeOK ==
    /\ locked \subseteq Locks /\ borrowed \subseteq Locks
    /\ sie \in BOOLEAN /\ base \in BOOLEAN
    /\ depth \in Nat /\ enabled \in BOOLEAN /\ trap_locked \in BOOLEAN
    /\ run \in Threads /\ level \in [Threads -> 0..MaxNest]
    /\ pc \in [Ctx -> Pcs]
    /\ cur \in [Ctx -> Locks \cup {None}]
    /\ guards \in [Ctx -> SUBSET Locks]
    /\ old_sie \in [Ctx -> BOOLEAN]
    /\ local_depth \in [Ctx -> Nat] /\ local_enabled \in [Ctx -> BOOLEAN]
    /\ panicked \in {"no", "borrow_mut", "pop_interrupt"}

\* While a guard exists its context keeps the hart with interrupts disabled:
\* it is neither interrupted nor switched out, whatever order the guards are
\* dropped in (push_interrupt, pop_interrupt).
GuardsAreNotPreempted ==
    /\ guards[top] # {} => ~sie
    /\ \A c \in Ctx : c # top => guards[c] = {}

\* The guard a context is making or dropping counts too.
InPush(c) == IF pc[c] \in {"borrow", "pop"} THEN 1 ELSE 0

\* trap_info.0 counts the guards of the running context; it is 0 whenever
\* another context can run, which is why one counter for the CPU is enough.
DepthCountsGuards ==
    /\ depth = Cardinality(guards[top]) + InPush(top)
    /\ sie => depth = 0

\* Outside its locks a context has the SIE it came with: the last
\* pop_interrupt restores what the first push_interrupt found.
SieRestored ==
    pc[top] \in {"idle", "release"} /\ guards[top] = {} => sie = base

\* Neither assertion of pop_interrupt fails.
PopNeverPanics == panicked # "pop_interrupt"
=============================================================================
