-------------------------------- MODULE Trap --------------------------------
(***************************************************************************)
(* The path into and out of the kernel: interrupt/trap.S and trap.rs (the  *)
(* trap vectors, the TrapContext of a process, the frames of traps taken   *)
(* in the kernel), process/switch.S with worker and _do_yield (the saved   *)
(* TaskContexts), and what Process::new, fork and execve write into a      *)
(* TrapContext.                                                            *)
(*                                                                         *)
(* One hart.  A thread is a process, in user mode or on its kernel stack,  *)
(* or the worker.  A saved context is a thread and a place in its code;    *)
(* a page table is a process and a number, new for each execve.  The CSR   *)
(* effects of a trap and of sret are those of the privileged architecture. *)
(* sstatus is its fields SPP, SPIE and SIE.  The general registers and the *)
(* addresses of the stacks are left out.  Where the code goes on from a    *)
(* stack that is no longer there, nothing can be said of it and the model  *)
(* stops, as it does at a panic.                                           *)
(***************************************************************************)
EXTENDS Integers, Sequences

CONSTANTS
    Proc,
    InitProc,
    Worker,            \* the thread of process::worker
    None,              \* no process
    MaxExec,           \* bound: execve calls of a process
    MaxNest            \* bound: frames of kernel traps on one stack

Threads == Proc \cup {Worker}
Statuses == [spp : {"U", "S"}, spie : BOOLEAN, sie : BOOLEAN]

ASSUME ConstantsAssumption ==
    /\ InitProc \in Proc
    /\ Worker \notin Proc /\ None \notin Threads
    /\ MaxExec \in Nat /\ MaxNest \in Nat

VARIABLES
    mode, sstatus, stvec, satp, sscratch,   \* the hart
    run,            \* the thread it executes
    cpu_proc,       \* CPU::proc
    chosen,         \* the process worker is about to switch to
    pc,             \* where each thread is
    frames,         \* per stack, what trap_save_s pushed
    task,           \* kernel_task_context of each process
    cpu_task,       \* the context of the worker
    trap_context,   \* TrapContext of each process: satp and sstatus
    table,          \* the number of its page table, 0 before it exists
    trapped,        \* history: the processes that have trapped from user mode
    halted          \* why the kernel stopped, if it did

hart == <<mode, sstatus, stvec, satp, sscratch>>
contexts == <<task, cpu_task>>
memory == <<trap_context, table>>
history == <<trapped, halted>>
vars == <<hart, run, cpu_proc, chosen, pc, frames, contexts, memory, history>>

KernelTable == <<None, 0>>
Own(p) == <<p, table[p]>>
Exists(p) == table[p] > 0
Context(t, l) == [thread |-> t, at |-> l]

Init ==
    /\ mode = "S" /\ stvec = "trap_save_s" /\ satp = KernelTable /\ sscratch = None
    /\ sstatus = [spp |-> "S", spie |-> FALSE, sie |-> TRUE]
    /\ run = Worker
    /\ cpu_proc = None /\ chosen = None
    /\ pc = [t \in Threads |-> IF t = Worker THEN "loop" ELSE "start"]
    /\ frames = [t \in Threads |-> <<>>]
    /\ task = [p \in Proc |-> Context(p, "start")]
    /\ cpu_task = Context(Worker, "zero")
    /\ table = [p \in Proc |-> IF p = InitProc THEN 1 ELSE 0]
    /\ \E s \in Statuses :
         trap_context = [p \in Proc |-> [satp |-> <<p, 1>>, sstatus |-> s]]
    /\ trapped = {} /\ halted = "no"

At(t, l) == halted = "no" /\ run = t /\ mode = "S" /\ pc[t] = l
Goto(t, l) == pc' = [pc EXCEPT ![t] = l]

-----------------------------------------------------------------------------
(* Between user mode and the kernel *)

\* A trap through trap_save_u: the hart, trap_save_u (which swaps satp with the
\* TrapContext that sscratch points to) and the start of user_trap_handler, up
\* to its assertion.  The hart is in user mode, or, if sret did not leave the
\* kernel, faults on the user's page; or an interrupt finds it enabled.
UserTrap(p) ==
    /\ halted = "no" /\ run = p /\ stvec = "trap_save_u"
    /\ mode = "U" \/ pc[p] = "user" \/ sstatus.sie
    /\ mode' = "S"
    /\ sstatus' = [spp |-> mode, spie |-> sstatus.sie, sie |-> FALSE]
    /\ trap_context' = [trap_context EXCEPT ![sscratch] = [satp |-> satp, sstatus |-> sstatus']]
    /\ satp' = trap_context[sscratch].satp
    /\ stvec' = "trap_save_s"
    /\ Goto(p, "kernel")
    /\ IF mode = "U" THEN trapped' = trapped \cup {p} /\ UNCHANGED halted
       ELSE halted' = "User trap not from user!" /\ UNCHANGED trapped
    /\ UNCHANGED <<sscratch, run, cpu_proc, chosen, frames, contexts, table>>

user_trap_returner_TrapEnabled(p) ==
    /\ At(p, "kernel") \/ At(p, "start")
    /\ cpu_proc # None
    /\ sstatus' = [sstatus EXCEPT !.spp = "U", !.spie = TRUE]
    /\ stvec' = "trap_save_u"
    /\ Goto(p, "return")
    /\ UNCHANGED <<mode, satp, sscratch, run, cpu_proc, chosen, frames, contexts, memory, history>>

\* user_trap_returner: interrupts off, the user's vector.  A new process starts
\* here.
user_trap_returner(p) ==
    /\ At(p, "kernel") \/ At(p, "start")
    /\ cpu_proc # None
    /\ sstatus' = [spp |-> "U", spie |-> TRUE, sie |-> FALSE]
    /\ stvec' = "trap_save_u"
    /\ Goto(p, "return")
    /\ UNCHANGED <<mode, satp, sscratch, run, cpu_proc, chosen, frames, contexts, memory, history>>

\* trap_ret_u up to sret, with the TrapContext of CPU::proc.
trap_ret_u(p) ==
    /\ At(p, "return")
    /\ LET c == trap_context[cpu_proc]
       IN  /\ satp' = c.satp
           /\ trap_context' = [trap_context EXCEPT ![cpu_proc].satp = satp]
           /\ sstatus' = c.sstatus
    /\ sscratch' = cpu_proc
    /\ Goto(p, "sret")
    /\ UNCHANGED <<mode, stvec, run, cpu_proc, chosen, frames, contexts, table, history>>

\* The sret of trap_ret_u.
Sret(p) ==
    /\ At(p, "sret")
    /\ mode' = sstatus.spp
    /\ sstatus' = [spp |-> "U", spie |-> TRUE, sie |-> sstatus.spie]
    /\ Goto(p, "user")
    /\ UNCHANGED <<stvec, satp, sscratch, run, cpu_proc, chosen, frames, contexts, memory, history>>

fork_SatpCopied(p, c) ==
    /\ At(p, "kernel")
    /\ ~Exists(c)
    /\ table' = [table EXCEPT ![c] = 1]
    /\ trap_context' = [trap_context EXCEPT ![c] = trap_context[p]]
    /\ UNCHANGED <<hart, run, cpu_proc, chosen, pc, frames, contexts, history>>

\* fork: Process::new writes satp into the TrapContext, copy_from
\* copies the registers; sstatus stays what the pages of the new kernel stack,
\* which alloc_many does not clear, held.
fork(p, c) ==
    /\ At(p, "kernel")
    /\ ~Exists(c)
    /\ table' = [table EXCEPT ![c] = 1]
    /\ \E s \in Statuses :
         trap_context' = [trap_context EXCEPT ![c] = [satp |-> <<c, 1>>, sstatus |-> s]]
    /\ UNCHANGED <<hart, run, cpu_proc, chosen, pc, frames, contexts, history>>

\* execve: a new page table, stored where trap_ret_u will load it from.
execve(p) ==
    /\ At(p, "kernel")
    /\ table[p] <= MaxExec
    /\ table' = [table EXCEPT ![p] = @ + 1]
    /\ trap_context' = [trap_context EXCEPT ![p].satp = <<p, table[p] + 1>>]
    /\ UNCHANGED <<hart, run, cpu_proc, chosen, pc, frames, contexts, history>>

-----------------------------------------------------------------------------
(* Switching *)

\* _do_yield on thread t for process p: save into p's context, and go on where
\* the worker saved its own.  What is on the worker's stack above that is gone.
\* Before its first switch it has saved nothing, and the context is zero.
DoYield(t, p) ==
    /\ IF cpu_task.at = "zero"
       THEN /\ halted' = "no worker context"
            /\ UNCHANGED <<task, cpu_proc, run, pc, frames>>
       ELSE /\ task' = [task EXCEPT ![p] = Context(t, pc[t])]
            /\ cpu_proc' = None
            /\ run' = Worker
            /\ Goto(Worker, cpu_task.at)
            /\ frames' = [frames EXCEPT ![Worker] = <<>>]
            /\ UNCHANGED halted
    /\ UNCHANGED <<hart, chosen, cpu_task, memory, trapped>>

\* A system call, or a timer interrupt taken in user mode, yields.
Yield(p) == At(p, "kernel") /\ cpu_proc # None /\ DoYield(p, cpu_proc)

\* worker: enable_trap, and a turn of its loop that finds no process.
Idle ==
    /\ At(Worker, "loop")
    /\ sstatus' = [sstatus EXCEPT !.sie = TRUE]
    /\ UNCHANGED <<mode, stvec, satp, sscratch, run, cpu_proc, chosen, pc, frames, contexts,
                   memory, history>>

\* worker: enable_trap, scheduler, set_process.
Pick(p) ==
    /\ At(Worker, "loop")
    /\ Exists(p)
    /\ sstatus' = [sstatus EXCEPT !.sie = TRUE]
    /\ chosen' = p
    /\ cpu_proc' = p
    /\ Goto(Worker, "window")
    /\ UNCHANGED <<mode, stvec, satp, sscratch, run, frames, contexts, memory, history>>

\* worker: context_switch to the process it chose, its stores ...
Save ==
    /\ At(Worker, "window")
    /\ cpu_task' = Context(Worker, "loop")
    /\ Goto(Worker, "saved")
    /\ UNCHANGED <<hart, run, cpu_proc, chosen, frames, task, memory, history>>

\* ... and its loads.  A context on the worker's stack is one that was lost.
Switch ==
    /\ At(Worker, "saved")
    /\ IF task[chosen].thread # chosen
       THEN halted' = "lost context" /\ UNCHANGED <<run, pc>>
       ELSE /\ run' = chosen
            /\ pc' = [pc EXCEPT ![Worker] = "loop", ![chosen] = task[chosen].at]
            /\ UNCHANGED halted
    /\ UNCHANGED <<hart, cpu_proc, chosen, frames, contexts, memory, trapped>>

-----------------------------------------------------------------------------
(* Traps taken in the kernel *)

\* The hart and trap_save_s, which pushes sepc, sstatus and the registers.
KernelTrap ==
    /\ halted = "no" /\ mode = "S" /\ sstatus.sie
    /\ stvec = "trap_save_s"
    /\ Len(frames[run]) < MaxNest
    /\ sstatus' = [spp |-> "S", spie |-> TRUE, sie |-> FALSE]
    /\ frames' = [frames EXCEPT ![run] = Append(@, [sepc |-> pc[run], sstatus |-> sstatus'])]
    /\ Goto(run, "trap")
    /\ UNCHANGED <<mode, stvec, satp, sscratch, run, cpu_proc, chosen, contexts, memory, history>>

\* The timer's handler yields if CPU::proc is set.
KernelTrapYield ==
    /\ At(run, "trap")
    /\ cpu_proc # None
    /\ DoYield(run, cpu_proc)

KernelTrapReturn_CsrsKept ==
    /\ At(run, "trap")
    /\ LET n == Len(frames[run])
       IN  /\ Goto(run, frames[run][n].sepc)
           /\ frames' = [frames EXCEPT ![run] = SubSeq(@, 1, n - 1)]
           /\ mode' = sstatus.spp
           /\ sstatus' = [spp |-> "U", spie |-> TRUE, sie |-> sstatus.spie]
    /\ UNCHANGED <<stvec, satp, sscratch, run, cpu_proc, chosen, contexts, memory, history>>

\* The rest of trap_save_s: it restores sstatus and sepc from the frame; sret.
KernelTrapReturn ==
    /\ At(run, "trap")
    /\ LET n == Len(frames[run])
           f == frames[run][n]
       IN  /\ Goto(run, f.sepc)
           /\ frames' = [frames EXCEPT ![run] = SubSeq(@, 1, n - 1)]
           /\ mode' = f.sstatus.spp
           /\ sstatus' = [spp |-> "U", spie |-> TRUE, sie |-> f.sstatus.spie]
    /\ UNCHANGED <<stvec, satp, sscratch, run, cpu_proc, chosen, contexts, memory, history>>

Next ==
    \/ \E p \in Proc : \/ UserTrap(p) \/ user_trap_returner(p) \/ trap_ret_u(p) \/ Sret(p)
                       \/ execve(p) \/ Yield(p) \/ Pick(p)
    \/ \E p, c \in Proc : fork(p, c)
    \/ Idle \/ Save \/ Switch \/ KernelTrap \/ KernelTrapYield \/ KernelTrapReturn

Spec == Init /\ [][Next]_vars

-----------------------------------------------------------------------------
Places == {"start", "user", "kernel", "return", "sret", "trap", "loop", "window", "saved", "zero"}
Contexts == [thread : Threads, at : Places]

TypeOK ==
    /\ mode \in {"U", "S"} /\ sstatus \in Statuses
    /\ stvec \in {"trap_save_u", "trap_save_s"}
    /\ satp \in (Proc \X (1..(MaxExec + 1))) \cup {KernelTable}
    /\ sscratch \in Proc \cup {None}
    /\ run \in Threads /\ cpu_proc \in Proc \cup {None} /\ chosen \in Proc \cup {None}
    /\ pc \in [Threads -> Places]
    /\ \A t \in Threads : Len(frames[t]) <= MaxNest
    /\ task \in [Proc -> Contexts] /\ cpu_task \in Contexts
    /\ \A p \in Proc : trap_context[p].sstatus \in Statuses
    /\ table \in [Proc -> 0..(MaxExec + 1)]
    /\ trapped \subseteq Proc
    /\ halted \in {"no", "User trap not from user!", "no worker context", "lost context"}

\* In user mode a process runs on its own page table, the one its last execve
\* built, traps through trap_save_u, and sscratch points to its TrapContext.  In
\* the kernel satp is the kernel's table and every TrapContext has its process's
\* own: the swaps of trap_save_u and trap_ret_u stay paired whatever forks,
\* execves, switches and traps in the worker happen between them.
SwapsArePaired ==
    /\ mode = "U" => satp = Own(run) /\ stvec = "trap_save_u" /\ sscratch = run
    /\ pc[run] \notin {"sret", "user"} =>
         satp = KernelTable /\ \A p \in Proc : Exists(p) => trap_context[p].satp = Own(p)

\* Whenever the kernel can be interrupted, the vector is the kernel's.  The
\* exception is the first return of a process to user mode, which loads the
\* sstatus that Process::new never wrote: trap_save_u would then be entered
\* from the kernel.
InterruptsUseKernelVector ==
    mode = "S" /\ sstatus.sie =>
        stvec = "trap_save_s" \/ (pc[run] \in {"sret", "user"} /\ run \notin trapped)

\* The code a kernel trap interrupted stays in the kernel when the trap returns,
\* although other threads trapped meanwhile and changed sstatus.
KernelTrapStaysInKernel ==
    [][mode = "S" /\ mode' = "U" => pc[run] = "sret"]_vars

-----------------------------------------------------------------------------
(* What comments and assertions say, and the code does not do *)

\* "switch to proc task context" (process/mod.rs:75): the context saved for a
\* process is on that process's stack.
ContextIsOwn == \A p \in Proc : task[p].thread = p

\* "User trap not from user!" (trap.rs:156): what enters user_trap_handler
\* comes from user mode.
UserTrapFromUser == halted # "User trap not from user!"
=============================================================================
