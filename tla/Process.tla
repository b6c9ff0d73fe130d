------------------------------ MODULE Process ------------------------------
(***************************************************************************)
(* The process table, the scheduler and the blocking primitives of the     *)
(* kernel: process/process.rs (ProcessManager), process/mod.rs (worker),   *)
(* process/task.rs (yield), process/condvar.rs, device/timer.rs and the    *)
(* system calls of syscall/process.rs and syscall/custom.rs.               *)
(*                                                                         *)
(* One hart (the configuration the kernel runs in).  It executes either    *)
(* the worker loop or one process, in user mode or in a system call.  A    *)
(* step is a stretch of code no interrupt can split: the code between two  *)
(* points at which sstatus.SIE is 1, or a section under an Intrlock.  A    *)
(* system call starts with SIE = 0 and runs unsplit until it first yields; *)
(* the worker enables SIE and context_switch does not restore it, so after *)
(* the first yield the timer may arrive between any two steps.  It may     *)
(* also arrive anywhere in the worker: while the scheduler looks for a     *)
(* process, before set_process and between set_process and the switch.     *)
(*                                                                         *)
(* Left out: exit codes, memory, files (modules of their own); the order   *)
(* in which wait_for scans its children and Condvar::wakeup its list (any  *)
(* order is allowed); the instructions inside Intrlock (module Intrlock).  *)
(* Where the code goes on from a stack that is no longer there, nothing    *)
(* can be said of it and the model stops.                                  *)
(***************************************************************************)
EXTENDS Integers, FiniteSets, Sequences

CONSTANTS
    Proc,             \* the Process objects, each created at most once
    InitProc,         \* the one process::init spawns
    None,             \* Option::None
    WaitPids,         \* the pid arguments given to wait_for
    Sleepers,         \* the processes whose programs call sleep_ticks ...
    SleepArgs         \* ... and the arguments they give it

ASSUME ConstantsAssumption ==
    /\ IsFiniteSet(Proc)
    /\ InitProc \in Proc
    /\ None \notin Proc
    /\ WaitPids \subseteq Int
    /\ Sleepers \subseteq Proc
    /\ SleepArgs \subseteq Nat

VARIABLES
    max, free,              \* PID_ALLOCATOR
    pid,                    \* Process::pid; 0 for an object not created yet
    process_list,           \* the objects in ProcessManager::process_list
    previous_scheduled_pid,
    status,                 \* ProcessData::status
    parent,                 \* ProcessData::parent, a Weak
    children,               \* ProcessData::children, Weaks
    waiting_for_exit,       \* the list of condvar_waiting_for_exit, Weaks
    timer_waiting,          \* the list of TIMER_CONDVAR, Weaks
    cpu_proc,               \* CPU::proc
    on_cpu,                 \* whose stack the hart runs on, None: the worker's
    worker,                 \* where the worker is
    context_saved,          \* CPU::cpu_context is the worker's, no longer zero
    lost,                   \* whose kernel_task_context is the worker's stack
    sie,                    \* sstatus.SIE: can the timer arrive
    pm_lock,                \* who holds PROCESS_MANAGER across steps
    pc,                     \* where each process is in the kernel
    loop,                   \* where its system call goes on after do_yield
    arg,                    \* the arguments of wait_for
    ticks,                  \* how long sleep_ticks still has to sleep
    preempted,              \* switched out inside try_yield
    split,                  \* history: by a timer before the wait of this pass
    cut,                    \* history: by a timer between the parts of do_yield
    halted                  \* why the kernel stopped, if it did

procVars  == <<max, free, pid, process_list, parent, children>>
waitVars  == <<waiting_for_exit, timer_waiting, ticks>>
workVars  == <<worker, context_saved, lost, previous_scheduled_pid>>
cpuVars   == <<cpu_proc, on_cpu, preempted, split, cut, workVars>>
callVars  == <<sie, pm_lock, pc, loop, arg>>
vars      == <<procVars, status, waitVars, cpuVars, callVars, halted>>

ProcessStatus == {"Ready", "Running", "Suspend", "Zombie"}

\* "user": not in a system call.  "scan".."unlock_pm": in wait_for.
\* "sleep".."push_timer": in sleep_ticks.  "yield", "switch": in do_yield.
Locations == {"user", "scan", "lock_pm", "get_target", "unlock_pm",
              "sleep", "lock_timer", "push_timer", "yield", "switch", "dead"}

WNOHANG == 1
NoArg == [pid |-> 0, option |-> 0]

Pids == INSTANCE PidAllocator
        WITH MaxPid <- Cardinality(Proc),
             owners <- [id \in 1..Cardinality(Proc) |->
                          Cardinality({p \in process_list : pid[p] = id})]

Init ==
    /\ max = 1 /\ free = <<>>
    /\ pid = [p \in Proc |-> IF p = InitProc THEN 1 ELSE 0]
    /\ process_list = {InitProc}
    /\ previous_scheduled_pid = 0
    /\ status = [p \in Proc |-> "Ready"]
    /\ parent = [p \in Proc |-> None]
    /\ children = [p \in Proc |-> {}]
    /\ waiting_for_exit = [p \in Proc |-> {}]
    /\ timer_waiting = {}
    /\ cpu_proc = None /\ on_cpu = None
    /\ worker = "schedule"
    /\ context_saved = FALSE /\ lost = {}
    /\ sie = TRUE
    /\ pm_lock = None
    /\ pc = [p \in Proc |-> "user"]
    /\ loop = [p \in Proc |-> "user"]
    /\ arg = [p \in Proc |-> NoArg]
    /\ ticks = [p \in Proc |-> 0]
    /\ preempted = {} /\ split = {} /\ cut = {}
    /\ halted = "no"

-----------------------------------------------------------------------------
\* Mutated form of Woken: the list is emptied, no status is set.
Woken_StatusForgotten(st, w) == st

\* Condvar::wakeup on the list w: every process that still exists is Ready.
Woken(st, w) ==
    [p \in Proc |-> IF p \in w \cap process_list THEN "Ready" ELSE st[p]]

\* Mutated form of Yielded: the status is left as it is.
Yielded_Kept(st, p) == st

\* yield_process: a Running process becomes Ready, any other status stays.
Yielded(st, p) ==
    [st EXCEPT ![p] = IF @ = "Running" THEN "Ready" ELSE @]

One(b) == IF b THEN 1 ELSE 0

\* Mutated form of strong_count: do_yield keeps its clone over the switch.
strong_count_YieldKeepsClone(p) ==
    One(p \in process_list) + One(cpu_proc = p) + One(p \in preempted) + One(p \in lost)
      + One(loop[p] = "scan")
      + One(pc[p] \in {"lock_timer", "push_timer", "switch", "dead"})

\* Arc::strong_count of p: the process list, CPU::proc, and the clones that
\* live on kernel stacks: those of try_yield (on p's own, or left behind on the
\* worker's), wait_for, Condvar::wait and do_yield.
strong_count(p) ==
    One(p \in process_list) + One(cpu_proc = p) + One(p \in preempted) + One(p \in lost)
      + One(loop[p] = "scan")
      + One(pc[p] \in {"lock_timer", "push_timer", "switch"})

-----------------------------------------------------------------------------
\* Mutated form of Before: always from the lowest pid on.
Before_FromStart(q, r) == pid[q] < pid[r]

\* ProcessManager::scheduler looks at q before r: it goes up from the
\* previously scheduled pid, then from the lowest one up to it.
Before(q, r) ==
    IF pid[q] > previous_scheduled_pid <=> pid[r] > previous_scheduled_pid
    THEN pid[q] < pid[r]
    ELSE pid[q] > previous_scheduled_pid

\* It returns p, the first process that it finds Ready.
scheduler(st, p) ==
    st[p] = "Ready" /\ \A q \in process_list \ {p} : st[q] = "Ready" => Before(p, q)

InWorker(l) == halted = "no" /\ on_cpu = None /\ worker = l

\* The rest of a successful search: a process still in CPU::proc is Ready,
\* the chosen one Running and CPU::proc.
Chosen(p, st) ==
    /\ previous_scheduled_pid' = pid[p]
    /\ status' = [q \in Proc |-> IF q = p THEN "Running"
                                 ELSE IF q = cpu_proc THEN "Ready" ELSE st[q]]
    /\ cpu_proc' = p
    /\ worker' = "switch"

\* worker: one turn of its loop that finds a process to run, up to set_process.
Schedule ==
    /\ InWorker("schedule")
    /\ pm_lock = None
    /\ \E p \in process_list : scheduler(status, p) /\ Chosen(p, status)
    /\ UNCHANGED <<procVars, waitVars, on_cpu, preempted, split, cut, context_saved, lost,
                   callVars, halted>>

\* The switch to it.  The worker will go on at the top of its loop.  A context
\* that was lost leads into a dead part of the worker's own stack.
SwitchTo ==
    /\ InWorker("switch")
    /\ IF cpu_proc \in lost
       THEN /\ halted' = "worker: lost context"
            /\ UNCHANGED <<worker, context_saved, on_cpu, preempted>>
       ELSE /\ worker' = "schedule"
            /\ context_saved' = TRUE
            /\ on_cpu' = cpu_proc
            /\ preempted' = preempted \ {cpu_proc}
            /\ UNCHANGED halted
    /\ UNCHANGED <<procVars, status, waitVars, cpu_proc, lost, previous_scheduled_pid,
                   callVars, split, cut>>

\* The hart runs process p, at location l.
At(p, l) == halted = "no" /\ on_cpu = p /\ pc[p] = l

Goto(p, l) == pc' = [pc EXCEPT ![p] = l]

\* Entry of a system call of p: the trap clears SIE.
Syscall(p) == At(p, "user") /\ sie' = FALSE

\* Return of the system call of p to user mode, where SIE is 1.
Return(p) ==
    /\ Goto(p, "user")
    /\ sie' = TRUE
    /\ loop' = [loop EXCEPT ![p] = "user"]
    /\ arg' = [arg EXCEPT ![p] = NoArg]

\* do_yield, its two parts: yield_process, then set_process(None) and the
\* switch to the worker, which enables SIE.
Yield(p) ==
    /\ At(p, "yield")
    /\ status' = Yielded(status, p)
    /\ Goto(p, "switch")
    /\ UNCHANGED <<procVars, waitVars, cpuVars, sie, pm_lock, loop, arg, halted>>

Switch(p) ==
    /\ At(p, "switch")
    /\ cpu_proc' = None
    /\ on_cpu' = None
    /\ Goto(p, loop[p])
    /\ sie' = TRUE
    /\ cut' = IF status[p] = "Running" THEN cut ELSE cut \ {p}
    /\ UNCHANGED <<procVars, status, waitVars, workVars, preempted, split, pm_lock,
                   loop, arg, halted>>

-----------------------------------------------------------------------------
\* sched_yield.
SchedYield(p) ==
    /\ Syscall(p)
    /\ Goto(p, "yield")
    /\ UNCHANGED <<procVars, status, waitVars, cpuVars, pm_lock, loop, arg, halted>>

\* The process list without its entry for a pid: BTreeMap::insert replaces
\* that entry, remove takes it out.
Without(id) == {p \in process_list : pid[p] # id}

\* clone: ProcessManager::fork creates c, then the parent yields.
Clone(p, c) ==
    /\ Syscall(p)
    /\ pm_lock = None
    /\ pid[c] = 0
    /\ Pids!alloc(Pids!NextId)
    /\ pid' = [pid EXCEPT ![c] = Pids!NextId]
    /\ process_list' = Without(Pids!NextId) \cup {c}
    /\ parent' = [parent EXCEPT ![c] = p]
    /\ children' = [children EXCEPT ![p] = @ \cup {c}]
    /\ status' = [status EXCEPT ![c] = "Ready"]
    /\ Goto(p, "yield")
    /\ UNCHANGED <<waitVars, cpuVars, pm_lock, loop, arg, halted>>

\* Mutated form of ExitStatus: the waiters are not woken.
ExitStatus_NoWakeup(p) == [status EXCEPT ![p] = "Zombie"]

\* The statuses exit leaves: p a zombie, the processes waiting for it Ready.
ExitStatus(p) == Woken([status EXCEPT ![p] = "Zombie"], waiting_for_exit[p])

\* Mutated form of Reparented: the children are dropped with the list.
Reparented_Dropped(p) == [children EXCEPT ![p] = {}]

\* exit moves the children of p to init (it leaves their parent field alone).
Reparented(p) == [children EXCEPT ![p] = {}, ![InitProc] = @ \cup children[p]]

\* exit: ProcessManager::exit, whose parameter is one more strong reference,
\* then do_yield.
Exit(p) ==
    /\ Syscall(p)
    /\ pm_lock = None
    /\ halted' = IF strong_count(p) + 1 # 3 THEN "exit: strong count"
                 ELSE IF pid[p] = 1 THEN "exit: init" ELSE "no"
    /\ IF halted' # "no" THEN UNCHANGED <<status, children, waiting_for_exit, pc, loop>>
       ELSE /\ status' = ExitStatus(p)
            /\ children' = Reparented(p)
            /\ waiting_for_exit' = [waiting_for_exit EXCEPT ![p] = {}]
            /\ Goto(p, "yield")
            /\ loop' = [loop EXCEPT ![p] = "dead"]
    /\ UNCHANGED <<max, free, pid, process_list, parent, timer_waiting, ticks,
                   cpuVars, pm_lock, arg>>

-----------------------------------------------------------------------------
\* wait_for(n, option) starts; the first pass over the children follows.
WaitFor(p, n, option) ==
    /\ Syscall(p)
    /\ arg' = [arg EXCEPT ![p] = [pid |-> n, option |-> option]]
    /\ loop' = [loop EXCEPT ![p] = "scan"]
    /\ Goto(p, "scan")
    /\ UNCHANGED <<procVars, status, waitVars, cpuVars, pm_lock, halted>>

\* The children p can reap in this pass of wait_for.
LiveChildren(p) == children[p] \cap process_list

Reapable(p) == {c \in LiveChildren(p) :
                  status[c] = "Zombie" /\ arg[p].pid \in {-1, pid[c]}}

\* Mutated form of DropProcess: the Pid is leaked.
DropProcess_PidLeaked(c) ==
    process_list' = Without(pid[c]) /\ UNCHANGED <<max, free>>

\* The entry for the pid of c leaves the process list; the last Arc of c goes,
\* with it the Pid of c.
DropProcess(c) == process_list' = Without(pid[c]) /\ Pids!dealloc(pid[c])

\* A pass of wait_for that finds a zombie: it leaves the process list, and
\* is dropped, with its Pid, when no other strong reference exists.
Reap(p, c) ==
    /\ At(p, "scan")
    /\ c \in Reapable(p)
    /\ pm_lock = None
    /\ halted' = IF strong_count(c) # 1 THEN "wait_for: strong count"
                 ELSE IF ~Pids!CanFree(pid[c]) THEN "Pid: already freed" ELSE "no"
    /\ DropProcess(c)
    /\ children' = [children EXCEPT ![p] = LiveChildren(p)]
    /\ waiting_for_exit' = [waiting_for_exit EXCEPT ![c] = {}]
    /\ Return(p)
    /\ split' = split \ {p}
    /\ UNCHANGED <<pid, parent, status, timer_waiting, ticks, cpu_proc, on_cpu, preempted,
                   cut, workVars, pm_lock>>

\* A pass of wait_for that finds no zombie to reap.  Without children it
\* returns ECHILD and with WNOHANG 0; otherwise it will block on the process
\* with that pid, or, for -1, just yield and look again.
ScanNothing(p) ==
    /\ At(p, "scan")
    /\ Reapable(p) = {}
    /\ children' = [children EXCEPT ![p] = LiveChildren(p)]
    /\ IF LiveChildren(p) = {} \/ arg[p].option = WNOHANG
       THEN Return(p)
       ELSE /\ Goto(p, IF arg[p].pid > 0 THEN "lock_pm" ELSE "yield")
            /\ UNCHANGED <<sie, loop, arg>>
    /\ split' = split \ {p}
    /\ UNCHANGED <<max, free, pid, process_list, parent, status, waitVars, cpu_proc,
                   on_cpu, preempted, cut, workVars, pm_lock, halted>>

LockPM(p) ==
    /\ At(p, "lock_pm")
    /\ pm_lock = None
    /\ pm_lock' = p
    /\ Goto(p, "get_target")
    /\ UNCHANGED <<procVars, status, waitVars, cpuVars, sie, loop, arg, halted>>

\* process_list.get(pid) and Condvar::wait on the process found, which need
\* not be a child; its data lock is held, so no interrupt splits the wait.
\* Waiting for itself p locks its own data twice and spins forever.
WaitOn(p, q) ==
    /\ At(p, "get_target")
    /\ q \in process_list
    /\ pid[q] = arg[p].pid
    /\ IF q = p
       THEN halted' = "wait_for: own data lock" /\ UNCHANGED <<status, waiting_for_exit, pc>>
       ELSE /\ status' = [status EXCEPT ![p] = "Suspend"]
            /\ waiting_for_exit' = [waiting_for_exit EXCEPT ![q] = @ \cup {p}]
            /\ Goto(p, "unlock_pm")
            /\ UNCHANGED halted
    /\ UNCHANGED <<procVars, timer_waiting, ticks, cpuVars, sie, pm_lock, loop, arg>>

\* No process has that pid: ECHILD, and the guard of the lock is dropped.
WaitOnNobody(p) ==
    /\ At(p, "get_target")
    /\ \A q \in process_list : pid[q] # arg[p].pid
    /\ pm_lock' = None
    /\ Return(p)
    /\ UNCHANGED <<procVars, status, waitVars, cpuVars, halted>>

\* Mutated form of UnlockPM: the guard lives on over the do_yield.
UnlockPM_Kept(p) ==
    /\ At(p, "unlock_pm")
    /\ Goto(p, "yield")
    /\ UNCHANGED <<procVars, status, waitVars, cpuVars, sie, pm_lock, loop, arg, halted>>

UnlockPM(p) ==
    /\ At(p, "unlock_pm")
    /\ pm_lock' = None
    /\ Goto(p, "yield")
    /\ UNCHANGED <<procVars, status, waitVars, cpuVars, sie, loop, arg, halted>>

-----------------------------------------------------------------------------
\* sleep_ticks(n); the test of its loop follows.
SleepTicks(p, n) ==
    /\ Syscall(p)
    /\ ticks' = [ticks EXCEPT ![p] = n]
    /\ loop' = [loop EXCEPT ![p] = "sleep"]
    /\ Goto(p, "sleep")
    /\ UNCHANGED <<procVars, status, waiting_for_exit, timer_waiting, cpuVars,
                   pm_lock, arg, halted>>

\* The loop of sleep_ticks: return, or begin Condvar::wait on TIMER_CONDVAR,
\* which sets the status before it locks the list.
SleepTest(p) ==
    /\ At(p, "sleep")
    /\ IF ticks[p] = 0
       THEN Return(p) /\ UNCHANGED status
       ELSE /\ status' = [status EXCEPT ![p] = "Suspend"]
            /\ Goto(p, "lock_timer")
            /\ UNCHANGED <<sie, loop, arg>>
    /\ split' = split \ {p}
    /\ UNCHANGED <<procVars, waitVars, cpu_proc, on_cpu, preempted, cut, workVars,
                   pm_lock, halted>>

LockTimer(p) ==
    /\ At(p, "lock_timer")
    /\ Goto(p, "push_timer")
    /\ UNCHANGED <<procVars, status, waitVars, cpuVars, sie, pm_lock, loop, arg, halted>>

\* Mutated form of PushTimer: the process is not pushed.
PushTimer_NotPushed(p) ==
    /\ At(p, "push_timer")
    /\ Goto(p, "yield")
    /\ UNCHANGED <<procVars, status, waitVars, cpuVars, sie, pm_lock, loop, arg, halted>>

PushTimer(p) ==
    /\ At(p, "push_timer")
    /\ timer_waiting' = timer_waiting \cup {p}
    /\ Goto(p, "yield")
    /\ UNCHANGED <<procVars, status, waiting_for_exit, ticks, cpuVars, sie,
                   pm_lock, loop, arg, halted>>

-----------------------------------------------------------------------------
\* A tick has passed on the clock that the loop of sleep_ticks reads.
Tick == ticks' = [p \in Proc |-> IF ticks[p] > 0 THEN ticks[p] - 1 ELSE 0]

\* Mutated form of TimerInWorker: wakeup does not pop the list.
TimerInWorker_ListKept ==
    /\ halted = "no" /\ on_cpu = None
    /\ cpu_proc = None
    /\ Tick
    /\ status' = Woken(status, timer_waiting)
    /\ UNCHANGED <<procVars, waiting_for_exit, timer_waiting, cpuVars, callVars, halted>>

\* timer::handler: the sleepers are woken, and, in the worker while CPU::proc
\* is None, nothing else happens.
TimerInWorker ==
    /\ halted = "no" /\ on_cpu = None
    /\ cpu_proc = None
    /\ Tick
    /\ status' = Woken(status, timer_waiting)
    /\ timer_waiting' = {}
    /\ UNCHANGED <<procVars, waiting_for_exit, cpuVars, callVars, halted>>

\* The same while the scheduler searches: it saw the processes before k with
\* their old status and sees k and those after it with their new one.  (After
\* the search and before set_process the sleepers are woken too; the chosen
\* process is not one of them, so this is the case of k = p.)
TimerInScheduler ==
    /\ InWorker("schedule")
    /\ cpu_proc = None
    /\ pm_lock = None
    /\ Tick
    /\ LET woken == Woken(status, timer_waiting)
       IN  \E p, k \in process_list :
             /\ scheduler([q \in Proc |-> IF Before(q, k) THEN status[q] ELSE woken[q]], p)
             /\ Chosen(p, woken)
    /\ timer_waiting' = {}
    /\ UNCHANGED <<procVars, waiting_for_exit, on_cpu, preempted, split, cut,
                   context_saved, lost, callVars, halted>>

\* The same after set_process and before the switch: try_yield saves what the
\* hart executes, the handler on the worker's stack, as the context of
\* CPU::proc, and goes on with the context the worker saved at its last switch.
\* On its first turn it has saved none yet, unless the timer arrives between
\* the stores and the loads of context_switch.
TimerBeforeSwitch ==
    /\ halted = "no" /\ on_cpu = None
    /\ cpu_proc # None
    /\ Tick
    /\ status' = Yielded(Woken(status, timer_waiting), cpu_proc)
    /\ timer_waiting' = {}
    /\ lost' = lost \cup {cpu_proc}
    /\ cpu_proc' = None
    /\ worker' = "schedule"
    /\ \/ halted' = "no" /\ context_saved' = TRUE
       \/ halted' = "worker: no context" /\ ~context_saved /\ UNCHANGED context_saved
    /\ UNCHANGED <<procVars, waiting_for_exit, on_cpu, preempted, split, cut,
                   previous_scheduled_pid, callVars>>

\* In a process, which try_yield switches out.  The handler spins forever if
\* that process holds the lock of TIMER_CONDVAR.
TimerInProcess(p) ==
    /\ halted = "no"
    /\ on_cpu = p
    /\ sie
    /\ IF pc[p] = "push_timer"
       THEN /\ halted' = "timer: TIMER_CONDVAR lock"
            /\ UNCHANGED <<status, timer_waiting, ticks, cpu_proc, on_cpu, preempted, split, cut>>
       ELSE /\ Tick
            /\ status' = Yielded(Woken(status, timer_waiting), p)
            /\ timer_waiting' = {}
            /\ cpu_proc' = None
            /\ on_cpu' = None
            /\ preempted' = preempted \cup {p}
            /\ split' = IF pc[p] \in {"lock_pm", "lock_timer"} THEN split \cup {p} ELSE split
            /\ cut' = IF pc[p] = "switch" THEN cut \cup {p} ELSE cut
            /\ UNCHANGED halted
    /\ UNCHANGED <<procVars, waiting_for_exit, workVars, callVars>>

-----------------------------------------------------------------------------
\* A system call that p, in user mode, may make.
UserCall(p) ==
    \/ SchedYield(p)
    \/ \E c \in Proc : Clone(p, c)
    \/ Exit(p)
    \/ \E n \in WaitPids, option \in {0, WNOHANG} : WaitFor(p, n, option)
    \/ p \in Sleepers /\ \E n \in SleepArgs : SleepTicks(p, n)

\* The next stretch of the system call p is in.
KernelStep(p) ==
    \/ Yield(p)
    \/ Switch(p)
    \/ \E c \in Proc : Reap(p, c)
    \/ ScanNothing(p)
    \/ LockPM(p)
    \/ \E q \in Proc : WaitOn(p, q)
    \/ WaitOnNobody(p)
    \/ UnlockPM(p)
    \/ SleepTest(p)
    \/ LockTimer(p)
    \/ PushTimer(p)

Worker == Schedule \/ SwitchTo

Timer ==
    \/ TimerInWorker
    \/ TimerInScheduler
    \/ TimerBeforeSwitch
    \/ \E p \in Proc : TimerInProcess(p)

Next ==
    \/ Worker
    \/ Timer
    \/ \E p \in Proc : UserCall(p) \/ KernelStep(p)

Spec == Init /\ [][Next]_vars

\* The worker loops for ever.  The handler rearms the timer each time, and its
\* interrupt stays pending until interrupts are enabled: being enabled again and
\* again is enough for it to be taken.  The same is enough for a system call to
\* go on: from one tick to the next the hart executes much more than one of its
\* stretches, so the timer cannot stop it at the same point for ever.  Nothing
\* is assumed of user code.
Fairness ==
    /\ WF_vars(Worker)
    /\ SF_vars(Timer)
    /\ \A p \in Proc : SF_vars(KernelStep(p))

FairSpec == Spec /\ Fairness

-----------------------------------------------------------------------------
TypeOK ==
    /\ max \in Nat /\ free \in Seq(Nat)
    /\ pid \in [Proc -> Nat]
    /\ process_list \subseteq Proc
    /\ previous_scheduled_pid \in Nat
    /\ status \in [Proc -> ProcessStatus]
    /\ parent \in [Proc -> Proc \cup {None}]
    /\ children \in [Proc -> SUBSET Proc]
    /\ waiting_for_exit \in [Proc -> SUBSET Proc]
    /\ timer_waiting \subseteq Proc
    /\ cpu_proc \in Proc \cup {None}
    /\ on_cpu \in Proc \cup {None}
    /\ sie \in BOOLEAN
    /\ pm_lock \in Proc \cup {None}
    /\ pc \in [Proc -> Locations]
    /\ loop \in [Proc -> {"user", "scan", "sleep", "dead"}]
    /\ arg \in [Proc -> [pid : Int, option : {0, WNOHANG}]]
    /\ ticks \in [Proc -> Nat]
    /\ preempted \subseteq Proc /\ split \subseteq Proc /\ cut \subseteq Proc
    /\ worker \in {"schedule", "switch"}
    /\ context_saved \in BOOLEAN
    /\ lost \subseteq Proc

\* A process in the kernel's list is the child of exactly one process that
\* is still alive, so that somebody can reap it: exit hands the children of
\* the process that exits to init before it becomes a zombie.
EveryProcessHasAReaper ==
    \A c \in process_list \ {InitProc} :
        \E p \in process_list :
            /\ status[p] # "Zombie" /\ c \in children[p]
            /\ \A q \in process_list \ {p} : c \notin children[q]

\* Two processes in the process list never share a pid, and no listed pid is
\* on the allocator's free stack: wait_for drops the Pid with the process.
PidsUnique ==
    /\ \A p, q \in process_list : pid[p] = pid[q] => p = q
    /\ \A p \in process_list : ~Pids!InFree(pid[p]) /\ pid[p] \in 1..max

\* Creating and reaping processes uses the pid allocator as its module says.
PidAllocatorStep == [][Pids!Next]_(Pids!vars)

\* The assertions of exit ("There is 3 strong count expected") and of wait_for
\* ("Still someone holding child...") never fail.
StrongCountsAsExpected ==
    halted \notin {"exit: strong count", "wait_for: strong count", "Pid: already freed"}

\* A zombie is never put back to Ready or Running, though Condvar::wakeup
\* sets the status of whatever is in its list without looking at it.
ZombieIsFinal ==
    [][\A p \in process_list : status[p] = "Zombie" => status'[p] = "Zombie"]_vars

\* A process leaves the process list only as a zombie, reaped by the process
\* that has it among its children.  The list is keyed by pid: no insert of fork
\* replaces the entry of a process that is still there, and no remove of
\* wait_for takes another process than the zombie.
OnlyReapedByParent ==
    [][\A c \in process_list \ process_list' :
         status[c] = "Zombie" /\ \E p \in Proc : on_cpu = p /\ c \in children[p]]_vars

\* A process that is off the hart holds PROCESS_MANAGER, or the lock of
\* TIMER_CONDVAR, only because the timer took it off there: wait_for and
\* sleep_ticks drop their guards before do_yield, and none is held at a return.
\* The worker, which needs the first, can then only spin.
LocksLeftOnlyByTimer ==
    \A p \in Proc : on_cpu # p /\ (pm_lock = p \/ pc[p] = "push_timer") =>
        /\ p \in preempted
        /\ pc[p] \in {"get_target", "unlock_pm"}

\* A wakeup is lost only to a timer between the two halves of a wait: between
\* setting Suspend and joining the list of the timer in sleep_ticks, or between
\* the scan of wait_for and its Condvar::wait.  Any other process switched out
\* as Suspend in sleep_ticks is on the list of the timer; one in wait_for of a
\* child that it forked itself is on the list of that child, whose exit, and so
\* the wakeup, is still to come.  (Nothing of the kind holds of an adopted
\* child: init, blocked on a zombie of somebody else that is reaped, may adopt
\* a later process with the same pid.)
SuspendedOnItsCondvar ==
    \A p \in process_list \ split : status[p] = "Suspend" /\ on_cpu # p =>
        /\ loop[p] = "sleep" => p \in timer_waiting
        /\ \A c \in LiveChildren(p) :
             loop[p] = "scan" /\ arg[p].pid = pid[c] /\ parent[c] = p =>
                 p \in waiting_for_exit[c] /\ status[c] # "Zombie"

\* Only the process in CPU::proc, the one on the hart or about to get it, is
\* Running: the scheduler would never choose another one again.  The exception
\* is a do_yield that the timer splits after yield_process: the process, Ready,
\* is scheduled again and then gives up the hart with the status Running.
OnlyCurrentIsRunning ==
    \A p \in process_list : status[p] = "Running" /\ cpu_proc # p => p \in cut

-----------------------------------------------------------------------------
\* The kernel came to a stop: a panic, a handler that spins, a jump through a
\* lost context, or a worker that spins on PROCESS_MANAGER for ever because the
\* timer took the hart from its holder.
Stopped == halted # "no" \/ (pm_lock # None /\ on_cpu # pm_lock)

\* What a timer may do to p for good: lose its context in the worker, split its
\* wait, so that no wakeup will come, or split its do_yield, so that it gives up
\* the hart with the status Running, which nobody changes.
LeftBehind(p) ==
    \/ p \in lost
    \/ p \in split /\ status[p] = "Suspend" /\ on_cpu # p
    \/ p \in cut /\ status[p] = "Running" /\ cpu_proc # p

\* A Ready process gets the hart, the scheduler going round the pids and the
\* timer taking the hart from a process that does not give it up, unless the
\* timer arrives as the worker is about to switch to it.
NoStarvation ==
    \A p \in Proc : (p \in process_list /\ status[p] = "Ready")
                      ~> (on_cpu = p \/ p \in lost \/ Stopped)

\* sleep_ticks returns, whatever the other processes do, unless a timer splits
\* its Condvar::wait or its do_yield, or costs it its context.
SleepReturns ==
    \A p \in Proc : loop[p] = "sleep" ~> (loop[p] = "user" \/ LeftBehind(p) \/ Stopped)

\* wait_for returns once a child it waits for, and that it forked itself, is
\* a zombie: exit wakes the parent if it is on the child's list, and the next
\* pass of wait_for finds the zombie.  The exceptions are those of sleep_ticks.
WaitReturns ==
    \A p \in Proc : (loop[p] = "scan" /\ \E c \in Reapable(p) : parent[c] = p)
                      ~> (loop[p] = "user" \/ LeftBehind(p) \/ Stopped)
=============================================================================
