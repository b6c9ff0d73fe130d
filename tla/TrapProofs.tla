----------------------------- MODULE TrapProofs -----------------------------
(***************************************************************************)
(* Proofs about Trap for any number of processes, execve calls and nested  *)
(* kernel traps, whatever a new kernel stack holds and wherever the timer  *)
(* interrupts the worker.                                                  *)
(***************************************************************************)
EXTENDS Trap, SequenceTheorems, TLAPS

\* The assertion of user_trap_handler (trap.rs:156) can fail only in a process
\* that has not trapped from user mode before: from then on its TrapContext
\* holds an sstatus that leads back there.
FailsOnFirstReturnOnly == halted = "User trap not from user!" => run \notin trapped

\* A saved context stops being on its process's stack only when the timer
\* interrupts the worker after set_process and yields for the process there.
LostOnlyInWindow ==
    [][\A p \in Proc : task[p].thread = p /\ task'[p].thread # p =>
         run = Worker /\ pc[Worker] = "trap" /\ frames[Worker][1].sepc \in {"window", "saved"}]_vars

Tables == (Proc \X (1..(MaxExec + 1))) \cup {KernelTable}
TrapContexts == [satp : Tables, sstatus : Statuses]
Frame == [sepc : Places, sstatus : Statuses]

TypeInv ==
    /\ mode \in {"U", "S"} /\ sstatus \in Statuses
    /\ stvec \in {"trap_save_u", "trap_save_s"}
    /\ run \in Threads /\ cpu_proc \in Proc \cup {None} /\ chosen \in Proc \cup {None}
    /\ satp \in Tables /\ sscratch \in Proc \cup {None}
    /\ pc \in [Threads -> Places]
    /\ frames \in [Threads -> Seq(Frame)]
    /\ task \in [Proc -> Contexts] /\ cpu_task \in Contexts
    /\ trap_context \in [Proc -> TrapContexts]
    /\ table \in [Proc -> 0..(MaxExec + 1)]
    /\ trapped \subseteq Proc

\* CPU::proc is the process that runs, or that the worker is switching to.
RunInv ==
    /\ run # Worker => /\ cpu_proc = run /\ Exists(run) /\ pc[Worker] = "loop"
                       /\ pc[run] \in {"start", "user", "kernel", "return", "sret", "trap"}
    /\ run = Worker => pc[Worker] \in {"loop", "trap", "window", "saved"}
    /\ run = Worker /\ pc[Worker] = "loop" => cpu_proc = None
    /\ run = Worker /\ pc[Worker] \in {"window", "saved"} =>
         cpu_proc = chosen /\ chosen \in Proc /\ Exists(chosen)
    /\ run = Worker /\ pc[Worker] = "trap" => ~sstatus.sie
    /\ pc[run] = "return" => ~sstatus.sie
    /\ mode = "U" => pc[run] = "user"

\* A context saved for a process is of that process, at the place it stopped,
\* or was lost to the worker's stack.
SavedInv ==
    /\ cpu_task \in {Context(Worker, "zero"), Context(Worker, "loop")}
    /\ run # Worker \/ pc[Worker] = "saved" => cpu_task = Context(Worker, "loop")
    /\ \A p \in Proc : run = p => task[p].thread = p
    /\ \A p \in Proc : run # p => /\ task[p].thread = p => task[p] = Context(p, pc[p])
                                  /\ pc[p] \in {"start", "kernel", "trap"}

\* The frames of a stack: the outermost trap interrupted the thread's own code,
\* the others interrupted a trap; each returns to supervisor mode.  The worker
\* has at most one, and its trap finds a process to yield for only if it came
\* after set_process.
FrameInv ==
    /\ \A t \in Threads :
        /\ pc[t] = "trap" <=> Len(frames[t]) > 0
        /\ \A i \in 1..Len(frames[t]) :
             /\ frames[t][i].sstatus.spp = "S"
             /\ i = 1 /\ t = Worker => frames[t][i].sepc \in {"loop", "window", "saved"}
             /\ i = 1 /\ t # Worker => frames[t][i].sepc \in {"start", "kernel"}
             /\ i > 1 => t # Worker /\ frames[t][i].sepc = "trap"
    /\ pc[Worker] = "trap" /\ frames[Worker][1].sepc = "loop" => cpu_proc = None
    /\ pc[Worker] = "trap" /\ frames[Worker][1].sepc # "loop" =>
         cpu_proc = chosen /\ chosen \in Proc /\ Exists(chosen)
    /\ pc[Worker] = "trap" /\ frames[Worker][1].sepc = "saved" => cpu_task = Context(Worker, "loop")

\* The user's side of the swap starts at trap_ret_u, before its sret.
OnUserSide == pc[run] \in {"sret", "user"}

SwapInv ==
    /\ OnUserSide => /\ satp = Own(run) /\ sscratch = run /\ stvec = "trap_save_u"
                     /\ trap_context[run].satp = KernelTable
    /\ ~OnUserSide => /\ satp = KernelTable
                      /\ stvec = IF pc[run] = "return" THEN "trap_save_u" ELSE "trap_save_s"
    /\ \A p \in Proc : Exists(p) /\ ~(OnUserSide /\ p = run) => trap_context[p].satp = Own(p)

\* Once a process has trapped from user mode, its TrapContext leads back there,
\* with interrupts off up to the sret.
TrappedInv ==
    /\ \A p \in trapped : /\ Exists(p)
                          /\ trap_context[p].sstatus.spp = "U" /\ ~trap_context[p].sstatus.sie
    /\ run \in trapped /\ pc[run] = "sret" => sstatus.spp = "U" /\ ~sstatus.sie
    /\ run \in trapped /\ pc[run] = "user" => mode = "U"
    /\ FailsOnFirstReturnOnly

Inv == TypeInv /\ RunInv /\ SavedInv /\ FrameInv /\ SwapInv /\ TrappedInv

\* Storing a page table into a TrapContext.
LEMMA StoreTable ==
  ASSUME NEW c \in TrapContexts, NEW s \in Tables
  PROVE  [c EXCEPT !.satp = s] \in TrapContexts
BY DEF TrapContexts

\* A step that pushes and pops no frame, by which nobody enters or leaves a
\* trap, and that leaves what a trap of the worker has to find.
LEMMA FramesKept ==
  ASSUME Inv, frames' = frames, \A t \in Threads : pc'[t] = "trap" <=> pc[t] = "trap",
         Worker \in Threads,
         pc[Worker] = "trap" => UNCHANGED <<cpu_proc, chosen, cpu_task>> /\ \A p \in Proc : Exists(p) => Exists(p)'
  PROVE  FrameInv'
<1>1. pc'[Worker] = "trap" <=> pc[Worker] = "trap"
  OBVIOUS
<1> QED BY <1>1 DEF Inv, FrameInv

LEMMA AllKept ==
  ASSUME Inv, UNCHANGED vars
  PROVE  Inv'
<1>1. /\ mode' = mode /\ sstatus' = sstatus /\ stvec' = stvec /\ satp' = satp /\ sscratch' = sscratch
      /\ run' = run /\ cpu_proc' = cpu_proc /\ chosen' = chosen /\ pc' = pc /\ frames' = frames
      /\ task' = task /\ cpu_task' = cpu_task /\ trap_context' = trap_context /\ table' = table
      /\ trapped' = trapped /\ halted' = halted
  BY DEF vars, hart, contexts, memory, history
<1>2. TypeInv' /\ RunInv'
  BY <1>1 DEF Inv, TypeInv, RunInv, Exists
<1>3. SavedInv' /\ FrameInv'
  BY <1>1 DEF Inv, SavedInv, FrameInv, Exists
<1>4. SwapInv'
  BY <1>1 DEF Inv, SwapInv, OnUserSide, Exists, Own
<1>5. TrappedInv'
  BY <1>1 DEF Inv, TrappedInv, Exists, FailsOnFirstReturnOnly
<1> QED BY <1>2, <1>3, <1>4, <1>5 DEF Inv

USE ConstantsAssumption
    DEF Threads, Statuses, hart, contexts, memory, history, Own, Exists, At, Goto, Context,
        Contexts, OnUserSide

LEMMA InitInv ==
  ASSUME Init
  PROVE  Inv
<1>1. TypeInv
  <2>1. frames \in [Threads -> Seq(Frame)]
    BY DEF Init
  <2>2. trap_context \in [Proc -> TrapContexts]
    BY DEF Init, Tables, TrapContexts
  <2> QED BY <2>1, <2>2 DEF Init, TypeInv, Tables, Places
<1>2. RunInv /\ SavedInv
  BY DEF Init, RunInv, SavedInv
<1>3. FrameInv
  <2>1. \A t \in Threads : frames[t] = <<>> /\ pc[t] # "trap"
    BY DEF Init
  <2>2. \A t \in Threads : Len(frames[t]) = 0
    BY <2>1
  <2> QED BY <2>1, <2>2 DEF FrameInv
<1>4. SwapInv
  BY DEF Init, SwapInv
<1>5. TrappedInv
  BY DEF Init, TrappedInv, FailsOnFirstReturnOnly
<1> QED BY <1>1, <1>2, <1>3, <1>4, <1>5 DEF Inv

-----------------------------------------------------------------------------
(* Between user mode and the kernel *)

LEMMA UserTrapInv ==
  ASSUME Inv, NEW p \in Proc, UserTrap(p)
  PROVE  Inv'
<1> USE DEF UserTrap
<1>1. run = p /\ p # Worker /\ OnUserSide
  BY DEF Inv, RunInv, SwapInv
<1>2. sscratch = p /\ satp = Own(p) /\ trap_context[p].satp = KernelTable /\ Exists(p)
  BY <1>1 DEF Inv, RunInv, SwapInv
<1>3. TypeInv'
  <2>1. sstatus' \in Statuses /\ satp \in Tables
    BY DEF Inv, TypeInv
  <2>2. [satp |-> satp, sstatus |-> sstatus'] \in TrapContexts
    BY <2>1 DEF TrapContexts
  <2>3. trap_context' \in [Proc -> TrapContexts]
    BY <1>2, <2>2 DEF Inv, TypeInv
  <2>4. satp' \in Tables /\ trapped' \subseteq Proc
    BY <1>2 DEF Inv, TypeInv, Tables
  <2> QED BY <1>1, <2>1, <2>3, <2>4 DEF Inv, TypeInv, Places
<1>4. RunInv'
  BY <1>1, <1>2 DEF Inv, TypeInv, RunInv
<1>5. SavedInv'
  BY <1>1 DEF Inv, TypeInv, SavedInv
<1>6. FrameInv'
  <2>1. frames' = frames /\ \A t \in Threads : pc'[t] = "trap" <=> pc[t] = "trap"
    BY <1>1 DEF Inv, TypeInv
  <2>2. pc[Worker] # "trap"
    BY <1>1 DEF Inv, RunInv
  <2> QED BY <2>1, <2>2, FramesKept
<1>7. SwapInv'
  BY <1>1, <1>2 DEF Inv, TypeInv, TrapContexts, SwapInv
<1>8. TrappedInv'
  <2>1. trap_context'[p].sstatus = sstatus' /\ \A q \in Proc \ {p} : trap_context'[q] = trap_context[q]
    BY <1>2 DEF Inv, TypeInv
  <2>2. sstatus'.spp = mode /\ ~sstatus'.sie
    OBVIOUS
  <2>3. pc'[p] = "kernel" /\ run' = p /\ table' = table
    BY <1>1 DEF Inv, TypeInv
  <2>4. mode = "S" => p \notin trapped
    BY <1>1 DEF Inv, TypeInv, TrappedInv
  <2>5. CASE mode = "U"
    <3>1. trapped' = trapped \cup {p} /\ halted' = "no" /\ trapped \subseteq Proc
      BY <2>5 DEF Inv, TypeInv
    <3>2. \A q \in trapped' : /\ table'[q] > 0 /\ ~trap_context'[q].sstatus.sie
                              /\ trap_context'[q].sstatus.spp = "U"
      <4> SUFFICES ASSUME NEW q \in trapped'
                   PROVE  /\ table'[q] > 0 /\ ~trap_context'[q].sstatus.sie
                          /\ trap_context'[q].sstatus.spp = "U"
        OBVIOUS
      <4>1. CASE q = p
        BY <1>2, <2>1, <2>2, <2>3, <2>5, <4>1
      <4>2. CASE q # p
        <5>1. q \in trapped /\ q \in Proc /\ trap_context'[q] = trap_context[q]
          BY <2>1, <3>1, <4>2
        <5>2. table[q] > 0 /\ trap_context[q].sstatus.spp = "U" /\ ~trap_context[q].sstatus.sie
          BY <5>1 DEF Inv, TrappedInv
        <5> QED BY <2>3, <5>1, <5>2
      <4> QED BY <4>1, <4>2
    <3> QED BY <2>3, <3>1, <3>2 DEF TrappedInv, FailsOnFirstReturnOnly
  <2>6. CASE mode = "S"
    <3>1. trapped' = trapped /\ trapped \subseteq Proc /\ p \notin trapped
      BY <2>4, <2>6 DEF Inv, TypeInv
    <3>2. \A q \in trapped : table'[q] = table[q] /\ trap_context'[q] = trap_context[q]
      BY <2>1, <2>3, <3>1
    <3>3. \A q \in trapped : /\ table[q] > 0 /\ ~trap_context[q].sstatus.sie
                             /\ trap_context[q].sstatus.spp = "U"
      BY DEF Inv, TrappedInv
    <3> HIDE DEF UserTrap
    <3> QED BY <2>3, <3>1, <3>2, <3>3 DEF TrappedInv, FailsOnFirstReturnOnly
  <2> QED BY <2>5, <2>6 DEF Inv, TypeInv
<1> QED BY <1>3, <1>4, <1>5, <1>6, <1>7, <1>8 DEF Inv

LEMMA returnerInv ==
  ASSUME Inv, NEW p \in Proc, user_trap_returner(p)
  PROVE  Inv'
<1> USE DEF user_trap_returner
<1>1. run = p /\ p # Worker /\ cpu_proc = p /\ Exists(p) /\ ~OnUserSide
  BY DEF Inv, RunInv
<1>2. TypeInv'
  BY <1>1 DEF Inv, TypeInv, Places
<1>3. RunInv'
  BY <1>1 DEF Inv, TypeInv, RunInv
<1>4. SavedInv'
  BY <1>1 DEF Inv, TypeInv, SavedInv
<1>5. FrameInv'
  <2>1. frames' = frames /\ \A t \in Threads : pc'[t] = "trap" <=> pc[t] = "trap"
    BY <1>1 DEF Inv, TypeInv
  <2>2. pc[Worker] # "trap"
    BY <1>1 DEF Inv, RunInv
  <2> QED BY <2>1, <2>2, FramesKept
<1>6. SwapInv'
  BY <1>1 DEF Inv, TypeInv, SwapInv
<1>7. TrappedInv'
  BY <1>1 DEF Inv, TypeInv, TrappedInv, FailsOnFirstReturnOnly
<1> QED BY <1>2, <1>3, <1>4, <1>5, <1>6, <1>7 DEF Inv

LEMMA trap_ret_uInv ==
  ASSUME Inv, NEW p \in Proc, trap_ret_u(p)
  PROVE  Inv'
<1> USE DEF trap_ret_u
<1>1. run = p /\ p # Worker /\ cpu_proc = p /\ Exists(p) /\ ~OnUserSide
  BY DEF Inv, RunInv
<1>2. satp = KernelTable /\ trap_context[p].satp = Own(p)
  BY <1>1 DEF Inv, SwapInv
<1>3. TypeInv'
  <2>1. [trap_context[p] EXCEPT !.satp = satp] \in TrapContexts
    BY StoreTable DEF Inv, TypeInv
  <2>2. trap_context' \in [Proc -> TrapContexts]
    BY <1>1, <2>1 DEF Inv, TypeInv
  <2>3. satp' \in Tables /\ sstatus' \in Statuses
    BY <1>1 DEF Inv, TypeInv, TrapContexts
  <2> QED BY <1>1, <2>2, <2>3 DEF Inv, TypeInv, Places
<1>4. RunInv'
  BY <1>1 DEF Inv, TypeInv, RunInv
<1>5. SavedInv'
  BY <1>1 DEF Inv, TypeInv, SavedInv
<1>6. FrameInv'
  <2>1. frames' = frames /\ \A t \in Threads : pc'[t] = "trap" <=> pc[t] = "trap"
    BY <1>1 DEF Inv, TypeInv
  <2>2. pc[Worker] # "trap"
    BY <1>1 DEF Inv, RunInv
  <2> QED BY <2>1, <2>2, FramesKept
<1>7. SwapInv'
  <2>1. stvec = "trap_save_u"
    BY <1>1 DEF Inv, SwapInv
  <2> QED BY <1>1, <1>2, <2>1 DEF Inv, TypeInv, TrapContexts, SwapInv
<1>8. TrappedInv'
  <2>1. \A q \in Proc : trap_context'[q].sstatus = trap_context[q].sstatus
    BY <1>1 DEF Inv, TypeInv, TrapContexts
  <2>2. sstatus' = trap_context[p].sstatus /\ pc'[p] = "sret"
    BY <1>1 DEF Inv, TypeInv
  <2>3. UNCHANGED <<table, run, trapped, halted>>
    OBVIOUS
  <2> QED BY <1>1, <2>1, <2>2, <2>3 DEF Inv, TypeInv, TrappedInv, FailsOnFirstReturnOnly
<1> QED BY <1>3, <1>4, <1>5, <1>6, <1>7, <1>8 DEF Inv

LEMMA SretInv ==
  ASSUME Inv, NEW p \in Proc, Sret(p)
  PROVE  Inv'
<1> USE DEF Sret
<1>1. run = p /\ p # Worker
  OBVIOUS
<1>2. TypeInv'
  BY <1>1 DEF Inv, TypeInv, Places
<1>3. RunInv'
  BY <1>1 DEF Inv, TypeInv, RunInv
<1>4. SavedInv'
  BY <1>1 DEF Inv, TypeInv, SavedInv
<1>5. FrameInv'
  <2>1. frames' = frames /\ \A t \in Threads : pc'[t] = "trap" <=> pc[t] = "trap"
    BY <1>1 DEF Inv, TypeInv
  <2>2. pc[Worker] # "trap"
    BY <1>1 DEF Inv, RunInv
  <2> QED BY <2>1, <2>2, FramesKept
<1>6. SwapInv'
  BY <1>1 DEF Inv, TypeInv, TrapContexts, SwapInv
<1>7. TrappedInv'
  BY <1>1 DEF Inv, TypeInv, TrappedInv, FailsOnFirstReturnOnly
<1> QED BY <1>2, <1>3, <1>4, <1>5, <1>6, <1>7 DEF Inv

LEMMA forkInv ==
  ASSUME Inv, NEW p \in Proc, NEW c \in Proc, fork(p, c)
  PROVE  Inv'
<1> USE DEF fork
<1>1. ~OnUserSide /\ run = p /\ p # Worker
  BY DEF Inv, RunInv
<1>2. TypeInv'
  <2>1. table' \in [Proc -> 0..(MaxExec + 1)]
    BY DEF Inv, TypeInv
  <2>2. \A s \in Statuses : [satp |-> <<c, 1>>, sstatus |-> s] \in TrapContexts
    BY DEF Tables, TrapContexts
  <2>3. trap_context' \in [Proc -> TrapContexts]
    BY <2>2 DEF Inv, TypeInv
  <2> QED BY <2>1, <2>3 DEF Inv, TypeInv
<1>3. RunInv' /\ SavedInv'
  BY DEF Inv, TypeInv, RunInv, SavedInv
<1>5. FrameInv'
  <2>1. pc[Worker] # "trap" /\ frames' = frames /\ pc' = pc
    BY <1>1 DEF Inv, RunInv
  <2> QED BY <2>1, FramesKept
<1>4. SwapInv' /\ TrappedInv'
  <2>1. PICK s \in Statuses :
            trap_context' = [trap_context EXCEPT ![c] = [satp |-> <<c, 1>>, sstatus |-> s]]
    OBVIOUS
  <2>3. /\ trap_context'[c].satp = <<c, 1>> /\ trap_context'[c].sstatus = s
        /\ table'[c] = 1
        /\ \A q \in Proc \ {c} : trap_context'[q] = trap_context[q] /\ table'[q] = table[q]
    BY <2>1 DEF Inv, TypeInv
  <2>4. /\ ~OnUserSide' /\ run' = run /\ pc' = pc /\ satp' = satp /\ stvec' = stvec
        /\ sstatus' = sstatus /\ mode' = mode /\ trapped' = trapped /\ halted' = halted
    BY <1>1
  <2>5. c \notin trapped
    BY DEF Inv, TrappedInv
  <2>6. SwapInv'
    BY <1>1, <2>3, <2>4 DEF Inv, SwapInv
  <2>7. TrappedInv'
    BY <1>1, <2>3, <2>4, <2>5 DEF Inv, TypeInv, TrappedInv, FailsOnFirstReturnOnly
  <2> QED BY <2>6, <2>7
<1> QED BY <1>2, <1>3, <1>4, <1>5 DEF Inv

LEMMA execveInv ==
  ASSUME Inv, NEW p \in Proc, execve(p)
  PROVE  Inv'
<1> USE DEF execve
<1>1. ~OnUserSide /\ Exists(p) /\ run = p /\ p # Worker
  BY DEF Inv, RunInv
<1>2. TypeInv'
  <2>1. table[p] + 1 \in 1..(MaxExec + 1)
    BY <1>1 DEF Inv, TypeInv
  <2>2. table' \in [Proc -> 0..(MaxExec + 1)]
    BY <2>1 DEF Inv, TypeInv
  <2>3. <<p, table[p] + 1>> \in Tables
    BY <2>1 DEF Tables
  <2>4. [trap_context[p] EXCEPT !.satp = <<p, table[p] + 1>>] \in TrapContexts
    BY <2>3, StoreTable DEF Inv, TypeInv
  <2>5. trap_context' \in [Proc -> TrapContexts]
    BY <2>4 DEF Inv, TypeInv
  <2> QED BY <2>2, <2>5 DEF Inv, TypeInv
<1>3. RunInv' /\ SavedInv'
  BY <1>1 DEF Inv, TypeInv, RunInv, SavedInv
<1>4. SwapInv'
  BY <1>1 DEF Inv, TypeInv, TrapContexts, SwapInv
<1>5. FrameInv'
  <2>1. pc[Worker] # "trap" /\ frames' = frames /\ pc' = pc
    BY <1>1 DEF Inv, RunInv
  <2> QED BY <2>1, FramesKept
<1>6. TrappedInv'
  <2>1. \A q \in Proc : trap_context'[q].sstatus = trap_context[q].sstatus
    BY DEF Inv, TypeInv, TrapContexts
  <2>2. \A q \in Proc : Exists(q) => table'[q] > 0
    BY <1>1 DEF Inv, TypeInv
  <2>3. UNCHANGED <<mode, sstatus, pc, run, trapped, halted>>
    OBVIOUS
  <2> QED BY <2>1, <2>2, <2>3 DEF Inv, TypeInv, TrappedInv, FailsOnFirstReturnOnly
<1> QED BY <1>2, <1>3, <1>4, <1>5, <1>6 DEF Inv

-----------------------------------------------------------------------------
(* Switching *)

\* A stop changes nothing but halted.
LEMMA HaltInv ==
  ASSUME Inv, halted' \in {"no worker context", "lost context"},
         UNCHANGED <<hart, run, cpu_proc, chosen, pc, frames, contexts, memory, trapped>>
  PROVE  Inv'
<1>0. /\ mode' = mode /\ sstatus' = sstatus /\ stvec' = stvec /\ satp' = satp /\ sscratch' = sscratch
      /\ run' = run /\ cpu_proc' = cpu_proc /\ chosen' = chosen /\ pc' = pc /\ frames' = frames
      /\ task' = task /\ cpu_task' = cpu_task /\ trap_context' = trap_context /\ table' = table
      /\ trapped' = trapped
  OBVIOUS
<1>1. TypeInv'
  BY <1>0 DEF Inv, TypeInv
<1>2. RunInv' /\ SavedInv'
  BY <1>0 DEF Inv, RunInv, SavedInv
<1>3. FrameInv'
  BY <1>0, FramesKept
<1>4. SwapInv'
  BY <1>0 DEF Inv, SwapInv
<1>5. TrappedInv'
  BY <1>0 DEF Inv, TrappedInv, FailsOnFirstReturnOnly
<1> QED BY <1>1, <1>2, <1>3, <1>4, <1>5 DEF Inv

\* Yield and KernelTrapYield: the thread on the hart, the process p or the
\* worker on its way to p, stops at a place where its context may be saved.
LEMMA DoYieldInv ==
  ASSUME Inv, NEW p \in Proc, NEW t \in Threads, halted = "no", run = t, cpu_proc = p,
         mode = "S", pc[t] \in {"kernel", "trap"}, DoYield(t, p)
  PROVE  Inv'
<1> USE DEF DoYield
<1>1. CASE cpu_task.at = "zero"
  BY <1>1, HaltInv
<1>2. CASE cpu_task.at # "zero"
  <2>1. cpu_task = Context(Worker, "loop") /\ ~OnUserSide /\ p # Worker
    BY <1>2 DEF Inv, SavedInv
  <2>2. t = p \/ t = Worker
    BY DEF Inv, RunInv
  <2>3. /\ pc' = [pc EXCEPT ![Worker] = "loop"] /\ run' = Worker /\ cpu_proc' = None
        /\ task' = [task EXCEPT ![p] = Context(t, pc[t])]
        /\ frames' = [frames EXCEPT ![Worker] = <<>>]
        /\ UNCHANGED <<mode, sstatus, stvec, satp, sscratch, chosen, cpu_task, trap_context,
                       table, trapped, halted>>
    BY <1>2, <2>1
  <2>4. /\ pc'[Worker] = "loop" /\ frames'[Worker] = <<>>
        /\ \A q \in Proc : pc'[q] = pc[q] /\ frames'[q] = frames[q]
    BY <2>3 DEF Inv, TypeInv
  <2> HIDE DEF DoYield
  <2>5. TypeInv'
    BY <2>1, <2>3 DEF Inv, TypeInv, Places
  <2>6. RunInv'
    BY <2>3, <2>4 DEF Inv, TypeInv, RunInv
  <2>7. SavedInv'
    <3>1. task'[p] = Context(t, pc[t]) /\ \A q \in Proc \ {p} : task'[q] = task[q]
      BY <2>3 DEF Inv, TypeInv
    <3>2. \A q \in Proc \ {p} : run # q
      BY <2>1, <2>2
    <3>3. pc[p] \in {"start", "kernel", "trap"}
      BY <2>1, <2>2 DEF Inv, SavedInv
    <3>4. \A q \in Proc : run' # q
      BY <2>3
    <3> QED BY <2>1, <2>2, <2>3, <2>4, <3>1, <3>2, <3>3, <3>4 DEF Inv, SavedInv
  <2>8. FrameInv'
    <3>1. pc'[Worker] # "trap" /\ Len(frames'[Worker]) = 0
      BY <2>4
    <3> QED BY <2>4, <3>1 DEF Inv, FrameInv
  <2>9. SwapInv'
    BY <2>1, <2>2, <2>3, <2>4 DEF Inv, TypeInv, SwapInv
  <2>10. TrappedInv'
    BY <2>3, <2>4 DEF Inv, TypeInv, TrappedInv, FailsOnFirstReturnOnly
  <2> QED BY <2>5, <2>6, <2>7, <2>8, <2>9, <2>10 DEF Inv
<1> QED BY <1>1, <1>2

LEMMA YieldInv ==
  ASSUME Inv, NEW p \in Proc, Yield(p)
  PROVE  Inv'
<1>1. halted = "no" /\ run = p /\ mode = "S" /\ pc[p] = "kernel" /\ cpu_proc = p
  BY DEF Yield, Inv, RunInv
<1> QED BY <1>1, DoYieldInv DEF Yield

LEMMA IdleInv ==
  ASSUME Inv, Idle
  PROVE  Inv'
<1> USE DEF Idle
<1>1. run = Worker /\ pc[Worker] = "loop"
  OBVIOUS
<1>2. TypeInv' /\ RunInv'
  BY <1>1 DEF Inv, TypeInv, RunInv
<1>3. SavedInv' /\ FrameInv'
  BY <1>1 DEF Inv, SavedInv, FrameInv
<1>4. SwapInv' /\ TrappedInv'
  BY <1>1 DEF Inv, TypeInv, SwapInv, TrappedInv, FailsOnFirstReturnOnly
<1> QED BY <1>2, <1>3, <1>4 DEF Inv

LEMMA PickInv ==
  ASSUME Inv, NEW p \in Proc, Pick(p)
  PROVE  Inv'
<1> USE DEF Pick
<1>0. /\ run = Worker /\ pc[Worker] = "loop" /\ pc'[Worker] = "window"
      /\ \A q \in Proc : pc'[q] = pc[q]
  BY DEF Inv, TypeInv
<1>1. TypeInv'
  BY DEF Inv, TypeInv, Places
<1>2. RunInv'
  BY <1>0 DEF Inv, TypeInv, RunInv
<1>3. SavedInv'
  BY <1>0 DEF Inv, TypeInv, SavedInv
<1>4. FrameInv'
  <2>1. frames' = frames /\ \A t \in Threads : pc'[t] = "trap" <=> pc[t] = "trap"
    BY <1>0
  <2> QED BY <1>0, <2>1, FramesKept
<1>5. SwapInv'
  BY <1>0 DEF Inv, TypeInv, SwapInv
<1>6. TrappedInv'
  BY <1>0 DEF Inv, TypeInv, TrappedInv, FailsOnFirstReturnOnly
<1> QED BY <1>1, <1>2, <1>3, <1>4, <1>5, <1>6 DEF Inv

LEMMA SaveInv ==
  ASSUME Inv, Save
  PROVE  Inv'
<1> USE DEF Save
<1>0. /\ run = Worker /\ pc[Worker] = "window" /\ pc'[Worker] = "saved"
      /\ \A q \in Proc : pc'[q] = pc[q]
  BY DEF Inv, TypeInv
<1>1. TypeInv'
  BY DEF Inv, TypeInv, Places
<1>2. RunInv'
  BY <1>0 DEF Inv, TypeInv, RunInv
<1>3. SavedInv'
  BY <1>0 DEF Inv, TypeInv, SavedInv
<1>4. FrameInv'
  <2>1. frames' = frames /\ \A t \in Threads : pc'[t] = "trap" <=> pc[t] = "trap"
    BY <1>0
  <2> QED BY <1>0, <2>1, FramesKept
<1>5. SwapInv'
  BY <1>0 DEF Inv, TypeInv, SwapInv
<1>6. TrappedInv'
  BY <1>0 DEF Inv, TypeInv, TrappedInv, FailsOnFirstReturnOnly
<1> QED BY <1>1, <1>2, <1>3, <1>4, <1>5, <1>6 DEF Inv

LEMMA SwitchInv ==
  ASSUME Inv, Switch
  PROVE  Inv'
<1>1. run = Worker /\ pc[Worker] = "saved" /\ chosen \in Proc /\ Exists(chosen) /\ cpu_proc = chosen
  BY DEF Switch, Inv, RunInv
<1>2. CASE task[chosen].thread # chosen
  BY <1>2, HaltInv DEF Switch
<1>3. CASE task[chosen].thread = chosen
  <2>1. /\ task[chosen] = Context(chosen, pc[chosen])
        /\ pc[chosen] \in {"start", "kernel", "trap"}
    BY <1>1, <1>3 DEF Inv, SavedInv
  <2>2. /\ run' = chosen
        /\ pc' = [pc EXCEPT ![Worker] = "loop", ![chosen] = pc[chosen]]
        /\ UNCHANGED <<mode, sstatus, stvec, satp, sscratch, cpu_proc, chosen, frames,
                       task, cpu_task, trap_context, table, trapped, halted>>
    BY <1>3, <2>1 DEF Switch
  <2>3. pc'[Worker] = "loop" /\ \A q \in Proc : pc'[q] = pc[q]
    BY <1>1, <2>2 DEF Inv, TypeInv
  <2>4. TypeInv'
    <3>1. pc' \in [Threads -> Places]
      BY <1>1, <2>2 DEF Inv, TypeInv, Places
    <3> QED BY <1>1, <2>2, <3>1 DEF Inv, TypeInv
  <2>5. RunInv'
    BY <1>1, <2>1, <2>2, <2>3 DEF Inv, TypeInv, RunInv
  <2>6. SavedInv'
    <3>1. cpu_task = Context(Worker, "loop")
      BY <1>1 DEF Inv, SavedInv
    <3>2. \A p \in Proc : run # p
      BY <1>1
    <3> QED BY <1>3, <2>2, <2>3, <3>1, <3>2 DEF Inv, SavedInv
  <2>7. FrameInv'
    <3>1. \A t \in Threads : pc'[t] = "trap" <=> pc[t] = "trap"
      BY <1>1, <2>3
    <3> QED BY <1>1, <2>2, <3>1, FramesKept
  <2>8. SwapInv'
    BY <1>1, <2>1, <2>2, <2>3 DEF Inv, TypeInv, SwapInv
  <2>9. TrappedInv'
    <3>1. halted = "no" /\ pc'[run'] \notin {"sret", "user"}
      BY <1>1, <2>1, <2>2, <2>3 DEF Switch
    <3> QED BY <2>2, <3>1 DEF Inv, TrappedInv, FailsOnFirstReturnOnly
  <2> QED BY <2>4, <2>5, <2>6, <2>7, <2>8, <2>9 DEF Inv
<1> QED BY <1>2, <1>3

-----------------------------------------------------------------------------
(* Traps taken in the kernel *)

\* What trap_save_s pushes and pops.
LEMMA PushFrame ==
  ASSUME NEW s \in Seq(Frame), NEW f \in Frame
  PROVE  /\ Append(s, f) \in Seq(Frame)
         /\ Len(Append(s, f)) = Len(s) + 1
         /\ \A i \in 1..Len(s) : Append(s, f)[i] = s[i]
         /\ Append(s, f)[Len(s) + 1] = f
OBVIOUS

LEMMA PopFrame ==
  ASSUME NEW s \in Seq(Frame), Len(s) > 0
  PROVE  /\ SubSeq(s, 1, Len(s) - 1) \in Seq(Frame)
         /\ Len(SubSeq(s, 1, Len(s) - 1)) = Len(s) - 1
         /\ \A i \in 1..(Len(s) - 1) : SubSeq(s, 1, Len(s) - 1)[i] = s[i]
         /\ s[Len(s)] \in Frame
<1> DEFINE n == Len(s)
           r == SubSeq(s, 1, n - 1)
<1>1. n \in Nat /\ n > 0 /\ \A i \in 1..n : s[i] \in Frame
  OBVIOUS
<1>2. /\ r \in Seq(Frame)
      /\ Len(r) = IF 1 <= n - 1 THEN (n - 1) - 1 + 1 ELSE 0
      /\ \A i \in 1..((n - 1) - 1 + 1) : r[i] = s[1 + i - 1]
  BY <1>1, SubSeqProperties
<1> HIDE DEF n, r
<1>3. Len(r) = n - 1 /\ \A i \in 1..(n - 1) : r[i] = s[i]
  BY <1>1, <1>2
<1> QED BY <1>1, <1>2, <1>3 DEF n, r

LEMMA KernelTrapInv ==
  ASSUME Inv, KernelTrap
  PROVE  Inv'
<1> DEFINE f == [sepc |-> pc[run], sstatus |-> sstatus']
<1> USE DEF KernelTrap
<1>1. /\ ~OnUserSide /\ run \in Threads
      /\ run = Worker => pc[run] \in {"loop", "window", "saved"}
      /\ run # Worker => pc[run] \in {"start", "kernel", "trap"}
  BY DEF Inv, TypeInv, RunInv, SwapInv
<1>2. f \in Frame /\ f.sepc = pc[run] /\ f.sstatus.spp = "S"
  BY DEF Inv, TypeInv, Frame
<1>3. frames[run] \in Seq(Frame) /\ Len(frames[run]) \in Nat
  BY <1>1 DEF Inv, TypeInv
<1>4. /\ Append(frames[run], f) \in Seq(Frame)
      /\ Len(Append(frames[run], f)) = Len(frames[run]) + 1
      /\ \A i \in 1..Len(frames[run]) : Append(frames[run], f)[i] = frames[run][i]
      /\ Append(frames[run], f)[Len(frames[run]) + 1] = f
  <2> HIDE DEF f
  <2> QED BY <1>2, <1>3, PushFrame
<1>5. /\ frames' = [frames EXCEPT ![run] = Append(frames[run], f)]
      /\ pc' = [pc EXCEPT ![run] = "trap"]
  OBVIOUS
<1> HIDE DEF f
<1>6. TypeInv'
  <2>1. frames' \in [Threads -> Seq(Frame)]
    BY <1>4, <1>5 DEF Inv, TypeInv
  <2> QED BY <2>1 DEF Inv, TypeInv, Places
<1>7. RunInv'
  BY <1>1 DEF Inv, TypeInv, RunInv
<1>8. SavedInv'
  BY <1>1 DEF Inv, TypeInv, SavedInv
<1>9. FrameInv'
  <2> HIDE DEF KernelTrap
  <2>0. /\ pc'[Worker] = "trap" /\ frames'[Worker][1].sepc = "loop" => cpu_proc' = None
        /\ pc'[Worker] = "trap" /\ frames'[Worker][1].sepc # "loop" =>
             cpu_proc' = chosen' /\ chosen' \in Proc /\ Exists(chosen)'
        /\ pc'[Worker] = "trap" /\ frames'[Worker][1].sepc = "saved" =>
             cpu_task' = Context(Worker, "loop")
    <3>1. UNCHANGED <<cpu_proc, chosen, cpu_task, table>>
      BY DEF KernelTrap
    <3>2. CASE run # Worker
      <4>1. pc'[Worker] # "trap"
        BY <1>5, <3>2 DEF Inv, TypeInv, RunInv
      <4> QED BY <4>1
    <3>3. CASE run = Worker
      <4>1. Len(frames[Worker]) = 0
        BY <1>1, <1>3, <3>3 DEF Inv, FrameInv
      <4>2. frames'[Worker][1] = f
        BY <1>4, <1>5, <3>3, <4>1 DEF Inv, TypeInv
      <4>3. frames'[Worker][1].sepc = pc[Worker]
        BY <1>2, <3>3, <4>2
      <4> QED BY <1>1, <3>1, <3>3, <4>3 DEF Inv, RunInv, SavedInv
    <3> QED BY <3>2, <3>3
  <2> SUFFICES ASSUME NEW t \in Threads
               PROVE  /\ pc'[t] = "trap" <=> Len(frames'[t]) > 0
                      /\ \A i \in 1..Len(frames'[t]) :
                           /\ frames'[t][i].sstatus.spp = "S"
                           /\ i = 1 /\ t = Worker => frames'[t][i].sepc \in {"loop", "window", "saved"}
                           /\ i = 1 /\ t # Worker => frames'[t][i].sepc \in {"start", "kernel"}
                           /\ i > 1 => t # Worker /\ frames'[t][i].sepc = "trap"
    BY <2>0 DEF FrameInv
  <2>1. CASE t # run
    <3>1. frames'[t] = frames[t] /\ pc'[t] = pc[t]
      BY <2>1, <1>5 DEF Inv, TypeInv
    <3>2. /\ pc[t] = "trap" <=> Len(frames[t]) > 0
          /\ \A i \in 1..Len(frames[t]) :
               /\ frames[t][i].sstatus.spp = "S"
               /\ i = 1 /\ t = Worker => frames[t][i].sepc \in {"loop", "window", "saved"}
               /\ i = 1 /\ t # Worker => frames[t][i].sepc \in {"start", "kernel"}
               /\ i > 1 => t # Worker /\ frames[t][i].sepc = "trap"
      <4>1. FrameInv
        BY DEF Inv
      <4> QED BY <4>1, Zenon DEF FrameInv
    <3> QED BY <3>1, <3>2, Zenon
  <2>2. CASE t = run
    <3>1. frames'[t] = Append(frames[t], f) /\ pc'[t] = "trap"
      BY <2>2, <1>5 DEF Inv, TypeInv
    <3>2. Len(frames'[t]) > 0
      BY <3>1, <1>3, <1>4, <2>2
    <3>3. ASSUME NEW i \in 1..Len(frames'[t])
          PROVE  /\ frames'[t][i].sstatus.spp = "S"
                 /\ i = 1 /\ t = Worker => frames'[t][i].sepc \in {"loop", "window", "saved"}
                 /\ i = 1 /\ t # Worker => frames'[t][i].sepc \in {"start", "kernel"}
                 /\ i > 1 => t # Worker /\ frames'[t][i].sepc = "trap"
      <4>1. CASE i \in 1..Len(frames[t])
        <5>1. frames'[t][i] = frames[t][i]
          BY <3>1, <4>1, <1>4, <2>2
        <5> QED BY <5>1, <4>1 DEF Inv, FrameInv
      <4>2. CASE i = Len(frames[t]) + 1
        <5>1. frames'[t][i] = f
          BY <3>1, <4>2, <1>4, <2>2
        <5>2. i > 1 <=> pc[t] = "trap"
          BY <4>2, <1>3, <2>2 DEF Inv, FrameInv
        <5> QED BY <5>1, <5>2, <1>1, <1>2, <2>2
      <4> QED BY <3>1, <4>1, <4>2, <1>3, <1>4, <2>2
    <3> QED BY <3>1, <3>2, <3>3
  <2> QED BY <2>1, <2>2
<1>10. SwapInv'
  BY <1>1 DEF Inv, TypeInv, TrapContexts, SwapInv
<1>11. TrappedInv'
  <2>1. pc'[run] = "trap" /\ run' = run
    BY <1>1, <1>5 DEF Inv, TypeInv
  <2> QED BY <2>1 DEF Inv, TypeInv, TrappedInv, FailsOnFirstReturnOnly
<1> QED BY <1>6, <1>7, <1>8, <1>9, <1>10, <1>11 DEF Inv

LEMMA KernelTrapYieldInv ==
  ASSUME Inv, KernelTrapYield
  PROVE  Inv'
<1>1. run \in Threads /\ cpu_proc \in Proc /\ halted = "no" /\ mode = "S" /\ pc[run] = "trap"
  BY DEF KernelTrapYield, Inv, TypeInv
<1> QED BY <1>1, DoYieldInv DEF KernelTrapYield

LEMMA KernelTrapReturnInv ==
  ASSUME Inv, KernelTrapReturn
  PROVE  Inv'
<1> DEFINE n == Len(frames[run])
           f == frames[run][n]
           rest == SubSeq(frames[run], 1, n - 1)
<1>1. mode = "S" /\ pc[run] = "trap" /\ run \in Threads /\ ~OnUserSide
  BY DEF KernelTrapReturn, Inv, TypeInv
<1>2. frames[run] \in Seq(Frame) /\ n \in Nat /\ n > 0
  BY <1>1 DEF Inv, TypeInv, FrameInv
<1>3. /\ rest \in Seq(Frame) /\ Len(rest) = n - 1 /\ f \in Frame
      /\ \A i \in 1..(n - 1) : rest[i] = frames[run][i]
  BY <1>2, PopFrame
<1>4. /\ f.sstatus.spp = "S" /\ f.sepc \in Places /\ f.sstatus \in Statuses
      /\ n = 1 /\ run = Worker => f.sepc \in {"loop", "window", "saved"}
      /\ n = 1 /\ run # Worker => f.sepc \in {"start", "kernel"}
      /\ n > 1 => run # Worker /\ f.sepc = "trap"
  BY <1>1, <1>2, <1>3 DEF Inv, FrameInv, Frame
<1>5. /\ pc' = [pc EXCEPT ![run] = f.sepc]
      /\ frames' = [frames EXCEPT ![run] = rest]
      /\ mode' = "S" /\ sstatus' = [spp |-> "U", spie |-> TRUE, sie |-> f.sstatus.spie]
      /\ UNCHANGED <<stvec, satp, sscratch, run, cpu_proc, chosen, contexts, memory, history>>
  BY <1>4 DEF KernelTrapReturn
<1>0. run = Worker => f = frames[Worker][1]
  BY <1>2, <1>4
<1> HIDE DEF n, f, rest
<1>6. TypeInv'
  <2>1. frames' \in [Threads -> Seq(Frame)] /\ pc' \in [Threads -> Places]
    BY <1>3, <1>4, <1>5 DEF Inv, TypeInv
  <2>2. sstatus' \in Statuses
    BY <1>4, <1>5
  <2> QED BY <1>5, <2>1, <2>2 DEF Inv, TypeInv
<1>7. RunInv'
  <2>1. run = Worker => (f.sepc = "loop" => cpu_proc = None)
                        /\ (f.sepc # "loop" => cpu_proc = chosen /\ chosen \in Proc /\ Exists(chosen))
    BY <1>0, <1>1 DEF Inv, FrameInv
  <2> QED BY <1>1, <1>2, <1>4, <1>5, <2>1 DEF Inv, TypeInv, RunInv
<1>8. SavedInv'
  <2>1. run = Worker /\ f.sepc = "saved" => cpu_task = Context(Worker, "loop")
    BY <1>0, <1>1 DEF Inv, FrameInv
  <2> QED BY <1>1, <1>5, <2>1 DEF Inv, TypeInv, SavedInv, RunInv
<1>9. FrameInv'
  <2>0. pc'[Worker] # "trap"
    BY <1>1, <1>2, <1>4, <1>5 DEF Inv, TypeInv, RunInv
  <2> SUFFICES ASSUME NEW t \in Threads
               PROVE  /\ pc'[t] = "trap" <=> Len(frames'[t]) > 0
                      /\ \A i \in 1..Len(frames'[t]) :
                           /\ frames'[t][i].sstatus.spp = "S"
                           /\ i = 1 /\ t = Worker => frames'[t][i].sepc \in {"loop", "window", "saved"}
                           /\ i = 1 /\ t # Worker => frames'[t][i].sepc \in {"start", "kernel"}
                           /\ i > 1 => t # Worker /\ frames'[t][i].sepc = "trap"
    BY <2>0 DEF FrameInv
  <2>1. CASE t # run
    <3>1. frames'[t] = frames[t] /\ pc'[t] = pc[t]
      BY <2>1, <1>5 DEF Inv, TypeInv
    <3> QED BY <3>1 DEF Inv, FrameInv
  <2>2. CASE t = run
    <3>1. frames'[t] = rest /\ pc'[t] = f.sepc
      BY <2>2, <1>5 DEF Inv, TypeInv
    <3>2. pc'[t] = "trap" <=> Len(frames'[t]) > 0
      BY <3>1, <1>2, <1>3, <1>4
    <3>3. \A i \in 1..Len(frames'[t]) : i \in 1..Len(frames[t]) /\ frames'[t][i] = frames[t][i]
      BY <3>1, <1>2, <1>3, <2>2 DEF n
    <3> QED BY <3>2, <3>3 DEF Inv, FrameInv
  <2> QED BY <2>1, <2>2
<1>10. SwapInv'
  <2>1. pc[run] = "trap" /\ run' = run /\ pc'[run] \notin {"sret", "user", "return"}
    BY <1>1, <1>2, <1>4, <1>5 DEF Inv, TypeInv
  <2> QED BY <1>5, <2>1 DEF Inv, SwapInv
<1>11. TrappedInv'
  <2>1. pc'[run] \notin {"sret", "user"} /\ run' = run
    BY <1>1, <1>2, <1>4, <1>5 DEF Inv, TypeInv
  <2> QED BY <1>5, <2>1 DEF Inv, TypeInv, TrappedInv, FailsOnFirstReturnOnly
<1> QED BY <1>6, <1>7, <1>8, <1>9, <1>10, <1>11 DEF Inv

-----------------------------------------------------------------------------
LEMMA NextInv ==
  ASSUME Inv, [Next]_vars
  PROVE  Inv'
<1>1. ASSUME NEW p \in Proc,
             \/ UserTrap(p) \/ user_trap_returner(p) \/ trap_ret_u(p) \/ Sret(p)
             \/ execve(p) \/ Yield(p) \/ Pick(p)
      PROVE  Inv'
  BY <1>1, UserTrapInv, returnerInv, trap_ret_uInv, SretInv, execveInv, YieldInv, PickInv
<1>2. ASSUME NEW p \in Proc, NEW c \in Proc, fork(p, c)
      PROVE  Inv'
  BY <1>2, forkInv
<1>3. CASE Idle \/ Save \/ Switch \/ KernelTrap \/ KernelTrapYield \/ KernelTrapReturn
  BY <1>3, IdleInv, SaveInv, SwitchInv, KernelTrapInv, KernelTrapYieldInv, KernelTrapReturnInv
<1>4. CASE UNCHANGED vars
  BY <1>4, AllKept
<1> QED BY <1>1, <1>2, <1>3, <1>4 DEF Next

LEMMA Invariance == Spec => []Inv
<1>1. Init => Inv
  BY InitInv
<1>2. Inv /\ [Next]_vars => Inv'
  BY NextInv
<1> QED BY <1>1, <1>2, PTL DEF Spec

\* The swaps of satp in trap_save_u and trap_ret_u stay paired: user code runs
\* on the table of its process's last execve, kernel code on the kernel's, and
\* every TrapContext keeps its own process's table, whatever forks, execves,
\* yields and nested kernel traps happen between a trap and its return.
THEOREM SwapsPaired == Spec => []SwapsArePaired
<1>1. Inv => SwapsArePaired
  <2> SUFFICES ASSUME Inv PROVE SwapsArePaired
    OBVIOUS
  <2>1. mode = "U" => satp = Own(run) /\ stvec = "trap_save_u" /\ sscratch = run
    BY DEF Inv, RunInv, SwapInv
  <2>2. pc[run] \notin {"sret", "user"} => ~OnUserSide
    OBVIOUS
  <2> QED BY <2>1, <2>2 DEF Inv, SwapInv, SwapsArePaired
<1> QED BY <1>1, Invariance, PTL

\* The kernel is interruptible only while stvec holds trap_save_s: the vector of
\* the user is installed with interrupts off, and they stay off up to the sret,
\* except on the first return of a process.
THEOREM KernelVector == Spec => []InterruptsUseKernelVector
<1>1. Inv => InterruptsUseKernelVector
  BY DEF Inv, TypeInv, RunInv, SwapInv, TrappedInv, InterruptsUseKernelVector
<1> QED BY <1>1, Invariance, PTL

\* The assertion of user_trap_handler on a trap that is not from user mode can
\* fail on the first return of a process only, whatever sstatus Process::new
\* found on the new kernel stack.
THEOREM UserReturn == Spec => []FailsOnFirstReturnOnly
<1>1. Inv => FailsOnFirstReturnOnly
  BY DEF Inv, TrappedInv
<1> QED BY <1>1, Invariance, PTL

\* The only step from the kernel to user mode is that sret: the return of a
\* trap taken in the kernel restores the sstatus its own frame saved, whatever
\* the threads that ran meanwhile did to the CSR.
THEOREM KernelTrapReturns == Spec => KernelTrapStaysInKernel
<1>1. Inv /\ [Next]_vars => [mode = "S" /\ mode' = "U" => pc[run] = "sret"]_vars
  <2> SUFFICES ASSUME Inv, Next, mode = "S", mode' = "U"
               PROVE  pc[run] = "sret"
    BY DEF vars
  <2>1. ~KernelTrapReturn
    <3> SUFFICES ASSUME KernelTrapReturn PROVE FALSE
      OBVIOUS
    <3>1. pc[run] = "trap" /\ run \in Threads
      BY DEF KernelTrapReturn, Inv, TypeInv
    <3>2. Len(frames[run]) \in Nat /\ Len(frames[run]) > 0
      BY <3>1 DEF Inv, TypeInv, FrameInv
    <3>3. \A i \in 1..Len(frames[run]) : frames[run][i].sstatus.spp = "S"
      BY <3>1, Zenon DEF Inv, FrameInv
    <3>4. frames[run][Len(frames[run])].sstatus.spp = "S"
      <4>1. Len(frames[run]) \in 1..Len(frames[run])
        BY <3>2
      <4> QED BY <3>3, <4>1, Zenon
    <3> QED BY <3>4 DEF KernelTrapReturn
  <2>2. ASSUME NEW p \in Proc, Sret(p)
        PROVE  pc[run] = "sret"
    BY <2>2 DEF Sret
  <2>3. ASSUME NEW p \in Proc,
               \/ UserTrap(p) \/ user_trap_returner(p) \/ trap_ret_u(p)
               \/ execve(p) \/ Yield(p) \/ Pick(p)
        PROVE  FALSE
    BY <2>3 DEF UserTrap, user_trap_returner, trap_ret_u, execve, Yield, DoYield, Pick
  <2>4. ASSUME NEW p \in Proc, NEW c \in Proc, fork(p, c)
        PROVE  FALSE
    BY <2>4 DEF fork
  <2>5. CASE Idle \/ Save \/ Switch \/ KernelTrap \/ KernelTrapYield
    BY <2>5 DEF Idle, Save, Switch, KernelTrap, KernelTrapYield, DoYield
  <2> QED BY <2>1, <2>2, <2>3, <2>4, <2>5 DEF Next
<1> QED BY <1>1, Invariance, PTL DEF Spec, KernelTrapStaysInKernel

\* What the comment in worker says, that the context it switches to is that of
\* the process, stops being true in one place only: the timer's yield on the
\* worker's stack between set_process and the end of context_switch, the step
\* with which the run Trap_window ends.
THEOREM OwnContexts == Spec => LostOnlyInWindow
<1> DEFINE InWindow == run = Worker /\ pc[Worker] = "trap" /\ frames[Worker][1].sepc \in {"window", "saved"}
           A == \A p \in Proc : task[p].thread = p /\ task'[p].thread # p => InWindow
<1>1. Inv /\ [Next]_vars => [A]_vars
  <2> SUFFICES ASSUME Inv, Next, NEW p \in Proc, task[p].thread = p, task'[p].thread # p
               PROVE  InWindow
    BY DEF vars
  <2>1. ASSUME NEW t \in Threads, NEW q \in Proc, run = t, cpu_proc = q,
               pc[t] \in {"kernel", "trap"}, DoYield(t, q)
        PROVE  InWindow
    <3>1. task' = [task EXCEPT ![q] = Context(t, pc[t])]
      BY <2>1 DEF DoYield
    <3>2. q = p /\ t # p
      BY <3>1 DEF Inv, TypeInv
    <3>3. t = Worker /\ pc[Worker] = "trap"
      BY <2>1, <3>2 DEF Inv, RunInv
    <3>4. Len(frames[Worker]) > 0 /\ frames[Worker] \in Seq(Frame)
      BY <3>3 DEF Inv, TypeInv, FrameInv
    <3>5. frames[Worker][1].sepc \in {"loop", "window", "saved"}
      BY <3>4 DEF Inv, FrameInv
    <3>6. frames[Worker][1].sepc # "loop"
      BY <2>1, <3>3 DEF Inv, FrameInv
    <3> QED BY <2>1, <3>3, <3>5, <3>6
  <2>2. ASSUME NEW q \in Proc, Yield(q)
        PROVE  InWindow
    <3>1. run = q /\ q \in Threads /\ cpu_proc = q /\ pc[q] = "kernel" /\ DoYield(q, q)
      BY <2>2 DEF Yield, Inv, RunInv
    <3> HIDE DEF InWindow
    <3> QED BY <2>1, <3>1
  <2>3. ASSUME KernelTrapYield
        PROVE  InWindow
    <3>1. run \in Threads /\ cpu_proc \in Proc /\ pc[run] = "trap" /\ DoYield(run, cpu_proc)
      BY <2>3 DEF KernelTrapYield, Inv, TypeInv
    <3> HIDE DEF InWindow
    <3> QED BY <2>1, <3>1
  <2>4. ASSUME NEW q \in Proc,
               \/ UserTrap(q) \/ user_trap_returner(q) \/ trap_ret_u(q) \/ Sret(q)
               \/ execve(q) \/ Pick(q)
        PROVE  FALSE
    BY <2>4 DEF UserTrap, user_trap_returner, trap_ret_u, Sret, execve, Pick
  <2>5. ASSUME NEW q \in Proc, NEW c \in Proc, fork(q, c)
        PROVE  FALSE
    BY <2>5 DEF fork
  <2>6. CASE Idle \/ Save \/ Switch \/ KernelTrap \/ KernelTrapReturn
    BY <2>6 DEF Idle, Save, Switch, KernelTrap, KernelTrapReturn
  <2> HIDE DEF InWindow
  <2> QED BY <2>2, <2>3, <2>4, <2>5, <2>6 DEF Next
<1> QED BY <1>1, Invariance, PTL DEF Spec, LostOnlyInWindow
=============================================================================
