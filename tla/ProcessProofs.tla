---------------------------- MODULE ProcessProofs ----------------------------
(***************************************************************************)
(* Proofs about Process, for any number of processes and with the timer    *)
(* arriving anywhere: in a system call, in the worker's search for a       *)
(* process, and between its set_process and its switch.                    *)
(***************************************************************************)
EXTENDS Process, TLAPS

InWait  == {"scan", "lock_pm", "get_target", "unlock_pm"}
InSleep == {"sleep", "lock_timer", "push_timer"}

\* CPU::proc is the process the hart runs, which was not left in try_yield, or
\* the one the worker is about to switch to, which it has made Running.
CpuInv ==
    /\ on_cpu # None => cpu_proc = on_cpu /\ on_cpu \notin preempted /\ on_cpu \notin lost
    /\ on_cpu = None /\ worker = "schedule" => cpu_proc = None
    /\ cpu_proc # None => cpu_proc \in process_list
    /\ worker = "switch" => /\ on_cpu = None /\ pm_lock = None /\ cpu_proc # None
                            /\ status[cpu_proc] = "Running"

\* PROCESS_MANAGER is held across steps only inside wait_for, and nobody but
\* its holder gets the hart.
PmInv ==
    /\ \A p \in Proc : pm_lock = p <=> pc[p] \in {"get_target", "unlock_pm"}
    /\ pm_lock # None => on_cpu \in {None, pm_lock}

\* What a process does after do_yield agrees with where it is.
LoopInv ==
    \A p \in Proc :
        /\ pc[p] = "user" => loop[p] = "user"
        /\ pc[p] \in InWait => loop[p] = "scan"
        /\ pc[p] \in InSleep => loop[p] = "sleep"
        /\ pc[p] = "dead" => loop[p] = "dead"

\* The status of the process the hart runs, by where it is.
RunInv ==
    on_cpu # None =>
        /\ pc[on_cpu] # "dead"
        /\ pc[on_cpu] \in {"user", "scan", "lock_pm", "get_target", "sleep"}
             => status[on_cpu] = "Running"
        /\ pc[on_cpu] = "unlock_pm" => status[on_cpu] = "Suspend"

\* A zombie is on its way out of the hart, with interrupts off, or gone.
ZombieInv ==
    \A p \in Proc :
        /\ status[p] = "Zombie" <=> loop[p] = "dead"
        /\ status[p] = "Zombie" =>
             /\ children[p] = {}
             /\ p \notin preempted /\ p \notin lost
             /\ IF on_cpu = p THEN pc[p] \in {"yield", "switch"} /\ ~sie
                ELSE pc[p] = "dead"

\* A process on the list of a condition variable is Suspend, and on no other
\* list; one that has not yet pushed itself is Suspend, and on none.
RegInv ==
    /\ \A p \in timer_waiting :
         /\ p \in process_list /\ status[p] = "Suspend"
         /\ \A q \in Proc : p \notin waiting_for_exit[q]
    /\ \A q \in Proc : \A p \in waiting_for_exit[q] :
         /\ p \in process_list /\ status[p] = "Suspend"
         /\ \A r \in Proc : p \in waiting_for_exit[r] => r = q
    /\ \A p \in Proc : pc[p] \in {"lock_timer", "push_timer"} =>
         /\ status[p] = "Suspend"
         /\ p \notin timer_waiting
         /\ \A q \in Proc : p \notin waiting_for_exit[q]

\* Every listed process but init has a live parent, and only one.
TreeInv ==
    /\ InitProc \in process_list /\ pid[InitProc] = 1 /\ status[InitProc] # "Zombie"
    /\ \A c \in process_list \ {InitProc} :
         \E p \in process_list : status[p] # "Zombie" /\ c \in children[p]
    /\ \A p, q \in Proc : \A c \in children[p] \cap children[q] : p = q

\* An object not created yet is nowhere.
FreshInv ==
    \A c \in Proc : pid[c] = 0 =>
        /\ c \notin process_list /\ c \notin preempted
        /\ status[c] = "Ready" /\ pc[c] = "user" /\ loop[c] = "user"
        /\ children[c] = {}
        /\ \A p \in Proc : c \notin children[p]

\* The pids of the listed processes and the free stack do not overlap.
PidInv ==
    /\ \A i, j \in 1..Len(free) : free[i] = free[j] => i = j
    /\ \A i \in 1..Len(free) : free[i] \in 1..max
    /\ \A i \in 1..Len(free) : \A p \in process_list : free[i] # pid[p]
    /\ \A p \in process_list : pid[p] \in 1..max
    /\ \A p, q \in process_list : pid[p] = pid[q] => p = q

Inv == /\ TypeOK /\ CpuInv /\ PmInv /\ LoopInv /\ RunInv /\ ZombieInv
       /\ RegInv /\ TreeInv /\ FreshInv /\ PidInv /\ StrongCountsAsExpected

USE ConstantsAssumption
    DEF procVars, waitVars, workVars, cpuVars, callVars, At, Goto, Return, Syscall,
        ProcessStatus, Locations, WNOHANG, NoArg, InWait, InSleep

LEMMA InitInv == Init => Inv
<1> SUFFICES ASSUME Init PROVE Inv
  OBVIOUS
<1>1. TypeOK
  <2>1. /\ max \in Nat /\ free \in Seq(Nat) /\ pid \in [Proc -> Nat]
        /\ previous_scheduled_pid \in Nat /\ ticks \in [Proc -> Nat]
    BY DEF Init
  <2>2. status \in [Proc -> ProcessStatus] /\ pc \in [Proc -> Locations]
    BY Zenon DEF Init, ProcessStatus, Locations
  <2>3. arg \in [Proc -> [pid : Int, option : {0, WNOHANG}]]
    BY DEF Init, NoArg
  <2>4. /\ loop \in [Proc -> {"user", "scan", "sleep", "dead"}]
        /\ parent \in [Proc -> Proc \cup {None}]
        /\ children \in [Proc -> SUBSET Proc] /\ waiting_for_exit \in [Proc -> SUBSET Proc]
    BY DEF Init
  <2>5. /\ process_list \subseteq Proc /\ timer_waiting \subseteq Proc /\ lost \subseteq Proc
        /\ preempted \subseteq Proc /\ split \subseteq Proc /\ cut \subseteq Proc
        /\ cpu_proc \in Proc \cup {None} /\ on_cpu \in Proc \cup {None}
        /\ pm_lock \in Proc \cup {None} /\ sie \in BOOLEAN
        /\ worker \in {"schedule", "switch"} /\ context_saved \in BOOLEAN
    BY DEF Init
  <2> QED BY <2>1, <2>2, <2>3, <2>4, <2>5, Zenon DEF TypeOK
<1>2. CpuInv /\ PmInv /\ LoopInv /\ RunInv /\ ZombieInv
  BY Zenon DEF Init, CpuInv, PmInv, LoopInv, RunInv, ZombieInv
<1>3. RegInv /\ TreeInv /\ FreshInv
  BY DEF Init, RegInv, TreeInv, FreshInv
<1>4. PidInv /\ StrongCountsAsExpected
  BY DEF Init, PidInv, StrongCountsAsExpected
<1> QED BY <1>1, <1>2, <1>3, <1>4 DEF Inv

-----------------------------------------------------------------------------
(***************************************************************************)
(* Each action preserves Inv.  First the actions that create, end or reap  *)
(* a process, then those of the scheduler and the timer, then the steps of *)
(* wait_for and sleep_ticks, which move one process only.                  *)
(***************************************************************************)

\* ProcessManager::fork: the new pid is one no listed process has.
LEMMA NextIdFresh ==
  ASSUME Inv, Pids!alloc(Pids!NextId)
  PROVE  /\ Pids!NextId \in Nat \ {0}
         /\ max' \in Nat /\ max <= max' /\ Pids!NextId \in 1..max'
         /\ \A p \in process_list : pid[p] # Pids!NextId
         /\ free' \in Seq(Nat) /\ Len(free') \in Nat /\ Len(free') <= Len(free)
         /\ \A i \in 1..Len(free') : free'[i] = free[i] /\ free[i] # Pids!NextId
<1>1. max \in Nat /\ free \in Seq(Nat) /\ pid \in [Proc -> Nat]
  BY Zenon DEF Inv, TypeOK
<1>2. CASE free = <<>>
  <2>1. Pids!NextId = max + 1 /\ max' = max + 1 /\ free' = <<>>
    BY <1>2, Zenon DEF Pids!alloc, Pids!NextId
  <2>2. \A p \in process_list : pid[p] \in 1..max
    BY Zenon DEF Inv, PidInv
  <2> QED BY <1>1, <1>2, <2>1, <2>2
<1>3. CASE free # <<>>
  <2> DEFINE n == Len(free)
             s == SubSeq(free, 1, n - 1)
  <2>1. n \in Nat \ {0} /\ \A i \in 1..(n - 1) : free[i] \in Nat
    BY <1>1, <1>3
  <2>2. n - 1 \in Int /\ 1 \in Int
    BY <2>1
  <2>3. /\ s \in Seq(Nat)
        /\ Len(s) = IF 1 <= n - 1 THEN n - 1 - 1 + 1 ELSE 0
        /\ \A i \in 1..(n - 1 - 1 + 1) : s[i] = free[1 + i - 1]
    BY <1>1, <2>1, <2>2
  <2>4. Pids!NextId = free[n] /\ max' = max /\ free' = s
    BY <1>3, Zenon DEF Pids!alloc, Pids!NextId
  <2>5. /\ Len(s) = n - 1
        /\ \A i \in 1..(n - 1) : s[i] = free[i]
    <3> HIDE DEF n, s
    <3>1. Len(s) = n - 1
      BY <2>1, <2>3
    <3>2. ASSUME NEW i \in 1..(n - 1) PROVE s[i] = free[i]
      <4>1. i \in 1..(n - 1 - 1 + 1) /\ 1 + i - 1 = i
        BY <2>1
      <4> QED BY <2>3, <4>1, Zenon
    <3> QED BY <3>1, <3>2, Zenon
  <2>6. free[n] \in 1..max /\ \A p \in process_list : pid[p] # free[n]
    BY <2>1 DEF Inv, PidInv
  <2>7. \A i \in 1..(n - 1) : free[i] # free[n]
    BY <2>1 DEF Inv, PidInv
  <2>8. Len(s) \in Nat /\ Len(s) <= n
    BY <2>1, <2>5
  <2> HIDE DEF s, n
  <2>9. free[n] \in Nat \ {0} /\ max <= max
    BY <1>1, <2>6
  <2>10. \A i \in 1..Len(s) : s[i] = free[i] /\ free[i] # free[n]
    BY <2>5, <2>7, Zenon
  <2> QED BY <1>1, <2>3, <2>4, <2>6, <2>8, <2>9, <2>10, Zenon DEF n
<1> QED BY <1>2, <1>3, Zenon

\* The list is keyed by pid: fork inserts c and replaces nobody.
LEMMA CloneList ==
  ASSUME Inv, NEW p \in Proc, NEW c \in Proc, Clone(p, c)
  PROVE  process_list' = process_list \cup {c}
<1>1. \A q \in process_list : pid[q] # Pids!NextId
  BY NextIdFresh, Zenon DEF Clone
<1> QED BY <1>1, Zenon DEF Clone, Without

LEMMA CloneInv ==
  ASSUME Inv, NEW p \in Proc, NEW c \in Proc, Clone(p, c)
  PROVE  Inv'
<1> DEFINE id == Pids!NextId
<1>1. /\ id \in Nat \ {0} /\ max' \in Nat /\ max <= max' /\ id \in 1..max'
      /\ \A q \in process_list : pid[q] # id
      /\ free' \in Seq(Nat) /\ Len(free') \in Nat /\ Len(free') <= Len(free)
      /\ \A i \in 1..Len(free') : free'[i] = free[i] /\ free[i] # id
  BY NextIdFresh, Zenon DEF Clone
<1> HIDE DEF id
<1>2. /\ pid' = [pid EXCEPT ![c] = id]
      /\ process_list' = process_list \cup {c}
      /\ children' = [children EXCEPT ![p] = @ \cup {c}]
      /\ status' = [status EXCEPT ![c] = "Ready"]
      /\ pc' = [pc EXCEPT ![p] = "yield"]
      /\ parent' = [parent EXCEPT ![c] = p]
      /\ UNCHANGED <<waitVars, cpuVars, pm_lock, loop, arg, halted>>
      /\ sie' = FALSE
  BY CloneList, Zenon DEF Clone, id
<1>3. /\ on_cpu = p /\ pc[p] = "user" /\ pid[c] = 0
      /\ p \in process_list /\ c \notin process_list /\ p # c
      /\ status[p] = "Running" /\ loop[p] = "user"
  BY Zenon DEF Clone, Inv, CpuInv, RunInv, FreshInv, LoopInv, TypeOK
<1>4. TypeOK'
  BY <1>1, <1>2, Zenon DEF Inv, TypeOK
<1>5. (CpuInv /\ PmInv /\ LoopInv /\ RunInv)'
  BY <1>2, <1>3, Zenon DEF Inv, TypeOK, CpuInv, PmInv, LoopInv, RunInv
<1>6. (ZombieInv /\ RegInv)'
  <2>1. /\ pc'[p] = "yield" /\ \A q \in Proc \ {p} : pc'[q] = pc[q]
        /\ status'[c] = "Ready" /\ \A q \in Proc \ {c} : status'[q] = status[q]
        /\ \A q \in Proc \ {p} : children'[q] = children[q]
        /\ process_list \subseteq Proc
    BY <1>2, Zenon DEF Inv, TypeOK
  <2>2. status[c] = "Ready" /\ pc[c] = "user" /\ loop[c] = "user"
    BY <1>3, Zenon DEF Inv, FreshInv
  <2>3. ZombieInv'
    BY <1>2, <1>3, <2>1, <2>2 DEF Inv, ZombieInv
  <2>4. RegInv'
    BY <1>2, <1>3, <2>1, <2>2 DEF Inv, RegInv
  <2> QED BY <2>3, <2>4, Zenon
<1>7. TreeInv'
  <2>1. \A x \in process_list' \ {InitProc} :
          \E y \in process_list' : status'[y] # "Zombie" /\ x \in children'[y]
    BY <1>2, <1>3 DEF Inv, TypeOK, TreeInv
  <2>2. \A x, y \in Proc : \A z \in children'[x] \cap children'[y] : x = y
    BY <1>2, <1>3 DEF Inv, TypeOK, TreeInv, FreshInv
  <2> QED BY <1>2, <1>3, <2>1, <2>2 DEF Inv, TypeOK, TreeInv
<1>8. FreshInv'
  BY <1>1, <1>2, <1>3, Zenon DEF Inv, TypeOK, FreshInv
<1>9. PidInv'
  <2>1. /\ \A q \in process_list : pid'[q] = pid[q]
        /\ pid'[c] = id
        /\ process_list \subseteq Proc /\ Len(free) \in Nat /\ max \in Nat
        /\ \A i \in 1..Len(free') : i \in 1..Len(free)
    BY <1>1, <1>2, <1>3 DEF Inv, TypeOK
  <2>2. \A i \in 1..Len(free') : free'[i] \in 1..max'
    BY <1>1, <2>1 DEF Inv, PidInv
  <2>3. \A q \in process_list' : pid'[q] \in 1..max'
    BY <1>1, <1>2, <2>1 DEF Inv, PidInv
  <2>4. \A q, r \in process_list' : pid'[q] = pid'[r] => q = r
    BY <1>1, <1>2, <2>1 DEF Inv, PidInv
  <2>5. \A i \in 1..Len(free') : \A q \in process_list' : free'[i] # pid'[q]
    BY <1>1, <1>2, <2>1 DEF Inv, PidInv
  <2>6. \A i, j \in 1..Len(free') : free'[i] = free'[j] => i = j
    BY <1>1, <2>1, Zenon DEF Inv, PidInv
  <2> QED BY <2>2, <2>3, <2>4, <2>5, <2>6, Zenon DEF PidInv
<1>10. StrongCountsAsExpected'
  BY <1>2, Zenon DEF Inv, StrongCountsAsExpected
<1> QED BY <1>4, <1>5, <1>6, <1>7, <1>8, <1>9, <1>10, Zenon DEF Inv

\* ProcessManager::exit: its first assertion holds, and what it leaves is a
\* zombie without children, on no list, that has left no waiter behind.
LEMMA ExitInv ==
  ASSUME Inv, NEW p \in Proc, Exit(p)
  PROVE  Inv'
<1>1. /\ on_cpu = p /\ cpu_proc = p /\ pc[p] = "user" /\ loop[p] = "user"
      /\ p \in process_list /\ p \notin preempted /\ p \notin lost /\ status[p] = "Running"
  BY Zenon DEF Exit, Inv, CpuInv, RunInv, LoopInv
<1>2. strong_count(p) + 1 = 3
  BY <1>1 DEF strong_count, One
<1>3. CASE halted' # "no"
  <2>1. /\ halted' = "exit: init"
        /\ UNCHANGED <<status, children, waiting_for_exit, pc, loop>>
        /\ UNCHANGED <<max, free, pid, process_list, parent, timer_waiting, ticks,
                       cpuVars, pm_lock, arg>>
        /\ sie' = FALSE
    BY <1>2, <1>3, Zenon DEF Exit
  <2>2. (TypeOK /\ StrongCountsAsExpected)'
    BY <2>1, Zenon DEF Inv, TypeOK, StrongCountsAsExpected
  <2>3. (CpuInv /\ PmInv /\ LoopInv /\ RunInv)'
    BY <2>1, Zenon DEF Inv, CpuInv, PmInv, LoopInv, RunInv
  <2>4. (ZombieInv /\ RegInv)'
    BY <2>1, Zenon DEF Inv, ZombieInv, RegInv
  <2>5. (TreeInv /\ FreshInv)'
    BY <2>1, Zenon DEF Inv, TreeInv, FreshInv
  <2>6. PidInv'
    BY <2>1, Zenon DEF Inv, PidInv
  <2> QED BY <2>2, <2>3, <2>4, <2>5, <2>6, Zenon DEF Inv
<1>4. CASE halted' = "no"
  <2>1. /\ pid[p] # 1
        /\ children' = [children EXCEPT ![p] = {}, ![InitProc] = @ \cup children[p]]
        /\ waiting_for_exit' = [waiting_for_exit EXCEPT ![p] = {}]
        /\ pc' = [pc EXCEPT ![p] = "yield"]
        /\ loop' = [loop EXCEPT ![p] = "dead"]
        /\ UNCHANGED <<max, free, pid, process_list, parent, timer_waiting, ticks,
                       cpuVars, pm_lock, arg>>
        /\ sie' = FALSE
    BY <1>2, <1>4, Zenon DEF Exit, Reparented
  <2>2. waiting_for_exit[p] \subseteq process_list /\ p \notin waiting_for_exit[p]
    BY <1>1, Zenon DEF Inv, RegInv
  <2>3. status' = [q \in Proc |-> IF q = p THEN "Zombie"
                     ELSE IF q \in waiting_for_exit[p] THEN "Ready" ELSE status[q]]
    BY <1>2, <1>4, <2>2 DEF Exit, ExitStatus, Woken, Inv, TypeOK
  <2>4. p # InitProc
    BY <2>1, Zenon DEF Inv, TreeInv
  <2>5. TypeOK'
    BY <2>1, <2>3, Zenon DEF Inv, TypeOK
  <2>6. (CpuInv /\ PmInv /\ LoopInv /\ RunInv)'
    BY <1>1, <2>1, Zenon DEF Inv, TypeOK, CpuInv, PmInv, LoopInv, RunInv
  <2>7. ZombieInv'
    <3>1. \A q \in Proc \ {p} :
            /\ children'[q] # {} => children[q] # {} \/ q = InitProc
            /\ loop'[q] = loop[q] /\ pc'[q] = pc[q]
            /\ status'[q] = "Zombie" <=> status[q] = "Zombie"
      BY <2>1, <2>2, <2>3 DEF Inv, TypeOK, RegInv
    <3>2. children'[p] = {} /\ loop'[p] = "dead" /\ pc'[p] = "yield"
      BY <2>1, <2>4, Zenon DEF Inv, TypeOK
    <3>3. /\ status[InitProc] # "Zombie" /\ on_cpu' = p /\ ~sie'
          /\ preempted' = preempted /\ lost' = lost
      BY <1>1, <2>1, Zenon DEF Inv, TreeInv
    <3>4. status'[p] = "Zombie"
      BY <2>3, Zenon
    <3> SUFFICES ASSUME NEW q \in Proc
                 PROVE  /\ status'[q] = "Zombie" <=> loop'[q] = "dead"
                        /\ status'[q] = "Zombie" =>
                             /\ children'[q] = {}
                             /\ q \notin preempted' /\ q \notin lost'
                             /\ IF on_cpu' = q THEN pc'[q] \in {"yield", "switch"} /\ ~sie'
                                ELSE pc'[q] = "dead"
      BY Zenon DEF ZombieInv
    <3>5. CASE q = p
      BY <1>1, <3>2, <3>3, <3>4, <3>5, Zenon
    <3>6. CASE q # p
      BY <1>1, <3>1, <3>3, <3>6, Zenon DEF Inv, ZombieInv
    <3> QED BY <3>5, <3>6, Zenon
  <2>8. RegInv'
    BY <1>1, <2>1, <2>2, <2>3 DEF Inv, TypeOK, RegInv
  <2>9. TreeInv'
    <3>1. \A q \in Proc \ {p} : status'[q] = "Zombie" => status[q] = "Zombie"
      BY <2>3, Zenon DEF Inv, TypeOK
    <3>2. /\ children'[p] = {}
          /\ children'[InitProc] = children[InitProc] \cup children[p]
          /\ \A q \in Proc \ {p, InitProc} : children'[q] = children[q]
      BY <2>1, <2>4, Zenon DEF Inv, TypeOK
    <3>3. \A x \in process_list \ {InitProc} :
            \E y \in process_list : status'[y] # "Zombie" /\ x \in children'[y]
      <4> SUFFICES ASSUME NEW x \in process_list \ {InitProc}
                   PROVE  \E y \in process_list :
                            status'[y] # "Zombie" /\ x \in children'[y]
        BY Zenon
      <4>1. PICK y \in process_list : status[y] # "Zombie" /\ x \in children[y]
        BY Zenon DEF Inv, TreeInv
      <4>2. y \in Proc /\ InitProc \in process_list /\ status[InitProc] # "Zombie"
        BY Zenon DEF Inv, TypeOK, TreeInv
      <4>3. CASE y = p
        BY <2>4, <3>1, <3>2, <4>1, <4>2, <4>3, Zenon
      <4>4. CASE y # p
        BY <3>1, <3>2, <4>1, <4>2, <4>4, Zenon
      <4> QED BY <4>3, <4>4, Zenon
    <3>4. \A x, y \in Proc : \A z \in children'[x] \cap children'[y] : x = y
      BY <3>2, Zenon DEF Inv, TreeInv
    <3> QED BY <2>1, <2>4, <3>1, <3>3, <3>4, Zenon DEF Inv, TreeInv
  <2>10. FreshInv'
    <3> SUFFICES ASSUME NEW c \in Proc, pid[c] = 0
                 PROVE  /\ c \notin process_list /\ c \notin preempted
                        /\ status'[c] = "Ready" /\ pc'[c] = "user" /\ loop'[c] = "user"
                        /\ children'[c] = {}
                        /\ \A q \in Proc : c \notin children'[q]
      BY <2>1, Zenon DEF FreshInv
    <3>1. c # p /\ c # InitProc /\ c \notin waiting_for_exit[p]
      BY <1>1, <2>2, Zenon DEF Inv, FreshInv, TreeInv
    <3> QED BY <2>1, <2>3, <3>1, Zenon DEF Inv, TypeOK, FreshInv
  <2>11. (PidInv /\ StrongCountsAsExpected)'
    BY <1>4, <2>1, Zenon DEF Inv, PidInv, StrongCountsAsExpected
  <2> QED BY <2>5, <2>6, <2>7, <2>8, <2>9, <2>10, <2>11, Zenon DEF Inv
<1> QED BY <1>3, <1>4, Zenon

\* wait_for removes the entry for the pid of c, and nobody else has that pid.
LEMMA ReapList ==
  ASSUME Inv, NEW p \in Proc, NEW c \in Proc, Reap(p, c)
  PROVE  process_list' = process_list \ {c} /\ Pids!dealloc(pid[c])
<1>1. \A q \in process_list : pid[q] = pid[c] => q = c
  BY Zenon DEF Reap, Reapable, LiveChildren, Inv, PidInv
<1> QED BY <1>1, Zenon DEF Reap, DropProcess, Without

\* wait_for reaps c: nobody else holds c, its pid is not free, and c has no
\* children that would be lost with it.
LEMMA ReapInv ==
  ASSUME Inv, NEW p \in Proc, NEW c \in Proc, Reap(p, c)
  PROVE  Inv'
<1>1. /\ on_cpu = p /\ cpu_proc = p /\ pc[p] = "scan" /\ status[p] = "Running"
      /\ c \in children[p] /\ c \in process_list /\ status[c] = "Zombie"
      /\ p \in process_list /\ p # c /\ c # InitProc
  <2>1. /\ on_cpu = p /\ p # None /\ pc[p] = "scan"
        /\ c \in children[p] /\ c \in process_list /\ status[c] = "Zombie"
    BY Zenon DEF Reap, Reapable, LiveChildren
  <2>2. cpu_proc = p /\ status[p] = "Running" /\ p \in process_list
    BY <2>1, Zenon DEF Inv, CpuInv, RunInv
  <2>3. c # InitProc
    BY <2>1, Zenon DEF Inv, TreeInv
  <2> QED BY <2>1, <2>2, <2>3, Zenon
<1>2. /\ loop[c] = "dead" /\ pc[c] = "dead" /\ c \notin preempted /\ c \notin lost
      /\ children[c] = {}
  BY <1>1, Zenon DEF Inv, ZombieInv
<1>3. strong_count(c) = 1
  BY <1>1, <1>2 DEF strong_count, One
<1>4. Pids!CanFree(pid[c])
  BY <1>1 DEF Inv, PidInv, Pids!CanFree, Pids!InFree
<1>5. /\ halted' = "no"
      /\ process_list' = process_list \ {c}
      /\ free' = Append(free, pid[c]) /\ max' = max
      /\ children' = [children EXCEPT ![p] = children[p] \cap process_list]
      /\ waiting_for_exit' = [waiting_for_exit EXCEPT ![c] = {}]
      /\ pc' = [pc EXCEPT ![p] = "user"]
      /\ loop' = [loop EXCEPT ![p] = "user"]
      /\ arg' = [arg EXCEPT ![p] = NoArg]
      /\ sie' = TRUE /\ split' = split \ {p}
      /\ UNCHANGED <<pid, parent, status, timer_waiting, ticks, cpu_proc, on_cpu, preempted,
                     cut, workVars, pm_lock>>
  BY <1>3, <1>4, ReapList, Zenon DEF Reap, LiveChildren, Pids!dealloc
<1>6. TypeOK'
  <2>1. arg' \in [Proc -> [pid : Int, option : {0, WNOHANG}]]
    <3>1. NoArg \in [pid : Int, option : {0, WNOHANG}]
      OBVIOUS
    <3> HIDE DEF NoArg, WNOHANG
    <3> QED BY <1>5, <3>1, Zenon DEF Inv, TypeOK
  <2>4. /\ loop' \in [Proc -> {"user", "scan", "sleep", "dead"}]
        /\ pc' \in [Proc -> Locations]
    BY <1>5, Zenon DEF Inv, TypeOK
  <2>2. free' \in Seq(Nat)
    BY <1>5 DEF Inv, TypeOK
  <2>3. /\ children' \in [Proc -> SUBSET Proc]
        /\ waiting_for_exit' \in [Proc -> SUBSET Proc]
        /\ process_list' \subseteq Proc
    BY <1>5, Zenon DEF Inv, TypeOK
  <2> QED BY <1>5, <2>1, <2>2, <2>3, <2>4, Zenon DEF Inv, TypeOK
<1>7. (CpuInv /\ PmInv /\ LoopInv /\ RunInv)'
  BY <1>1, <1>5, Zenon DEF Inv, TypeOK, CpuInv, PmInv, LoopInv, RunInv
<1>8. ZombieInv'
  BY <1>1, <1>5, Zenon DEF Inv, TypeOK, ZombieInv
<1>9. RegInv'
  <2>1. /\ \A q \in Proc : waiting_for_exit'[q] \subseteq waiting_for_exit[q]
        /\ pc'[p] = "user" /\ \A q \in Proc \ {p} : pc'[q] = pc[q]
    BY <1>5, Zenon DEF Inv, TypeOK
  <2>2. \A q \in process_list : status[q] = "Suspend" => q \in process_list'
    BY <1>1, <1>5, Zenon
  <2> QED BY <1>5, <2>1, <2>2 DEF Inv, RegInv
<1>10. TreeInv'
  <2>1. \A x \in process_list' \ {InitProc} :
          \E y \in process_list' : status'[y] # "Zombie" /\ x \in children'[y]
    <3> SUFFICES ASSUME NEW x \in process_list \ {c, InitProc}
                 PROVE  \E y \in process_list \ {c} :
                          status[y] # "Zombie" /\ x \in children'[y]
      BY <1>5, Zenon
    <3>1. PICK y \in process_list : status[y] # "Zombie" /\ x \in children[y]
      BY Zenon DEF Inv, TreeInv
    <3>2. y # c /\ x \in children'[y]
      BY <1>1, <1>5, <3>1, Zenon DEF Inv, TypeOK
    <3> QED BY <3>1, <3>2, Zenon
  <2>2. \A x \in Proc : children'[x] \subseteq children[x]
    BY <1>5, Zenon DEF Inv, TypeOK
  <2>3. \A x, y \in Proc : \A z \in children'[x] \cap children'[y] : x = y
    BY <2>2, Zenon DEF Inv, TreeInv
  <2> QED BY <1>1, <1>5, <2>1, <2>3, Zenon DEF Inv, TreeInv
<1>11. FreshInv'
  BY <1>1, <1>5, Zenon DEF Inv, TypeOK, FreshInv
<1>12. PidInv'
  <2> DEFINE n == Len(free)
  <2>1. /\ n \in Nat /\ Len(free') = n + 1
        /\ free'[n + 1] = pid[c]
        /\ \A i \in 1..n : free'[i] = free[i]
        /\ max' = max /\ pid' = pid
    <3>1. free \in Seq(Nat) /\ pid[c] \in Nat
      BY Zenon DEF Inv, TypeOK
    <3>2. free' = Append(free, pid[c]) /\ max' = max /\ pid' = pid
      BY <1>5, Zenon
    <3> QED BY <3>1, <3>2
  <2>2. \A q \in process_list' : q \in process_list /\ pid[q] # pid[c]
    BY <1>1, <1>5, Zenon DEF Inv, PidInv
  <2>3. \A i \in 1..(n + 1) : i \in 1..n \/ i = n + 1
    <3>1. n \in Nat
      BY <2>1, Zenon
    <3> HIDE DEF n
    <3> QED BY <3>1
  <2>4. \A i \in 1..n : free[i] # pid[c]
    BY <1>1, Zenon DEF Inv, PidInv
  <2>5. \A i, j \in 1..(n + 1) : free'[i] = free'[j] => i = j
    BY <2>1, <2>3, <2>4, Zenon DEF Inv, PidInv
  <2>6. \A i \in 1..(n + 1) : free'[i] \in 1..max
    BY <1>1, <2>1, <2>3, Zenon DEF Inv, PidInv
  <2>7. \A i \in 1..(n + 1) : \A q \in process_list' : free'[i] # pid[q]
    BY <2>1, <2>2, <2>3, Zenon DEF Inv, PidInv
  <2>8. /\ \A q \in process_list' : pid[q] \in 1..max
        /\ \A q, r \in process_list' : pid[q] = pid[r] => q = r
    BY <2>2, Zenon DEF Inv, PidInv
  <2> QED BY <2>1, <2>5, <2>6, <2>7, <2>8, Zenon DEF PidInv
<1>13. StrongCountsAsExpected'
  BY <1>5, Zenon DEF StrongCountsAsExpected
<1> QED
  BY <1>6, <1>7, <1>8, <1>9, <1>10, <1>11, <1>12, <1>13, Zenon DEF Inv

\* The timer takes the hart from p, unless it finds TIMER_CONDVAR locked.
LEMMA TimerInProcessInv ==
  ASSUME Inv, NEW p \in Proc, TimerInProcess(p)
  PROVE  Inv'
<1>1. on_cpu = p /\ cpu_proc = p /\ p \in process_list
  BY Zenon DEF TimerInProcess, Inv, CpuInv
<1>2. CASE pc[p] = "push_timer"
  <2>1. /\ halted' = "timer: TIMER_CONDVAR lock"
        /\ UNCHANGED <<status, timer_waiting, ticks, cpu_proc, on_cpu, preempted, split, cut>>
        /\ UNCHANGED <<procVars, waiting_for_exit, workVars, callVars>>
    BY <1>2, Zenon DEF TimerInProcess
  <2>2. (TypeOK /\ StrongCountsAsExpected)'
    BY <2>1, Zenon DEF Inv, TypeOK, StrongCountsAsExpected
  <2>3. (CpuInv /\ PmInv /\ LoopInv /\ RunInv)'
    BY <2>1, Zenon DEF Inv, CpuInv, PmInv, LoopInv, RunInv
  <2>4. (ZombieInv /\ RegInv)'
    BY <2>1, Zenon DEF Inv, ZombieInv, RegInv
  <2>5. (TreeInv /\ FreshInv)'
    BY <2>1, Zenon DEF Inv, TreeInv, FreshInv
  <2>6. PidInv'
    BY <2>1, Zenon DEF Inv, PidInv
  <2> QED BY <2>2, <2>3, <2>4, <2>5, <2>6, Zenon DEF Inv
<1>3. CASE pc[p] # "push_timer"
  <2>1. /\ status' = Yielded(Woken(status, timer_waiting), p)
        /\ ticks' = [q \in Proc |-> IF ticks[q] > 0 THEN ticks[q] - 1 ELSE 0]
        /\ timer_waiting' = {} /\ cpu_proc' = None /\ on_cpu' = None
        /\ preempted' = preempted \cup {p}
        /\ split' \in {split, split \cup {p}} /\ cut' \in {cut, cut \cup {p}}
        /\ UNCHANGED halted
        /\ UNCHANGED <<procVars, waiting_for_exit, workVars, callVars>>
    BY <1>3, Zenon DEF TimerInProcess, Tick
  <2>2. status[p] # "Zombie"
    BY <1>1, Zenon DEF TimerInProcess, Inv, ZombieInv
  <2>3. timer_waiting \subseteq process_list /\ \A q \in timer_waiting : status[q] = "Suspend"
    BY Zenon DEF Inv, RegInv
  <2>4. status' = [q \in Proc |-> IF q \in timer_waiting \/ (q = p /\ status[q] = "Running")
                                  THEN "Ready" ELSE status[q]]
    <3>1. Woken(status, timer_waiting)
            = [q \in Proc |-> IF q \in timer_waiting THEN "Ready" ELSE status[q]]
      BY <2>3, Zenon DEF Woken
    <3>2. p \in timer_waiting => status[p] # "Running"
      BY <2>3, Zenon
    <3> QED BY <2>1, <3>1, <3>2, Zenon DEF Yielded
  <2>5. TypeOK'
    <3>1. ticks' \in [Proc -> Nat]
      <4>1. ASSUME NEW n \in Nat PROVE (IF n > 0 THEN n - 1 ELSE 0) \in Nat
        OBVIOUS
      <4> QED BY <2>1, <4>1, Zenon DEF Inv, TypeOK
    <3>2. status' \in [Proc -> ProcessStatus]
      BY <2>4, Zenon DEF Inv, TypeOK
    <3> QED BY <2>1, <3>1, <3>2, Zenon DEF Inv, TypeOK
  <2>6. (CpuInv /\ PmInv /\ LoopInv /\ RunInv)'
    <3>1. worker # "switch"
      BY <1>1, Zenon DEF TimerInProcess, Inv, CpuInv
    <3> QED BY <2>1, <3>1, Zenon DEF Inv, CpuInv, PmInv, LoopInv, RunInv
  <2>7. ZombieInv'
    BY <1>1, <2>1, <2>2, <2>3, <2>4, Zenon DEF Inv, TypeOK, ZombieInv
  <2>8. RegInv'
    BY <2>1, <2>4, Zenon DEF Inv, TypeOK, RegInv
  <2>9. TreeInv'
    BY <2>1, <2>4, Zenon DEF Inv, TypeOK, TreeInv
  <2>10. FreshInv'
    BY <1>1, <2>1, <2>3, <2>4, Zenon DEF Inv, TypeOK, FreshInv
  <2>11. (PidInv /\ StrongCountsAsExpected)'
    BY <2>1, Zenon DEF Inv, PidInv, StrongCountsAsExpected
  <2> QED BY <2>5, <2>6, <2>7, <2>8, <2>9, <2>10, <2>11, Zenon DEF Inv
<1> QED BY <1>2, <1>3, Zenon

\* do_yield leaves the hart to the worker; p goes on where its call said.
LEMMA SwitchInv ==
  ASSUME Inv, NEW p \in Proc, Switch(p)
  PROVE  Inv'
<1> USE DEF Switch
<1>1. loop[p] \notin {"get_target", "unlock_pm", "lock_timer", "push_timer"}
  BY Zenon DEF Inv, TypeOK
<1>2. TypeOK'
  BY Zenon DEF Inv, TypeOK
<1>3. (CpuInv /\ LoopInv /\ RunInv)'
  BY Zenon DEF Inv, TypeOK, CpuInv, LoopInv, RunInv
<1>4. PmInv'
  BY <1>1, Zenon DEF Inv, TypeOK, PmInv
<1>5. ZombieInv'
  BY Zenon DEF Inv, TypeOK, ZombieInv
<1>6. RegInv'
  <2>1. \A q \in Proc : pc'[q] \in {"lock_timer", "push_timer"} => pc'[q] = pc[q]
    BY <1>1, Zenon DEF Inv, TypeOK
  <2>2. UNCHANGED <<timer_waiting, waiting_for_exit, status, process_list>>
    BY Zenon
  <2> HIDE DEF Switch
  <2> QED BY <2>1, <2>2, Zenon DEF Inv, RegInv
<1>7. (TreeInv /\ FreshInv /\ PidInv /\ StrongCountsAsExpected)'
  BY DEF Inv, TypeOK, CpuInv, TreeInv, FreshInv, PidInv, StrongCountsAsExpected
<1> QED BY <1>2, <1>3, <1>4, <1>5, <1>6, <1>7, Zenon DEF Inv

\* A pass of wait_for without a zombie only forgets children that are gone.
LEMMA ScanNothingInv ==
  ASSUME Inv, NEW p \in Proc, ScanNothing(p)
  PROVE  Inv'
<1>1. /\ on_cpu = p /\ pc[p] = "scan" /\ status[p] = "Running" /\ p \in process_list
      /\ loop[p] = "scan"
  BY Zenon DEF ScanNothing, Inv, CpuInv, RunInv, LoopInv
<1>2. PICK l \in {"user", "lock_pm", "yield"} :
        /\ pc' = [pc EXCEPT ![p] = l]
        /\ IF l = "user" THEN /\ loop' = [loop EXCEPT ![p] = "user"]
                              /\ arg' = [arg EXCEPT ![p] = NoArg]
                              /\ sie' = TRUE
                         ELSE UNCHANGED <<loop, arg, sie>>
  <2>1. CASE LiveChildren(p) = {} \/ arg[p].option = WNOHANG
    BY <2>1, Zenon DEF ScanNothing
  <2>2. CASE ~(LiveChildren(p) = {} \/ arg[p].option = WNOHANG)
    BY <2>2, Zenon DEF ScanNothing
  <2> QED BY <2>1, <2>2, Zenon
<1>3. /\ children' = [children EXCEPT ![p] = children[p] \cap process_list]
      /\ split' = split \ {p}
      /\ UNCHANGED <<max, free, pid, process_list, parent, status, waitVars,
                     cpu_proc, on_cpu, preempted, cut, workVars, pm_lock, halted>>
  BY Zenon DEF ScanNothing, LiveChildren
<1>4. TypeOK'
  <2>1. arg' \in [Proc -> [pid : Int, option : {0, WNOHANG}]]
    <3>1. NoArg \in [pid : Int, option : {0, WNOHANG}]
      OBVIOUS
    <3> HIDE DEF NoArg, WNOHANG
    <3>2. arg' = arg \/ arg' = [arg EXCEPT ![p] = NoArg]
      BY <1>2, Zenon
    <3>3. arg \in [Proc -> [pid : Int, option : {0, WNOHANG}]]
      BY Zenon DEF Inv, TypeOK
    <3> QED BY <3>1, <3>2, <3>3, Zenon
  <2>2. /\ loop' \in [Proc -> {"user", "scan", "sleep", "dead"}]
        /\ pc' \in [Proc -> Locations]
        /\ sie' \in BOOLEAN
    BY <1>2, Zenon DEF Inv, TypeOK
  <2>3. children' \in [Proc -> SUBSET Proc] /\ split' \subseteq Proc
    BY <1>3, Zenon DEF Inv, TypeOK
  <2> QED BY <1>3, <2>1, <2>2, <2>3, Zenon DEF Inv, TypeOK
<1>5. (CpuInv /\ PmInv /\ LoopInv /\ RunInv)'
  <2>1. CpuInv'
    BY <1>1, <1>2, <1>3, Zenon DEF Inv, TypeOK, CpuInv
  <2>2. PmInv'
    BY <1>1, <1>2, <1>3, Zenon DEF Inv, TypeOK, PmInv
  <2>3. LoopInv'
    <3>1. CASE l = "user"
      BY <1>2, <3>1, Zenon DEF Inv, TypeOK, LoopInv
    <3>2. CASE l \in {"lock_pm", "yield"}
      BY <1>1, <1>2, <3>2, Zenon DEF Inv, TypeOK, LoopInv
    <3> QED BY <3>1, <3>2, Zenon
  <2>4. RunInv'
    BY <1>1, <1>2, <1>3, Zenon DEF Inv, TypeOK, RunInv
  <2> QED BY <2>1, <2>2, <2>3, <2>4, Zenon
<1>6. (ZombieInv /\ RegInv)'
  <2>1. /\ pc'[p] \in {"user", "lock_pm", "yield"} /\ loop'[p] \in {"user", "scan"}
        /\ \A q \in Proc \ {p} : /\ pc'[q] = pc[q] /\ loop'[q] = loop[q]
                                /\ children'[q] = children[q]
    BY <1>1, <1>2, <1>3, Zenon DEF Inv, TypeOK
  <2>2. ZombieInv'
    BY <1>1, <1>3, <2>1, Zenon DEF Inv, ZombieInv
  <2>3. RegInv'
    BY <1>3, <2>1, Zenon DEF Inv, RegInv
  <2> QED BY <2>2, <2>3, Zenon
<1>7. TreeInv'
  <2>1. \A x \in Proc : children'[x] \subseteq children[x]
    BY <1>3, Zenon DEF Inv, TypeOK
  <2>2. \A x \in process_list : \A y \in Proc : x \in children[y] => x \in children'[y]
    BY <1>3, Zenon DEF Inv, TypeOK
  <2>3. \A x \in process_list \ {InitProc} :
          \E y \in process_list : status[y] # "Zombie" /\ x \in children'[y]
    BY <2>2, Zenon DEF Inv, TypeOK, TreeInv
  <2>4. \A x, y \in Proc : \A z \in children'[x] \cap children'[y] : x = y
    BY <2>1, Zenon DEF Inv, TreeInv
  <2>5. UNCHANGED <<process_list, pid, status>>
    BY <1>3, Zenon
  <2> QED BY <2>3, <2>4, <2>5, Zenon DEF Inv, TreeInv
<1>8. FreshInv'
  BY <1>1, <1>2, <1>3, Zenon DEF Inv, TypeOK, FreshInv
<1>9. (PidInv /\ StrongCountsAsExpected)'
  BY <1>3, Zenon DEF Inv, PidInv, StrongCountsAsExpected
<1> QED BY <1>4, <1>5, <1>6, <1>7, <1>8, <1>9, Zenon DEF Inv

\* wait_for blocks p, Running and so on no list, on the condvar of q.
LEMMA WaitOnInv ==
  ASSUME Inv, NEW p \in Proc, NEW q \in Proc, WaitOn(p, q)
  PROVE  Inv'
<1>1. /\ on_cpu = p /\ pc[p] = "get_target" /\ status[p] = "Running"
      /\ p \in process_list /\ loop[p] = "scan"
  BY Zenon DEF WaitOn, Inv, CpuInv, RunInv, LoopInv
<1>2. UNCHANGED <<procVars, timer_waiting, ticks, cpuVars, sie, pm_lock, loop, arg>>
  BY Zenon DEF WaitOn
<1>3. CASE q = p
  <2>1. halted' = "wait_for: own data lock" /\ UNCHANGED <<status, waiting_for_exit, pc>>
    BY <1>3, Zenon DEF WaitOn
  <2>2. (TypeOK /\ StrongCountsAsExpected)'
    BY <1>2, <2>1, Zenon DEF Inv, TypeOK, StrongCountsAsExpected
  <2>3. (CpuInv /\ PmInv /\ LoopInv /\ RunInv)'
    BY <1>2, <2>1, Zenon DEF Inv, CpuInv, PmInv, LoopInv, RunInv
  <2>4. (ZombieInv /\ RegInv)'
    <3>1. ZombieInv'
      BY <1>2, <2>1, Zenon DEF Inv, ZombieInv, procVars, cpuVars
    <3>2. RegInv'
      BY <1>2, <2>1, Zenon DEF Inv, RegInv, procVars, cpuVars
    <3> QED BY <3>1, <3>2, Zenon
  <2>5. (TreeInv /\ FreshInv)'
    BY <1>2, <2>1, Zenon DEF Inv, TreeInv, FreshInv
  <2>6. PidInv'
    BY <1>2, <2>1, Zenon DEF Inv, PidInv
  <2> QED BY <2>2, <2>3, <2>4, <2>5, <2>6, Zenon DEF Inv
<1>4. CASE q # p
  <2>1. /\ status' = [status EXCEPT ![p] = "Suspend"]
        /\ waiting_for_exit' = [waiting_for_exit EXCEPT ![q] = @ \cup {p}]
        /\ pc' = [pc EXCEPT ![p] = "unlock_pm"]
        /\ UNCHANGED halted
    BY <1>4, Zenon DEF WaitOn
  <2>2. TypeOK'
    BY <1>2, <2>1, Zenon DEF Inv, TypeOK
  <2>3. (CpuInv /\ PmInv /\ LoopInv /\ RunInv)'
    BY <1>1, <1>2, <2>1, Zenon DEF Inv, TypeOK, CpuInv, PmInv, LoopInv, RunInv
  <2>4. ZombieInv'
    BY <1>1, <1>2, <2>1, Zenon DEF Inv, TypeOK, ZombieInv
  <2>5. RegInv'
    <3>1. /\ status'[p] = "Suspend" /\ \A r \in Proc \ {p} : status'[r] = status[r]
          /\ pc'[p] = "unlock_pm" /\ \A r \in Proc \ {p} : pc'[r] = pc[r]
          /\ waiting_for_exit'[q] = waiting_for_exit[q] \cup {p}
          /\ \A r \in Proc \ {q} : waiting_for_exit'[r] = waiting_for_exit[r]
      BY <2>1, Zenon DEF Inv, TypeOK
    <3>2. p \notin timer_waiting /\ \A r \in Proc : p \notin waiting_for_exit[r]
      BY <1>1, Zenon DEF Inv, RegInv
    <3>3. timer_waiting \subseteq Proc /\ \A r \in Proc : waiting_for_exit[r] \subseteq Proc
      BY Zenon DEF Inv, TypeOK
    <3>4. \A r \in Proc : status[r] = "Suspend" => status'[r] = "Suspend"
      BY <3>1, Zenon
    <3>5. UNCHANGED <<timer_waiting, process_list>>
      BY <1>2, Zenon
    <3>6. \A r \in timer_waiting :
            /\ r \in process_list /\ status'[r] = "Suspend"
            /\ \A t \in Proc : r \notin waiting_for_exit'[t]
      <4>1. \A r \in timer_waiting :
              /\ r \in process_list /\ status[r] = "Suspend"
              /\ \A t \in Proc : r \notin waiting_for_exit[t]
        BY Zenon DEF Inv, RegInv
      <4> QED BY <3>1, <3>2, <3>3, <3>4, <4>1
    <3>7. ASSUME NEW t \in Proc, NEW r \in waiting_for_exit'[t]
          PROVE  /\ r \in process_list /\ status'[r] = "Suspend"
                 /\ \A u \in Proc : r \in waiting_for_exit'[u] => u = t
      <4>1. CASE r = p
        <5>1. \A u \in Proc : r \in waiting_for_exit'[u] => u = q
          BY <3>1, <3>2, <4>1, Zenon
        <5> QED BY <1>1, <3>1, <4>1, <5>1, Zenon
      <4>2. CASE r # p
        <5>1. ASSUME NEW u \in Proc, r \in waiting_for_exit'[u]
              PROVE  r \in waiting_for_exit[u]
          <6>1. CASE u = q
            <7>1. r \in waiting_for_exit[q] \cup {p}
              BY <3>1, <5>1, <6>1, Zenon
            <7> QED BY <4>2, <6>1, <7>1, Zenon
          <6>2. CASE u # q
            <7>1. waiting_for_exit'[u] = waiting_for_exit[u]
              BY <3>1, <6>2, Zenon
            <7> QED BY <5>1, <7>1, Zenon
          <6> QED BY <6>1, <6>2, Zenon
        <5>2. /\ r \in process_list /\ status[r] = "Suspend"
              /\ \A u \in Proc : r \in waiting_for_exit[u] => u = t
          BY <5>1, Zenon DEF Inv, RegInv
        <5> QED BY <3>3, <3>4, <5>1, <5>2, Zenon
      <4> QED BY <4>1, <4>2, Zenon
    <3>8. \A r \in Proc : pc'[r] \in {"lock_timer", "push_timer"} =>
            /\ status'[r] = "Suspend"
            /\ r \notin timer_waiting
            /\ \A t \in Proc : r \notin waiting_for_exit'[t]
      BY <3>1, Zenon DEF Inv, RegInv
    <3> QED BY <3>5, <3>6, <3>7, <3>8, Zenon DEF RegInv
  <2>6. TreeInv'
    BY <1>1, <1>2, <2>1, Zenon DEF Inv, TypeOK, TreeInv
  <2>7. FreshInv'
    BY <1>1, <1>2, <2>1, Zenon DEF Inv, TypeOK, FreshInv
  <2>8. (PidInv /\ StrongCountsAsExpected)'
    BY <1>2, <2>1, Zenon DEF Inv, PidInv, StrongCountsAsExpected
  <2> QED BY <2>2, <2>3, <2>4, <2>5, <2>6, <2>7, <2>8, Zenon DEF Inv
<1> QED BY <1>3, <1>4, Zenon

\* sleep_ticks returns, or makes p Suspend on its way to the list.
LEMMA SleepTestInv ==
  ASSUME Inv, NEW p \in Proc, SleepTest(p)
  PROVE  Inv'
<1>1. /\ on_cpu = p /\ pc[p] = "sleep" /\ status[p] = "Running"
      /\ p \in process_list /\ loop[p] = "sleep"
  BY Zenon DEF SleepTest, Inv, CpuInv, RunInv, LoopInv
<1>2. /\ split' = split \ {p} /\ split \subseteq Proc
      /\ UNCHANGED <<procVars, waitVars, cpu_proc, on_cpu, preempted, cut, workVars,
                     pm_lock, halted>>
  BY Zenon DEF SleepTest, Inv, TypeOK
<1>3. CASE ticks[p] = 0
  <2>1. /\ pc' = [pc EXCEPT ![p] = "user"]
        /\ loop' = [loop EXCEPT ![p] = "user"]
        /\ arg' = [arg EXCEPT ![p] = NoArg]
        /\ sie' = TRUE
        /\ UNCHANGED status
    BY <1>3, Zenon DEF SleepTest
  <2>2. TypeOK'
    <3>1. arg' \in [Proc -> [pid : Int, option : {0, WNOHANG}]]
      <4>1. NoArg \in [pid : Int, option : {0, WNOHANG}]
        OBVIOUS
      <4> HIDE DEF NoArg, WNOHANG
      <4> QED BY <2>1, <4>1, Zenon DEF Inv, TypeOK
    <3>2. pc' \in [Proc -> Locations] /\ loop' \in [Proc -> {"user", "scan", "sleep", "dead"}]
      BY <2>1, Zenon DEF Inv, TypeOK
    <3> QED BY <1>2, <2>1, <3>1, <3>2, Zenon DEF Inv, TypeOK
  <2>3. (CpuInv /\ PmInv /\ LoopInv /\ RunInv)'
    BY <1>1, <1>2, <2>1, Zenon DEF Inv, TypeOK, CpuInv, PmInv, LoopInv, RunInv
  <2>4. (ZombieInv /\ RegInv)'
    BY <1>1, <1>2, <2>1 DEF Inv, TypeOK, ZombieInv, RegInv
  <2>5. TreeInv'
    BY <1>1, <1>2, <2>1, Zenon DEF Inv, TypeOK, TreeInv
  <2>6. FreshInv'
    BY <1>1, <1>2, <2>1, Zenon DEF Inv, TypeOK, FreshInv
  <2>7. (PidInv /\ StrongCountsAsExpected)'
    BY <1>2, Zenon DEF Inv, PidInv, StrongCountsAsExpected
  <2> QED BY <2>2, <2>3, <2>4, <2>5, <2>6, <2>7, Zenon DEF Inv
<1>4. CASE ticks[p] # 0
  <2>1. /\ status' = [status EXCEPT ![p] = "Suspend"]
        /\ pc' = [pc EXCEPT ![p] = "lock_timer"]
        /\ UNCHANGED <<loop, arg, sie>>
    BY <1>4, Zenon DEF SleepTest
  <2>2. TypeOK'
    BY <1>2, <2>1, Zenon DEF Inv, TypeOK
  <2>3. (CpuInv /\ PmInv /\ LoopInv /\ RunInv)'
    BY <1>1, <1>2, <2>1, Zenon DEF Inv, TypeOK, CpuInv, PmInv, LoopInv, RunInv
  <2>4. (ZombieInv /\ RegInv)'
    <3>1. /\ status'[p] = "Suspend" /\ \A q \in Proc \ {p} : status'[q] = status[q]
          /\ pc'[p] = "lock_timer" /\ \A q \in Proc \ {p} : pc'[q] = pc[q]
      BY <2>1, Zenon DEF Inv, TypeOK
    <3>2. p \notin timer_waiting /\ \A q \in Proc : p \notin waiting_for_exit[q]
      BY <1>1, Zenon DEF Inv, RegInv
    <3>3. timer_waiting \subseteq Proc /\ \A q \in Proc : waiting_for_exit[q] \subseteq Proc
      BY Zenon DEF Inv, TypeOK
    <3>4. ZombieInv'
      <4>1. loop[p] # "dead" /\ UNCHANGED <<loop, children, preempted, lost, on_cpu, sie>>
        BY <1>1, <1>2, <2>1, Zenon DEF Inv, ZombieInv
      <4> QED BY <3>1, <4>1, Zenon DEF Inv, ZombieInv
    <3>5. RegInv'
      <4>1. UNCHANGED <<timer_waiting, waiting_for_exit, process_list>>
        BY <1>2, Zenon
      <4>2. \A q \in timer_waiting : q \in Proc \ {p}
        BY <3>2, <3>3, Zenon
      <4>3. \A r \in Proc : \A q \in waiting_for_exit[r] : q \in Proc \ {p}
        BY <3>2, <3>3, Zenon
      <4>4. \A q \in timer_waiting :
              /\ q \in process_list /\ status'[q] = "Suspend"
              /\ \A r \in Proc : q \notin waiting_for_exit[r]
        BY <3>1, <4>2, Zenon DEF Inv, RegInv
      <4>5. \A r \in Proc : \A q \in waiting_for_exit[r] :
              /\ q \in process_list /\ status'[q] = "Suspend"
              /\ \A u \in Proc : q \in waiting_for_exit[u] => u = r
        BY <3>1, <4>3, Zenon DEF Inv, RegInv
      <4>6. \A q \in Proc : pc'[q] \in {"lock_timer", "push_timer"} =>
              /\ status'[q] = "Suspend"
              /\ q \notin timer_waiting
              /\ \A r \in Proc : q \notin waiting_for_exit[r]
        BY <3>1, <3>2 DEF Inv, RegInv
      <4> QED BY <4>1, <4>4, <4>5, <4>6, Zenon DEF RegInv
    <3> QED BY <3>4, <3>5, Zenon
  <2>5. TreeInv'
    BY <1>1, <1>2, <2>1, Zenon DEF Inv, TypeOK, TreeInv
  <2>6. FreshInv'
    BY <1>1, <1>2, <2>1, Zenon DEF Inv, TypeOK, FreshInv
  <2>7. (PidInv /\ StrongCountsAsExpected)'
    BY <1>2, Zenon DEF Inv, PidInv, StrongCountsAsExpected
  <2> QED BY <2>2, <2>3, <2>4, <2>5, <2>6, <2>7, Zenon DEF Inv
<1> QED BY <1>3, <1>4, Zenon

\* worker picks p, Ready or just woken by the timer with the others in W: it is
\* not a zombie, and is on no list.
LEMMA ChosenInv ==
  ASSUME Inv, NEW p \in process_list, NEW W \in {{}, timer_waiting},
         on_cpu = None, worker = "schedule", pm_lock = None,
         status[p] = "Ready" \/ p \in W,
         status' = [q \in Proc |-> IF q = p THEN "Running"
                                   ELSE IF q \in W THEN "Ready" ELSE status[q]],
         timer_waiting' = timer_waiting \ W,
         ticks' \in [Proc -> Nat],
         previous_scheduled_pid' = pid[p],
         cpu_proc' = p, worker' = "switch",
         UNCHANGED <<procVars, waiting_for_exit, on_cpu, preempted, split, cut,
                     context_saved, lost, callVars, halted>>
  PROVE  Inv'
<1>1. /\ p \in Proc /\ process_list \subseteq Proc
      /\ timer_waiting \subseteq Proc /\ \A q \in Proc : waiting_for_exit[q] \subseteq Proc
  BY Zenon DEF Inv, TypeOK
<1>2. \A q \in W : q \in process_list /\ status[q] = "Suspend"
                   /\ \A r \in Proc : q \notin waiting_for_exit[r]
  BY Zenon DEF Inv, RegInv
<1>3. /\ status'[p] = "Running" /\ status[p] \in {"Ready", "Suspend"}
      /\ \A q \in Proc : q # p /\ q \in W => status'[q] = "Ready" /\ status[q] = "Suspend"
      /\ \A q \in Proc : q # p /\ q \notin W => status'[q] = status[q]
  BY <1>1, <1>2, Zenon
<1>4. TypeOK'
  <2>1. status' \in [Proc -> ProcessStatus]
    BY Zenon DEF Inv, TypeOK
  <2>2. previous_scheduled_pid' \in Nat /\ timer_waiting' \subseteq Proc
    BY <1>1, Zenon DEF Inv, TypeOK
  <2> QED BY <1>1, <2>1, <2>2, Zenon DEF Inv, TypeOK
<1>5. CpuInv'
  BY <1>1, <1>3, Zenon DEF CpuInv
<1>6. (PmInv /\ LoopInv /\ RunInv)'
  BY Zenon DEF Inv, PmInv, LoopInv, RunInv
<1>7. ZombieInv'
  <2>1. \A q \in Proc : status'[q] = "Zombie" <=> status[q] = "Zombie"
    BY <1>3, Zenon
  <2> QED BY <2>1, Zenon DEF Inv, ZombieInv
<1>8. RegInv'
  <2>1. /\ \A q \in Proc : p \notin waiting_for_exit[q]
        /\ p \notin timer_waiting'
        /\ pc[p] \notin {"lock_timer", "push_timer"}
    BY <1>1, <1>2, Zenon DEF Inv, RegInv
  <2>2. \A q \in Proc : status[q] = "Suspend" => q = p \/ q \in W \/ status'[q] = "Suspend"
    BY <1>3, Zenon
  <2>3. \A q \in timer_waiting' :
          /\ q \in process_list' /\ status'[q] = "Suspend"
          /\ \A r \in Proc : q \notin waiting_for_exit'[r]
    BY <1>1, <2>1, <2>2, Zenon DEF Inv, RegInv
  <2>4. \A q \in Proc : \A r \in waiting_for_exit'[q] :
          /\ r \in process_list' /\ status'[r] = "Suspend"
          /\ \A u \in Proc : r \in waiting_for_exit'[u] => u = q
    <3> SUFFICES ASSUME NEW q \in Proc, NEW r \in waiting_for_exit[q]
                 PROVE  /\ r \in process_list /\ status'[r] = "Suspend"
                        /\ \A u \in Proc : r \in waiting_for_exit[u] => u = q
      BY Zenon
    <3>1. r \in Proc /\ r # p /\ r \notin W
      BY <1>1, <1>2, <2>1, Zenon
    <3>2. /\ r \in process_list /\ status[r] = "Suspend"
          /\ \A u \in Proc : r \in waiting_for_exit[u] => u = q
      BY Zenon DEF Inv, RegInv
    <3> QED BY <2>2, <3>1, <3>2, Zenon
  <2>5. \A q \in Proc : pc'[q] \in {"lock_timer", "push_timer"} =>
          /\ status'[q] = "Suspend"
          /\ q \notin timer_waiting'
          /\ \A r \in Proc : q \notin waiting_for_exit'[r]
    BY <1>1, <2>1, <2>2, Zenon DEF Inv, RegInv
  <2> QED BY <2>3, <2>4, <2>5, Zenon DEF RegInv
<1>9. TreeInv'
  BY <1>1, <1>3, Zenon DEF Inv, TreeInv
<1>10. FreshInv'
  BY <1>1, <1>2, <1>3, Zenon DEF Inv, FreshInv
<1>11. (PidInv /\ StrongCountsAsExpected)'
  BY Zenon DEF Inv, PidInv, StrongCountsAsExpected
<1> QED BY <1>4, <1>5, <1>6, <1>7, <1>8, <1>9, <1>10, <1>11, Zenon DEF Inv

LEMMA ScheduleInv ==
  ASSUME Inv, Schedule
  PROVE  Inv'
<1>1. PICK p \in process_list : scheduler(status, p) /\ Chosen(p, status)
  BY Zenon DEF Schedule
<1>2. /\ on_cpu = None /\ worker = "schedule" /\ pm_lock = None /\ cpu_proc = None
      /\ UNCHANGED <<procVars, waitVars, on_cpu, preempted, split, cut, context_saved, lost,
                     callVars, halted>>
  BY Zenon DEF Schedule, InWorker, Inv, CpuInv
<1>3. status[p] = "Ready" /\ cpu_proc' = p /\ worker' = "switch"
        /\ previous_scheduled_pid' = pid[p]
  BY <1>1, Zenon DEF scheduler, Chosen
<1>4. status' = [q \in Proc |-> IF q = p THEN "Running" ELSE IF q \in {} THEN "Ready" ELSE status[q]]
  BY <1>1, <1>2 DEF Chosen
<1>5. ticks' \in [Proc -> Nat] /\ timer_waiting' = timer_waiting \ {}
  BY <1>2, Zenon DEF Inv, TypeOK
<1> QED BY <1>2, <1>3, <1>4, <1>5, ChosenInv, Zenon

\* The switch to the process in CPU::proc, unless its context is lost.
LEMMA SwitchToInv ==
  ASSUME Inv, SwitchTo
  PROVE  Inv'
<1>1. /\ on_cpu = None /\ pm_lock = None /\ cpu_proc \in process_list /\ cpu_proc \in Proc
      /\ status[cpu_proc] = "Running" /\ worker = "switch"
  BY Zenon DEF SwitchTo, InWorker, Inv, TypeOK, CpuInv
<1>2. UNCHANGED <<procVars, status, waitVars, cpu_proc, lost, previous_scheduled_pid,
                  callVars, split, cut>>
  BY Zenon DEF SwitchTo
<1>3. CASE cpu_proc \in lost
  <2>1. halted' = "worker: lost context" /\ UNCHANGED <<worker, context_saved, on_cpu, preempted>>
    BY <1>3, Zenon DEF SwitchTo
  <2>2. (TypeOK /\ StrongCountsAsExpected)'
    BY <1>2, <2>1, Zenon DEF Inv, TypeOK, StrongCountsAsExpected
  <2>3. (CpuInv /\ PmInv /\ LoopInv /\ RunInv)'
    BY <1>2, <2>1, Zenon DEF Inv, CpuInv, PmInv, LoopInv, RunInv
  <2>4. (ZombieInv /\ RegInv)'
    BY <1>2, <2>1, Zenon DEF Inv, ZombieInv, RegInv
  <2>5. (TreeInv /\ FreshInv)'
    BY <1>2, <2>1, Zenon DEF Inv, TreeInv, FreshInv
  <2>6. PidInv'
    BY <1>2, <2>1, Zenon DEF Inv, PidInv
  <2> QED BY <2>2, <2>3, <2>4, <2>5, <2>6, Zenon DEF Inv
<1>4. CASE cpu_proc \notin lost
  <2>1. /\ worker' = "schedule" /\ context_saved' = TRUE /\ on_cpu' = cpu_proc
        /\ preempted' = preempted \ {cpu_proc} /\ halted' = halted
    BY <1>4, Zenon DEF SwitchTo
  <2>2. TypeOK'
    BY <1>1, <1>2, <2>1, Zenon DEF Inv, TypeOK
  <2>3. CpuInv'
    BY <1>1, <1>2, <1>4, <2>1, Zenon DEF CpuInv
  <2>4. (PmInv /\ LoopInv)'
    BY <1>1, <1>2, Zenon DEF Inv, PmInv, LoopInv
  <2>5. RunInv'
    <3>1. pc[cpu_proc] # "dead" /\ pc[cpu_proc] # "unlock_pm"
      BY <1>1, Zenon DEF Inv, LoopInv, ZombieInv, PmInv
    <3> QED BY <1>1, <1>2, <2>1, <3>1, Zenon DEF RunInv
  <2>6. ZombieInv'
    BY <1>1, <1>2, <2>1, Zenon DEF Inv, ZombieInv
  <2>7. RegInv'
    BY <1>2, Zenon DEF Inv, RegInv
  <2>8. (TreeInv /\ FreshInv)'
    BY <1>2, <2>1, Zenon DEF Inv, TreeInv, FreshInv
  <2>9. (PidInv /\ StrongCountsAsExpected)'
    BY <1>2, <2>1, Zenon DEF Inv, PidInv, StrongCountsAsExpected
  <2> QED BY <2>2, <2>3, <2>4, <2>5, <2>6, <2>7, <2>8, <2>9, Zenon DEF Inv
<1> QED BY <1>3, <1>4, Zenon

\* A tick leaves every sleeper with a natural number of ticks.
LEMMA TickType ==
  ASSUME Inv, Tick
  PROVE  ticks' \in [Proc -> Nat]
<1>1. ASSUME NEW n \in Nat PROVE (IF n > 0 THEN n - 1 ELSE 0) \in Nat
  OBVIOUS
<1> QED BY <1>1, Zenon DEF Tick, Inv, TypeOK

\* Condvar::wakeup on the list of the timer, whose members are all listed.
LEMMA WokenSleepers ==
  ASSUME Inv
  PROVE  /\ Woken(status, timer_waiting)
              = [q \in Proc |-> IF q \in timer_waiting THEN "Ready" ELSE status[q]]
         /\ timer_waiting \subseteq process_list
         /\ \A q \in timer_waiting : status[q] = "Suspend"
<1>1. timer_waiting \subseteq process_list /\ \A q \in timer_waiting : status[q] = "Suspend"
  BY Zenon DEF Inv, RegInv
<1> QED BY <1>1, Zenon DEF Woken

\* The timer during the search: the process found was Ready before, or is now.
LEMMA TimerInSchedulerInv ==
  ASSUME Inv, TimerInScheduler
  PROVE  Inv'
<1> DEFINE woken == Woken(status, timer_waiting)
<1>1. PICK p \in process_list, k \in process_list :
        /\ scheduler([q \in Proc |-> IF Before(q, k) THEN status[q] ELSE woken[q]], p)
        /\ Chosen(p, woken)
  BY Zenon DEF TimerInScheduler
<1>2. /\ on_cpu = None /\ worker = "schedule" /\ pm_lock = None /\ cpu_proc = None
      /\ timer_waiting' = {}
      /\ UNCHANGED <<procVars, waiting_for_exit, on_cpu, preempted, split, cut,
                     context_saved, lost, callVars, halted>>
  BY Zenon DEF TimerInScheduler, InWorker
<1>3. p \in Proc /\ \A q \in Proc : woken[q] = IF q \in timer_waiting THEN "Ready" ELSE status[q]
  BY WokenSleepers, Zenon DEF Inv, TypeOK
<1> HIDE DEF woken
<1>4. status[p] = "Ready" \/ p \in timer_waiting
  BY <1>1, <1>3, Zenon DEF scheduler
<1>5. /\ cpu_proc' = p /\ worker' = "switch" /\ previous_scheduled_pid' = pid[p]
      /\ status' = [q \in Proc |-> IF q = p THEN "Running"
                                   ELSE IF q \in timer_waiting THEN "Ready" ELSE status[q]]
  BY <1>1, <1>2, <1>3 DEF Chosen
<1>6. ticks' \in [Proc -> Nat] /\ timer_waiting' = timer_waiting \ timer_waiting
  BY <1>2, TickType, Zenon DEF TimerInScheduler
<1> QED BY <1>2, <1>4, <1>5, <1>6, ChosenInv, Zenon

\* The timer before the switch: the chosen process is Ready again, its context
\* is lost.
LEMMA TimerBeforeSwitchInv ==
  ASSUME Inv, TimerBeforeSwitch
  PROVE  Inv'
<1>1. PICK c : c = cpu_proc
  BY Zenon
<1>2. c # None /\ c \in process_list /\ c \in Proc /\ on_cpu = None /\ status[c] = "Running"
  BY <1>1, Zenon DEF TimerBeforeSwitch, Inv, TypeOK, CpuInv
<1>3. /\ timer_waiting' = {} /\ lost' = lost \cup {c} /\ cpu_proc' = None /\ worker' = "schedule"
      /\ context_saved' \in BOOLEAN /\ halted' \in {"no", "worker: no context"}
      /\ UNCHANGED <<procVars, waiting_for_exit, on_cpu, preempted, split, cut,
                     previous_scheduled_pid, callVars>>
  BY <1>1, Zenon DEF TimerBeforeSwitch, Inv, TypeOK
<1>4. /\ timer_waiting \subseteq process_list /\ \A q \in timer_waiting : status[q] = "Suspend"
      /\ process_list \subseteq Proc
  BY WokenSleepers, Zenon DEF Inv, TypeOK
<1>5. status' = [q \in Proc |-> IF q \in timer_waiting \/ q = c THEN "Ready" ELSE status[q]]
  <2>1. status' = Yielded([q \in Proc |-> IF q \in timer_waiting THEN "Ready" ELSE status[q]], c)
    BY <1>1, WokenSleepers, Zenon DEF TimerBeforeSwitch
  <2>2. c \notin timer_waiting
    BY <1>2, <1>4, Zenon
  <2> QED BY <1>2, <2>1, <2>2 DEF Yielded
<1>6. /\ \A q \in Proc : q \in timer_waiting \/ q = c => status'[q] = "Ready"
      /\ \A q \in Proc : q \notin timer_waiting /\ q # c => status'[q] = status[q]
  BY <1>5, Zenon
<1>7. TypeOK'
  <2>1. status' \in [Proc -> ProcessStatus]
    BY <1>5, Zenon DEF Inv, TypeOK
  <2>2. ticks' \in [Proc -> Nat]
    BY TickType, Zenon DEF TimerBeforeSwitch
  <2> QED BY <1>2, <1>3, <2>1, <2>2, Zenon DEF Inv, TypeOK
<1>8. (CpuInv /\ PmInv /\ LoopInv /\ RunInv)'
  BY <1>2, <1>3, Zenon DEF Inv, CpuInv, PmInv, LoopInv, RunInv
<1>9. ZombieInv'
  <2>1. \A q \in Proc : status'[q] = "Zombie" <=> status[q] = "Zombie"
    BY <1>2, <1>4, <1>6, Zenon
  <2> QED BY <1>2, <1>3, <2>1, Zenon DEF Inv, ZombieInv
<1>10. RegInv'
  <2>1. /\ \A q \in Proc : c \notin waiting_for_exit[q]
        /\ pc[c] \notin {"lock_timer", "push_timer"}
    BY <1>2, Zenon DEF Inv, RegInv
  <2>2. \A q \in Proc : waiting_for_exit[q] \subseteq Proc
    BY Zenon DEF Inv, TypeOK
  <2> QED BY <1>2, <1>3, <1>6, <2>1, <2>2, Zenon DEF Inv, RegInv
<1>11. TreeInv'
  BY <1>3, <1>4, <1>6, Zenon DEF Inv, TreeInv
<1>12. FreshInv'
  BY <1>2, <1>3, <1>4, <1>6, Zenon DEF Inv, FreshInv
<1>13. (PidInv /\ StrongCountsAsExpected)'
  BY <1>3, Zenon DEF Inv, PidInv, StrongCountsAsExpected
<1> QED BY <1>7, <1>8, <1>9, <1>10, <1>11, <1>12, <1>13, Zenon DEF Inv

\* The timer in the worker: every process on the list was Suspend.
LEMMA TimerInWorkerInv ==
  ASSUME Inv, TimerInWorker
  PROVE  Inv'
<1>1. /\ on_cpu = None /\ cpu_proc = None /\ timer_waiting' = {}
      /\ ticks' = [q \in Proc |-> IF ticks[q] > 0 THEN ticks[q] - 1 ELSE 0]
      /\ UNCHANGED <<procVars, waiting_for_exit, cpuVars, callVars, halted>>
  BY Zenon DEF TimerInWorker, Tick
<1>2. timer_waiting \subseteq process_list /\ \A q \in timer_waiting : status[q] = "Suspend"
  BY Zenon DEF Inv, RegInv
<1>3. status' = [q \in Proc |-> IF q \in timer_waiting THEN "Ready" ELSE status[q]]
  BY <1>2, Zenon DEF TimerInWorker, Woken
<1>4. /\ \A q \in Proc \ timer_waiting : status'[q] = status[q]
      /\ \A q \in Proc \cap timer_waiting : status'[q] = "Ready"
      /\ process_list \subseteq Proc
  BY <1>3, Zenon DEF Inv, TypeOK
<1>5. TypeOK'
  <2>1. ticks' \in [Proc -> Nat]
    <3>1. ASSUME NEW n \in Nat PROVE (IF n > 0 THEN n - 1 ELSE 0) \in Nat
      OBVIOUS
    <3> QED BY <1>1, <3>1, Zenon DEF Inv, TypeOK
  <2>2. status' \in [Proc -> ProcessStatus]
    BY <1>3, Zenon DEF Inv, TypeOK
  <2> QED BY <1>1, <2>1, <2>2, Zenon DEF Inv, TypeOK
<1>6. (CpuInv /\ PmInv /\ LoopInv /\ RunInv)'
  BY <1>1, Zenon DEF Inv, CpuInv, PmInv, LoopInv, RunInv
<1>7. ZombieInv'
  BY <1>1, <1>2, <1>4, Zenon DEF Inv, ZombieInv
<1>8. RegInv'
  BY <1>1, <1>2, <1>4, Zenon DEF Inv, RegInv
<1>9. TreeInv'
  BY <1>1, <1>2, <1>4, Zenon DEF Inv, TreeInv
<1>10. FreshInv'
  BY <1>1, <1>2, <1>4, Zenon DEF Inv, FreshInv
<1>11. (PidInv /\ StrongCountsAsExpected)'
  BY <1>1, Zenon DEF Inv, PidInv, StrongCountsAsExpected
<1> QED BY <1>5, <1>6, <1>7, <1>8, <1>9, <1>10, <1>11, Zenon DEF Inv

\* yield_process, in do_yield.
LEMMA YieldInv ==
  ASSUME Inv, NEW p \in Proc, Yield(p)
  PROVE  Inv'
<1>1. /\ on_cpu = p /\ pc[p] = "yield" /\ p \in process_list
      /\ UNCHANGED <<procVars, waitVars, cpuVars, sie, pm_lock, loop, arg, halted>>
      /\ pc' = [pc EXCEPT ![p] = "switch"]
      /\ status' = [status EXCEPT ![p] = IF @ = "Running" THEN "Ready" ELSE @]
  BY Zenon DEF Yield, Yielded, Inv, CpuInv
<1>2. /\ pc'[p] = "switch" /\ \A q \in Proc \ {p} : pc'[q] = pc[q] /\ status'[q] = status[q]
      /\ status'[p] = status[p] \/ (status[p] = "Running" /\ status'[p] = "Ready")
      /\ process_list \subseteq Proc
  BY <1>1, Zenon DEF Inv, TypeOK
<1>3. TypeOK'
  <2>1. pc' \in [Proc -> Locations] /\ status' \in [Proc -> ProcessStatus]
    BY <1>1, Zenon DEF Inv, TypeOK
  <2> QED BY <1>1, <2>1, Zenon DEF Inv, TypeOK
<1>4. (CpuInv /\ PmInv)'
  BY <1>1, <1>2, Zenon DEF Inv, CpuInv, PmInv
<1>5. (LoopInv /\ RunInv)'
  <2>1. LoopInv'
    <3>1. loop' = loop /\ \A q \in Proc : pc'[q] \in {pc[q], "switch"}
      BY <1>1, <1>2, Zenon
    <3> QED BY <3>1, Zenon DEF Inv, LoopInv
  <2>2. RunInv'
    BY <1>1, <1>2, Zenon DEF RunInv
  <2> QED BY <2>1, <2>2, Zenon
<1>6. ZombieInv'
  <2>1. \A q \in Proc : status'[q] = "Zombie" <=> status[q] = "Zombie"
    BY <1>2, Zenon
  <2>2. UNCHANGED <<loop, children, preempted, lost, on_cpu, sie>>
    BY <1>1, Zenon
  <2>3. \A q \in Proc : pc'[q] = pc[q] \/ (q = p /\ pc'[q] = "switch")
    BY <1>2, Zenon
  <2>4. on_cpu = p
    BY <1>1, Zenon
  <2> QED BY <2>1, <2>2, <2>3, <2>4, Zenon DEF Inv, ZombieInv
<1>7. RegInv'
  <2>1. timer_waiting \subseteq Proc /\ \A q \in Proc : waiting_for_exit[q] \subseteq Proc
    BY Zenon DEF Inv, TypeOK
  <2>2. \A q \in Proc : status[q] = "Suspend" => status'[q] = "Suspend"
    BY <1>2, Zenon
  <2>3. \A q \in Proc : pc'[q] \in {"lock_timer", "push_timer"} => pc'[q] = pc[q]
    BY <1>2, Zenon
  <2> QED BY <1>1, <2>1, <2>2, <2>3, Zenon DEF Inv, RegInv
<1>8. TreeInv'
  BY <1>1, <1>2, Zenon DEF Inv, TreeInv
<1>9. FreshInv'
  BY <1>1, <1>2 DEF Inv, FreshInv
<1>10. (PidInv /\ StrongCountsAsExpected)'
  BY <1>1, Zenon DEF Inv, PidInv, StrongCountsAsExpected
<1> QED BY <1>3, <1>4, <1>5, <1>6, <1>7, <1>8, <1>9, <1>10, Zenon DEF Inv

\* A step of the process on the hart that changes only where it is in its
\* system call: the process tree, the pids and the statuses stay.
LEMMA MoveInv ==
  ASSUME Inv, NEW p \in Proc, NEW l \in Locations, NEW k \in {"user", "scan", "sleep"},
         on_cpu = p, status[p] # "Zombie",
         UNCHANGED <<procVars, status, cpuVars, halted>>,
         pc' = [pc EXCEPT ![p] = l],
         loop' = [loop EXCEPT ![p] = k],
         \/ l = "user" /\ k = "user"
         \/ l \in InWait /\ k = "scan"
         \/ l \in InSleep /\ k = "sleep"
         \/ l = "yield",
         l \in {"user", "scan", "lock_pm", "get_target", "sleep"} => status[p] = "Running",
         l = "unlock_pm" => status[p] = "Suspend"
  PROVE  (CpuInv /\ LoopInv /\ RunInv /\ ZombieInv /\ TreeInv /\ FreshInv
            /\ PidInv /\ StrongCountsAsExpected)'
<1>1. /\ pc'[p] = l /\ loop'[p] = k
      /\ \A q \in Proc \ {p} : pc'[q] = pc[q] /\ loop'[q] = loop[q]
  BY Zenon DEF Inv, TypeOK
<1>2. CpuInv'
  BY Zenon DEF Inv, CpuInv
<1>3. LoopInv'
  BY <1>1, Zenon DEF Inv, LoopInv
<1>4. RunInv'
  BY <1>1, Zenon DEF RunInv
<1>5. ZombieInv'
  <2> SUFFICES ASSUME NEW q \in Proc
               PROVE  /\ status[q] = "Zombie" <=> loop'[q] = "dead"
                      /\ status[q] = "Zombie" =>
                           /\ children[q] = {}
                           /\ q \notin preempted /\ q \notin lost
                           /\ on_cpu # q
                           /\ pc'[q] = "dead"
    BY Zenon DEF ZombieInv
  <2>1. CASE q = p
    BY <1>1, <2>1, Zenon
  <2>2. CASE q # p
    BY <1>1, <2>2, Zenon DEF Inv, ZombieInv
  <2> QED BY <2>1, <2>2, Zenon
<1>6. TreeInv'
  BY Zenon DEF Inv, TreeInv
<1>7. FreshInv'
  <2>1. pid[p] # 0
    BY Zenon DEF Inv, CpuInv, FreshInv
  <2> QED BY <1>1, <2>1 DEF Inv, FreshInv
<1>8. (PidInv /\ StrongCountsAsExpected)'
  BY Zenon DEF Inv, PidInv, StrongCountsAsExpected
<1> QED BY <1>2, <1>3, <1>4, <1>5, <1>6, <1>7, <1>8, Zenon

\* The process on the hart in user mode, in wait_for or in sleep_ticks.
LEMMA OnHart ==
  ASSUME Inv, NEW p \in Proc, on_cpu = p, pc[p] \notin {"yield", "switch", "dead"}
  PROVE  /\ p \in process_list /\ status[p] # "Zombie"
         /\ pc[p] \in {"user", "scan", "lock_pm", "get_target", "sleep"} => status[p] = "Running"
         /\ pc[p] = "unlock_pm" => status[p] = "Suspend"
         /\ pc[p] = "user" => loop[p] = "user"
         /\ pc[p] \in InWait => loop[p] = "scan"
         /\ pc[p] \in InSleep => loop[p] = "sleep"
         /\ loop = [loop EXCEPT ![p] = loop[p]]
<1>1. p # None
  BY Zenon
<1>2. p \in process_list
  BY <1>1, Zenon DEF Inv, CpuInv
<1>3. status[p] # "Zombie"
  BY Zenon DEF Inv, ZombieInv
<1>4. /\ pc[p] \in {"user", "scan", "lock_pm", "get_target", "sleep"} => status[p] = "Running"
      /\ pc[p] = "unlock_pm" => status[p] = "Suspend"
  BY <1>1, Zenon DEF Inv, RunInv
<1>5. loop = [loop EXCEPT ![p] = loop[p]]
  BY Zenon DEF Inv, TypeOK
<1> QED BY <1>2, <1>3, <1>4, <1>5, Zenon DEF Inv, LoopInv

\* sched_yield.
LEMMA SchedYieldInv ==
  ASSUME Inv, NEW p \in Proc, SchedYield(p)
  PROVE  Inv'
<1>1. /\ on_cpu = p /\ pc[p] = "user" /\ pc' = [pc EXCEPT ![p] = "yield"]
      /\ UNCHANGED <<procVars, status, cpuVars, halted, waiting_for_exit, timer_waiting,
                     ticks, pm_lock, arg>>
      /\ sie' = FALSE
  BY Zenon DEF SchedYield
<1>2. /\ p \in process_list /\ status[p] = "Running"
      /\ loop' = [loop EXCEPT ![p] = "user"]
  BY <1>1, OnHart, Zenon DEF SchedYield
<1>3. (CpuInv /\ LoopInv /\ RunInv /\ ZombieInv /\ TreeInv /\ FreshInv
        /\ PidInv /\ StrongCountsAsExpected)'
  BY <1>1, <1>2, MoveInv, Zenon
<1>4. pc'[p] = "yield" /\ \A q \in Proc \ {p} : pc'[q] = pc[q]
  BY <1>1, Zenon DEF Inv, TypeOK
<1>5. PmInv'
  BY <1>1, <1>4, Zenon DEF Inv, PmInv
<1>6. RegInv'
  BY <1>1, <1>2, <1>4, Zenon DEF Inv, RegInv
<1>7. TypeOK'
  <2>1. pc' \in [Proc -> Locations] /\ loop' \in [Proc -> {"user", "scan", "sleep", "dead"}]
    BY <1>1, <1>2, Zenon DEF Inv, TypeOK
  <2> QED BY <1>1, <2>1, Zenon DEF Inv, TypeOK
<1> QED BY <1>3, <1>5, <1>6, <1>7, Zenon DEF Inv

\* wait_for is called.
LEMMA WaitForInv ==
  ASSUME Inv, NEW p \in Proc, NEW n \in WaitPids, NEW option \in {0, WNOHANG}, WaitFor(p, n, option)
  PROVE  Inv'
<1>1. /\ on_cpu = p /\ pc[p] = "user" /\ pc' = [pc EXCEPT ![p] = "scan"]
      /\ UNCHANGED <<procVars, status, cpuVars, halted, waiting_for_exit, timer_waiting,
                     ticks, pm_lock>>
      /\ sie' = FALSE
      /\ arg' = [arg EXCEPT ![p] = [pid |-> n, option |-> option]]
  BY Zenon DEF WaitFor
<1>2. /\ p \in process_list /\ status[p] = "Running"
      /\ loop' = [loop EXCEPT ![p] = "scan"]
  BY <1>1, OnHart, Zenon DEF WaitFor
<1>3. (CpuInv /\ LoopInv /\ RunInv /\ ZombieInv /\ TreeInv /\ FreshInv
        /\ PidInv /\ StrongCountsAsExpected)'
  BY <1>1, <1>2, MoveInv, Zenon
<1>4. pc'[p] = "scan" /\ \A q \in Proc \ {p} : pc'[q] = pc[q]
  BY <1>1, Zenon DEF Inv, TypeOK
<1>5. PmInv'
  BY <1>1, <1>4, Zenon DEF Inv, PmInv
<1>6. RegInv'
  BY <1>1, <1>2, <1>4, Zenon DEF Inv, RegInv
<1>7. TypeOK'
  <2>1. pc' \in [Proc -> Locations] /\ loop' \in [Proc -> {"user", "scan", "sleep", "dead"}]
    BY <1>1, <1>2, Zenon DEF Inv, TypeOK
  <2>2. arg' \in [Proc -> [pid : Int, option : {0, WNOHANG}]]
    <3>1. [pid |-> n, option |-> option] \in [pid : Int, option : {0, WNOHANG}]
      BY Zenon
    <3> HIDE DEF NoArg, WNOHANG
    <3> QED BY <1>1, <3>1, Zenon DEF Inv, TypeOK
  <2> QED BY <1>1, <2>1, <2>2, Zenon DEF Inv, TypeOK
<1> QED BY <1>3, <1>5, <1>6, <1>7, Zenon DEF Inv

\* wait_for locks PROCESS_MANAGER.
LEMMA LockPMInv ==
  ASSUME Inv, NEW p \in Proc, LockPM(p)
  PROVE  Inv'
<1>1. /\ on_cpu = p /\ pc[p] = "lock_pm" /\ pc' = [pc EXCEPT ![p] = "get_target"]
      /\ UNCHANGED <<procVars, status, cpuVars, halted, waiting_for_exit, timer_waiting,
                     ticks, sie, arg>>
      /\ pm_lock = None
      /\ pm_lock' = p
  BY Zenon DEF LockPM
<1>2. /\ p \in process_list /\ status[p] = "Running"
      /\ loop' = [loop EXCEPT ![p] = "scan"]
  BY <1>1, OnHart, Zenon DEF LockPM
<1>3. (CpuInv /\ LoopInv /\ RunInv /\ ZombieInv /\ TreeInv /\ FreshInv
        /\ PidInv /\ StrongCountsAsExpected)'
  BY <1>1, <1>2, MoveInv, Zenon
<1>4. pc'[p] = "get_target" /\ \A q \in Proc \ {p} : pc'[q] = pc[q]
  BY <1>1, Zenon DEF Inv, TypeOK
<1>5. PmInv'
  BY <1>1, <1>4, Zenon DEF Inv, PmInv
<1>6. RegInv'
  BY <1>1, <1>2, <1>4, Zenon DEF Inv, RegInv
<1>7. TypeOK'
  <2>1. pc' \in [Proc -> Locations] /\ loop' \in [Proc -> {"user", "scan", "sleep", "dead"}]
    BY <1>1, <1>2, Zenon DEF Inv, TypeOK
  <2> QED BY <1>1, <2>1, Zenon DEF Inv, TypeOK
<1> QED BY <1>3, <1>5, <1>6, <1>7, Zenon DEF Inv

\* wait_for finds no process with that pid.
LEMMA WaitOnNobodyInv ==
  ASSUME Inv, NEW p \in Proc, WaitOnNobody(p)
  PROVE  Inv'
<1>1. /\ on_cpu = p /\ pc[p] = "get_target" /\ pc' = [pc EXCEPT ![p] = "user"]
      /\ UNCHANGED <<procVars, status, cpuVars, halted, waiting_for_exit, timer_waiting,
                     ticks>>
      /\ pm_lock' = None /\ sie' = TRUE
      /\ arg' = [arg EXCEPT ![p] = NoArg]
  BY Zenon DEF WaitOnNobody
<1>2. /\ p \in process_list /\ status[p] = "Running"
      /\ loop' = [loop EXCEPT ![p] = "user"]
  BY <1>1, OnHart, Zenon DEF WaitOnNobody
<1>3. (CpuInv /\ LoopInv /\ RunInv /\ ZombieInv /\ TreeInv /\ FreshInv
        /\ PidInv /\ StrongCountsAsExpected)'
  BY <1>1, <1>2, MoveInv, Zenon
<1>4. pc'[p] = "user" /\ \A q \in Proc \ {p} : pc'[q] = pc[q]
  BY <1>1, Zenon DEF Inv, TypeOK
<1>5. PmInv'
  BY <1>1, <1>4, Zenon DEF Inv, PmInv
<1>6. RegInv'
  BY <1>1, <1>2, <1>4, Zenon DEF Inv, RegInv
<1>7. TypeOK'
  <2>1. pc' \in [Proc -> Locations] /\ loop' \in [Proc -> {"user", "scan", "sleep", "dead"}]
    BY <1>1, <1>2, Zenon DEF Inv, TypeOK
  <2>2. arg' \in [Proc -> [pid : Int, option : {0, WNOHANG}]]
    <3>1. NoArg \in [pid : Int, option : {0, WNOHANG}]
      OBVIOUS
    <3> HIDE DEF NoArg, WNOHANG
    <3> QED BY <1>1, <3>1, Zenon DEF Inv, TypeOK
  <2> QED BY <1>1, <2>1, <2>2, Zenon DEF Inv, TypeOK
<1> QED BY <1>3, <1>5, <1>6, <1>7, Zenon DEF Inv

\* wait_for unlocks PROCESS_MANAGER.
LEMMA UnlockPMInv ==
  ASSUME Inv, NEW p \in Proc, UnlockPM(p)
  PROVE  Inv'
<1>1. /\ on_cpu = p /\ pc[p] = "unlock_pm" /\ pc' = [pc EXCEPT ![p] = "yield"]
      /\ UNCHANGED <<procVars, status, cpuVars, halted, waiting_for_exit, timer_waiting,
                     ticks, sie, arg>>
      /\ pm_lock' = None
  BY Zenon DEF UnlockPM
<1>2. /\ p \in process_list /\ status[p] = "Suspend"
      /\ loop' = [loop EXCEPT ![p] = "scan"]
  BY <1>1, OnHart, Zenon DEF UnlockPM
<1>3. (CpuInv /\ LoopInv /\ RunInv /\ ZombieInv /\ TreeInv /\ FreshInv
        /\ PidInv /\ StrongCountsAsExpected)'
  BY <1>1, <1>2, MoveInv, Zenon
<1>4. pc'[p] = "yield" /\ \A q \in Proc \ {p} : pc'[q] = pc[q]
  BY <1>1, Zenon DEF Inv, TypeOK
<1>5. PmInv'
  BY <1>1, <1>4, Zenon DEF Inv, PmInv
<1>6. RegInv'
  BY <1>1, <1>2, <1>4, Zenon DEF Inv, RegInv
<1>7. TypeOK'
  <2>1. pc' \in [Proc -> Locations] /\ loop' \in [Proc -> {"user", "scan", "sleep", "dead"}]
    BY <1>1, <1>2, Zenon DEF Inv, TypeOK
  <2> QED BY <1>1, <2>1, Zenon DEF Inv, TypeOK
<1> QED BY <1>3, <1>5, <1>6, <1>7, Zenon DEF Inv

\* sleep_ticks is called.
LEMMA SleepTicksInv ==
  ASSUME Inv, NEW p \in Proc, NEW n \in SleepArgs, SleepTicks(p, n)
  PROVE  Inv'
<1>1. /\ on_cpu = p /\ pc[p] = "user" /\ pc' = [pc EXCEPT ![p] = "sleep"]
      /\ UNCHANGED <<procVars, status, cpuVars, halted, waiting_for_exit, timer_waiting,
                     pm_lock, arg>>
      /\ sie' = FALSE
      /\ ticks' = [ticks EXCEPT ![p] = n]
  BY Zenon DEF SleepTicks
<1>2. /\ p \in process_list /\ status[p] = "Running"
      /\ loop' = [loop EXCEPT ![p] = "sleep"]
  BY <1>1, OnHart, Zenon DEF SleepTicks
<1>3. (CpuInv /\ LoopInv /\ RunInv /\ ZombieInv /\ TreeInv /\ FreshInv
        /\ PidInv /\ StrongCountsAsExpected)'
  BY <1>1, <1>2, MoveInv, Zenon
<1>4. pc'[p] = "sleep" /\ \A q \in Proc \ {p} : pc'[q] = pc[q]
  BY <1>1, Zenon DEF Inv, TypeOK
<1>5. PmInv'
  BY <1>1, <1>4, Zenon DEF Inv, PmInv
<1>6. RegInv'
  BY <1>1, <1>2, <1>4, Zenon DEF Inv, RegInv
<1>7. TypeOK'
  <2>1. pc' \in [Proc -> Locations] /\ loop' \in [Proc -> {"user", "scan", "sleep", "dead"}]
    BY <1>1, <1>2, Zenon DEF Inv, TypeOK
  <2>2. ticks' \in [Proc -> Nat]
    <3>1. n \in Nat
      OBVIOUS
    <3> QED BY <1>1, <3>1, Zenon DEF Inv, TypeOK
  <2> QED BY <1>1, <2>1, <2>2, Zenon DEF Inv, TypeOK
<1> QED BY <1>3, <1>5, <1>6, <1>7, Zenon DEF Inv

\* Condvar::wait locks the list of TIMER_CONDVAR.
LEMMA LockTimerInv ==
  ASSUME Inv, NEW p \in Proc, LockTimer(p)
  PROVE  Inv'
<1>1. /\ on_cpu = p /\ pc[p] = "lock_timer" /\ pc' = [pc EXCEPT ![p] = "push_timer"]
      /\ UNCHANGED <<procVars, status, cpuVars, halted, waiting_for_exit, timer_waiting,
                     ticks, sie, pm_lock, arg>>
  BY Zenon DEF LockTimer
<1>2. /\ p \in process_list /\ status[p] = "Suspend"
      /\ loop' = [loop EXCEPT ![p] = "sleep"]
  BY <1>1, OnHart, Zenon DEF LockTimer, Inv, RegInv
<1>3. (CpuInv /\ LoopInv /\ RunInv /\ ZombieInv /\ TreeInv /\ FreshInv
        /\ PidInv /\ StrongCountsAsExpected)'
  BY <1>1, <1>2, MoveInv, Zenon
<1>4. pc'[p] = "push_timer" /\ \A q \in Proc \ {p} : pc'[q] = pc[q]
  BY <1>1, Zenon DEF Inv, TypeOK
<1>5. PmInv'
  BY <1>1, <1>4, Zenon DEF Inv, PmInv
<1>6. RegInv'
  BY <1>1, <1>2, <1>4, Zenon DEF Inv, RegInv
<1>7. TypeOK'
  <2>1. pc' \in [Proc -> Locations] /\ loop' \in [Proc -> {"user", "scan", "sleep", "dead"}]
    BY <1>1, <1>2, Zenon DEF Inv, TypeOK
  <2> QED BY <1>1, <2>1, Zenon DEF Inv, TypeOK
<1> QED BY <1>3, <1>5, <1>6, <1>7, Zenon DEF Inv

\* Condvar::wait pushes the process, on no list so far.
LEMMA PushTimerInv ==
  ASSUME Inv, NEW p \in Proc, PushTimer(p)
  PROVE  Inv'
<1>1. /\ on_cpu = p /\ pc[p] = "push_timer" /\ pc' = [pc EXCEPT ![p] = "yield"]
      /\ UNCHANGED <<procVars, status, cpuVars, halted, waiting_for_exit, ticks,
                     sie, pm_lock, arg>>
      /\ timer_waiting' = timer_waiting \cup {p}
  BY Zenon DEF PushTimer
<1>2. /\ p \in process_list /\ status[p] = "Suspend"
      /\ loop' = [loop EXCEPT ![p] = "sleep"]
  BY <1>1, OnHart, Zenon DEF PushTimer, Inv, RegInv
<1>3. (CpuInv /\ LoopInv /\ RunInv /\ ZombieInv /\ TreeInv /\ FreshInv
        /\ PidInv /\ StrongCountsAsExpected)'
  BY <1>1, <1>2, MoveInv, Zenon
<1>4. pc'[p] = "yield" /\ \A q \in Proc \ {p} : pc'[q] = pc[q]
  BY <1>1, Zenon DEF Inv, TypeOK
<1>5. PmInv'
  BY <1>1, <1>4, Zenon DEF Inv, PmInv
<1>6. RegInv'
  <2>1. \A q \in Proc : p \notin waiting_for_exit[q]
    BY <1>1, Zenon DEF Inv, RegInv
  <2>2. /\ timer_waiting' = timer_waiting \cup {p}
        /\ UNCHANGED <<waiting_for_exit, status, process_list>>
    BY <1>1, Zenon
  <2>3. \A q \in Proc : pc'[q] \in {"lock_timer", "push_timer"} => q # p /\ pc'[q] = pc[q]
    BY <1>4, Zenon
  <2>4. ASSUME NEW q \in timer_waiting'
        PROVE  /\ q \in process_list' /\ status'[q] = "Suspend"
               /\ \A r \in Proc : q \notin waiting_for_exit'[r]
    <3>1. CASE q = p
      BY <1>2, <2>1, <2>2, <3>1, Zenon
    <3>2. CASE q # p
      <4>1. q \in timer_waiting
        BY <2>2, <3>2, Zenon
      <4> QED BY <2>2, <4>1, Zenon DEF Inv, RegInv
    <3> QED BY <3>1, <3>2, Zenon
  <2>5. ASSUME NEW q \in Proc, NEW r \in waiting_for_exit'[q]
        PROVE  /\ r \in process_list' /\ status'[r] = "Suspend"
               /\ \A u \in Proc : r \in waiting_for_exit'[u] => u = q
    <3>1. r \in waiting_for_exit[q]
      BY <2>2, Zenon
    <3> QED BY <2>2, <3>1, Zenon DEF Inv, RegInv
  <2>6. ASSUME NEW q \in Proc, pc'[q] \in {"lock_timer", "push_timer"}
        PROVE  /\ status'[q] = "Suspend"
               /\ q \notin timer_waiting'
               /\ \A r \in Proc : q \notin waiting_for_exit'[r]
    <3>1. q # p /\ pc[q] \in {"lock_timer", "push_timer"}
      BY <2>3, <2>6, Zenon
    <3>2. /\ status[q] = "Suspend" /\ q \notin timer_waiting
          /\ \A r \in Proc : q \notin waiting_for_exit[r]
      BY <3>1, Zenon DEF Inv, RegInv
    <3> QED BY <2>2, <3>1, <3>2, Zenon
  <2> QED BY <2>4, <2>5, <2>6, Zenon DEF RegInv
<1>7. TypeOK'
  <2>1. pc' \in [Proc -> Locations] /\ loop' \in [Proc -> {"user", "scan", "sleep", "dead"}]
    BY <1>1, <1>2, Zenon DEF Inv, TypeOK
  <2> QED BY <1>1, <2>1, Zenon DEF Inv, TypeOK
<1> QED BY <1>3, <1>5, <1>6, <1>7, Zenon DEF Inv

LEMMA StutterInv ==
  ASSUME Inv, UNCHANGED vars
  PROVE  Inv'
<1> USE DEF vars
<1>1. TypeOK'
  BY Zenon DEF Inv, TypeOK
<1>2. (CpuInv /\ PmInv /\ LoopInv /\ RunInv)'
  BY Zenon DEF Inv, CpuInv, PmInv, LoopInv, RunInv
<1>3. (ZombieInv /\ RegInv)'
  BY Zenon DEF Inv, ZombieInv, RegInv
<1>4. (TreeInv /\ FreshInv)'
  BY Zenon DEF Inv, TreeInv, FreshInv
<1>5. (PidInv /\ StrongCountsAsExpected)'
  BY Zenon DEF Inv, PidInv, StrongCountsAsExpected
<1> QED BY <1>1, <1>2, <1>3, <1>4, <1>5, Zenon DEF Inv

-----------------------------------------------------------------------------
LEMMA StepInv == Inv /\ [Next]_vars => Inv'
<1> SUFFICES ASSUME Inv, [Next]_vars PROVE Inv'
  BY Zenon
<1>1. CASE Worker \/ Timer
  BY <1>1, ScheduleInv, SwitchToInv, TimerInWorkerInv, TimerInSchedulerInv,
     TimerBeforeSwitchInv, TimerInProcessInv, Zenon DEF Worker, Timer
<1>2. ASSUME NEW p \in Proc, UserCall(p) PROVE Inv'
  BY <1>2, SchedYieldInv, CloneInv, ExitInv, WaitForInv, SleepTicksInv, Zenon DEF UserCall
<1>3. ASSUME NEW p \in Proc, KernelStep(p) PROVE Inv'
  BY <1>3, YieldInv, SwitchInv, ReapInv, ScanNothingInv, LockPMInv, WaitOnInv,
     WaitOnNobodyInv, UnlockPMInv, SleepTestInv, LockTimerInv, PushTimerInv, Zenon
     DEF KernelStep
<1>4. CASE UNCHANGED vars
  BY <1>4, StutterInv, Zenon
<1> QED BY <1>1, <1>2, <1>3, <1>4, Zenon DEF Next

\* Every variable of the process table keeps its type.
THEOREM TypeCorrect == Spec => []TypeOK
<1>1. Inv => TypeOK
  BY Zenon DEF Inv
<1> QED BY InitInv, StepInv, <1>1, PTL DEF Spec

\* Every process in the list, init excepted, is the child of exactly one live
\* process: neither exit, which hands its children to init, nor wait_for, which
\* forgets children that are gone, ever leaves one that nobody could reap.
THEOREM Reaper == Spec => []EveryProcessHasAReaper
<1>1. Inv => EveryProcessHasAReaper
  BY Zenon DEF Inv, TypeOK, TreeInv, EveryProcessHasAReaper
<1> QED BY InitInv, StepInv, <1>1, PTL DEF Spec

\* Pids are unique among the listed processes and never on the free stack.
THEOREM UniquePids == Spec => []PidsUnique
<1>1. Inv => PidsUnique
  BY Zenon DEF Inv, PidInv, PidsUnique, Pids!InFree
<1> QED BY InitInv, StepInv, <1>1, PTL DEF Spec

\* The assertions of exit and wait_for on Arc::strong_count, and those of the
\* pid allocator when a process is dropped, never fail.
THEOREM StrongCounts == Spec => []StrongCountsAsExpected
<1>1. Inv => StrongCountsAsExpected
  BY Zenon DEF Inv
<1> QED BY InitInv, StepInv, <1>1, PTL DEF Spec

\* What the worker, and the timer in the worker, change: the timer wakes those
\* it takes off its list, and only CPU::proc becomes Running or loses the hart.
LEMMA WorkerSteps ==
  ASSUME Inv, Worker \/ TimerInWorker \/ TimerInScheduler \/ TimerBeforeSwitch
  PROVE  /\ on_cpu = None
         /\ UNCHANGED <<procVars, waiting_for_exit, callVars, split, cut>>
         /\ \/ on_cpu' = None /\ preempted' = preempted
            \/ on_cpu' \in Proc /\ preempted' = preempted \ {on_cpu'}
         /\ \A r \in Proc : status'[r] = "Suspend" =>
              status[r] = "Suspend" /\ (r \in timer_waiting => r \in timer_waiting')
         /\ \A r \in Proc : status'[r] = "Zombie" <=> status[r] = "Zombie"
         /\ \A r \in Proc : status'[r] = "Running" /\ cpu_proc' # r =>
              status[r] = "Running" /\ cpu_proc # r
<1> DEFINE Hart == /\ on_cpu = None
                   /\ UNCHANGED <<procVars, waiting_for_exit, callVars, split, cut>>
                   /\ \/ on_cpu' = None /\ preempted' = preempted
                      \/ on_cpu' \in Proc /\ preempted' = preempted \ {on_cpu'}
           Sts == /\ \A r \in Proc : status'[r] = "Suspend" =>
                       status[r] = "Suspend" /\ (r \in timer_waiting => r \in timer_waiting')
                  /\ \A r \in Proc : status'[r] = "Zombie" <=> status[r] = "Zombie"
                  /\ \A r \in Proc : status'[r] = "Running" /\ cpu_proc' # r =>
                       status[r] = "Running" /\ cpu_proc # r
<1> SUFFICES Hart /\ Sts
  BY Zenon
<1>1. /\ Woken(status, timer_waiting)
           = [q \in Proc |-> IF q \in timer_waiting THEN "Ready" ELSE status[q]]
      /\ \A q \in timer_waiting : status[q] = "Suspend"
      /\ cpu_proc \in Proc \cup {None} /\ None \notin Proc
      /\ process_list \subseteq Proc /\ DOMAIN status = Proc
  BY WokenSleepers, Zenon DEF Inv, TypeOK
<1>2. CASE Schedule
  <2>1. on_cpu = None /\ cpu_proc = None
    BY <1>2, Zenon DEF Schedule, InWorker, Inv, CpuInv
  <2>2. PICK p \in process_list : scheduler(status, p) /\ Chosen(p, status)
    BY <1>2, Zenon DEF Schedule
  <2>3. /\ status[p] = "Ready" /\ cpu_proc' = p
        /\ \A q \in Proc : status'[q] = IF q = p THEN "Running" ELSE status[q]
    BY <1>1, <2>1, <2>2, Zenon DEF scheduler, Chosen
  <2>4. timer_waiting' = timer_waiting
    BY <1>2, Zenon DEF Schedule
  <2>5. Sts
    BY <2>1, <2>3, <2>4, <1>1, Zenon
  <2>6. Hart
    BY <1>2, <2>1, Zenon DEF Schedule
  <2> QED BY <2>5, <2>6, Zenon
<1>3. CASE SwitchTo
  <2>1. /\ on_cpu = None
        /\ UNCHANGED <<procVars, status, waitVars, cpu_proc, lost, previous_scheduled_pid,
                       callVars, split, cut>>
    BY <1>3, Zenon DEF SwitchTo, InWorker
  <2>2. cpu_proc \in Proc
    BY <1>1, <1>3, Zenon DEF SwitchTo, InWorker, Inv, CpuInv
  <2>3. \/ UNCHANGED <<worker, context_saved, on_cpu, preempted>>
        \/ on_cpu' = cpu_proc /\ preempted' = preempted \ {cpu_proc}
    BY <1>3, Zenon DEF SwitchTo
  <2> QED BY <2>1, <2>2, <2>3, Zenon
<1>4. CASE TimerInWorker
  <2>1. /\ on_cpu = None /\ status' = Woken(status, timer_waiting)
        /\ UNCHANGED <<procVars, waiting_for_exit, cpuVars, callVars, halted>>
    BY <1>4, Zenon DEF TimerInWorker
  <2> QED BY <1>1, <2>1, Zenon
<1>5. CASE TimerInScheduler
  <2>1. on_cpu = None /\ cpu_proc = None
    BY <1>5, Zenon DEF TimerInScheduler, InWorker
  <2>2. PICK p \in process_list, k \in process_list :
          /\ scheduler([q \in Proc |-> IF Before(q, k) THEN status[q]
                                       ELSE Woken(status, timer_waiting)[q]], p)
          /\ Chosen(p, Woken(status, timer_waiting))
    BY <1>5, Zenon DEF TimerInScheduler
  <2>3. status[p] = "Ready" \/ p \in timer_waiting
    BY <1>1, <2>2, Zenon DEF scheduler
  <2>4. /\ cpu_proc' = p
        /\ \A q \in Proc : status'[q] = IF q = p THEN "Running"
                                        ELSE IF q \in timer_waiting THEN "Ready" ELSE status[q]
    BY <1>1, <2>1, <2>2, Zenon DEF Chosen
  <2>5. Sts
    BY <1>1, <2>1, <2>3, <2>4, Zenon
  <2>6. Hart
    BY <1>5, <2>1, Zenon DEF TimerInScheduler
  <2> QED BY <2>5, <2>6, Zenon
<1>6. CASE TimerBeforeSwitch
  <2>1. cpu_proc \in Proc /\ status[cpu_proc] = "Running" /\ on_cpu = None /\ cpu_proc' = None
    BY <1>1, <1>6, Zenon DEF TimerBeforeSwitch, Inv, TypeOK, CpuInv
  <2>2. \A q \in Proc : status'[q] = IF q \in timer_waiting \/ q = cpu_proc THEN "Ready" ELSE status[q]
    BY <1>1, <1>6, <2>1, Zenon DEF TimerBeforeSwitch, Yielded
  <2>3. Sts
    BY <1>1, <2>1, <2>2, Zenon
  <2>4. Hart
    BY <1>6, <2>1, Zenon DEF TimerBeforeSwitch
  <2> QED BY <2>3, <2>4, Zenon
<1> HIDE DEF Hart, Sts
<1> QED BY <1>2, <1>3, <1>4, <1>5, <1>6, Zenon DEF Worker

\* A zombie stays one, also after it was reaped.
LEMMA ZombieStep ==
  ASSUME Inv, [Next]_vars, NEW p \in Proc, status[p] = "Zombie"
  PROVE  status'[p] = "Zombie"
<1>1. /\ loop[p] = "dead"
      /\ p \notin timer_waiting
      /\ \A q \in Proc : p \notin waiting_for_exit[q]
      /\ on_cpu = p => pc[p] \in {"yield", "switch"} /\ ~sie
  <2>1. loop[p] = "dead" /\ (on_cpu = p => pc[p] \in {"yield", "switch"} /\ ~sie)
    BY Zenon DEF Inv, ZombieInv
  <2>2. p \notin timer_waiting /\ \A q \in Proc : p \notin waiting_for_exit[q]
    BY Zenon DEF Inv, RegInv
  <2> QED BY <2>1, <2>2, Zenon
<1>2. CASE Worker \/ TimerInWorker \/ TimerInScheduler \/ TimerBeforeSwitch
  BY <1>2, WorkerSteps, Zenon
<1>4. ASSUME NEW q \in Proc, TimerInProcess(q) PROVE status'[p] = "Zombie"
  BY <1>1, <1>4, Zenon DEF TimerInProcess, Woken, Yielded, Inv, TypeOK
<1>5. ASSUME NEW q \in Proc, UserCall(q) PROVE status'[p] = "Zombie"
  <2>1. on_cpu = q /\ pc[q] = "user" /\ q # p
    BY <1>1, <1>5, Zenon DEF UserCall, SchedYield, Clone, Exit, WaitFor, SleepTicks
  <2>2. ASSUME NEW c \in Proc, Clone(q, c) PROVE status'[p] = "Zombie"
    BY <2>2, Zenon DEF Clone, Inv, TypeOK, FreshInv
  <2>3. CASE Exit(q)
    BY <1>1, <2>1, <2>3, Zenon DEF Exit, ExitStatus, Woken, Inv, TypeOK
  <2> QED BY <1>5, <2>2, <2>3, Zenon DEF UserCall, SchedYield, WaitFor, SleepTicks
<1>6. ASSUME NEW q \in Proc, KernelStep(q) PROVE status'[p] = "Zombie"
  <2>1. CASE Yield(q)
    BY <2>1, Zenon DEF Yield, Yielded, Inv, TypeOK
  <2>2. ASSUME NEW r \in Proc, WaitOn(q, r) PROVE status'[p] = "Zombie"
    BY <1>1, <2>2, Zenon DEF WaitOn, Inv, TypeOK
  <2>3. CASE SleepTest(q)
    BY <1>1, <2>3, Zenon DEF SleepTest, Inv, TypeOK
  <2> QED
    BY <1>6, <2>1, <2>2, <2>3, Zenon
       DEF KernelStep, Switch, Reap, ScanNothing, LockPM, WaitOnNobody, UnlockPM,
           LockTimer, PushTimer
<1>7. CASE UNCHANGED vars
  BY <1>7, Zenon DEF vars
<1> QED BY <1>2, <1>4, <1>5, <1>6, <1>7, Zenon DEF Next, Timer

\* No step changes the status of a zombie: it is on no condition variable, is
\* never scheduled, and the timer cannot interrupt it on its way out.
THEOREM ZombieStays == Spec => ZombieIsFinal
<1> DEFINE A == \A p \in process_list : status[p] = "Zombie" => status'[p] = "Zombie"
<1>1. Inv /\ [Next]_vars => [A]_vars
  BY ZombieStep, Zenon DEF Inv, TypeOK
<1> QED BY InitInv, StepInv, <1>1, PTL DEF Spec, ZombieIsFinal

\* The locations at which PROCESS_MANAGER or TIMER_CONDVAR is locked.
InLock == {"get_target", "unlock_pm", "push_timer"}

\* No step of a process takes a lock from, or gives one to, another process.
LEMMA OthersKeepTheirPlace ==
  ASSUME Inv, NEW q \in Proc, UserCall(q) \/ KernelStep(q), ~Switch(q)
  PROVE  /\ on_cpu = q /\ on_cpu' = q /\ preempted' = preempted
         /\ \A p \in Proc \ {q} : pc'[p] = pc[p]
<1> DEFINE Here == on_cpu = q /\ on_cpu' = q /\ preempted' = preempted
           Others == \A p \in Proc \ {q} : pc'[p] = pc[p]
<1> SUFFICES Here /\ Others
  BY Zenon
<1>1. CASE UserCall(q)
  <2>1. ASSUME NEW c \in Proc, Clone(q, c) PROVE Here /\ pc' = [pc EXCEPT ![q] = "yield"]
    BY <2>1, Zenon DEF Clone
  <2>2. CASE Exit(q)
    <3>1. /\ on_cpu = q
          /\ UNCHANGED <<max, free, pid, process_list, parent, timer_waiting, ticks,
                         cpuVars, pm_lock, arg>>
      BY <2>2, Zenon DEF Exit
    <3>2. UNCHANGED <<status, children, waiting_for_exit, pc, loop>>
            \/ pc' = [pc EXCEPT ![q] = "yield"]
      BY <2>2, Zenon DEF Exit
    <3> QED BY <3>1, <3>2, Zenon DEF Inv, TypeOK
  <2>3. CASE SchedYield(q)
    BY <2>3, Zenon DEF SchedYield, Inv, TypeOK
  <2>4. ASSUME NEW n \in WaitPids, NEW option \in {0, WNOHANG}, WaitFor(q, n, option)
        PROVE  Here /\ pc' = [pc EXCEPT ![q] = "scan"]
    BY <2>4, Zenon DEF WaitFor
  <2>5. ASSUME NEW n \in SleepArgs, SleepTicks(q, n)
        PROVE  Here /\ pc' = [pc EXCEPT ![q] = "sleep"]
    BY <2>5, Zenon DEF SleepTicks
  <2>6. \A x : pc' = [pc EXCEPT ![q] = x] => Others
    BY Zenon DEF Inv, TypeOK
  <2> HIDE DEF Here, Others
  <2> QED BY <1>1, <2>1, <2>2, <2>3, <2>4, <2>5, <2>6, Zenon DEF UserCall
<1>2. CASE KernelStep(q)
  <2>1. ASSUME NEW c \in Proc, Reap(q, c) PROVE Here /\ pc' = [pc EXCEPT ![q] = "user"]
    <3>1. /\ on_cpu = q /\ pc' = [pc EXCEPT ![q] = "user"]
          /\ UNCHANGED <<pid, parent, status, timer_waiting, ticks, cpu_proc, on_cpu, preempted,
                         cut, workVars, pm_lock>>
      BY <2>1, Zenon DEF Reap
    <3> QED BY <3>1, Zenon
  <2>2. ASSUME NEW r \in Proc, WaitOn(q, r) PROVE Here /\ Others
    <3>1. /\ on_cpu = q
          /\ UNCHANGED <<procVars, timer_waiting, ticks, cpuVars, sie, pm_lock, loop, arg>>
      BY <2>2, Zenon DEF WaitOn
    <3>2. UNCHANGED <<status, waiting_for_exit, pc>> \/ pc' = [pc EXCEPT ![q] = "unlock_pm"]
      BY <2>2, Zenon DEF WaitOn
    <3> QED BY <3>1, <3>2, Zenon DEF Inv, TypeOK
  <2>3. CASE ScanNothing(q)
    BY <2>3, Zenon DEF ScanNothing, Inv, TypeOK
  <2>4. CASE SleepTest(q)
    BY <2>4, Zenon DEF SleepTest, Inv, TypeOK
  <2>5. CASE Yield(q) \/ LockPM(q) \/ WaitOnNobody(q) \/ UnlockPM(q) \/ LockTimer(q) \/ PushTimer(q)
    BY <2>5, Zenon DEF Yield, LockPM, WaitOnNobody, UnlockPM, LockTimer, PushTimer, Inv, TypeOK
  <2> QED
    BY <1>2, <2>1, <2>2, <2>3, <2>4, <2>5, Zenon DEF KernelStep, Inv, TypeOK
<1> QED BY <1>1, <1>2, Zenon

\* A process keeps the status Running without being CPU::proc only after a timer
\* between the parts of its do_yield: it is there, in do_yield, off the hart or
\* Running again, only because of that.
Strands(p) ==
    /\ status[p] = "Running" /\ cpu_proc # p => p \in cut
    /\ pc[p] = "switch" /\ (on_cpu # p \/ status[p] = "Running") => p \in cut

\* What a step of q in a system call, other than those of do_yield, does to the
\* statuses: it makes nobody Running.
Calm(q) ==
    /\ UNCHANGED <<cut, cpu_proc>>
    /\ \A r \in Proc : status'[r] = "Running" => status[r] = "Running"
    /\ pc'[q] # "switch"

LEMMA CallCalm ==
  ASSUME Inv, NEW q \in Proc, UserCall(q)
  PROVE  Calm(q)
<1>0. DOMAIN pc = Proc /\ DOMAIN status = Proc
  BY Zenon DEF Inv, TypeOK
<1>1. CASE SchedYield(q)
  BY <1>0, <1>1, Zenon DEF SchedYield, Calm
<1>2. ASSUME NEW c \in Proc, Clone(q, c) PROVE Calm(q)
  BY <1>0, <1>2, Zenon DEF Clone, Calm
<1>3. CASE Exit(q)
  <2>1. /\ pc[q] = "user"
        /\ UNCHANGED <<max, free, pid, process_list, parent, timer_waiting, ticks,
                       cpuVars, pm_lock, arg>>
    BY <1>3, Zenon DEF Exit
  <2>2. CASE UNCHANGED <<status, children, waiting_for_exit, pc, loop>>
    BY <2>1, <2>2, Zenon DEF Calm
  <2>3. CASE status' = ExitStatus(q) /\ pc' = [pc EXCEPT ![q] = "yield"]
    BY <1>0, <2>1, <2>3, Zenon DEF Calm, ExitStatus, Woken
  <2> QED BY <1>3, <2>2, <2>3, Zenon DEF Exit
<1>4. ASSUME NEW n \in WaitPids, NEW option \in {0, WNOHANG}, WaitFor(q, n, option) PROVE Calm(q)
  BY <1>0, <1>4, Zenon DEF WaitFor, Calm
<1>5. ASSUME NEW n \in SleepArgs, SleepTicks(q, n) PROVE Calm(q)
  BY <1>0, <1>5, Zenon DEF SleepTicks, Calm
<1> QED BY <1>1, <1>2, <1>3, <1>4, <1>5, Zenon DEF UserCall

LEMMA KernelCalm ==
  ASSUME Inv, NEW q \in Proc, KernelStep(q), ~Yield(q), ~Switch(q)
  PROVE  Calm(q)
<1>0. DOMAIN pc = Proc /\ DOMAIN status = Proc
  BY Zenon DEF Inv, TypeOK
<1>1. ASSUME NEW c \in Proc, Reap(q, c) PROVE Calm(q)
  <2>1. /\ pc' = [pc EXCEPT ![q] = "user"]
        /\ UNCHANGED <<pid, parent, status, timer_waiting, ticks, cpu_proc, on_cpu, preempted,
                       cut, workVars, pm_lock>>
    BY <1>1, Zenon DEF Reap
  <2> QED BY <1>0, <2>1, Zenon DEF Calm
<1>2. ASSUME NEW r \in Proc, WaitOn(q, r) PROVE Calm(q)
  <2>1. /\ pc[q] = "get_target"
        /\ UNCHANGED <<procVars, timer_waiting, ticks, cpuVars, sie, pm_lock, loop, arg>>
    BY <1>2, Zenon DEF WaitOn
  <2>2. CASE UNCHANGED <<status, waiting_for_exit, pc>>
    BY <2>1, <2>2, Zenon DEF Calm
  <2>3. CASE /\ status' = [status EXCEPT ![q] = "Suspend"]
             /\ pc' = [pc EXCEPT ![q] = "unlock_pm"]
    BY <1>0, <2>1, <2>3, Zenon DEF Calm
  <2> QED BY <1>2, <2>2, <2>3, Zenon DEF WaitOn
<1>3. CASE ScanNothing(q)
  BY <1>0, <1>3, Zenon DEF ScanNothing, Calm
<1>4. CASE SleepTest(q)
  BY <1>0, <1>4, Zenon DEF SleepTest, Calm
<1>5. CASE LockPM(q) \/ WaitOnNobody(q) \/ UnlockPM(q) \/ LockTimer(q) \/ PushTimer(q)
  BY <1>0, <1>5, Zenon DEF LockPM, WaitOnNobody, UnlockPM, LockTimer, PushTimer, Calm
<1> QED BY <1>1, <1>2, <1>3, <1>4, <1>5, Zenon DEF KernelStep

LEMMA StrandsKept ==
  ASSUME Inv, [Next]_vars, NEW p \in Proc, Strands(p)
  PROVE  Strands(p)'
<1>1. /\ DOMAIN pc = Proc /\ DOMAIN status = Proc /\ None \notin Proc
      /\ loop \in [Proc -> {"user", "scan", "sleep", "dead"}]
      /\ on_cpu # None => cpu_proc = on_cpu
  BY Zenon DEF Inv, TypeOK, CpuInv
<1>2. CASE Worker \/ TimerInWorker \/ TimerInScheduler \/ TimerBeforeSwitch
  <2>1. on_cpu = None /\ UNCHANGED <<pc, cut>>
    BY <1>2, WorkerSteps, Zenon
  <2>2. status'[p] = "Running" /\ cpu_proc' # p => status[p] = "Running" /\ cpu_proc # p
    BY <1>2, WorkerSteps, Zenon
  <2> QED BY <1>1, <2>1, <2>2, Zenon DEF Strands
<1>3. ASSUME NEW q \in Proc, TimerInProcess(q) PROVE Strands(p)'
  <2>1. on_cpu = q /\ cpu_proc = q /\ pc' = pc
    BY <1>1, <1>3, Zenon DEF TimerInProcess
  <2>2. CASE UNCHANGED <<status, timer_waiting, ticks, cpu_proc, on_cpu, preempted, split, cut>>
    BY <2>1, <2>2, Zenon DEF Strands
  <2>3. CASE /\ status' = Yielded(Woken(status, timer_waiting), q)
             /\ cut' = IF pc[q] = "switch" THEN cut \cup {q} ELSE cut
    <3>1. status'[p] = "Running" => p # q /\ status[p] = "Running"
      BY <2>3, Zenon DEF Woken, Yielded
    <3>2. p # q => p \in cut' <=> p \in cut
      BY <2>3, Zenon
    <3>3. p = q /\ pc[p] = "switch" => p \in cut'
      BY <2>3, Zenon
    <3> QED BY <2>1, <3>1, <3>2, <3>3, Zenon DEF Strands
  <2> QED BY <1>3, <2>2, <2>3, Zenon DEF TimerInProcess
<1>4. ASSUME NEW q \in Proc, Yield(q) PROVE Strands(p)'
  <2>1. /\ on_cpu = q /\ pc' = [pc EXCEPT ![q] = "switch"] /\ status' = Yielded(status, q)
        /\ UNCHANGED <<cpu_proc, on_cpu, cut>>
    BY <1>4, Zenon DEF Yield
  <2>2. status'[p] = "Running" => p # q /\ status[p] = "Running"
    BY <1>1, <2>1, Zenon DEF Yielded
  <2> QED BY <1>1, <2>1, <2>2, Zenon DEF Strands
<1>5. ASSUME NEW q \in Proc, Switch(q) PROVE Strands(p)'
  <2>1. /\ on_cpu = q /\ cpu_proc = q /\ pc[q] = "switch" /\ pc' = [pc EXCEPT ![q] = loop[q]]
        /\ status' = status
        /\ cut' = IF status[q] = "Running" THEN cut ELSE cut \ {q}
    BY <1>1, <1>5, Zenon DEF Switch
  <2>2. loop[q] # "switch"
    BY <1>1, Zenon
  <2>3. CASE p = q
    BY <1>1, <2>1, <2>2, <2>3, Zenon DEF Strands
  <2>4. CASE p # q
    BY <1>1, <2>1, <2>4, Zenon DEF Strands
  <2> QED BY <2>3, <2>4, Zenon
<1>6. ASSUME NEW q \in Proc, UserCall(q) \/ KernelStep(q), ~Yield(q), ~Switch(q)
      PROVE  Strands(p)'
  <2>1. Calm(q)
    BY <1>6, CallCalm, KernelCalm, Zenon
  <2>2. on_cpu = q /\ on_cpu' = q /\ (p # q => pc'[p] = pc[p])
    BY <1>6, OthersKeepTheirPlace, Zenon
  <2> QED BY <2>1, <2>2, Zenon DEF Calm, Strands
<1>7. CASE UNCHANGED vars
  BY <1>7, Zenon DEF vars, Strands
<1> QED BY <1>2, <1>3, <1>4, <1>5, <1>6, <1>7, Zenon DEF Next, Timer

\* With timers anywhere in the worker and in the system calls, a process that
\* is not CPU::proc, and so neither on the hart nor about to get it, is left
\* with the status Running only by a timer that split its do_yield.
THEOREM OthersNotRunning == Spec => []OnlyCurrentIsRunning
<1> DEFINE RunningInv == \A p \in Proc : Strands(p)
<1>1. Init => RunningInv
  BY Zenon DEF Init, Strands
<1>2. Inv /\ RunningInv /\ [Next]_vars => RunningInv'
  BY StrandsKept, Zenon
<1>3. Inv /\ RunningInv => OnlyCurrentIsRunning
  BY Zenon DEF Inv, TypeOK, Strands, OnlyCurrentIsRunning
<1> HIDE DEF RunningInv
<1> QED BY InitInv, StepInv, <1>1, <1>2, <1>3, PTL DEF Spec

\* A process that is off the hart holds PROCESS_MANAGER or TIMER_CONDVAR only
\* if try_yield took it off: do_yield is never reached with one of them locked.
THEOREM LockHolders == Spec => []LocksLeftOnlyByTimer
<1>1. Init => LocksLeftOnlyByTimer
  BY Zenon DEF Init, LocksLeftOnlyByTimer
<1>2. Inv /\ Inv' /\ LocksLeftOnlyByTimer /\ [Next]_vars => LocksLeftOnlyByTimer'
  <2> SUFFICES ASSUME Inv, Inv', LocksLeftOnlyByTimer, [Next]_vars,
                      NEW p \in Proc, on_cpu' # p, pc'[p] \in InLock
               PROVE  p \in preempted' /\ pc'[p] # "push_timer"
    BY Zenon DEF LocksLeftOnlyByTimer, InLock, Inv, PmInv
  <2>1. on_cpu # p /\ pc[p] \in InLock => p \in preempted /\ pc[p] # "push_timer"
    BY Zenon DEF LocksLeftOnlyByTimer, InLock, Inv, PmInv
  <2>2. CASE Worker \/ TimerInWorker \/ TimerInScheduler \/ TimerBeforeSwitch
    <3>1. /\ on_cpu = None /\ pc' = pc
          /\ \/ on_cpu' = None /\ preempted' = preempted
             \/ on_cpu' \in Proc /\ preempted' = preempted \ {on_cpu'}
      BY <2>2, WorkerSteps, Zenon
    <3> QED BY <2>1, <3>1, Zenon
  <2>4. ASSUME NEW q \in Proc, TimerInProcess(q)
        PROVE  p \in preempted' /\ pc'[p] # "push_timer"
    <3>1. on_cpu = q /\ UNCHANGED callVars
      BY <2>4, Zenon DEF TimerInProcess
    <3>2. CASE pc[q] = "push_timer"
      <4>1. UNCHANGED <<status, timer_waiting, ticks, cpu_proc, on_cpu, preempted, split, cut>>
        BY <2>4, <3>2, Zenon DEF TimerInProcess
      <4> QED BY <2>1, <3>1, <4>1, Zenon
    <3>3. CASE pc[q] # "push_timer"
      <4>1. preempted' = preempted \cup {q}
        BY <2>4, <3>3, Zenon DEF TimerInProcess
      <4> QED BY <2>1, <3>1, <3>3, <4>1, Zenon
    <3> QED BY <3>2, <3>3, Zenon
  <2>5. ASSUME NEW q \in Proc, Switch(q)
        PROVE  p \in preempted' /\ pc'[p] # "push_timer"
    <3>1. /\ on_cpu = q /\ pc' = [pc EXCEPT ![q] = loop[q]]
          /\ preempted' = preempted
      BY <2>5, Zenon DEF Switch
    <3>2. loop[q] \in {"user", "scan", "sleep", "dead"} /\ DOMAIN pc = Proc
      BY Zenon DEF Inv, TypeOK
    <3>3. p # q
      BY <3>1, <3>2, Zenon DEF InLock
    <3> QED BY <2>1, <3>1, <3>2, <3>3, Zenon
  <2>6. ASSUME NEW q \in Proc, UserCall(q) \/ KernelStep(q), ~Switch(q)
        PROVE  p \in preempted' /\ pc'[p] # "push_timer"
    BY <2>1, <2>6, OthersKeepTheirPlace, Zenon
  <2>7. CASE UNCHANGED vars
    BY <2>1, <2>7, Zenon DEF vars
  <2> QED BY <2>2, <2>4, <2>5, <2>6, <2>7, Zenon DEF Next, Timer, KernelStep
<1> QED BY InitInv, StepInv, <1>1, <1>2, PTL DEF Spec

-----------------------------------------------------------------------------
(* Wakeups *)

\* A process in the loop of sleep_ticks is on the list of the timer, or about
\* to join it, unless the timer split its wait.
Sleeps(p) ==
    status[p] = "Suspend" /\ loop[p] = "sleep" /\ p \notin split =>
        p \in timer_waiting \/ (on_cpu = p /\ pc[p] \in {"lock_timer", "push_timer"})

\* A process in wait_for of its child c is on the list of c, which has not
\* exited since the pass over the children, unless the timer came in between:
\* before PROCESS_MANAGER is locked the process must have kept the hart, and
\* afterwards nobody else can get it.
Waits(p, c) ==
    loop[p] = "scan" /\ parent[c] = p /\ pid[c] = arg[p].pid =>
        /\ status[p] = "Suspend" =>
             p \in waiting_for_exit[c] /\ (p \notin split => status[c] # "Zombie")
        /\ pc[p] \in {"lock_pm", "get_target"} /\ p \notin split =>
             /\ pc[p] = "lock_pm" => on_cpu = p
             /\ status[c] # "Zombie"

\* A process is among the children of the one that forked it while that lives.
Forked(c) ==
    parent[c] # None /\ status[parent[c]] # "Zombie" => c \in children[parent[c]]

SuspendInv ==
    /\ \A p \in Proc : Sleeps(p)
    /\ \A p \in Proc : \A c \in process_list : Waits(p, c)
    /\ \A c \in process_list : Forked(c)

\* What a step of q leaves of the other processes.
Kept(q) ==
    /\ on_cpu = q
    /\ timer_waiting \subseteq timer_waiting'
    /\ \A p \in Proc \ {q} :
         /\ pc'[p] = pc[p] /\ loop'[p] = loop[p] /\ arg'[p] = arg[p]
         /\ p \in split' <=> p \in split
         /\ status'[p] = "Suspend" => status[p] = "Suspend"
         /\ status'[p] = "Zombie" => status[p] = "Zombie"
    /\ \A c \in process_list' :
         \/ c \in process_list /\ pid'[c] = pid[c] /\ parent'[c] = parent[c]
         \/ parent'[c] = q
    /\ \A c \in process_list' : \A p \in waiting_for_exit[c] :
         p \in waiting_for_exit'[c] \/ status'[p] # "Suspend"
    /\ status'[q] = "Zombie" /\ status[q] # "Zombie" =>
         \A p \in waiting_for_exit[q] : status'[p] # "Suspend"

\* A system call of q begins, ends or goes on: nobody else is disturbed, but for
\* the processes that exit wakes.
LEMMA CallKept ==
  ASSUME Inv, NEW q \in Proc, UserCall(q)
  PROVE  Kept(q)
<1>0. /\ pc \in [Proc -> Locations] /\ loop \in [Proc -> {"user", "scan", "sleep", "dead"}]
      /\ DOMAIN arg = Proc /\ DOMAIN status = Proc /\ DOMAIN pid = Proc /\ DOMAIN parent = Proc
      /\ DOMAIN waiting_for_exit = Proc /\ process_list \subseteq Proc
  BY Zenon DEF Inv, TypeOK
<1>1. CASE SchedYield(q)
  BY <1>0, <1>1, Zenon DEF SchedYield, Kept
<1>2. ASSUME NEW c \in Proc, Clone(q, c) PROVE Kept(q)
  <2>1. /\ on_cpu = q /\ pc' = [pc EXCEPT ![q] = "yield"] /\ status' = [status EXCEPT ![c] = "Ready"]
        /\ process_list' = process_list \cup {c} /\ parent' = [parent EXCEPT ![c] = q]
        /\ pid' = [pid EXCEPT ![c] = Pids!NextId] /\ pid[c] = 0
        /\ UNCHANGED <<waiting_for_exit, timer_waiting, loop, arg, split>>
    BY <1>2, CloneList, Zenon DEF Clone
  <2>2. c \notin process_list
    BY <2>1, Zenon DEF Inv, FreshInv
  <2> QED BY <1>0, <2>1, <2>2, Zenon DEF Kept
<1>3. CASE Exit(q)
  <2>1. /\ on_cpu = q
        /\ UNCHANGED <<max, free, pid, process_list, parent, timer_waiting, ticks,
                       cpuVars, pm_lock, arg>>
    BY <1>3, Zenon DEF Exit
  <2>2. CASE UNCHANGED <<status, children, waiting_for_exit, pc, loop>>
    BY <1>0, <2>1, <2>2, Zenon DEF Kept
  <2>3. CASE /\ status' = ExitStatus(q)
             /\ waiting_for_exit' = [waiting_for_exit EXCEPT ![q] = {}]
             /\ pc' = [pc EXCEPT ![q] = "yield"] /\ loop' = [loop EXCEPT ![q] = "dead"]
    <3>1. \A p \in waiting_for_exit[q] : p \in Proc /\ p \in process_list
      BY Zenon DEF Inv, TypeOK, RegInv
    <3>2. \A p \in Proc : status'[p] = IF p \in waiting_for_exit[q] THEN "Ready"
                                       ELSE IF p = q THEN "Zombie" ELSE status[p]
      BY <1>0, <2>3, <3>1, Zenon DEF ExitStatus, Woken
    <3> QED BY <1>0, <2>1, <2>3, <3>1, <3>2, Zenon DEF Kept
  <2> QED BY <1>3, <2>2, <2>3, Zenon DEF Exit
<1>4. ASSUME NEW n \in WaitPids, NEW option \in {0, WNOHANG}, WaitFor(q, n, option) PROVE Kept(q)
  BY <1>0, <1>4, Zenon DEF WaitFor, Kept
<1>5. ASSUME NEW n \in SleepArgs, SleepTicks(q, n) PROVE Kept(q)
  BY <1>0, <1>5, Zenon DEF SleepTicks, Kept
<1> QED BY <1>1, <1>2, <1>3, <1>4, <1>5, Zenon DEF UserCall

LEMMA KernelKept ==
  ASSUME Inv, NEW q \in Proc, KernelStep(q)
  PROVE  Kept(q)
<1>0. /\ pc \in [Proc -> Locations] /\ loop \in [Proc -> {"user", "scan", "sleep", "dead"}]
      /\ DOMAIN arg = Proc /\ DOMAIN status = Proc /\ DOMAIN pid = Proc /\ DOMAIN parent = Proc
      /\ DOMAIN waiting_for_exit = Proc /\ process_list \subseteq Proc
  BY Zenon DEF Inv, TypeOK
<1>1. CASE Yield(q)
  BY <1>0, <1>1, Zenon DEF Yield, Yielded, Kept
<1>2. CASE Switch(q)
  BY <1>0, <1>2, Zenon DEF Switch, Kept
<1>3. ASSUME NEW c \in Proc, Reap(q, c) PROVE Kept(q)
  <2>1. /\ on_cpu = q /\ pc' = [pc EXCEPT ![q] = "user"] /\ process_list' = process_list \ {c}
        /\ waiting_for_exit' = [waiting_for_exit EXCEPT ![c] = {}]
        /\ loop' = [loop EXCEPT ![q] = "user"] /\ arg' = [arg EXCEPT ![q] = NoArg]
        /\ UNCHANGED <<pid, parent, status, timer_waiting>> /\ split' = split \ {q}
    BY <1>3, ReapList, Zenon DEF Reap
  <2> QED BY <1>0, <2>1, Zenon DEF Kept
<1>4. CASE ScanNothing(q)
  <2>1. /\ on_cpu = q /\ split' = split \ {q}
        /\ UNCHANGED <<max, free, pid, process_list, parent, status, waitVars,
                       cpu_proc, on_cpu, preempted, cut, workVars, pm_lock, halted>>
    BY <1>4, Zenon DEF ScanNothing
  <2>2. \/ Return(q)
        \/ (\E x : pc' = [pc EXCEPT ![q] = x]) /\ UNCHANGED <<loop, arg>>
    BY <1>4, Zenon DEF ScanNothing
  <2> QED BY <1>0, <2>1, <2>2, Zenon DEF Kept
<1>5. ASSUME NEW r \in Proc, WaitOn(q, r) PROVE Kept(q)
  <2>1. /\ on_cpu = q
        /\ UNCHANGED <<procVars, timer_waiting, ticks, cpuVars, sie, pm_lock, loop, arg>>
    BY <1>5, Zenon DEF WaitOn
  <2>2. CASE UNCHANGED <<status, waiting_for_exit, pc>>
    BY <1>0, <2>1, <2>2, Zenon DEF Kept
  <2>3. CASE /\ status' = [status EXCEPT ![q] = "Suspend"]
             /\ waiting_for_exit' = [waiting_for_exit EXCEPT ![r] = @ \cup {q}]
             /\ pc' = [pc EXCEPT ![q] = "unlock_pm"]
    BY <1>0, <2>1, <2>3, Zenon DEF Kept
  <2> QED BY <1>5, <2>2, <2>3, Zenon DEF WaitOn
<1>6. CASE LockPM(q) \/ WaitOnNobody(q) \/ UnlockPM(q)
  BY <1>0, <1>6, Zenon DEF LockPM, WaitOnNobody, UnlockPM, Kept
<1>7. CASE SleepTest(q)
  BY <1>0, <1>7, Zenon DEF SleepTest, Kept
<1>8. CASE LockTimer(q) \/ PushTimer(q)
  BY <1>0, <1>8, Zenon DEF LockTimer, PushTimer, Kept
<1> QED
  BY <1>1, <1>2, <1>3, <1>4, <1>5, <1>6, <1>7, <1>8, Zenon DEF KernelStep

\* The timer empties its list only of processes it wakes.
LEMMA SleepsKept ==
  ASSUME Inv, Inv', [Next]_vars, NEW p \in Proc, Sleeps(p)
  PROVE  Sleeps(p)'
<1> SUFFICES ASSUME status'[p] = "Suspend", loop'[p] = "sleep", p \notin split'
             PROVE  p \in timer_waiting' \/ (on_cpu' = p /\ pc'[p] \in {"lock_timer", "push_timer"})
  BY Zenon DEF Sleeps
<1>1. /\ DOMAIN pc = Proc /\ DOMAIN loop = Proc /\ DOMAIN status = Proc /\ None \notin Proc
      /\ process_list \subseteq Proc /\ \A q \in timer_waiting : q \in process_list
  BY Zenon DEF Inv, TypeOK, RegInv
<1>2. CASE Worker \/ TimerInWorker \/ TimerInScheduler \/ TimerBeforeSwitch
  BY <1>1, <1>2, WorkerSteps, Zenon DEF Sleeps
<1>4. ASSUME NEW q \in Proc, TimerInProcess(q)
      PROVE  p \in timer_waiting' \/ (on_cpu' = p /\ pc'[p] \in {"lock_timer", "push_timer"})
  <2>1. on_cpu = q /\ UNCHANGED <<pc, loop>>
    BY <1>4, Zenon DEF TimerInProcess
  <2>2. CASE UNCHANGED <<status, timer_waiting, ticks, cpu_proc, on_cpu, preempted, split, cut>>
    BY <2>1, <2>2, Zenon DEF Sleeps
  <2>3. CASE /\ pc[q] # "push_timer"
             /\ status' = Yielded(Woken(status, timer_waiting), q)
             /\ split' = IF pc[q] \in {"lock_pm", "lock_timer"} THEN split \cup {q} ELSE split
    <3>1. status[p] = "Suspend" /\ p \notin timer_waiting
      BY <1>1, <2>3, Zenon DEF Woken, Yielded
    <3>2. p \notin split
      BY <2>3, Zenon
    <3>3. on_cpu = p /\ pc[p] \in {"lock_timer", "push_timer"}
      BY <2>1, <3>1, <3>2, Zenon DEF Sleeps
    <3> QED BY <2>1, <2>3, <3>3, Zenon
  <2> QED BY <1>4, <2>2, <2>3, Zenon DEF TimerInProcess
<1>5. ASSUME NEW q \in Proc, UserCall(q) \/ KernelStep(q), p # q PROVE p \in timer_waiting'
  <2>1. Kept(q)
    BY <1>5, CallKept, KernelKept, Zenon
  <2> QED BY <1>5, <2>1, Zenon DEF Kept, Sleeps
<1>6. ASSUME UserCall(p) PROVE FALSE
  <2>1. on_cpu = p /\ pc[p] = "user" /\ p # None
    BY <1>1, <1>6, Zenon DEF UserCall, SchedYield, Clone, Exit, WaitFor, SleepTicks
  <2>2. status[p] = "Running" /\ loop[p] = "user" /\ p \in process_list
    BY <2>1, Zenon DEF Inv, RunInv, LoopInv, CpuInv
  <2>3. CASE SchedYield(p) \/ (\E n \in WaitPids, option \in {0, WNOHANG} : WaitFor(p, n, option))
               \/ (\E n \in SleepArgs : SleepTicks(p, n))
    BY <2>2, <2>3, Zenon DEF SchedYield, WaitFor, SleepTicks
  <2>4. ASSUME NEW c \in Proc, Clone(p, c) PROVE FALSE
    BY <2>2, <2>4, Zenon DEF Clone
  <2>5. CASE Exit(p)
    <3>1. loop' = loop \/ loop' = [loop EXCEPT ![p] = "dead"]
      BY <2>5, Zenon DEF Exit
    <3> QED BY <1>1, <2>2, <3>1, Zenon
  <2> QED BY <1>6, <2>3, <2>4, <2>5, Zenon DEF UserCall
<1>7. CASE KernelStep(p)
  <2>1. CASE Yield(p)
    <3>1. /\ UNCHANGED <<timer_waiting, loop, split>> /\ pc[p] = "yield"
          /\ status' = Yielded(status, p)
      BY <2>1, Zenon DEF Yield
    <3> QED BY <1>1, <3>1, Zenon DEF Sleeps, Yielded
  <2>2. CASE Switch(p)
    BY <2>2, Zenon DEF Switch, Sleeps
  <2>3. CASE SleepTest(p)
    <3>1. pc[p] = "sleep" /\ on_cpu = p /\ on_cpu' = on_cpu
      BY <2>3, Zenon DEF SleepTest
    <3>2. CASE pc' = [pc EXCEPT ![p] = "lock_timer"]
      BY <1>1, <3>1, <3>2, Zenon
    <3>3. CASE loop' = [loop EXCEPT ![p] = "user"]
      BY <1>1, <3>3, Zenon
    <3> QED BY <2>3, <3>2, <3>3, Zenon DEF SleepTest
  <2>4. CASE LockTimer(p) \/ PushTimer(p)
    BY <1>1, <2>4, Zenon DEF LockTimer, PushTimer
  <2>5. CASE pc[p] \in InWait
    <3>1. loop[p] = "scan"
      BY <2>5, Zenon DEF Inv, LoopInv
    <3>2. CASE LockPM(p) \/ UnlockPM(p) \/ WaitOnNobody(p)
      BY <1>1, <3>1, <3>2, Zenon DEF LockPM, UnlockPM, WaitOnNobody
    <3>3. ASSUME NEW r \in Proc, WaitOn(p, r) PROVE FALSE
      BY <3>1, <3>3, Zenon DEF WaitOn
    <3>4. ASSUME NEW c \in Proc, Reap(p, c) PROVE FALSE
      BY <1>1, <3>1, <3>4, Zenon DEF Reap
    <3>5. CASE ScanNothing(p)
      <4>1. loop' = loop \/ loop' = [loop EXCEPT ![p] = "user"]
        BY <3>5, Zenon DEF ScanNothing
      <4> QED BY <1>1, <3>1, <4>1, Zenon
    <3> QED BY <1>7, <2>1, <2>2, <2>3, <2>4, <3>2, <3>3, <3>4, <3>5, Zenon DEF KernelStep
  <2> QED
    BY <1>7, <2>1, <2>2, <2>3, <2>4, <2>5, Zenon
       DEF KernelStep, Reap, ScanNothing, LockPM, WaitOn, WaitOnNobody, UnlockPM
<1>8. CASE UNCHANGED vars
  BY <1>8, Zenon DEF vars, Sleeps
<1> QED BY <1>2, <1>4, <1>5, <1>6, <1>7, <1>8, Zenon DEF Next, Timer

\* Children are lost only by exit of their parent, and by wait_for when they
\* have left the process list.
LEMMA ForkedKept ==
  ASSUME Inv, Inv', [Next]_vars, \A c \in process_list : Forked(c), NEW x \in process_list'
  PROVE  Forked(x)'
<1>1. /\ children \in [Proc -> SUBSET Proc] /\ parent \in [Proc -> Proc \cup {None}]
      /\ process_list \subseteq Proc /\ process_list' \subseteq Proc /\ DOMAIN status = Proc
      /\ parent' \in [Proc -> Proc \cup {None}]
  BY Zenon DEF Inv, TypeOK
<1>2. PICK f \in Proc \cup {None} : f = parent'[x]
  BY <1>1, Zenon
<1> SUFFICES ASSUME f # None, status'[f] # "Zombie" PROVE x \in children'[f]
  BY <1>2, Zenon DEF Forked
<1>3. f \in Proc /\ status[f] # "Zombie"
  BY <1>2, ZombieStep, Zenon
<1>4. parent[x] = f /\ x \in process_list => x \in children[f]
  BY <1>3, Zenon DEF Forked
<1>5. ASSUME NEW q \in Proc, NEW c \in Proc, Clone(q, c) PROVE x \in children'[f]
  <2>1. /\ process_list' = process_list \cup {c} /\ parent' = [parent EXCEPT ![c] = q]
        /\ children' = [children EXCEPT ![q] = @ \cup {c}]
    BY <1>5, CloneList, Zenon DEF Clone
  <2> QED BY <1>1, <1>2, <1>3, <1>4, <2>1, Zenon
<1>6. ASSUME NEW q \in Proc, NEW c \in Proc, Reap(q, c) PROVE x \in children'[f]
  <2>1. /\ process_list' = process_list \ {c} /\ parent' = parent
        /\ children' = [children EXCEPT ![q] = LiveChildren(q)]
    BY <1>6, ReapList, Zenon DEF Reap
  <2> QED BY <1>1, <1>2, <1>3, <1>4, <2>1, Zenon DEF LiveChildren
<1>7. ASSUME NEW q \in Proc, ScanNothing(q) PROVE x \in children'[f]
  <2>1. /\ process_list' = process_list /\ parent' = parent
        /\ children' = [children EXCEPT ![q] = LiveChildren(q)]
    BY <1>7, Zenon DEF ScanNothing
  <2> QED BY <1>1, <1>2, <1>3, <1>4, <2>1, Zenon DEF LiveChildren
<1>8. ASSUME NEW q \in Proc, Exit(q) PROVE x \in children'[f]
  <2>1. process_list' = process_list /\ parent' = parent
    <3>1. UNCHANGED <<max, free, pid, process_list, parent, timer_waiting, ticks,
                      cpuVars, pm_lock, arg>>
      BY <1>8, Zenon DEF Exit
    <3> QED BY <3>1, Zenon
  <2>2. CASE UNCHANGED <<status, children, waiting_for_exit, pc, loop>>
    BY <1>2, <1>4, <2>1, <2>2, Zenon
  <2>3. CASE status' = ExitStatus(q) /\ children' = Reparented(q)
    <3>1. q \notin waiting_for_exit[q] => status'[q] = "Zombie"
      BY <1>1, <2>3, Zenon DEF ExitStatus, Woken
    <3>2. on_cpu = q /\ pc[q] = "user" /\ q # None
      BY <1>8, Zenon DEF Exit
    <3>3. q \notin waiting_for_exit[q]
      BY <3>2, Zenon DEF Inv, RunInv, RegInv
    <3>4. f # q
      BY <3>1, <3>3, Zenon
    <3> QED BY <1>1, <1>2, <1>3, <1>4, <2>1, <2>3, <3>4, Zenon DEF Reparented
  <2> QED BY <1>8, <2>2, <2>3, Zenon DEF Exit
<1>9. CASE UNCHANGED <<process_list, parent, children>>
  BY <1>2, <1>4, <1>9, Zenon
<1>10. ASSUME NEW q \in Proc, UserCall(q)
       PROVE  \/ UNCHANGED <<process_list, parent, children>>
              \/ Exit(q) \/ \E c \in Proc : Clone(q, c)
  BY <1>10, Zenon DEF UserCall, SchedYield, WaitFor, SleepTicks
<1>11. ASSUME NEW q \in Proc, KernelStep(q)
       PROVE  \/ UNCHANGED <<process_list, parent, children>>
              \/ ScanNothing(q) \/ \E c \in Proc : Reap(q, c)
  <2>1. ASSUME NEW r \in Proc, WaitOn(q, r) PROVE UNCHANGED <<process_list, parent, children>>
    <3>1. UNCHANGED <<procVars, timer_waiting, ticks, cpuVars, sie, pm_lock, loop, arg>>
      BY <2>1, Zenon DEF WaitOn
    <3> QED BY <3>1, Zenon
  <2> QED BY <1>11, <2>1, Zenon DEF KernelStep, Yield, Switch, LockPM, WaitOnNobody, UnlockPM,
                            SleepTest, LockTimer, PushTimer
<1>12. CASE Worker \/ Timer \/ UNCHANGED vars
  <2>1. CASE Worker \/ TimerInWorker \/ TimerInScheduler \/ TimerBeforeSwitch
    BY <1>9, <2>1, WorkerSteps, Zenon
  <2>2. ASSUME NEW q \in Proc, TimerInProcess(q) PROVE UNCHANGED <<process_list, parent, children>>
    BY <2>2, Zenon DEF TimerInProcess
  <2> QED BY <1>9, <1>12, <2>1, <2>2, Zenon DEF Timer, vars
<1> QED
  BY <1>5, <1>6, <1>7, <1>8, <1>9, <1>10, <1>11, <1>12, Zenon DEF Next

\* Between the pass over the children and the wait the hart stays with the
\* process, unless the timer takes it, and the pid it waits for is that of one
\* process only.
LEMMA WaitsKept ==
  ASSUME Inv, Inv', [Next]_vars, \A c \in process_list : Forked(c),
         \A c \in process_list : \A p \in Proc : Waits(p, c),
         NEW p \in Proc, NEW x \in process_list'
  PROVE  Waits(p, x)'
<1>0. /\ DOMAIN pc = Proc /\ DOMAIN loop = Proc /\ DOMAIN status = Proc /\ DOMAIN arg = Proc
      /\ DOMAIN waiting_for_exit = Proc /\ None \notin Proc
      /\ process_list \subseteq Proc /\ process_list' \subseteq Proc
  BY Zenon DEF Inv, TypeOK
<1> SUFFICES ASSUME loop'[p] = "scan", parent'[x] = p, pid'[x] = arg'[p].pid
             PROVE  /\ status'[p] = "Suspend" =>
                         p \in waiting_for_exit'[x] /\ (p \notin split' => status'[x] # "Zombie")
                    /\ pc'[p] \in {"lock_pm", "get_target"} /\ p \notin split' =>
                         /\ pc'[p] = "lock_pm" => on_cpu' = p
                         /\ status'[x] # "Zombie"
  BY Zenon DEF Waits
<1> DEFINE Goal == /\ status'[p] = "Suspend" =>
                         p \in waiting_for_exit'[x] /\ (p \notin split' => status'[x] # "Zombie")
                   /\ pc'[p] \in {"lock_pm", "get_target"} /\ p \notin split' =>
                         /\ pc'[p] = "lock_pm" => on_cpu' = p
                         /\ status'[x] # "Zombie"
<1>1. ASSUME UNCHANGED <<pid, parent, process_list, waiting_for_exit, pc, loop, arg>>,
             \A r \in Proc : /\ status'[r] = "Suspend" => status[r] = "Suspend"
                             /\ status'[r] = "Zombie" => status[r] = "Zombie",
             p \in split => p \in split',
             on_cpu # None /\ on_cpu' # on_cpu /\ pc[on_cpu] = "lock_pm" => on_cpu \in split'
      PROVE  Goal
  BY <1>0, <1>1, Zenon DEF Waits
<1>2. ASSUME Worker \/ TimerInWorker \/ TimerInScheduler \/ TimerBeforeSwitch PROVE Goal
  BY <1>1, <1>2, WorkerSteps, Zenon
<1>4. ASSUME NEW q \in Proc, TimerInProcess(q) PROVE Goal
  <2>1. /\ on_cpu = q
        /\ UNCHANGED <<pid, parent, process_list, waiting_for_exit, pc, loop, arg>>
    BY <1>4, Zenon DEF TimerInProcess
  <2>2. \/ UNCHANGED <<status, timer_waiting, ticks, cpu_proc, on_cpu, preempted, split, cut>>
        \/ /\ status' = Yielded(Woken(status, timer_waiting), q)
           /\ split' = IF pc[q] \in {"lock_pm", "lock_timer"} THEN split \cup {q} ELSE split
    BY <1>4, Zenon DEF TimerInProcess
  <2>3. \A r \in Proc : /\ status'[r] = "Suspend" => status[r] = "Suspend"
                        /\ status'[r] = "Zombie" => status[r] = "Zombie"
    BY <2>2, Zenon DEF Woken, Yielded
  <2>4. /\ p \in split => p \in split'
        /\ on_cpu # None /\ on_cpu' # on_cpu /\ pc[on_cpu] = "lock_pm" => on_cpu \in split'
    BY <2>1, <2>2, Zenon
  <2> HIDE DEF Goal
  <2> QED BY <1>1, <2>1, <2>3, <2>4, Zenon
<1>5. ASSUME NEW q \in Proc, UserCall(q) \/ KernelStep(q), p # q PROVE Goal
  <2>1. Kept(q)
    BY <1>5, CallKept, KernelKept, Zenon
  <2>2. x \in process_list /\ pid'[x] = pid[x] /\ parent'[x] = parent[x]
    BY <1>5, <2>1, Zenon DEF Kept
  <2>3. /\ on_cpu = q /\ loop[p] = "scan" /\ arg'[p] = arg[p] /\ pc'[p] = pc[p]
        /\ p \in split' <=> p \in split
    BY <1>5, <2>1, Zenon DEF Kept
  <2>5. pc[p] \in {"lock_pm", "get_target"} => p \in split
    <3>1. CASE pc[p] = "lock_pm"
      BY <1>5, <2>2, <2>3, <3>1, Zenon DEF Waits
    <3>2. pc[p] # "get_target"
      BY <1>0, <1>5, <2>3, Zenon DEF Inv, PmInv
    <3> QED BY <3>1, <3>2, Zenon
  <2>4. CASE status'[p] = "Suspend"
    <3>1. status[p] = "Suspend"
      BY <1>5, <2>1, <2>4, Zenon DEF Kept
    <3>2. p \in waiting_for_exit[x] /\ (p \notin split => status[x] # "Zombie")
      BY <2>2, <2>3, <3>1, Zenon DEF Waits
    <3>3. p \in waiting_for_exit'[x]
      BY <2>1, <2>4, <3>2, Zenon DEF Kept
    <3>4. status'[x] = "Zombie" => status[x] = "Zombie"
      BY <1>0, <2>1, <2>2, <2>4, <3>2, Zenon DEF Kept
    <3> QED BY <2>3, <2>5, <3>2, <3>3, <3>4, Zenon
  <2> QED BY <2>3, <2>4, <2>5, Zenon
<1>6. ASSUME UserCall(p) PROVE Goal
  <2>1. on_cpu = p /\ pc[p] = "user" /\ p # None
    BY <1>0, <1>6, Zenon DEF UserCall, SchedYield, Clone, Exit, WaitFor, SleepTicks
  <2>2. status[p] = "Running" /\ loop[p] = "user" /\ p \in process_list
    BY <2>1, Zenon DEF Inv, RunInv, LoopInv, CpuInv
  <2>3. PICK n \in WaitPids, option \in {0, WNOHANG} : WaitFor(p, n, option)
    <3>1. ~SchedYield(p) /\ ~\E n \in SleepArgs : SleepTicks(p, n)
      BY <1>0, <2>2, Zenon DEF SchedYield, SleepTicks
    <3>2. ASSUME NEW c \in Proc, Clone(p, c) PROVE FALSE
      BY <2>2, <3>2, Zenon DEF Clone
    <3>3. CASE Exit(p)
      <4>1. loop' = loop \/ loop' = [loop EXCEPT ![p] = "dead"]
        BY <3>3, Zenon DEF Exit
      <4> QED BY <1>0, <2>2, <4>1, Zenon
    <3> QED BY <1>6, <3>1, <3>2, <3>3, Zenon DEF UserCall
  <2>4. status' = status /\ pc'[p] = "scan"
    BY <1>0, <2>3, Zenon DEF WaitFor
  <2> QED BY <2>2, <2>4, Zenon
<1>7. ASSUME KernelStep(p) PROVE Goal
  <2>0. on_cpu = p
    BY <1>7, KernelKept, Zenon DEF Kept
  <2>1. CASE Yield(p)
    BY <1>0, <2>1, Zenon DEF Yield, Yielded, Waits
  <2>2. CASE Switch(p)
    BY <1>0, <2>2, Zenon DEF Switch, Waits
  <2>3. CASE ScanNothing(p)
    <3>1. /\ pc[p] = "scan" /\ Reapable(p) = {} /\ on_cpu' = on_cpu
          /\ UNCHANGED <<process_list, parent, pid, status, waiting_for_exit>>
      BY <2>3, Zenon DEF ScanNothing
    <3>2. loop' = [loop EXCEPT ![p] = "user"] \/ UNCHANGED <<loop, arg>>
      BY <2>3, Zenon DEF ScanNothing
    <3>3. UNCHANGED <<loop, arg>>
      BY <1>0, <3>2, Zenon
    <3>4. status[p] = "Running"
      BY <1>0, <2>0, <3>1, Zenon DEF Inv, RunInv
    <3>5. x \in LiveChildren(p)
      BY <1>0, <3>1, <3>4, Zenon DEF Forked, LiveChildren
    <3>6. status[x] # "Zombie"
      BY <3>1, <3>3, <3>5, Zenon DEF Reapable
    <3> QED BY <2>0, <3>1, <3>4, <3>6, Zenon
  <2>4. CASE LockPM(p)
    BY <1>0, <2>4, Zenon DEF LockPM, Waits
  <2>5. ASSUME NEW r \in Proc, WaitOn(p, r) PROVE Goal
    <3>1. /\ pc[p] = "get_target" /\ r \in process_list /\ pid[r] = arg[p].pid
          /\ UNCHANGED <<procVars, timer_waiting, ticks, cpuVars, sie, pm_lock, loop, arg>>
      BY <2>5, Zenon DEF WaitOn
    <3>2. r = x
      <4>1. x \in process_list /\ pid[r] = pid[x]
        BY <3>1, Zenon
      <4> QED BY <3>1, <4>1, Zenon DEF Inv, PidInv
    <3>3. p \notin split => status[x] # "Zombie"
      BY <3>1, Zenon DEF Waits
    <3>4. CASE UNCHANGED <<status, waiting_for_exit, pc>>
      BY <3>1, <3>4, Zenon DEF Waits
    <3>5. CASE /\ r # p
               /\ status' = [status EXCEPT ![p] = "Suspend"]
               /\ waiting_for_exit' = [waiting_for_exit EXCEPT ![r] = @ \cup {p}]
               /\ pc' = [pc EXCEPT ![p] = "unlock_pm"]
      <4>1. split' = split /\ status'[x] = status[x] /\ p \in waiting_for_exit'[x]
        BY <1>0, <3>1, <3>2, <3>5, Zenon
      <4>2. pc'[p] = "unlock_pm"
        BY <1>0, <3>5, Zenon
      <4> QED BY <3>3, <4>1, <4>2, Zenon
    <3> QED BY <2>5, <3>4, <3>5, Zenon DEF WaitOn
  <2>6. CASE UnlockPM(p)
    BY <1>0, <2>6, Zenon DEF UnlockPM, Waits
  <2>7. CASE WaitOnNobody(p)
    BY <1>0, <2>7, Zenon DEF WaitOnNobody
  <2>8. ASSUME NEW c \in Proc, Reap(p, c) PROVE Goal
    BY <1>0, <2>8, Zenon DEF Reap
  <2>9. ASSUME pc[p] \in InSleep PROVE Goal
    <3>1. loop[p] = "sleep"
      BY <2>9, Zenon DEF Inv, LoopInv
    <3>2. loop' = loop \/ loop' = [loop EXCEPT ![p] = "user"]
      <4>1. CASE SleepTest(p) \/ LockTimer(p) \/ PushTimer(p)
        BY <4>1, Zenon DEF SleepTest, LockTimer, PushTimer
      <4> QED
        BY <1>7, <2>9, <4>1, Zenon DEF KernelStep, Yield, Switch, Reap, ScanNothing, LockPM,
           WaitOn, WaitOnNobody, UnlockPM
    <3> QED BY <1>0, <3>1, <3>2, Zenon
  <2> HIDE DEF Goal
  <2> QED
    BY <1>7, <2>1, <2>2, <2>3, <2>4, <2>5, <2>6, <2>7, <2>8, <2>9, Zenon
       DEF KernelStep, SleepTest, LockTimer, PushTimer
<1>8. ASSUME UNCHANGED vars PROVE Goal
  BY <1>8, Zenon DEF vars, Waits
<1> HIDE DEF Goal
<1>9. Goal
  BY <1>2, <1>4, <1>5, <1>6, <1>7, <1>8, Zenon DEF Next, Timer
<1> QED BY <1>9, Zenon DEF Goal

\* With timers anywhere in the system calls, a wakeup is lost only to a timer
\* between the halves of that wait.  Every other process that was switched out
\* as Suspend in sleep_ticks is on the list of the timer, and one that waits for
\* a child of its own is on the list of that child, which is still to exit.
THEOREM NoLostWakeup == Spec => []SuspendedOnItsCondvar
<1>1. Init => SuspendInv
  <2> SUFFICES ASSUME Init PROVE SuspendInv
    BY Zenon
  <2>1. \A p \in Proc : status[p] # "Suspend" /\ loop[p] = "user"
    BY Zenon DEF Init
  <2>2. \A c \in process_list : Forked(c)
    BY Zenon DEF Init, Forked
  <2> QED BY <2>1, <2>2, Zenon DEF SuspendInv, Sleeps, Waits
<1>2. Inv /\ Inv' /\ SuspendInv /\ [Next]_vars => SuspendInv'
  BY SleepsKept, WaitsKept, ForkedKept, Zenon DEF SuspendInv
<1>3. Inv /\ SuspendInv => SuspendedOnItsCondvar
  <2> SUFFICES ASSUME Inv, SuspendInv, NEW p \in process_list \ split, status[p] = "Suspend",
                      on_cpu # p
               PROVE  /\ loop[p] = "sleep" => p \in timer_waiting
                      /\ \A c \in LiveChildren(p) :
                           loop[p] = "scan" /\ arg[p].pid = pid[c] /\ parent[c] = p =>
                               p \in waiting_for_exit[c] /\ status[c] # "Zombie"
    BY Zenon DEF SuspendedOnItsCondvar
  <2>1. p \in Proc
    BY Zenon DEF Inv, TypeOK
  <2> QED BY <2>1, Zenon DEF SuspendInv, Sleeps, Waits, LiveChildren
<1> QED BY InitInv, StepInv, <1>1, <1>2, <1>3, PTL DEF Spec

-----------------------------------------------------------------------------
(* The process list and the pid allocator *)

\* Only fork and wait_for change the process list, the pids or the allocator.
LEMMA ListSteps ==
  ASSUME Inv, [Next]_vars
  PROVE  \/ UNCHANGED <<max, free, pid, process_list>>
         \/ \E p, c \in Proc : Clone(p, c) \/ Reap(p, c)
<1> DEFINE Same == UNCHANGED <<max, free, pid, process_list>>
           Changed == \E p, c \in Proc : Clone(p, c) \/ Reap(p, c)
<1> SUFFICES Same \/ Changed
  BY Zenon
<1>1. CASE Worker \/ TimerInWorker \/ TimerInScheduler \/ TimerBeforeSwitch
  BY <1>1, WorkerSteps, Zenon DEF procVars
<1>2. ASSUME NEW p \in Proc, TimerInProcess(p) PROVE Same
  BY <1>2, Zenon DEF TimerInProcess, procVars
<1>3. ASSUME NEW p \in Proc, UserCall(p) PROVE Same \/ Changed
  <2>1. CASE SchedYield(p)
    BY <2>1, Zenon DEF SchedYield, procVars
  <2>2. CASE Exit(p)
    <3>1. UNCHANGED <<max, free, pid, process_list, parent, timer_waiting, ticks,
                      cpuVars, pm_lock, arg>>
      BY <2>2, Zenon DEF Exit
    <3> QED BY <3>1, Zenon
  <2>3. ASSUME NEW n \in WaitPids, NEW option \in {0, WNOHANG}, WaitFor(p, n, option) PROVE Same
    BY <2>3, Zenon DEF WaitFor, procVars
  <2>4. ASSUME NEW n \in SleepArgs, SleepTicks(p, n) PROVE Same
    BY <2>4, Zenon DEF SleepTicks, procVars
  <2> HIDE DEF Same
  <2> QED BY <1>3, <2>1, <2>2, <2>3, <2>4, Zenon DEF UserCall
<1>4. ASSUME NEW p \in Proc, KernelStep(p) PROVE Same \/ Changed
  <2>1. CASE Yield(p) \/ Switch(p)
    BY <2>1, Zenon DEF Yield, Switch, procVars
  <2>2. CASE ScanNothing(p)
    BY <2>2, Zenon DEF ScanNothing, procVars
  <2>3. ASSUME NEW q \in Proc, WaitOn(p, q) PROVE Same
    <3>1. UNCHANGED <<procVars, timer_waiting, ticks, cpuVars, sie, pm_lock, loop, arg>>
      BY <2>3, Zenon DEF WaitOn
    <3> QED BY <3>1, Zenon DEF procVars
  <2>4. CASE LockPM(p) \/ WaitOnNobody(p) \/ UnlockPM(p) \/ LockTimer(p) \/ PushTimer(p)
    BY <2>4, Zenon DEF LockPM, WaitOnNobody, UnlockPM, LockTimer, PushTimer, procVars
  <2>5. CASE SleepTest(p)
    BY <2>5, Zenon DEF SleepTest, procVars
  <2> HIDE DEF Same
  <2> QED BY <1>4, <2>1, <2>2, <2>3, <2>4, <2>5, Zenon DEF KernelStep
<1>5. CASE UNCHANGED vars
  BY <1>5, Zenon DEF vars, procVars
<1> HIDE DEF Same, Changed
<1> QED BY <1>1, <1>2, <1>3, <1>4, <1>5, Zenon DEF Next, Timer

\* The only way out of the process list is wait_for of the process that has
\* the zombie among its children: exit, which hands the children to init, and
\* the scheduler, which goes through the list, never remove one.
THEOREM ReapedByParent == Spec => OnlyReapedByParent
<1> DEFINE A == \A c \in process_list \ process_list' :
                  status[c] = "Zombie" /\ \E p \in Proc : on_cpu = p /\ c \in children[p]
<1>1. Inv /\ [Next]_vars => [A]_vars
  <2> SUFFICES ASSUME Inv, [Next]_vars, NEW x \in process_list \ process_list'
               PROVE  status[x] = "Zombie" /\ \E p \in Proc : on_cpu = p /\ x \in children[p]
    BY Zenon
  <2>1. PICK p \in Proc, c \in Proc : Clone(p, c) \/ Reap(p, c)
    BY ListSteps, Zenon
  <2>2. ~Clone(p, c)
    <3>1. Clone(p, c) => process_list' = process_list \cup {c}
      BY CloneList, Zenon
    <3> QED BY <3>1, Zenon
  <2>3. x = c /\ on_cpu = p /\ c \in children[p] /\ status[c] = "Zombie"
    <3>1. Reap(p, c)
      BY <2>1, <2>2, Zenon
    <3>2. process_list' = process_list \ {c}
      BY <3>1, ReapList, Zenon
    <3>3. on_cpu = p /\ c \in children[p] /\ status[c] = "Zombie"
      BY <3>1, Zenon DEF Reap, Reapable, LiveChildren, At
    <3> QED BY <3>2, <3>3, Zenon
  <2> QED BY <2>3, Zenon
<1> QED BY InitInv, StepInv, <1>1, PTL DEF Spec, OnlyReapedByParent

\* No identifier is lost: each of 1..max is on the free stack or is the pid of
\* a listed process.  This bounds max by the number of processes.
NoneLost ==
    /\ max <= Cardinality(Proc)
    /\ \A id \in 1..max : (\E i \in 1..Len(free) : free[i] = id) \/ \E p \in process_list : pid[p] = id

\* What alloc leaves on the stack, besides what it returns.
LEMMA AllocTakesOne ==
  ASSUME Inv, Pids!alloc(Pids!NextId)
  PROVE  /\ \A i \in 1..Len(free) : free[i] = Pids!NextId \/ (i \in 1..Len(free') /\ free'[i] = free[i])
         /\ IF free = <<>> THEN max' = max + 1 /\ Pids!NextId = max + 1
            ELSE max' = max /\ Pids!NextId \in 1..max
<1>1. max \in Nat /\ free \in Seq(Nat)
  BY Zenon DEF Inv, TypeOK
<1>2. CASE free = <<>>
  BY <1>1, <1>2, Zenon DEF Pids!alloc, Pids!NextId
<1>3. CASE free # <<>>
  <2>1. PICK n \in Nat : n = Len(free) - 1 /\ n + 1 = Len(free) /\ n + 1 \in 1..Len(free)
    BY <1>1, <1>3
  <2>2. free' = SubSeq(free, 1, n) /\ max' = max /\ Pids!NextId = free[n + 1]
    BY <1>3, <2>1, Zenon DEF Pids!alloc, Pids!NextId
  <2>3. Len(free') = n /\ \A i \in 1..n : free'[i] = free[i]
    BY <1>1, <2>1, <2>2
  <2>4. free[n + 1] \in 1..max
    BY <2>1, Zenon DEF Inv, PidInv
  <2>5. \A i \in 1..Len(free) : i = n + 1 \/ i \in 1..n
    BY <2>1
  <2> QED BY <1>3, <2>2, <2>3, <2>4, <2>5, Zenon
<1> QED BY <1>2, <1>3, Zenon

INSTANCE FiniteSetTheorems

\* With an empty stack there are as many listed processes as identifiers.
LEMMA RoomForOne ==
  ASSUME Inv, NoneLost, free = <<>>, NEW c \in Proc, c \notin process_list
  PROVE  max + 1 <= Cardinality(Proc)
<1> DEFINE I == {pid[p] : p \in process_list}
<1>1. max \in Nat /\ process_list \in SUBSET Proc /\ IsFiniteSet(Proc)
  BY ConstantsAssumption, Zenon DEF Inv, TypeOK
<1>2. 1..max \in SUBSET I
  <2>1. Len(free) = 0
    BY Zenon
  <2> QED BY <2>1 DEF NoneLost
<1>3. IsFiniteSet(process_list) /\ IsFiniteSet(Proc \ {c})
  BY <1>1, FS_Subset, Zenon
<1>4. IsFiniteSet(I) /\ Cardinality(I) <= Cardinality(process_list)
  <2>1. [p \in process_list |-> pid[p]] \in Surjection(process_list, I)
    BY Zenon DEF Surjection
  <2> HIDE DEF I
  <2> QED BY <1>3, <2>1, FS_Surjection, Zenon
<1>5. Cardinality(1..max) <= Cardinality(I) /\ Cardinality(1..max) = max
  <2>1. Cardinality(1..max) = max
    BY <1>1, FS_Interval
  <2> QED BY <1>2, <1>4, <2>1, FS_Subset, Zenon
<1>6. Cardinality(process_list) <= Cardinality(Proc \ {c})
  <2>1. process_list \in SUBSET (Proc \ {c})
    BY <1>1, Zenon
  <2> QED BY <1>3, <2>1, FS_Subset, Zenon
<1>7. Cardinality(Proc \ {c}) = Cardinality(Proc) - 1
  BY <1>1, FS_RemoveElement, Zenon
<1>8. /\ Cardinality(I) \in Nat /\ Cardinality(process_list) \in Nat /\ Cardinality(Proc) \in Nat
      /\ Cardinality(Proc \ {c}) \in Nat
  BY <1>1, <1>3, <1>4, FS_CardinalityType, Zenon
<1> HIDE DEF I
<1> QED BY <1>1, <1>4, <1>5, <1>6, <1>7, <1>8

LEMMA ClonePids ==
  ASSUME Inv, NoneLost, NEW p \in Proc, NEW c \in Proc, Clone(p, c)
  PROVE  NoneLost' /\ Pids!NextId <= Cardinality(Proc)
<1>1. /\ Pids!alloc(Pids!NextId) /\ pid' = [pid EXCEPT ![c] = Pids!NextId]
      /\ process_list' = process_list \cup {c} /\ pid[c] = 0
  BY CloneList, Zenon DEF Clone
<1>2. /\ max \in Nat /\ free \in Seq(Nat) /\ pid \in [Proc -> Nat] /\ process_list \in SUBSET Proc
      /\ c \notin process_list /\ Cardinality(Proc) \in Nat
  <2>1. Cardinality(Proc) \in Nat
    BY ConstantsAssumption, FS_CardinalityType, Zenon
  <2>2. c \notin process_list
    BY <1>1 DEF Inv, PidInv
  <2> QED BY <2>1, <2>2, Zenon DEF Inv, TypeOK
<1>3. PICK n : n = Pids!NextId
  BY Zenon
<1>4. /\ \A i \in 1..Len(free) : free[i] = n \/ (i \in 1..Len(free') /\ free'[i] = free[i])
      /\ IF free = <<>> THEN max' = max + 1 /\ n = max + 1 ELSE max' = max /\ n \in 1..max
  BY <1>1, <1>3, AllocTakesOne, Zenon
<1>5. pid'[c] = n /\ \A q \in process_list : pid'[q] = pid[q]
  <2>1. n \in Nat
    BY <1>2, <1>4
  <2> QED BY <1>1, <1>2, <1>3, <2>1, Zenon
<1>6. max' <= Cardinality(Proc) /\ n <= max'
  <2>1. free = <<>> => max + 1 <= Cardinality(Proc)
    BY <1>2, RoomForOne, Zenon
  <2> QED BY <1>2, <1>4, <2>1 DEF NoneLost
<1>7. ASSUME NEW id \in 1..max'
      PROVE  (\E i \in 1..Len(free') : free'[i] = id) \/ \E q \in process_list' : pid'[q] = id
  <2>1. CASE id = n
    BY <1>1, <1>5, <2>1, Zenon
  <2>2. CASE id # n
    <3>1. id \in 1..max
      BY <1>2, <1>4, <2>2
    <3> QED BY <1>1, <1>4, <1>5, <2>2, <3>1 DEF NoneLost
  <2> QED BY <2>1, <2>2, Zenon
<1>8. n <= Cardinality(Proc)
  BY <1>2, <1>4, <1>6
<1> QED BY <1>3, <1>6, <1>7, <1>8, Zenon DEF NoneLost

LEMMA ReapPids ==
  ASSUME Inv, NoneLost, NEW p \in Proc, NEW c \in Proc, Reap(p, c)
  PROVE  NoneLost'
<1>1. /\ process_list' = process_list \ {c} /\ free' = Append(free, pid[c]) /\ max' = max
      /\ pid' = pid
  BY ReapList, Zenon DEF Reap, Pids!dealloc
<1>2. free \in Seq(Nat) /\ pid \in [Proc -> Nat] /\ Len(free) \in Nat
  <2>1. free \in Seq(Nat) /\ pid \in [Proc -> Nat]
    BY Zenon DEF Inv, TypeOK
  <2> QED BY <2>1
<1>3. Len(free') = Len(free) + 1 /\ free'[Len(free) + 1] = pid[c]
      /\ \A i \in 1..Len(free) : free'[i] = free[i]
  BY <1>1, <1>2
<1>4. Len(free) + 1 \in 1..Len(free') /\ \A i \in 1..Len(free) : i \in 1..Len(free')
  BY <1>2, <1>3
<1> QED BY <1>1, <1>3, <1>4 DEF NoneLost

LEMMA PidsKept == Spec => [](Inv /\ NoneLost)
<1>1. Init => NoneLost
  <2> SUFFICES ASSUME Init PROVE NoneLost
    BY Zenon
  <2>1. max = 1 /\ process_list = {InitProc} /\ pid[InitProc] = 1
    BY ConstantsAssumption, Zenon DEF Init
  <2>2. Cardinality(Proc) \in Nat /\ Cardinality(Proc) # 0
    BY ConstantsAssumption, FS_CardinalityType, FS_EmptySet, Zenon
  <2> QED BY <2>1, <2>2 DEF NoneLost
<1>2. Inv /\ NoneLost /\ [Next]_vars => NoneLost'
  <2> SUFFICES ASSUME Inv, NoneLost, [Next]_vars PROVE NoneLost'
    BY Zenon
  <2>1. CASE UNCHANGED <<max, free, pid, process_list>>
    BY <2>1, Zenon DEF NoneLost
  <2> QED BY <2>1, ListSteps, ClonePids, ReapPids, Zenon
<1> QED BY InitInv, StepInv, <1>1, <1>2, PTL DEF Spec

\* How many of the processes in L have the pid id, when no two have the same.
LEMMA OneHasIt ==
  ASSUME NEW L, NEW g, \A p, q \in L : g[p] = g[q] => p = q, NEW id
  PROVE  Cardinality({p \in L : g[p] = id}) = IF \E p \in L : g[p] = id THEN 1 ELSE 0
<1>1. CASE \E p \in L : g[p] = id
  <2>1. PICK p \in L : g[p] = id
    BY <1>1, Zenon
  <2>2. {q \in L : g[q] = id} = {p}
    BY <2>1, Zenon
  <2> QED BY <1>1, <2>2, FS_Singleton, Zenon
<1>2. CASE ~\E p \in L : g[p] = id
  <2>1. {q \in L : g[q] = id} = {}
    BY <1>2, Zenon
  <2> QED BY <1>2, <2>1, FS_EmptySet, Zenon
<1> QED BY <1>1, <1>2, Zenon

\* fork and wait_for use RecycleAllocator as its module says, also when the
\* timer arrives between the steps of a wait_for: each fork makes the Pid that
\* alloc returns, and each reaped process drops one that it alone had.
THEOREM PidStep == Spec => PidAllocatorStep
<1> DEFINE ids == 1..Cardinality(Proc)
           own == [id \in ids |-> Cardinality({p \in process_list : pid[p] = id})]
<1>1. Inv /\ NoneLost /\ Inv' /\ [Next]_vars => [Pids!Next]_(Pids!vars)
  <2> SUFFICES ASSUME Inv, NoneLost, Inv', [Next]_vars
               PROVE  [Pids!Next]_(Pids!vars)
    BY Zenon
  <2>1. /\ \A id \in ids : own[id] = IF \E p \in process_list : pid[p] = id THEN 1 ELSE 0
        /\ own \in [ids -> Nat]
    <3>1. \A p, q \in process_list : pid[p] = pid[q] => p = q
      BY Zenon DEF Inv, PidInv
    <3>2. \A id : Cardinality({p \in process_list : pid[p] = id}) =
                    IF \E p \in process_list : pid[p] = id THEN 1 ELSE 0
      BY <3>1, OneHasIt, Zenon
    <3>3. \A id \in ids : own[id] = IF \E p \in process_list : pid[p] = id THEN 1 ELSE 0
      BY <3>2, Zenon
    <3>4. own = [id \in ids |-> own[id]]
      BY Zenon
    <3> HIDE DEF own, ids
    <3>5. \A id \in ids : own[id] \in Nat
      BY <3>3
    <3> QED BY <3>3, <3>4, <3>5, Zenon
  <2>2. \A id \in ids : own'[id] = IF \E p \in process_list' : pid'[p] = id THEN 1 ELSE 0
    <3>1. \A p, q \in process_list' : pid'[p] = pid'[q] => p = q
      BY Zenon DEF Inv, PidInv
    <3>2. \A id : Cardinality({p \in process_list' : pid'[p] = id}) =
                    IF \E p \in process_list' : pid'[p] = id THEN 1 ELSE 0
      BY <3>1, OneHasIt, Zenon
    <3> QED BY <3>2, Zenon
  <2>3. own' = [id \in ids |-> own'[id]]
    BY Zenon
  <2>4. CASE UNCHANGED <<max, free, pid, process_list>>
    BY <2>4, Zenon DEF Pids!vars
  <2>5. ASSUME NEW p \in Proc, NEW c \in Proc, Clone(p, c)
        PROVE  Pids!NextId <= Cardinality(Proc) /\ Pids!New(Pids!NextId)
    <3>1. PICK n : n = Pids!NextId
      BY Zenon
    <3>2. /\ Pids!alloc(n) /\ pid' = [pid EXCEPT ![c] = n] /\ process_list' = process_list \cup {c}
          /\ pid[c] = 0
      BY <2>5, <3>1, CloneList, Zenon DEF Clone
    <3>3. n <= Cardinality(Proc)
      BY <2>5, <3>1, ClonePids, Zenon
    <3>4. n \in Nat \ {0} /\ \A q \in process_list : pid[q] # n
      BY <3>1, <3>2, NextIdFresh, Zenon
    <3>5. n \in ids /\ Cardinality(Proc) \in Nat
      BY <3>3, <3>4, ConstantsAssumption, FS_CardinalityType
    <3>6. c \notin process_list /\ pid'[c] = n /\ \A q \in process_list : pid'[q] = pid[q]
      <4>1. /\ max \in Nat /\ pid \in [Proc -> Nat] /\ process_list \subseteq Proc
            /\ \A q \in process_list : pid[q] \in 1..max
        BY Zenon DEF Inv, TypeOK, PidInv
      <4>2. c \notin process_list
        BY <3>2, <4>1
      <4> QED BY <3>2, <4>1, <4>2, Zenon
    <3>7. own' = [own EXCEPT ![n] = own[n] + 1]
      <4>1. own[n] = 0 /\ own'[n] = 1
        BY <2>1, <2>2, <3>2, <3>4, <3>5, <3>6
      <4>2. \A id \in ids : id # n => own'[id] = own[id]
        BY <2>1, <2>2, <3>2, <3>6
      <4> HIDE DEF own
      <4> QED BY <2>1, <2>3, <4>1, <4>2
    <3> QED BY <3>1, <3>2, <3>3, <3>7, Zenon DEF Pids!New
  <2>6. ASSUME NEW p \in Proc, NEW c \in Proc, Reap(p, c)
        PROVE  \E id \in ids : Pids!Drop(id)
    <3>1. PICK n : n = pid[c]
      BY Zenon
    <3>2. /\ c \in process_list /\ process_list' = process_list \ {c} /\ pid' = pid
          /\ Pids!dealloc(n)
      BY <2>6, <3>1, ReapList, Zenon DEF Reap, Reapable, LiveChildren
    <3>3. n \in 1..max /\ \A i \in 1..Len(free) : free[i] # n
      BY <3>1, <3>2, Zenon DEF Inv, PidInv
    <3>4. Cardinality(Proc) \in Nat /\ max \in Nat /\ n \in ids
      <4>1. Cardinality(Proc) \in Nat
        BY ConstantsAssumption, FS_CardinalityType, Zenon
      <4>2. max \in Nat /\ max <= Cardinality(Proc)
        BY Zenon DEF NoneLost, Inv, TypeOK
      <4> QED BY <3>3, <4>1, <4>2
    <3>5. \A q \in process_list : pid[q] = n => q = c
      BY <3>1, <3>2, Zenon DEF Inv, PidInv
    <3>6. own[n] = 1 /\ own' = [own EXCEPT ![n] = own[n] - 1]
      <4>1. own[n] = 1 /\ own'[n] = 0
        BY <2>1, <2>2, <3>1, <3>2, <3>4, <3>5, Zenon
      <4>2. \A id \in ids : id # n => own'[id] = own[id]
        BY <2>1, <2>2, <3>1, <3>2
      <4> HIDE DEF own
      <4> QED BY <2>1, <2>3, <4>1, <4>2
    <3>7. Pids!CanFree(n)
      BY <3>3, <3>4 DEF Pids!CanFree, Pids!InFree
    <3>8. Pids!Drop(n)
      BY <3>2, <3>6, <3>7 DEF Pids!Drop
    <3> QED BY <3>4, <3>8, Zenon
  <2> QED BY <2>4, <2>5, <2>6, ListSteps, Zenon DEF Pids!Next
<1> QED BY PidsKept, <1>1, PTL DEF Spec, PidAllocatorStep

-----------------------------------------------------------------------------
(* The pid allocator on its own, whoever its users are: the identifiers of *)
(* 1..max are split between the Pids and the free stack.  MaxPid bounds the *)
(* identifiers, owners counts the Pids that have each.                     *)
CONSTANT MaxPid
VARIABLE owners

Allocator == INSTANCE PidAllocator

\* At least one identifier can be handed out: identifiers start at 1.
SomePids == MaxPid \in Nat \ {0}

AllocatorInv == Allocator!TypeOK /\ max <= MaxPid /\ Allocator!Partition

LEMMA AllocatorInit == SomePids /\ Allocator!Init => AllocatorInv
  BY DEF SomePids, Allocator!Init, AllocatorInv, Allocator!TypeOK, Allocator!Partition, Allocator!InFree

\* Pid::new, the free stack not empty: its top gets an owner.
LEMMA NewRecycled ==
  ASSUME SomePids, AllocatorInv, free # <<>>, Allocator!New(Allocator!NextId)
  PROVE  AllocatorInv' /\ Allocator!NextId \in 1..MaxPid /\ owners[Allocator!NextId] = 0
<1> DEFINE n == Len(free)
           id == free[n]
<1>1. /\ n \in Nat \ {0}
      /\ id \in 1..max
      /\ id \in 1..MaxPid
      /\ Allocator!InFree(id)
  BY DEF SomePids, AllocatorInv, Allocator!TypeOK, Allocator!Partition, Allocator!InFree
<1>2. owners[id] = 0
  BY <1>1, Zenon DEF AllocatorInv, Allocator!Partition
<1>3. /\ max' = max
      /\ owners' = [owners EXCEPT ![id] = @ + 1]
      /\ free' = SubSeq(free, 1, n - 1)
  BY Zenon DEF Allocator!New, Allocator!alloc, Allocator!NextId
<1>4. /\ free' \in Seq(Nat)
      /\ Len(free') = n - 1
      /\ \A i \in 1..(n - 1) : free'[i] = free[i]
  <2>1. free \in Seq(Nat)
    BY Zenon DEF AllocatorInv, Allocator!TypeOK
  <2>2. PICK m \in Nat : m = n - 1 /\ m <= Len(free)
    <3>1. n \in Nat \ {0}
      BY <1>1, Zenon
    <3> QED BY <3>1, SMTT(20)
  <2>3. free' = SubSeq(free, 1, m)
    BY <1>3, <2>2, Zenon
  <2>4. free' \in Seq(Nat) /\ Len(free') = m /\ \A i \in 1..m : free'[i] = free[i]
    BY <2>1, <2>2, <2>3
  <2> QED BY <2>2, <2>4, Zenon
<1>5. /\ owners'[id] = 1
      /\ \A k \in (1..MaxPid) \ {id} : owners'[k] = owners[k]
      /\ owners' \in [1..MaxPid -> Nat]
  BY <1>1, <1>2, <1>3 DEF AllocatorInv, Allocator!TypeOK
<1>6. Allocator!TypeOK' /\ max' <= MaxPid
  BY <1>3, <1>4, <1>5, Zenon DEF AllocatorInv, Allocator!TypeOK
<1> HIDE DEF id
<1>7. ASSUME NEW i \in 1..(n - 1)
      PROVE  i \in 1..n /\ i # n /\ free'[i] = free[i] /\ free[i] # id
  BY <1>1, <1>4 DEF AllocatorInv, Allocator!Partition, id
<1>8. \A i, j \in 1..Len(free') : i # j => free'[i] # free'[j]
  BY <1>4, <1>7, Zenon DEF AllocatorInv, Allocator!Partition
<1>9. \A i \in 1..Len(free') : free'[i] \in 1..max'
  BY <1>3, <1>4, <1>7, Zenon DEF AllocatorInv, Allocator!Partition
<1>10. ASSUME NEW k \in 1..MaxPid PROVE Allocator!InFree(k)' <=> Allocator!InFree(k) /\ k # id
  <2>1. Allocator!InFree(k)' => Allocator!InFree(k) /\ k # id
    BY <1>4, <1>7, Zenon DEF Allocator!InFree
  <2>2. ASSUME Allocator!InFree(k), k # id PROVE Allocator!InFree(k)'
    <3>1. PICK i \in 1..n : free[i] = k
      BY <2>2, Zenon DEF Allocator!InFree
    <3>2. i \in 1..(n - 1)
      BY <1>1, <2>2, <3>1 DEF id
    <3> QED BY <1>4, <3>1, <3>2, Zenon DEF Allocator!InFree
  <2> QED BY <2>1, <2>2, Zenon
<1>11. ASSUME NEW k \in 1..MaxPid
       PROVE  owners'[k] = IF k <= max' /\ ~Allocator!InFree(k)' THEN 1 ELSE 0
  <2>1. owners[k] = IF k <= max /\ ~Allocator!InFree(k) THEN 1 ELSE 0
    BY Zenon DEF AllocatorInv, Allocator!Partition
  <2>2. CASE k = id
    <3>1. k <= max
      BY <1>1, <2>2 DEF AllocatorInv, Allocator!TypeOK
    <3> QED BY <1>3, <1>5, <1>10, <2>2, <3>1, Zenon
  <2>3. CASE k # id
    BY <1>3, <1>5, <1>10, <2>1, <2>3, Zenon
  <2> QED BY <2>2, <2>3, Zenon
<1>12. Allocator!Partition'
  BY <1>8, <1>9, <1>11, Zenon DEF Allocator!Partition
<1>13. Allocator!NextId = id
  BY Zenon DEF Allocator!NextId, id
<1> QED
  BY <1>1, <1>2, <1>6, <1>12, <1>13, Zenon DEF AllocatorInv

\* Pid::new, the free stack empty: max + 1 is new.
LEMMA NewFresh ==
  ASSUME SomePids, AllocatorInv, free = <<>>, Allocator!NextId <= MaxPid, Allocator!New(Allocator!NextId)
  PROVE  AllocatorInv' /\ Allocator!NextId \in 1..MaxPid /\ owners[Allocator!NextId] = 0
<1>1. /\ max \in Nat
      /\ max' = max + 1
      /\ free' = <<>>
      /\ owners' = [owners EXCEPT ![max + 1] = @ + 1]
      /\ max + 1 <= MaxPid
      /\ max + 1 \in 1..MaxPid
  BY DEF SomePids, Allocator!New, Allocator!alloc, Allocator!NextId, AllocatorInv, Allocator!TypeOK
<1>2. \A k \in 1..MaxPid : ~Allocator!InFree(k) /\ ~Allocator!InFree(k)'
  BY <1>1 DEF Allocator!InFree
<1>3. \A k \in 1..MaxPid : owners[k] = IF k <= max THEN 1 ELSE 0
  BY <1>2, Zenon DEF AllocatorInv, Allocator!Partition
<1>4. owners[max + 1] = 0
  BY <1>1, <1>3
<1>5. \A k \in 1..MaxPid : owners'[k] = IF k <= max + 1 THEN 1 ELSE 0
  BY <1>1, <1>3, <1>4 DEF AllocatorInv, Allocator!TypeOK
<1>6. Allocator!TypeOK' /\ max' <= MaxPid
  BY <1>1, <1>4 DEF AllocatorInv, Allocator!TypeOK
<1>7. Allocator!Partition'
  BY <1>1, <1>2, <1>5 DEF Allocator!Partition
<1> QED
  BY <1>1, <1>4, <1>6, <1>7, Zenon DEF AllocatorInv, Allocator!NextId

\* Drop of a Pid: its identifier goes to the top of the stack.
LEMMA DropPid ==
  ASSUME AllocatorInv, NEW id \in 1..MaxPid, Allocator!Drop(id)
  PROVE  AllocatorInv' /\ owners[id] = 1 /\ owners' = [owners EXCEPT ![id] = 0]
<1>1. /\ max' = max /\ owners' = [owners EXCEPT ![id] = @ - 1]
      /\ free' = Append(free, id)
      /\ max \in Nat
      /\ free \in Seq(Nat)
      /\ owners[id] > 0
  BY Zenon DEF Allocator!Drop, Allocator!dealloc, AllocatorInv, Allocator!TypeOK
<1>2. owners[id] = 1 /\ id <= max /\ ~Allocator!InFree(id)
  BY <1>1 DEF AllocatorInv, Allocator!Partition
<1>3. /\ Len(free') = Len(free) + 1
      /\ free'[Len(free) + 1] = id
      /\ \A i \in 1..Len(free) : free'[i] = free[i]
      /\ free' \in Seq(Nat)
      /\ Len(free) \in Nat
  BY <1>1
<1>4. /\ owners' = [owners EXCEPT ![id] = 0]
      /\ owners' \in [1..MaxPid -> Nat]
      /\ owners'[id] = 0 /\ \A k \in (1..MaxPid) \ {id} : owners'[k] = owners[k]
  BY <1>1, <1>2 DEF AllocatorInv, Allocator!TypeOK
<1>5. Allocator!TypeOK' /\ max' <= MaxPid
  BY <1>1, <1>3, <1>4, Zenon DEF AllocatorInv, Allocator!TypeOK
<1>6. \A i, j \in 1..Len(free') : i # j => free'[i] # free'[j]
  BY <1>2, <1>3 DEF AllocatorInv, Allocator!Partition, Allocator!InFree
<1>7. \A i \in 1..Len(free') : free'[i] \in 1..max'
  BY <1>1, <1>2, <1>3 DEF AllocatorInv, Allocator!Partition
<1>8. ASSUME NEW k \in 1..MaxPid PROVE Allocator!InFree(k)' <=> Allocator!InFree(k) \/ k = id
  BY <1>3 DEF Allocator!InFree
<1>9. ASSUME NEW k \in 1..MaxPid
      PROVE  owners'[k] = IF k <= max' /\ ~Allocator!InFree(k)' THEN 1 ELSE 0
  <2>1. owners[k] = IF k <= max /\ ~Allocator!InFree(k) THEN 1 ELSE 0
    BY Zenon DEF AllocatorInv, Allocator!Partition
  <2>2. CASE k = id
    BY <1>4, <1>8, <2>2, Zenon
  <2>3. CASE k # id
    BY <1>1, <1>4, <1>8, <2>1, <2>3, Zenon
  <2> QED BY <2>2, <2>3, Zenon
<1>10. Allocator!Partition'
  BY <1>6, <1>7, <1>9, Zenon DEF Allocator!Partition
<1> QED BY <1>2, <1>4, <1>5, <1>10, Zenon DEF AllocatorInv

LEMMA AllocatorStep == SomePids /\ AllocatorInv /\ [Allocator!Next]_Allocator!vars => AllocatorInv'
<1> SUFFICES ASSUME SomePids, AllocatorInv, [Allocator!Next]_Allocator!vars PROVE AllocatorInv'
  BY Zenon
<1>1. CASE Allocator!NextId <= MaxPid /\ Allocator!New(Allocator!NextId)
  BY <1>1, NewRecycled, NewFresh, Zenon
<1>2. ASSUME NEW id \in 1..MaxPid, Allocator!Drop(id) PROVE AllocatorInv'
  BY <1>2, DropPid, Zenon
<1>3. CASE UNCHANGED Allocator!vars
  BY <1>3, Zenon DEF Allocator!vars, AllocatorInv, Allocator!TypeOK, Allocator!Partition, Allocator!InFree
<1> QED
  BY <1>1, <1>2, <1>3, Zenon DEF Allocator!Next

\* The identifiers handed out by pid.rs are partitioned between the
\* Pids and the free stack in every reachable state (alloc and free).
THEOREM PartitionInvariant ==
  ASSUME SomePids PROVE Allocator!Spec => []Allocator!Partition
<1>init. Allocator!Init => AllocatorInv
  BY AllocatorInit, Zenon
<1>step. AllocatorInv /\ [Allocator!Next]_Allocator!vars => AllocatorInv'
  BY AllocatorStep, Zenon
<1>1. AllocatorInv => Allocator!Partition
  BY Zenon DEF AllocatorInv
<1> QED
  BY <1>init, <1>step, <1>1, PTL DEF Allocator!Spec

\* No Drop of a Pid ever fails an assertion of RecycleAllocator::free.
THEOREM DropIsSafe ==
  ASSUME SomePids PROVE Allocator!Spec => []Allocator!DropNeverPanics
<1>init. Allocator!Init => AllocatorInv
  BY AllocatorInit, Zenon
<1>step. AllocatorInv /\ [Allocator!Next]_Allocator!vars => AllocatorInv'
  BY AllocatorStep, Zenon
<1>1. AllocatorInv => Allocator!DropNeverPanics
  BY DEF AllocatorInv, Allocator!TypeOK, Allocator!Partition, Allocator!DropNeverPanics,
         Allocator!CanFree, Allocator!InFree
<1> QED
  BY <1>init, <1>step, <1>1, PTL DEF Allocator!Spec

\* pid.rs implements the abstract pool: Pid::new takes an identifier nobody
\* has, the Drop of a Pid gives back one that somebody has.
THEOREM PoolRefinement ==
  ASSUME SomePids PROVE Allocator!Spec => Allocator!ImplementsIdPool
<1>init. Allocator!Init => AllocatorInv
  BY AllocatorInit, Zenon
<1>step. AllocatorInv /\ [Allocator!Next]_Allocator!vars => AllocatorInv'
  BY AllocatorStep, Zenon
<1>1. Allocator!Init => Allocator!Pool!Init
  BY Zenon DEF Allocator!Init, Allocator!Pool!Init
<1>2. AllocatorInv /\ [Allocator!Next]_Allocator!vars => [Allocator!Pool!Next]_owners
  <2> SUFFICES ASSUME AllocatorInv, [Allocator!Next]_Allocator!vars PROVE [Allocator!Pool!Next]_owners
    BY Zenon
  <2>1. CASE Allocator!NextId <= MaxPid /\ Allocator!New(Allocator!NextId)
    <3>1. Allocator!NextId \in 1..MaxPid /\ owners[Allocator!NextId] = 0
      BY <2>1, NewRecycled, NewFresh, Zenon
    <3>2. owners' = [owners EXCEPT ![Allocator!NextId] = 1]
      BY <2>1, <3>1 DEF Allocator!New
    <3> QED BY <3>1, <3>2, Zenon DEF Allocator!Pool!Next, Allocator!Pool!Take
  <2>2. ASSUME NEW id \in 1..MaxPid, Allocator!Drop(id) PROVE [Allocator!Pool!Next]_owners
    BY <2>2, DropPid, Zenon DEF Allocator!Pool!Next, Allocator!Pool!Give
  <2>3. CASE UNCHANGED Allocator!vars
    BY <2>3, Zenon DEF Allocator!vars
  <2> QED BY <2>1, <2>2, <2>3, Zenon DEF Allocator!Next
<1> QED
  BY <1>init, <1>step, <1>1, <1>2, PTL DEF Allocator!Spec, Allocator!ImplementsIdPool, Allocator!Pool!Spec
=============================================================================
