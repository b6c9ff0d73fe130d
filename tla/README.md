# Verification of the Ark kernel

TLA+ models of the kernel in `src/`, TLC configurations that check them on
small instances, and TLAPS proofs for every instance. Paths below are relative
to `src/src/`. Every definition that stands for code is listed with its lines
in `PROJECT.json` ("map"). The models do what the code does, also where that is
not what a comment, a message or an assertion says; three of
these places have a run that ends with a counterexample, and all of them are
listed under [Where the code departs from its comments](#where-the-code-departs-from-its-comments).

## The system

Ark is a small Unix-like kernel for RISC-V in supervisor mode. It is configured
for one hart (`.cargo/config.toml`, `-smp 1`), and the models have one hart.
Concurrency comes from three sources: the timer interrupt, the context switches
it and the system calls cause, and nested kernel traps. Interrupts are off when
a trap enters from user mode. `worker` turns them on, `context_switch` does not
save the bit, and so **a system call runs unsplit until it first yields and can
be interrupted anywhere afterwards**. Most of the hard behaviour follows from
that one fact.

| Part | Source | State | Operations | Module |
|---|---|---|---|---|
| Pid allocator | `process/pid.rs` | `max`, free stack | alloc, free, drop | `PidAllocator`, abstract `IdPool` |
| Process manager, scheduler, condition variables, timer, sleep | `process/{mod,process,task,condvar}.rs`, `device/timer.rs`, `syscall/{process,custom}.rs` | process list, status, parent and children, waiting lists, current process | worker, fork, exit, wait_for, sleep_ticks, yields, timer handler | `Process` (instantiates `PidAllocator`) |
| Interrupt-safe locks | `core/{intrlock,interrupt_safe_cell,spinlock}.rs`, `cpu/mod.rs` | lock bits, borrows, `(depth, enabled)`, SIE | lock, unlock, push/pop, save and restore around a switch | `Intrlock` |
| Traps and context switch | `interrupt/trap.{rs,S}`, `process/switch.S` | satp, stvec, sscratch, sstatus, trap and task contexts | user trap, return, kernel trap, switch, fork, execve | `Trap` |
| Address space | `process/process_memory.rs`, `syscall/memory.rs`, `load_elf` | mapped pages, brk, stack top | execve, fork, brk, mmap, munmap, stack fault | `ProcessMemory` |
| Pipe | `device/pipe.rs` | ring, counters, open flags, two waiting lists | read, write, close | `Pipe` |
| Descriptors | `syscall/file.rs`, `process/process.rs` | tables, strong counts | open, close, dup, dup3, pipe2, fork, exit | `FileTable` |
| Dentry tree | `filesystem/{mod,fatfs}.rs`, `syscall/{file,utils}.rs` | dentries with weak parents, inode, loaded mark, cwd, open files | lookup, list, mkdir, link, mount, chdir | `DirTree` |
| Page allocator and page tables | `memory/{page_allocator,paging,address}.rs`, `trap.S`, `dma_alloc` | free frames, contents of frames, roots and tables, `maps`, satp, TLB | alloc, alloc_many, drop, map, unmap, translate, fork, execve, exit, `access_continuously`, user stores | `Paging`, abstract `AddressSpaces` |
| Block device, its interrupt, file contents | `device/virtio/block.rs`, `filesystem/fatfs.rs`, `interrupt/{plic,mod}.rs`, `syscall/file.rs` | cursors, positions, spinlocks, queue, PLIC, handler table | read, lseek, polled request, enable, claim, `handle_irq`, complete | `Block` |
| Console, boot, dispatch tables | see `PROJECT.json` | | | partly or not modelled |

How they meet: a system call enters through `Trap`, changes `ProcessMemory`,
`FileTable`, `DirTree` or `Process`, and blocks in `Process` or `Pipe` through a
condition variable. All of them lock process data with `Intrlock`.
`Process` composes `PidAllocator`: its `Clone` and `Reap` take the allocator's
own actions, and `PidAllocatorStep` checks that together they make only steps
the allocator's module allows. `ProcessMemory` decides which pages a call maps,
`Paging` what mapping them does to frames and tables; `Trap` follows satp
through traps and switches, `Paging` what the table it names holds meanwhile.
A read of a file goes from `FileTable`'s descriptor to `Block`.

## Modules

* **`PidAllocator`**: `New(id)` and `Drop(id)` are `Pid::new` and `Pid::drop`.
  `MaxPid` bounds the identifiers handed out. `owners` counts the Pids that have
  a number, so that a number handed out twice shows. `IdPool` is what a user of
  pids may assume: an identifier taken has no owner, and one given back has one.
  `ImplementsIdPool` is the refinement.
* **`Process`**: a step is a stretch of code that no interrupt can split. `pc`
  says where a process is in `wait_for` or `sleep_ticks`; `loop` says where the
  call goes on after `do_yield`. `on_cpu` is the stack the hart runs on and
  `cpu_proc` the kernel's own idea of it. Condition variables are sets of
  waiters (the code's order of wakeup is a list, and any order is allowed).
  `strong_count` counts the `Arc<Process>` clones that the list, the CPU and the
  kernel stacks hold at that point. The process list is keyed by pid, as the
  `BTreeMap` is: `Without` is what an insert or a remove takes out. The timer
  arrives wherever SIE is 1: in a process (`TimerInProcess`), and in the worker
  while nothing is scheduled, while `scheduler` goes through the list, and after
  `set_process` (`TimerInWorker`, `TimerInScheduler`, `TimerBeforeSwitch`). The last
  saves the worker's stack as the context of the process (`lost`); a switch to it,
  or to a worker context that was never saved, is a jump nothing can be said of,
  and the model stops. `split` and `cut` are history: the timer came
  between the halves of this wait, or of this `do_yield`.
* **`Intrlock`**: one action per instruction at which the outcome of an
  interrupt differs. A context is a kernel stack and a nesting level.
  `base` remembers the SIE a context had before it took its first lock.
* **`Trap`**: `mode`, `sstatus`, `stvec`, `satp` and `sscratch` of the hart,
  the `TrapContext` (satp and sstatus) and `TaskContext` of each process and the
  frames that kernel traps push. The sstatus of a new TrapContext, which nobody
  writes, is any; so `sret` may stay in supervisor mode, and the fault or
  interrupt that follows enters `trap_save_u` from there. A kernel trap comes
  wherever SIE is 1, also between `set_process` and `context_switch` and between
  the stores and the loads of the latter. `trapped` is history: who has been in
  user mode.
* **`ProcessMemory`**: one address space; a fork continues with either copy.
  Addresses are bytes, pages have `PAGE_SIZE` = 2 of them, so every alignment
  occurs. Only which pages are mapped, and for what, is kept. A segment has an
  offset in the file besides its address, since `load_elf` counts its
  pages by the one and places them by the other. A panic of the code (`assert`, `expect`, `todo!`) sets `halted`.
* **`Pipe`**: a byte is its position in the stream, so order and loss show in
  the contents. A preempted call may hold the Spinlock.
* **`FileTable`**: tables as sequences, `strong_count` from them and from the
  running calls. `AT_FDCWD` as a descriptor opens the working directory anew, so
  `dup` of it is an `Open` and `dup3` of it is `dup3_cwd`.
* **`DirTree`**: dentries as a function from numbers; `Collect` drops what
  nobody holds and turns weak parents of dropped dentries into `Gone`. A lookup
  of a file without a first cluster (`EmptyFile`) panics in `fatfs.rs`. A
  `getdents64` has room for none, one or two entries. `covered` is history: a
  directory that was mounted on after it had been read. The
  system calls are atomic since they hold the process's Intrlock throughout.
* **`Paging`**: frames hold `Fanout` entries; what programs and devices write are
  entries as well, so a frame reused without clearing would be walked. A loop
  over pages (`copy_from`, `load_elf`, `access_continuously`) takes one step per
  page with `job` as its state, and nothing comes between. `leaked` has the
  frames `alloc_many` takes beyond those it returns. `tlb` caches a walk at any
  moment. `AddressSpaces` is what a program may assume: its pages are its own,
  start cleared or with its image, and are copied by fork; `View` reads them off
  the tables.
* **`Block`**: a byte of the device is its own address, so `got` shows where the
  bytes of a call came from. Each spinlock is a step of its own, and the
  interrupt handler runs on top of what it interrupted. The fatfs crate is there
  as the chunks it asks for: up to the end of a cluster, the file or the buffer.
* **`MC*`**: values for the constants and the symmetry sets.
* **`*Proofs`**: the TLAPS proofs of the module of that name; those of
  `PidAllocator` are at the end of `ProcessProofs`.

## Runs that pass

| Run | Instance | Checks |
|---|---|---|
| `Process` | 3 processes, one of which sleeps 2 ticks at a time, waits for any child and for pid 2, timers anywhere, fair | `LocksLeftOnlyByTimer`, `EveryProcessHasAReaper`, `PidsUnique`, `StrongCountsAsExpected`, `SuspendedOnItsCondvar`, `OnlyCurrentIsRunning`, `ZombieIsFinal`, `OnlyReapedByParent`, `PidAllocatorStep`, `NoStarvation`, `SleepReturns`, `WaitReturns` |
| `Intrlock` | 2 threads, 2 locks, one nested trap per stack | `GuardsAreNotPreempted`, `SieRestored`, `PopNeverPanics` |
| `Pipe` | 3 processes, 2 slots, 5 bytes, timers anywhere | `RingHoldsLastBytes`, `FifoUnlessLapped`, `NobodyYieldsWithLock` |
| `ProcessMemory` | 8 pages of 2 bytes, 5 operations, three programs | `UsableMemoryIsMapped`, `RegionsInBounds`, `MmapTakesFreePages`, `MmapFindsRoom` |
| `FileTable` | 2 processes, 2 files, tables of 3 | `ClosedIsUnused`, `LastReferenceCloses`, `NoDescriptorLost`, `ForkInherits` |
| `Trap` | 2 processes, one execve each, two nested traps, any sstatus of a new process | `SwapsArePaired`, `InterruptsUseKernelVector`, `KernelTrapStaysInKernel` |
| `DirTree` | 2 names, a FAT volume with a subdirectory and an empty file, 7 calls, 8 dentries | `ChildrenAreOfTheVolume`, `FullpathLeadsBack`, `ListingMissesNothing`, `ReadDirectoryIsStable` |
| `Paging` | 2 processes, 24 frames of 3 entries, 3 user pages, 3 calls | `FramesAccounted`, `MapsMatchTable`, `TranslationIsCurrent`, the refinement of `AddressSpaces` |
| `Block` | 2 files of a volume and the device, 3 processes, 3 calls, fair | `HandlerFindsDeviceIdle`, `ReadsOwnBytes`, `InterruptIsServiced` |

`TypeOK` of a module gives the types of its variables; where the module has
proofs it, or a `TypeInv`, is part of the invariant that is proved.
`PidAllocator` has no run of its own: `PidAllocatorStep` checks it inside
`Process`, and its three properties are proved. Each property's comment in the module says
what it means; the mutants in `PROJECT.json` give, for each, a plausible change
of the code that breaks it.

**Bounds.** Three processes are a parent, a child and a third that exits,
adopts or competes; one sleeper and one pid to wait for keep the run within
minutes, with the liveness properties on the whole graph of states. Two ring slots and five bytes wrap the ring twice. Two
locks and two threads give both orders of dropping guards. Two-byte pages make
every address either aligned or not, and eight pages leave room for a gap
between heap, mmap area and stack; five operations include fork, brk and mmap
in any order. Two names, one on disk under a subdirectory, make
lookup before listing, listing before lookup, and mounting on each.
In `Paging` pages 0 and 1 share their last table and page 3 has another, buffers
of one page, of two, and up to a page boundary occur, the read buffer of three
frames is rounded to four, and three calls let a frame go from a process through
the allocator to another one as page, table or stack; the 24 frames are enough
for that, and few enough that the allocator also runs out. `MaxOrder` bounds a
request to 2^12 pages. In `Block` one
file has two clusters that are not in order, reads begin and end inside sectors
of two bytes, cross them and reach the end of the device, and `lseek` goes
before the start and past the end.
`CHECK_DEADLOCK FALSE` is set where the system may stop: a model has used up
its bound, the kernel panicked, or a spin never ends (the spins that preemption
makes possible are listed as hazards).

**Fairness.** `Process`: the worker loops for ever (weak fairness). The timer is
rearmed by every handler and its interrupt stays pending while interrupts are
off, so being enabled again and again is enough for it to be taken (strong
fairness on `Timer`). A system call that gets the hart again and again goes on
(strong fairness of `KernelStep(p)`): between two ticks the hart executes far more
than one stretch of it, so the timer cannot stop it at the same point for ever.
Nothing is assumed about user code: a process may loop for ever. `Pipe` has the
same, and strong fairness of `Dispatch`, which is `Process`'s `NoStarvation`.
`Block` adds that the device answers a request (weak fairness of
`DeviceCompletes`) and that a pending external interrupt is taken (strong, as for
the timer).

**What the timer can break.** In `Process` no schedule is excluded, so its
properties name the timers that do harm instead. `Stopped` is a kernel that
panicked, jumped through a lost context, or spins because the timer took the hart
from the holder of a lock. `LeftBehind(p)` is a process that lost its context
in the worker, missed its wakeup between the halves of a wait (the one
`process/condvar.rs:36` admits), or was left with the status Running because its
`do_yield` was split after `yield_process` (`process/task.rs:79`): try_yield
switches it out Ready, and when it is scheduled again it gives up the hart as
Running, which `scheduler` never chooses. `SleepReturns` and `WaitReturns` say that
the calls return unless one of these happened, `NoStarvation` that a Ready
process gets the hart unless it lost its context or the kernel stopped, and
`SuspendedOnItsCondvar`, `OnlyCurrentIsRunning` and `LocksLeftOnlyByTimer` that these
timers are the only causes. `WaitReturns` and `SuspendedOnItsCondvar` are about
children that the waiting process forked itself: `exit` hands a child to init
without a wakeup, so nothing of the kind holds of an adopted one.
`Pipe_data` assumes that no timer arrives inside a system call (`KernelPreemption`
of `Pipe`): its reader is lost without one.

## What is proved

TLAPS proves the following for every value of the constants, under the
assumptions the modules state: `SomePids` (at least one pid, a hypothesis of the
theorems themselves) and the `ConstantsAssumption` of each module. These say that
the special values differ from the processes, files and tables, that sizes are
positive numbers, and what the code relies on besides:

* `Process`, `FileTable`, `Intrlock`: finitely many processes, at least one
  thread, finitely many locks.
* `Block`: the device is a whole number of sectors, its interrupt is one of the
  three whose enable bit the code computes right, and every byte of a file lies
  in a cluster.
* `ProcessMemory`: pages have more than one byte and `mmap_base` is below the
  stack. A Load segment does not both begin in page 0 and have no bytes in the
  file: `load_elf` takes page 0 for "no page yet" and would skip it, so that
  `UsableMemoryIsMapped` fails (`process/process.rs:148`).
* `Paging`: no user page and no page of the trampoline's window, nor the page
  behind a user page, is in the kernel's gigabyte (`UserPage`), since a walk
  there would meet the gigabyte page; buffers and stacks have between one and
  2^`MaxOrder` pages. `Fanout`, `PAGE_SIZE`, the number of frames and of processes
  are arbitrary, and so is the block of frames that the allocator picks.

The proofs, with the inductive invariant of each:

* **`ProcessProofs`**, with the timer anywhere: `TypeCorrect`, `Reaper`,
  `UniquePids`, `StrongCounts`, `ZombieStays`, `LockHolders`, `NoLostWakeup`,
  `OthersNotRunning`, `ReapedByParent` and `PidStep`.
  `EveryProcessHasAReaper` and `StrongCountsAsExpected` are not
  inductive. That `exit` finds exactly three strong references needs that the
  process on the hart is `CPU::proc` and was not left in `try_yield` (`CpuInv`);
  that `wait_for` finds one needs that a zombie off the hart has unwound its
  stack (`ZombieInv`), hence that nothing wakes a zombie, hence that whoever is
  on a condition variable's list is Suspend and on one list only (`RegInv`),
  hence the status of the process on the hart by where it is in its call
  (`RunInv`, `LoopInv`, `PmInv`). `TreeInv` is the tree itself, `FreshInv` says
  that an object not created yet is nowhere, `PidInv` that the pids of the list
  and the free stack do not overlap. There is one lemma per action. The steps
  that only move the process on the hart along its call share `MoveInv`.
  `LockHolders` follows from the same invariant: only a step of the worker takes
  a process off the hart, and `RunInv` and `PmInv` say which locks it can have
  at a place where it is not preempted. `ReapedByParent` needs that a pid names one
  process of the list (`PidInv`), since insert and remove go by pid; the rest is
  `TreeInv` and the guard of the reap. `PidStep` needs that no identifier up to
  `max` is lost (`NoneLost`): without it the allocator might have handed out more
  numbers than there are processes. `NoLostWakeup` is `SuspendedOnItsCondvar`, with
  no hypothesis on the timer: a wait that the timer split is in `split`.
  `SuspendInv` says the same of the places of a call on the way there (`Sleeps`,
  `Waits`), before the process has left the hart, and that a process stays among
  the children of the one that forked it while that one lives (`Forked`).
  `OthersNotRunning` is `OnlyCurrentIsRunning`, where the exception is `cut`.
* The allocator of pids alone, in the same module, with `AllocatorInv` = its
  `TypeOK`, `max <= MaxPid` and `Partition`, which is inductive as it stands:
  `PartitionInvariant`, `DropIsSafe` and `PoolRefinement`. The only work is what
  `Append` and the removal of the last element do to a stack without repetitions.
* **`IntrlockProofs`**: `NotPreempted`, `DepthIsExact`, `SieIsRestored` and
  `PopIsSafe`. The heart of `Inv` is that all contexts except the one at the top
  of the running stack hold no guard and were left with interrupts enabled
  (`OthersInv`, `StackInv`): a context with a guard cannot be interrupted, so
  the one `(depth, enabled)` pair of the CPU always belongs to the running
  context, whatever the nesting. `TopInv`, `LocksInv`, `YieldInv` and `BaseInv`
  tie the pair to the place in `lock`, `unlock` or `do_yield`. A lemma on
  cardinalities counts the guards.
* **`PipeProofs`**, with the timer anywhere: `RingIsRight`, `Fifo` and
  `LockIsDropped`. `DataInv` adds to the two data properties that the reader is
  never ahead of the writer, and that without an overrun the distance is at most
  `PIPE_SIZE`; then the slots of the unread bytes are distinct modulo
  `PIPE_SIZE`, which is the one arithmetic lemma. `LockInv` adds who holds the
  lock at each place of a call.
* **`TrapProofs`**, with timers anywhere and any sstatus of a new process:
  `SwapsPaired`, `KernelVector`, `KernelTrapReturns`, and two theorems on what the
  runs that end with a counterexample found. `UserReturn` says that the assertion
  of `user_trap_handler` fails only for a process that has never been in user mode
  (`FailsOnFirstReturnOnly`), and `OwnContexts` that a context leaves its
  process's stack only at a timer in the worker's window (`LostOnlyInWindow`).
  `RunInv` says which thread can be at which place, `SavedInv` what the saved
  contexts are, `FrameInv` what the nested frames of each thread return to,
  `SwapInv` what satp, stvec and sscratch are on the user's and on the kernel's
  side of the swap, and `TrappedInv` what is in the TrapContext of a process that
  has trapped.
* **`FileTableProofs`**: `ClosedUnused`, `LastCloses`, `DescriptorsKept` and
  `ChildInherits`. A file not created yet is nowhere (`FreshInv`), a running
  call's file is in its own table (`UsingInv`), so the end of a call never drops the
  last reference, and an unused process has no table (`UnusedInv`). The strong
  count that `close` and `exit` test runs over all tables and calls; `CountIsOne` and
  `CountIsOwn` say what its value tells about them. `allocate_fd` and the holes
  of a table are lemmas on sequences.
* **`BlockProofs`**: `HandlerIsFree` and `OwnBytesRead`. A call that reads keeps
  the hart, with interrupts off, from its start to its end (`CallInv`), so each
  lock belongs to the one call at the place that took it, or to the handler
  (`HolderInv`), and a request is outstanding only while somebody polls
  (`RequestInv`). `DataInv` follows the position of a call through clusters,
  sectors and the cursor that all files share.
* **`ProcessMemoryProofs`**: `UsableMemory`, `Bounds`, `SearchIsSafe`,
  `SearchIsComplete` and `MmapNeverRemaps`. `MemInv` adds to the first two
  properties that the end of the program and the top of the stack are page
  boundaries, that a loaded program does not end at 0, and that brk is the end of
  the program before one is loaded. Growing and shrinking the heap are then
  arithmetic on pages (`PageOf`, `Quotient`, `RoundedUp`). The two theorems on the
  search of `mmap` hold of every set of mapped pages that `MemInv` allows: a free range
  either ends at `mmap_base` or can be moved up until it meets a mapped page, and
  that place is one the search tests. Both leave out the sizes for which a test
  of the search underflows (`SearchEnds`), where the code panics.
* **`PagingProofs`**: `EveryFrameHasOneOwner`, `TablesAgreeWithMaps`,
  `HartUsesItsTable` and the refinement `SeparateAddressSpaces`. The tables are in the same frames as everything else, so
  the three properties need each other. `OwnInv` gives each frame one use, one
  owner and one page; it is stated with a function and not with the sum of
  `FramesAccounted`, because a step changes it at a few frames.
  `TableInv` says that each root is the top of a tree of its owner's tables, each
  table reached from one entry only, so that writing a leaf changes one
  translation. `MapsInv` is `MapsMatchTable` for all user pages, `WindowInv` says
  that the kernel's table maps the trampoline's window and no other user page, and
  only while `access_continuously` runs, `JobInv` and `DeadInv` what a loop in progress
  and a process that is gone may own, `HartInv` which table each TrapContext names.
  The lemmas below these are about the digits of a page number, the
  rounding of requests, the walk, and what allocations and drops do to owners.
  That a non-empty set of numbers has a least member, which the loops over pages
  and the rounding need, comes from the library's theorem that the finite sets are
  well-founded under inclusion (`LeastNatural`), not from induction.
  The refinement mapping `View` walks the tables; by `MapsInv` it is what `Seen` reads
  off `maps` (`ViewIs`). A step then either keeps all pages (`PagesKept`: it writes
  to tables and free frames only) and is a stutter, or is one of the five steps
  of `AddressSpaces` for one process, because no frame is a page of two
  (`OwnPages`). The one thing `Inv` does not have is `CopyInv`: what the child of a
  fork has so far is what the parent has at the same pages. When the copy is
  complete the child's pages appear at once, as `Fork` has it.

Only model-checked:

* The liveness properties (`NoStarvation`, `SleepReturns`, `WaitReturns`,
  `InterruptIsServiced`): fairness is out of the prover's reach.
* All of `DirTree`. Every call looks up a path by a fold over its components, and ends
  with `Collect`, a recursive function: that these keep an invariant of the tree,
  for paths and trees of any depth, is induction over data.
* `TypeOK` of `ProcessMemory`, which is about the bounds of the instance: the assumption
  leaves the addresses of a program's segments arbitrary. Its proofs need natural
  numbers only, which `MemInv` has.

## Where the code departs from its comments

Three runs end with a counterexample.

* `Pipe_data`: a reader that finds the pipe empty waits on `wait_write`
  (`device/pipe.rs:104`), and a writer wakes `wait_read`. Nobody wakes the reader
  when bytes arrive.
* `Trap_window`: the worker sets `CPU::proc` with interrupts enabled before it
  switches (`process/mod.rs:73`). A timer there yields the chosen process on the
  worker's stack and saves the worker's context as the process's.
* `Trap_status`: `Process::new` does not write `sstatus` of the new trap context
  (`process/process.rs:101`) and `alloc_many` does not clear pages
  (`memory/page_allocator.rs:113`), so `trap_ret_u` can return to supervisor mode,
  against the assertion `User trap not from user!` (`interrupt/trap.rs:156`).

The models reproduce the following as well. They have no run of their own;
where the code panics or spins, the model stops (`halted`, `panicked`).

* `core/intrlock.rs:40`: `lock` takes the bit before it disables interrupts,
  the comment in line 4 excludes interrupts as long as the lock is held.
  `core/interrupt_safe_cell.rs:38`: interrupts come back before the `RefMut` is
  dropped.
* `process/task.rs:79`: a timer after `yield_process` in `do_yield` leaves the
  process, once it is scheduled again, with the status Running off the hart.
* `process/process.rs:449`: `exit` moves the children to init's list but leaves
  their `parent`.
* `process/process.rs:506`: `wait_for` of one's own pid locks one's data twice.
* `device/pipe.rs:59`: the test for a full buffer compares the unreduced
  `n_write` with a reduced `n_read`, so a writer never waits and laps the reader
  (`FifoUnlessLapped` says what holds until then).
  `device/pipe.rs:156`: closing the write end wakes the wrong list.
* `process/process_memory.rs`: `copy_from` leaves `min_brk` 0 (145); growing from
  a brk one past a page boundary maps a page twice (98); a request larger than
  the room below underflows (159).
* `process/process.rs:148`: for a Load segment without bytes in the file
  `load_elf` maps the pages from 1 on, which clash with earlier segments.
* `syscall/file.rs:410`: `dup3` closes the file of its new descriptor although
  others may share it.
* `filesystem/mod.rs`: the first listing of a directory replaces the dentries
  that lookups had loaded (545), so an open file may hold one whose parent is
  gone (377) or that carries a mount; `mount` tests only loaded dentries for
  emptiness (321); a directory that was listed stays marked as loaded after a
  mount (548), and the volume's entries are not listed.
* `filesystem/fatfs.rs:85`: a lookup that loads a file without a first cluster,
  which an empty file of a FAT volume has not, panics.
* `syscall/file.rs:348`: `getdents64` returns 0, as at the end of the directory,
  when the next entry does not fit the buffer.
* `memory/page_allocator.rs:114`: the frames between the number `alloc_many` is
  asked for and the next power of two never come back.
* `memory/address.rs:292`: `end_page` is a page too many for a buffer that ends
  at a page boundary; if that page is not mapped the `unwrap` fails.
* `device/virtio/mod.rs:24`: `dma_alloc` clears half of each page, since the
  elements of the slice are 32-bit integers.
* `device/virtio/block.rs`: a read that goes beyond the end of the device panics
  (206), and so does one at the end (199); `seek` before the start panics or
  wraps (41, 42).
* `interrupt/plic.rs:90` and `108`: the enable bit is computed with 4 bits to the
  byte and is the interrupt's own only below 4. `ConstantsAssumption` of `Block`
  has `Irq \in 1..3`, and the device of `.cargo/config.toml` has 1.

Some are below the level of the models. `interrupt/trap.S:42` stores `x1` where
it should load it. `kernel_sp` (`process/process.rs:82`) is computed from the
last page of the stack, one stack size too high less a page, so the kernel
stacks lie in frames that may have another owner: `Paging` leaves out what the
kernel writes on its stacks. `handle_irq` never acknowledges the interrupt at
the device: in `Block` each completed request raises it once. `read` and
`write` of `syscall/file.rs` take a user buffer for physically contiguous (the
`TODO` in line 97 says so), and neither module has that copy.

## Not modelled

* Exit codes, texts, the layout of structures and of the auxiliary vector, and
  the copy between a user's buffer and the kernel's in `read` and `write`.
* The flags of page table entries, the mappings of device memory, the kernel
  heap. The buddy allocator and the `fatfs` and VirtIO crates are not in this
  repository: they are there as the blocks, chunks and completions they may
  give. A FAT directory's own `.` and `..` entries are left out.
* Writing to the block device returns 0 (`device/virtio/block.rs:210`), and
  writing to a FAT file is a `todo!()`.
* The console is the firmware's, one byte at a time. Boot runs alone; the `Init`
  predicates are what it leaves.
* More than one hart: `cpu/mod.rs` has an array of CPUs, the kernel starts one.
* Spins that kernel preemption makes possible (process manager, timer list, pipe
  lock) are states of the models. No property says that they do not happen,
  because they can; `LocksLeftOnlyByTimer` and `NobodyYieldsWithLock` say that
  they happen in no other way.

## Plan

The order is by how much depends on a part.

1. In place: processes and scheduling, the locks under them, traps, pipe,
   descriptors, address space, dentries, frames and page tables, the block device
   and its interrupt; proofs of all safety and action properties of these but
   those of the dentries.
2. Composition of `Process` and `Pipe`: `exit` closes pipe ends while it holds the
   process manager's lock (`process/process.rs:459`), and a pipe's waiters are
   scheduled as `Process` says.
