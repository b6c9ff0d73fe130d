------------------------------- MODULE Paging -------------------------------
(***************************************************************************)
(* Physical pages and page tables: the page allocator (memory/             *)
(* page_allocator.rs), the three-level tables (memory/paging.rs), the      *)
(* pages ProcessMemory maps in them, the window access_continuously opens  *)
(* in the kernel's table (memory/address.rs), and the TLB that trap.S and  *)
(* flush_page_table flush.                                                 *)
(*                                                                         *)
(* A frame holds Fanout page table entries; what a program stores in its   *)
(* pages is entries too, as the hardware would read them.  Everything      *)
(* happens in system calls that run with interrupts off; one that loops    *)
(* over pages takes a step per page, and no other step comes between.      *)
(* Which pages brk, mmap and a growing stack map is in module              *)
(* ProcessMemory: here a call maps or unmaps any one page.  Addresses are  *)
(* below the kernel's: no walk meets the gigabyte page.  Flags, the tables *)
(* of device memory and what the kernel writes on its stacks are left out. *)
(***************************************************************************)
EXTENDS Integers, FiniteSetsExt

CONSTANTS
    Space,          \* processes
    InitSpace,      \* the first of them, which never exits
    Kernel,         \* the kernel's own table
    FrameCount,     \* physical pages given to the allocator
    Fanout,         \* entries of a table: 512
    KernelIndex,    \* top-level index of KERNEL_SPACE_BASE
    Trampoline,     \* the page of 0xC000_0000
    PAGE_SIZE,
    Vpn,            \* the user pages in play
    ImagePages,     \* those load_elf fills from the binary
    UserStack,      \* and the one increase_user_stack adds
    StackPages,     \* PROCESS_KERNEL_STACK_SIZE: 512
    BufferPages,    \* the sizes of the buffers VirtIOBlock::read allocates
    TlbSize,        \* bound: walks the hart caches
    MaxCalls        \* bound: system calls followed

Tables == Space \cup {Kernel}
Frame == 0..(FrameCount - 1)
Index == 0..(Fanout - 1)
NoFrame == -1
KernelImage == FrameCount       \* what the gigabyte page maps; not allocated
MaxOrder == 12                  \* bound: no request for more than 2^MaxOrder pages

\* The indexes in the tables of the three levels.
get_pte_indexes(v) ==
    <<(v \div (Fanout * Fanout)) % Fanout, (v \div Fanout) % Fanout, v % Fanout>>

\* The pages below and above the kernel's gigabyte.
UserPage == {v \in 0..(Fanout * Fanout * Fanout - 1) : get_pte_indexes(v)[1] # KernelIndex}

ASSUME ConstantsAssumption ==
    /\ InitSpace \in Space /\ Kernel \notin Space
    /\ FrameCount \in Nat \ {0}
    /\ Fanout \in Nat \ {0} /\ KernelIndex \in Index
    /\ {Trampoline, Trampoline + 1} \subseteq UserPage
    /\ \A v \in Vpn : {v, v + 1} \subseteq UserPage
    /\ ImagePages \subseteq Vpn /\ UserStack \in Vpn
    /\ PAGE_SIZE \in Nat \ {0}
    /\ BufferPages \cup {StackPages} \subseteq 1..(2 ^ MaxOrder)
    /\ TlbSize \in Nat /\ MaxCalls \in Nat

VARIABLES
    free,       \* PAGE_ALLOCATOR
    leaked,     \* allocated, and nobody will give it back
    mem,        \* the contents of each frame
    root,       \* PageTable::entries, NoFrame without a process
    pages,      \* PageTable::pages
    maps,       \* ProcessMemory::maps: page -> frame
    stack,      \* ProcessData::kernel_stack
    dma,        \* frames of the virtqueues
    zombies,    \* processes that have exited
    user,       \* the process in user mode, else Kernel
    satp,       \* the table the hart uses: a frame
    context,    \* TrapContext::satp: the table to switch to
    tlb,        \* what the hart has cached: page -> frame
    job,        \* a loop over pages that is under way
    halted,     \* "no", or why the kernel stopped
    calls

allocation == <<free, leaked, mem>>
tables == <<root, pages, maps>>
processes == <<stack, zombies, context, dma>>
hart == <<user, satp, tlb>>
vars == <<allocation, tables, processes, hart, job, halted, calls>>

-----------------------------------------------------------------------------
(* The page allocator *)

\* How many frames the allocator takes for a request: next_power_of_two.
Rounded(count) == Min({2 ^ k : k \in 0..MaxOrder} \ 0..(count - 1))

\* The buddy system's blocks of n frames.
Block(fr, n) == {f \in fr : f % n = 0 /\ f..(f + n - 1) \subseteq fr}
CanAlloc(fr, count) == Block(fr, Rounded(count)) # {}

\* LockedFrameAllocator::alloc, when it succeeds: some block.
alloc(fr, count) == CHOOSE f \in Block(fr, Rounded(count)) : TRUE

\* The frames that are then no longer free.
Taken(fr, count) == LET f == alloc(fr, count) IN f..(f + Rounded(count) - 1)

\* Those of PhyPage::alloc_many that get a PhyPage and come back one by one.
Owned(fr, count) == LET f == alloc(fr, count) IN f..(f + count - 1)

\* PhyPage::drop, of each page of fs.
Drop(fr, fs) == fr \cup fs

-----------------------------------------------------------------------------
(* Page tables *)

Invalid == [valid |-> FALSE, frame |-> 0]
Entry(f) == [valid |-> TRUE, frame |-> f]
Zero == [i \in Index |-> Invalid]

\* What load_elf, and what a program or a device stores: it may look like
\* entries.
Image == [i \in Index |-> Entry(1)]
Junk == [i \in Index |-> Entry(0)]

\* map_big for the kernel, in a new table.
NewTable == [Zero EXCEPT ![KernelIndex] = Entry(KernelImage)]

\* The walk of find_pte, in memory m from the table at r.
Second(m, r, v) == m[r][get_pte_indexes(v)[1]]
Third(m, r, v) == m[Second(m, r, v).frame][get_pte_indexes(v)[2]]
Leaf(m, r, v) == m[Third(m, r, v).frame][get_pte_indexes(v)[3]]

translate(m, r, v) ==
    IF Second(m, r, v).valid /\ Third(m, r, v).valid /\ Leaf(m, r, v).valid
    THEN Leaf(m, r, v).frame ELSE NoFrame

\* PhyPage::alloc clears the page.
PhyPage_alloc(m, f) == [m EXCEPT ![f] = Zero]

\* An allocator, memory and the pages of a table, while they change together.
State(fr, m, p) == [free |-> fr, mem |-> m, pages |-> p]

\* Entry i of table t, which gets a table below it if it has none.
Descend(x, t, i) ==
    LET f == alloc(x.free, 1)
    IN  IF x.mem[t][i].valid THEN x
        ELSE State(x.free \ {f}, [PhyPage_alloc(x.mem, f) EXCEPT ![t][i] = Entry(f)],
                   x.pages \cup {f})

find_pte_create(x, r, v) ==
    LET i == get_pte_indexes(v)
        y == Descend(x, r, i[1])
    IN  Descend(y, y.mem[r][i[1]].frame, i[2])

SetLeaf(m, r, v, e) == [m EXCEPT ![Third(m, r, v).frame][get_pte_indexes(v)[3]] = e]

\* PageTable::map of a page that is not mapped.
map(x, r, v, f) ==
    LET y == find_pte_create(x, r, v)
    IN  [y EXCEPT !.mem = SetLeaf(y.mem, r, v, Entry(f))]

\* How many tables find_pte_create has to allocate.
Missing(r, v) ==
    IF ~Second(mem, r, v).valid THEN 2 ELSE IF ~Third(mem, r, v).valid THEN 1 ELSE 0

-----------------------------------------------------------------------------
NoMap == [v \in {} |-> 0]
With(f, x, y) == [z \in DOMAIN f \cup {x} |-> IF z = x THEN y ELSE f[z]]
Without(f, x) == [z \in DOMAIN f \ {x} |-> f[z]]
MappedFrames(s) == {maps[s][v] : v \in DOMAIN maps[s]}

NoJob == [op |-> "none", s |-> InitSpace, t |-> InitSpace, va |-> 0, size |-> 0, n |-> 0]
Job(op, s) == [NoJob EXCEPT !.op = op, !.s = s]

\* page_allocator::init and paging::init; free memory holds anything.
Init ==
    /\ free = Frame \ {0} /\ leaked = {}
    /\ mem = [f \in Frame |-> IF f = 0 THEN NewTable ELSE Junk]
    /\ root = [t \in Tables |-> IF t = Kernel THEN 0 ELSE NoFrame]
    /\ pages = [t \in Tables |-> IF t = Kernel THEN {0} ELSE {}]
    /\ maps = [s \in Space |-> NoMap]
    /\ stack = [s \in Space |-> {}] /\ zombies = {} /\ dma = {}
    /\ context = [s \in Space |-> NoFrame]
    /\ user = Kernel /\ satp = 0 /\ tlb = NoMap
    /\ job = NoJob
    /\ halted = "no"
    /\ calls = 0

Exists(s) == root[s] # NoFrame
Live(s) == Exists(s) /\ s \notin zombies

\* The kernel begins something: a call of a process is counted.
Idle == halted = "no" /\ user = Kernel /\ job = NoJob
Call == Idle /\ calls < MaxCalls /\ calls' = calls + 1

\* A further step of a call.
Continue(op) == halted = "no" /\ job.op = op /\ UNCHANGED calls

\* An assertion, an unwrap or an expect fails.
Panic(why) ==
    /\ halted' = why
    /\ UNCHANGED <<allocation, tables, processes, hart, job>>

\* PAGE_ALLOCATOR has n pages, taken one by one.
Enough(n) == Cardinality(free) >= n

\* The page PhyPage::alloc returns next.
NextPage == alloc(free, 1)

\* copy_u8 fills it.
Filled(c) == [PhyPage_alloc(mem, NextPage) EXCEPT ![NextPage] = c]

\* ProcessMemory::map of the next page, in the memory m its caller leaves;
\* set_pte asserts that nothing is mapped there.
MapPage(s, v, m) ==
    IF ~Enough(1 + Missing(root[s], v)) THEN Panic("OutOfMemory")
    ELSE IF translate(mem, root[s], v) # NoFrame THEN Panic("AlreadyMapped")
    ELSE LET x == State(free \ {NextPage}, m, pages[s])
             y == map(x, root[s], v, NextPage)
         IN  /\ free' = y.free /\ mem' = y.mem
             /\ pages' = [pages EXCEPT ![s] = y.pages]
             /\ maps' = [maps EXCEPT ![s] = With(@, v, NextPage)]
             /\ UNCHANGED <<leaked, root, processes, hart, job, halted>>

-----------------------------------------------------------------------------
(* Processes *)

\* Process::new: alloc_many for the kernel stack, then the root of the table,
\* then work j.
New(s, j) ==
    LET taken == Taken(free, StackPages)
        r == alloc(free \ taken, 1)
    IN  IF ~CanAlloc(free, StackPages) \/ free = taken THEN Panic("OutOfMemory")
        ELSE /\ free' = free \ (taken \cup {r})
             /\ leaked' = leaked \cup (taken \ Owned(free, StackPages))
             /\ mem' = [mem EXCEPT ![r] = NewTable]
             /\ root' = [root EXCEPT ![s] = r]
             /\ pages' = [pages EXCEPT ![s] = {r}]
             /\ stack' = [stack EXCEPT ![s] = Owned(free, StackPages)]
             /\ context' = [context EXCEPT ![s] = r]
             /\ job' = j
             /\ UNCHANGED <<maps, dma, zombies, hart, halted>>

\* The first process: its binary is in the kernel's image.
spawn ==
    /\ Idle /\ UNCHANGED calls
    /\ ~Exists(InitSpace) /\ dma # {}
    /\ New(InitSpace, Job("load", InitSpace))

fork(p, c) ==
    /\ Call
    /\ Live(p)
    /\ ~Exists(c) /\ c # InitSpace
    /\ New(c, [Job("fork", p) EXCEPT !.t = c])

\* ProcessMemory::copy_from, a page at a time.
copy_from ==
    /\ Continue("fork")
    /\ LET rest == DOMAIN maps[job.s] \ DOMAIN maps[job.t]
       IN  IF rest = {}
           THEN job' = NoJob /\ UNCHANGED <<allocation, tables, processes, hart, halted>>
           ELSE MapPage(job.t, Min(rest), Filled(mem[maps[job.s][Min(rest)]]))

mmap_NotCleared(s, v) == Call /\ Live(s) /\ MapPage(s, v, mem)

\* brk, mmap, or a fault just below the stack.
mmap(s, v) == Call /\ Live(s) /\ MapPage(s, v, PhyPage_alloc(mem, NextPage))

unmap_TableKept(s, v) ==
    /\ Call
    /\ Live(s) /\ v \in DOMAIN maps[s]
    /\ free' = Drop(free, {maps[s][v]})
    /\ maps' = [maps EXCEPT ![s] = Without(@, v)]
    /\ UNCHANGED <<leaked, mem, root, pages, processes, hart, job, halted>>

\* ProcessMemory::unmap: the page leaves maps, and is dropped, and
\* PageTable::unmap asserts that it was mapped.
unmap(s, v) ==
    /\ Call
    /\ Live(s) /\ v \in DOMAIN maps[s]
    /\ IF translate(mem, root[s], v) = NoFrame THEN Panic("NotMapped")
       ELSE /\ mem' = SetLeaf(mem, root[s], v, Invalid)
            /\ free' = Drop(free, {maps[s][v]})
            /\ maps' = [maps EXCEPT ![s] = Without(@, v)]
            /\ UNCHANGED <<leaked, root, pages, processes, hart, job, halted>>

reset_PagesForgotten(s) ==
    LET r == alloc(free, 1)
    IN  /\ free' = Drop(free \ {r}, MappedFrames(s))
        /\ mem' = [mem EXCEPT ![r] = NewTable]
        /\ root' = [root EXCEPT ![s] = r]
        /\ pages' = [pages EXCEPT ![s] = {r}]
        /\ maps' = [maps EXCEPT ![s] = NoMap]

\* ProcessMemory::reset: a new root, then the pages go, then the old tables.
reset(s) ==
    LET r == alloc(free, 1)
    IN  /\ free' = Drop(free \ {r}, MappedFrames(s) \cup pages[s])
        /\ mem' = [mem EXCEPT ![r] = NewTable]
        /\ root' = [root EXCEPT ![s] = r]
        /\ pages' = [pages EXCEPT ![s] = {r}]
        /\ maps' = [maps EXCEPT ![s] = NoMap]

execve(s) ==
    /\ Call
    /\ Live(s)
    /\ IF free = {} THEN Panic("OutOfMemory")
       ELSE reset(s) /\ job' = Job("exec", s) /\ UNCHANGED <<leaked, processes, hart, halted>>

load_elf_SatpKept ==
    /\ Continue(job.op) /\ job.op \in {"load", "exec"}
    /\ LET rest == (ImagePages \cup {UserStack}) \ DOMAIN maps[job.s]
       IN  IF rest # {}
           THEN MapPage(job.s, Min(rest), IF Min(rest) \in ImagePages THEN Filled(Image)
                                          ELSE PhyPage_alloc(mem, NextPage))
           ELSE job' = NoJob /\ UNCHANGED <<allocation, tables, processes, hart, halted>>

\* load_elf, a page at a time, and the end of execve: the process returns to
\* user mode with its new table.
load_elf ==
    /\ Continue(job.op) /\ job.op \in {"load", "exec"}
    /\ LET rest == (ImagePages \cup {UserStack}) \ DOMAIN maps[job.s]
       IN  IF rest # {}
           THEN MapPage(job.s, Min(rest), IF Min(rest) \in ImagePages THEN Filled(Image)
                                          ELSE PhyPage_alloc(mem, NextPage))
           ELSE /\ job' = NoJob
                /\ context' = IF job.op = "exec" THEN [context EXCEPT ![job.s] = root[job.s]]
                              ELSE context
                /\ UNCHANGED <<allocation, tables, stack, zombies, dma, hart, halted>>

\* ProcessManager::exit; the process keeps its new root until it is reaped.
exit(s) ==
    /\ Call
    /\ Live(s) /\ s # InitSpace
    /\ IF free = {} THEN Panic("OutOfMemory")
       ELSE /\ reset(s)
            /\ zombies' = zombies \cup {s}
            /\ UNCHANGED <<leaked, stack, context, dma, hart, job, halted>>

\* wait_for removes the process: its stack, table and pages are dropped.
DropProcess(s) ==
    /\ Idle /\ UNCHANGED calls
    /\ s \in zombies
    /\ free' = Drop(free, MappedFrames(s) \cup pages[s] \cup stack[s])
    /\ zombies' = zombies \ {s}
    /\ root' = [root EXCEPT ![s] = NoFrame]
    /\ pages' = [pages EXCEPT ![s] = {}]
    /\ maps' = [maps EXCEPT ![s] = NoMap]
    /\ stack' = [stack EXCEPT ![s] = {}]
    /\ context' = [context EXCEPT ![s] = NoFrame]
    /\ UNCHANGED <<leaked, mem, dma, hart, job, halted>>

-----------------------------------------------------------------------------
(* Devices *)

\* dma_alloc clears as many 32-bit words of a page as it has 64-bit ones.
HalfCleared(f) == [i \in Index |-> IF 2 * i < Fanout THEN Invalid ELSE mem[f][i]]

\* VirtioHal::dma_alloc, for the queue of the one device, before there are
\* processes.
dma_alloc(n) ==
    /\ Idle /\ UNCHANGED calls
    /\ dma = {}
    /\ IF ~CanAlloc(free, n) THEN Panic("OutOfMemory")
       ELSE /\ dma' = Taken(free, n)
            /\ free' = free \ dma'
            /\ mem' = [f \in Frame |-> IF f \in Owned(free, n) THEN HalfCleared(f) ELSE mem[f]]
            /\ UNCHANGED <<leaked, tables, stack, zombies, context, hart, job, halted>>

\* VirtIOBlock::read: alloc_many, the device fills the buffer, and each of its
\* pages is dropped on its own.
ReadBuffer(n) ==
    /\ Call
    /\ IF ~CanAlloc(free, n) THEN Panic("OutOfMemory")
       ELSE /\ free' = free \ (Taken(free, n) \ Owned(free, n))
            /\ leaked' = leaked \cup (Taken(free, n) \ Owned(free, n))
            /\ mem' = [f \in Frame |-> IF f \in Owned(free, n) THEN Junk ELSE mem[f]]
            /\ UNCHANGED <<tables, processes, hart, job, halted>>

-----------------------------------------------------------------------------
(* The kernel writes to a buffer that may cross pages *)

First == job.va \div PAGE_SIZE
EndPage == (job.va + job.size) \div PAGE_SIZE
LastPage == (job.va + job.size - 1) \div PAGE_SIZE      \* the last one written

\* getdents64 writes an entry of size bytes at va: in one page directly, else
\* through access_continuously.
getdents64(s, va, size) ==
    /\ Call
    /\ Live(s)
    /\ LET f == translate(mem, root[s], va \div PAGE_SIZE)
       IN  IF f = NoFrame THEN Panic("Buffer")
           ELSE IF (va % PAGE_SIZE) + size < PAGE_SIZE
           THEN /\ mem' = [mem EXCEPT ![f] = Junk]
                /\ UNCHANGED <<free, leaked, tables, processes, hart, job, halted>>
           ELSE /\ job' = [Job("map", s) EXCEPT !.va = va, !.size = size]
                /\ UNCHANGED <<allocation, tables, processes, hart, halted>>

\* paging::flush_page_table: sfence.vma.
flush_page_table == tlb' = NoMap

\* One page of the buffer is mapped in the kernel's table, up to end_page.
TrampolineMap ==
    /\ Continue("map") /\ First + job.n <= EndPage
    /\ LET f == translate(mem, root[job.s], First + job.n)
           v == Trampoline + job.n
           x == map(State(free, mem, pages[Kernel]), root[Kernel], v, f)
       IN  IF f = NoFrame THEN Panic("Buffer")
           ELSE IF ~Enough(Missing(root[Kernel], v)) THEN Panic("OutOfMemory")
           ELSE IF translate(mem, root[Kernel], v) # NoFrame THEN Panic("AlreadyMapped")
           ELSE /\ free' = x.free /\ mem' = x.mem
                /\ pages' = [pages EXCEPT ![Kernel] = x.pages]
                /\ job' = [job EXCEPT !.n = @ + 1]
                /\ UNCHANGED <<leaked, root, maps, processes, hart, halted>>

\* flush_page_table, and the accessor writes to the window.
Accessor ==
    /\ Continue("map") /\ First + job.n > EndPage
    /\ LET window == Trampoline..(Trampoline + LastPage - First)
       IN  /\ tlb' = [v \in window |-> translate(mem, satp, v)]
           /\ mem' = [f \in Frame |-> IF \E v \in window : tlb'[v] = f THEN Junk ELSE mem[f]]
    /\ job' = [job EXCEPT !.op = "unmap", !.n = 0]
    /\ UNCHANGED <<free, leaked, tables, processes, user, satp, halted>>

\* unmap_many, a page at a time, and the flush at the end.
TrampolineUnmap ==
    /\ Continue("unmap")
    /\ IF First + job.n > EndPage
       THEN job' = NoJob /\ flush_page_table /\ UNCHANGED mem
       ELSE /\ mem' = SetLeaf(mem, root[Kernel], Trampoline + job.n, Invalid)
            /\ job' = [job EXCEPT !.n = @ + 1]
            /\ UNCHANGED tlb
    /\ UNCHANGED <<free, leaked, tables, processes, user, satp, halted>>

-----------------------------------------------------------------------------
(* The hart *)

\* trap_ret_u: the process's table comes from its TrapContext, which keeps the
\* kernel's instead.
trap_ret_u(s) ==
    /\ Idle
    /\ Live(s)
    /\ user' = s
    /\ satp' = context[s]
    /\ context' = [context EXCEPT ![s] = satp]
    /\ tlb' = NoMap
    /\ UNCHANGED <<allocation, tables, stack, zombies, dma, job, halted, calls>>

trap_save_u ==
    /\ user # Kernel
    /\ user' = Kernel
    /\ satp' = context[user]
    /\ context' = [context EXCEPT ![user] = satp]
    /\ tlb' = NoMap
    /\ UNCHANGED <<allocation, tables, stack, zombies, dma, job, halted, calls>>

\* The hart may cache the walk of a page, mapped or not, at any time.
Walk(v) ==
    /\ halted = "no"
    /\ v \notin DOMAIN tlb /\ Cardinality(DOMAIN tlb) < TlbSize
    /\ tlb' = With(tlb, v, translate(mem, satp, v))
    /\ UNCHANGED <<allocation, tables, processes, user, satp, job, halted, calls>>

\* A store in user mode, through the TLB.
UserStore(v) ==
    /\ user # Kernel
    /\ LET f == IF v \in DOMAIN tlb THEN tlb[v] ELSE translate(mem, satp, v)
       IN  f # NoFrame /\ mem' = [mem EXCEPT ![f] = Junk]
    /\ UNCHANGED <<free, leaked, tables, processes, hart, job, halted, calls>>

Next ==
    \/ spawn \/ load_elf \/ copy_from \/ TrampolineMap \/ Accessor \/ TrampolineUnmap
    \/ trap_save_u
    \/ \E p, c \in Space : fork(p, c)
    \/ \E s \in Space : execve(s) \/ exit(s) \/ DropProcess(s) \/ trap_ret_u(s)
    \/ \E s \in Space, v \in Vpn : mmap(s, v) \/ unmap(s, v)
    \/ \E v \in Vpn : UserStore(v)
    \/ \E v \in IF user = Kernel THEN {Trampoline} ELSE Vpn : Walk(v)
    \/ \E n \in BufferPages : ReadBuffer(n) \/ dma_alloc(n)
    \/ \E s \in Space, v \in Vpn, o \in 0..(PAGE_SIZE - 1), n \in 1..PAGE_SIZE :
           getdents64(s, v * PAGE_SIZE + o, n)

Spec == Init /\ [][Next]_vars

-----------------------------------------------------------------------------
\* How many owners a frame has.
Owners(f) ==
    Cardinality({t \in Tables : f \in pages[t]})
    + Cardinality({e \in Space \X Vpn : e[2] \in DOMAIN maps[e[1]] /\ maps[e[1]][e[2]] = f})
    + Cardinality({s \in Space : f \in stack[s]})
    + (IF f \in dma THEN 1 ELSE 0)

\* Every frame is free, or has one owner who will give it back, or is one of
\* those alloc_many took beyond the pages it returns: the drops of PhyPages,
\* page tables, address spaces and processes free nothing twice, lose nothing,
\* and no frame is a page of two processes or a page and a table at once.
FramesAccounted ==
    \A f \in Frame :
        Owners(f) + (IF f \in free THEN 1 ELSE 0) + (IF f \in leaked THEN 1 ELSE 0) = 1

\* The walk of an address space's tables finds a page exactly if it is in
\* ProcessMemory::maps, and finds the frame that is there: no unmap of a page
\* in maps fails its assertion, and no map of one that is not in it.
MapsMatchTable ==
    \A s \in Space : Exists(s) =>
        \A v \in Vpn : translate(mem, root[s], v) =
                           IF v \in DOMAIN maps[s] THEN maps[s][v] ELSE NoFrame

\* The hart walks the kernel's table in the kernel and the process's own in
\* user mode, although execve frees that table under a TrapContext that still
\* names it, and every switch goes through the satp the last one left behind.
\* What the TLB has cached is what that walk finds now, but for the loop of
\* access_continuously, which flushes before it goes on.
TranslationIsCurrent ==
    /\ satp = root[user]
    /\ job.op \notin {"map", "unmap"} => \A v \in DOMAIN tlb : tlb[v] = translate(mem, satp, v)

\* What a process sees: the contents of its pages; the child of a fork sees
\* nothing before the copy is complete.
View ==
    [s \in Space |->
        LET seen == {v \in Vpn : /\ Exists(s)
                                 /\ ~(job.op = "fork" /\ job.t = s)
                                 /\ translate(mem, root[s], v) # NoFrame}
        IN  [v \in seen |-> mem[translate(mem, root[s], v)]]]

Memory == INSTANCE AddressSpaces WITH memory <- View, Fresh <- {Zero, Image}, Contents <- {Junk}

\* Tables, frames, copies and flushes implement separate address spaces: a
\* store or a map shows in one process only, a page never starts with what
\* another process or the device left in its frame, and fork gives the child
\* the parent's contents.
ImplementsAddressSpaces == Memory!Spec

=============================================================================
