--------------------------- MODULE ProcessMemory ---------------------------
(***************************************************************************)
(* process/process_memory.rs: the address space of a process, with the     *)
(* system calls that change it (syscall/memory.rs), the part of            *)
(* Process::load_elf and Process::execve that lays it out, the stack       *)
(* growth of the page-fault handler and the copy made by fork.             *)
(*                                                                         *)
(* One address space is followed.  Every operation runs under the Intrlock *)
(* of its process, and address spaces share no state; after a fork the     *)
(* module follows either the parent or the child.                          *)
(*                                                                         *)
(* Addresses are bytes, small PAGE_SIZE keeps their offsets in a page.     *)
(* maps tells which page is mapped and for what; the region is the only    *)
(* part of a page's flags and contents that is kept.  Physical memory does *)
(* not run out, and all addresses are user addresses.                      *)
(***************************************************************************)
EXTENDS Integers, Sequences, FiniteSetsExt

CONSTANTS
    PAGE_SIZE,
    StackPage,      \* PROCESS_USER_STACK_BASE, in pages
    MmapPage,       \* PROCESS_MMAP_BASE, in pages
    Programs,       \* the ELF files: sequences of Load segments
    Lengths,        \* the lengths given to mmap and munmap
    MaxCalls        \* bound: how many operations are followed

ASSUME ConstantsAssumption ==
    /\ PAGE_SIZE \in Nat /\ PAGE_SIZE > 1
    /\ StackPage \in Nat /\ MmapPage \in 1..(StackPage - 1)
    /\ MaxCalls \in Nat
    /\ Lengths \subseteq Nat \ {0}
    /\ Programs \subseteq Seq([va : Nat, offset : Nat, filesz : Nat, memsz : Nat])
    \* load_elf takes page 0 for "none yet", and may skip it in a segment that
    \* begins there without bytes in the file.
    /\ \A e \in Programs : \A i \in 1..Len(e) : e[i].va >= PAGE_SIZE \/ e[i].filesz > 0

VARIABLES
    maps,           \* ProcessMemory::maps and page_table: page -> region
    prog_end, min_brk, brk, stack_top,
    loaded,         \* the program last loaded, <<>> before the first
    holes,          \* pages the program asked to be unmapped
    halted,         \* "no", or why the kernel stopped
    calls           \* operations so far

sizes == <<prog_end, min_brk, brk, stack_top>>
memVars == <<maps, sizes, loaded, holes, halted>>
vars == <<memVars, calls>>

Vpn == 0..(StackPage - 1)
Address == 0..(StackPage * PAGE_SIZE)
Backing == {"anonymous", "file", "unseekable", "badfd"}
Regions == {"prog", "heap", "stack", "mmap"}

\* VirtPageId::from(VirtAddr), Addr::round_up, addr % PAGE_SIZE and
\* Addr::to_offset(-1), which stops at 0.
Page(va) == va \div PAGE_SIZE
round_up(va) == ((va + PAGE_SIZE - 1) \div PAGE_SIZE) * PAGE_SIZE
Offset(va) == va % PAGE_SIZE
Before(va) == IF va = 0 THEN 0 ELSE va - 1

Mapped == DOMAIN maps

\* maps with the pages of S added for r, or removed.
With(S, r) == [v \in Mapped \cup S |-> IF v \in S THEN r ELSE maps[v]]
Without(S) == [v \in Mapped \ S |-> maps[v]]

Running == halted = "no" /\ loaded # <<>>

\* An assertion, an expect or a todo!() stops the kernel.
Panic(why) == halted' = why /\ UNCHANGED <<maps, sizes, loaded, holes>>

\* ProcessMemory::new.
Init ==
    /\ maps = [v \in {} |-> "prog"]
    /\ prog_end = 0 /\ min_brk = 0 /\ brk = 0
    /\ stack_top = StackPage * PAGE_SIZE
    /\ loaded = <<>>
    /\ holes = {}
    /\ halted = "no"
    /\ calls = 0

-----------------------------------------------------------------------------
(* execve *)

\* The pages load_elf maps for a Load segment: those of the file's bytes, then
\* up to the page of its end in memory.  The offset in the page is that of the
\* position in the file.
SegmentPages(s) ==
    LET count == (s.filesz + Offset(s.offset) + PAGE_SIZE - 1) \div PAGE_SIZE
        max_vpn == IF count = 0 THEN 0 ELSE Page(s.va) + count - 1
        need_vpn == Page(s.va + s.memsz)
    IN  (Page(s.va)..(Page(s.va) + count - 1)) \cup ((max_vpn + 1)..need_vpn)

ImagePages(elf) == UNION {SegmentPages(elf[i]) : i \in DOMAIN elf}

\* Two segments claim a page: the assertion of PageTable::set_pte fails.
Clash(elf) ==
    \/ \E i, j \in DOMAIN elf : i < j /\ SegmentPages(elf[i]) \cap SegmentPages(elf[j]) # {}
    \/ StackPage - 1 \in ImagePages(elf)

\* reset, load_elf and the first page of the stack.
Execve(elf) ==
    /\ halted = "no"
    /\ IF Clash(elf)
       THEN Panic("load remaps")
       ELSE LET pages == ImagePages(elf)
            IN  /\ maps' = [v \in pages \cup {StackPage - 1} |->
                               IF v \in pages THEN "prog" ELSE "stack"]
                /\ prog_end' = (Max(pages \cup {0}) + 1) * PAGE_SIZE
                /\ brk' = prog_end'
                /\ min_brk' = prog_end'
                /\ stack_top' = (StackPage - 1) * PAGE_SIZE
                /\ loaded' = elf
                /\ holes' = {}
                /\ UNCHANGED halted

\* fork, seen from the child: ProcessMemory::new, then copy_from.
Fork ==
    /\ Running
    /\ min_brk' = 0
    /\ UNCHANGED <<maps, prog_end, brk, stack_top, loaded, holes, halted>>

-----------------------------------------------------------------------------
(* brk *)

GrowthPages_OnePage(new_brk) == {round_up(Before(brk)) \div PAGE_SIZE}

\* The pages set_brk maps to grow to new_brk: from real_brk on.
GrowthPages(new_brk) ==
    (round_up(Before(brk)) \div PAGE_SIZE)..(round_up(new_brk) \div PAGE_SIZE - 1)

set_brk_NoMinimum(new_brk) ==
    /\ Running
    /\ brk' = new_brk
    /\ LET new == GrowthPages(new_brk)
       IN  /\ new \cap Mapped = {}
           /\ maps' = With(new, "heap")
           /\ holes' = holes \ new
    /\ UNCHANGED <<prog_end, min_brk, stack_top, loaded, halted>>

\* set_brk: below min_brk or equal to brk nothing changes; growth maps pages
\* and asserts that they are not mapped; shrinking is a todo!().
set_brk(new_brk) ==
    /\ Running
    /\ IF new_brk < min_brk \/ new_brk = brk
       THEN UNCHANGED memVars
       ELSE IF new_brk < brk
       THEN Panic("brk shrinks")
       ELSE LET new == GrowthPages(new_brk)
            IN  IF new \cap Mapped # {}
                THEN Panic(IF \E v \in new \cap Mapped : maps[v] = "heap"
                           THEN "brk remaps heap" ELSE "brk remaps")
                ELSE /\ maps' = With(new, "heap")
                     /\ holes' = holes \ new
                     /\ brk' = new_brk
                     /\ UNCHANGED <<prog_end, min_brk, stack_top, loaded, halted>>

-----------------------------------------------------------------------------
(* mmap and munmap *)

NoPage == -1

\* check_collapse, downwards from start: some page of the range is mapped.
check_collapse(start, pages) == \E v \in (start - pages + 1)..start : v \in Mapped

\* start - pages + 1 underflows: a panic in a build with overflow checks, an
\* overlapping range and then the assertion of set_pte in one without.
Underflow(start, pages) == pages > start

Candidates_NotNextToBrk ==
    {v - 1 : v \in {w \in Mapped : /\ w < MmapPage
                                   /\ w - 1 > round_up(Before(brk)) \div PAGE_SIZE
                                   /\ w - 1 \notin Mapped}}

\* The pages the search of mmap starts downwards from, lowest first: the one
\* just below each mapped page between brk and mmap_base.
Candidates ==
    {v - 1 : v \in {w \in Mapped : /\ w < MmapPage
                                   /\ w > round_up(Before(brk)) \div PAGE_SIZE
                                   /\ w - 1 \notin Mapped}}

\* mmap without an address tests the topmost page, then the candidates in
\* order until one fits; the test of an earlier one may underflow.
TopFits(pages) == MmapPage - 1 \notin Mapped /\ ~check_collapse(MmapPage - 1, pages)
Fitting(pages) == {c \in Candidates : ~check_collapse(c, pages)}
Tested(pages) ==
    ({MmapPage - 1} \ Mapped) \cup
        {c \in Candidates : ~TopFits(pages) /\ \A f \in Fitting(pages) : c <= f}

first_page_OffByOne(pages) ==
    IF TopFits(pages) THEN MmapPage - pages - 1
    ELSE IF Fitting(pages) = {} THEN NoPage
    ELSE Min(Fitting(pages)) - pages

\* The page mmap chooses for an anonymous range of that many pages.
first_page(pages) ==
    IF TopFits(pages) THEN MmapPage - pages
    ELSE IF Fitting(pages) = {} THEN NoPage
    ELSE Min(Fitting(pages)) - pages + 1

\* What the rest of sys_mmap does with the pages just mapped: an unaligned
\* address is a todo!(), a descriptor that cannot seek fails an expect, an
\* empty one unmaps the range again and returns EIO.
Populate(range, addr, backing) ==
    IF Offset(addr) # 0 THEN Panic("mmap unaligned")
    ELSE IF backing = "unseekable" THEN Panic("mmap seek")
    ELSE IF backing = "badfd"
    THEN /\ maps' = Without(range)
         /\ holes' = (holes \cup range)
         /\ UNCHANGED <<sizes, loaded, halted>>
    ELSE /\ maps' = With(range, "mmap")
         /\ holes' = holes \ range
         /\ UNCHANGED <<sizes, loaded, halted>>

\* The system call, for a len that is not 0.
mmap(addr, len, fixed, backing) ==
    /\ Running
    /\ LET pages == (round_up(len) + Offset(addr)) \div PAGE_SIZE
           first == IF fixed THEN Page(addr) ELSE first_page(pages)
           range == first..(first + pages - 1)
       IN  IF ~fixed /\ \E c \in Tested(pages) : Underflow(c, pages)
           THEN Panic("mmap underflow")
           ELSE IF ~fixed /\ first = NoPage
           THEN UNCHANGED memVars
           ELSE IF ~fixed /\ range \cap Mapped # {}
           THEN Panic("mmap remaps")
           ELSE range \subseteq Vpn /\ Populate(range, addr, backing)

\* The pages munmap unmaps; len is not rounded up.
Unmapped(addr, len) == Page(addr)..(Page(addr) + (len + Offset(addr)) \div PAGE_SIZE - 1)

munmap(addr, len) ==
    /\ Running
    /\ LET range == Unmapped(addr, len)
       IN  /\ range \subseteq Vpn
           /\ IF range \subseteq Mapped
              THEN /\ maps' = Without(range)
                   /\ holes' = holes \cup range
                   /\ UNCHANGED <<sizes, loaded, halted>>
              ELSE Panic("munmap")

-----------------------------------------------------------------------------
(* The stack *)

\* A page fault at va: alloc_stack_if_possible maps the page below stack_top;
\* any other fault shuts the system down.
StackFault(va) ==
    /\ Running
    /\ IF Page(va) = Page(Before(stack_top)) /\ Page(va) \notin Mapped
       THEN /\ maps' = With({Page(va)}, "stack")
            /\ stack_top' = Page(va) * PAGE_SIZE
            /\ holes' = holes \ {Page(va)}
            /\ UNCHANGED <<prog_end, min_brk, brk, loaded, halted>>
       ELSE Panic("fault")

-----------------------------------------------------------------------------
Brk == \E a \in Address : set_brk(a)
Mmap == \E n \in Lengths, b \in Backing :
            \/ \E a \in Address : mmap(a, n, TRUE, b)
            \/ \E a \in {0, 1} : mmap(a, n, FALSE, b)
Munmap == \E a \in Address, n \in Lengths \cup {0} : munmap(a, n)
Fault == \E a \in Address : Page(a) \in Vpn /\ StackFault(a)
Exec == \E elf \in Programs : Execve(elf)

Next ==
    /\ calls < MaxCalls
    /\ calls' = calls + 1
    /\ Exec \/ Fork \/ Brk \/ Mmap \/ Munmap \/ Fault

Spec == Init /\ [][Next]_vars

-----------------------------------------------------------------------------
TypeOK ==
    /\ Mapped \subseteq Vpn
    /\ maps \in [Mapped -> Regions]
    /\ prog_end \in Address /\ min_brk \in Address /\ brk \in Address
    /\ stack_top \in Address /\ Offset(stack_top) = 0
    /\ loaded \in Programs \cup {<<>>}
    /\ holes \subseteq Vpn
    /\ calls \in 0..MaxCalls

\* The bytes a to b - 1 are mapped, except those the program had unmapped.
Backed(a, b) == \A va \in a..(b - 1) : Page(va) \in Mapped \cup holes

\* Every byte a program may use is backed by a page, unless the program had it
\* unmapped: the bytes of its Load segments (load_elf), of its heap up to brk
\* (set_brk) and of its stack down to stack_top (increase_user_stack).
UsableMemoryIsMapped ==
    loaded # <<>> =>
        /\ \A i \in DOMAIN loaded : Backed(loaded[i].va, loaded[i].va + loaded[i].memsz)
        /\ Backed(prog_end, brk)
        /\ Backed(stack_top, StackPage * PAGE_SIZE)

\* No page is mapped for the heap beyond the page brk lies in, none for the
\* stack below stack_top, and brk never goes below the end of the program.
RegionsInBounds ==
    /\ prog_end <= brk
    /\ \A v \in Mapped : maps[v] = "heap" => v * PAGE_SIZE < brk /\ v * PAGE_SIZE >= prog_end
    /\ \A v \in Mapped : maps[v] = "stack" => v * PAGE_SIZE >= stack_top

\* No test of the search for that many pages underflows.
SearchEnds(pages) == \A c \in Tested(pages) : ~Underflow(c, pages)

\* For every size, the range mmap chooses without an address is free, lies
\* below mmap_base, and does not reach into the heap, except where the program
\* had it unmapped: where it lands, the assertion of PageTable::set_pte cannot
\* fail.
MmapTakesFreePages ==
    \A n \in 1..StackPage :
        LET first == first_page(n)
        IN  first # NoPage /\ SearchEnds(n) =>
                /\ (first..(first + n - 1)) \cap Mapped = {}
                /\ first + n <= MmapPage
                /\ \A v \in first..(first + n - 1) :
                     v * PAGE_SIZE \in prog_end..(brk - 1) => v \in holes

\* mmap without an address reports ENOMEM only if there is no free range of
\* that size between the heap and mmap_base: its search from mapped pages
\* downwards misses no gap.
MmapFindsRoom ==
    \A n \in 1..StackPage :
        first_page(n) = NoPage /\ SearchEnds(n) =>
            ~\E a \in (round_up(brk) \div PAGE_SIZE)..(MmapPage - n) :
                (a..(a + n - 1)) \cap Mapped = {}
=============================================================================
