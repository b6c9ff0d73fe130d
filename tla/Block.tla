------------------------------- MODULE Block --------------------------------
(***************************************************************************)
(* Reading files from the VirtIO block device: FatFSFile::read and the     *)
(* device file under it (filesystem/fatfs.rs, device/virtio/block.rs), the *)
(* device's interrupt and its handler (interrupt/plic.rs, interrupt/       *)
(* mod.rs), on one hart.                                                   *)
(*                                                                         *)
(* All files of the mounted volume share one VirtIOBlockFile with one      *)
(* cursor, and seek and read are two calls on it.  The handler takes       *)
(* spinlocks that the interrupted code may hold.  Nothing but the hart's   *)
(* interrupt bit keeps these apart.                                        *)
(*                                                                         *)
(* A byte of the device is its own address, so that the data read shows    *)
(* where it came from.  What the fatfs crate reads of the FAT itself goes  *)
(* the same way and is left out, and the device reports no errors.         *)
(***************************************************************************)
EXTENDS Integers, Sequences, FiniteSets

CONSTANTS
    Proc,           \* processes, each with an open file
    Worker,         \* the hart outside processes
    File,           \* open files of the volume (FatFSFile)
    Opened,         \* which file a process has; Device is /dev/blk0
    Device,
    Clusters,       \* the bytes of a file: the addresses of its clusters
    ClusterSize,
    Length,         \* the length of a file
    SECTOR_SIZE,
    DeviceSize,     \* VirtIOBlock::size
    Irq,            \* the device's interrupt number
    Lens,           \* bound: lengths of read calls
    Offsets,        \* bound: offsets of lseek calls
    MaxReads        \* bound: read and lseek calls

\* The mounted volume's device file, and the one of a process that opened
\* /dev/blk0, are two VirtIOBlockFiles on one device.
Volume == "volume"
Handle == {Volume, "device"}
Lock == File \cup Handle \cup {"queue", "VIRTIO_BLOCKS"}
NoOne == "NoOne"
Handler == "handler"

ASSUME ConstantsAssumption ==
    /\ Worker \notin Proc /\ Device \notin File
    /\ File \cap (Handle \cup {"queue", "VIRTIO_BLOCKS"}) = {}
    /\ Proc \cap {NoOne, Handler} = {}
    /\ Opened \in [Proc -> File \cup {Device}]
    /\ ClusterSize \in Nat \ {0} /\ Length \in [File -> Nat]
    /\ SECTOR_SIZE \in Nat \ {0} /\ DeviceSize \in Nat
    /\ DeviceSize % SECTOR_SIZE = 0
    /\ Irq \in 1..3
    /\ \A f \in File : \A i \in 0..(Length[f] - 1) : Clusters[f][(i \div ClusterSize) + 1] \in Nat
    /\ Lens \subseteq Nat \ {0} /\ Offsets \subseteq Int /\ MaxReads \in Nat

VARIABLES
    boot,       \* how far device initialization is
    running,    \* the process on the hart, or Worker
    sie,        \* interrupts are enabled in the kernel
    pc,         \* where each process is; "user" in user mode
    call,       \* its read call: bytes wanted, bytes got, and from where
    pos,        \* position of an open file
    cur,        \* VirtIOBlockFile::cur
    holder,     \* who has each spinlock
    avail,      \* the request the device works on
    used,       \* requests it has completed
    plic,       \* pending and claimed interrupts, enable bits
    table,      \* INTERRUPT_TABLE
    trap,       \* where the interrupt handler is, and the sie it interrupted
    halted,
    reads

process == <<pc, call, pos, cur, reads>>
interrupt == <<plic, table, trap>>
vars == <<boot, running, sie, process, holder, avail, used, interrupt, halted>>

NoRequest == [sector |-> 0, sectors |-> 0]
NoCall == [want |-> 0, got |-> <<>>, from |-> 0]

Init ==
    /\ boot = "enable_irq"
    /\ running = Worker
    /\ sie = TRUE
    /\ pc = [p \in Proc |-> "user"]
    /\ call = [p \in Proc |-> NoCall]
    /\ pos = [f \in File |-> 0]
    /\ cur = [h \in Handle |-> 0]
    /\ holder = [l \in Lock |-> NoOne]
    /\ avail = NoRequest
    /\ used = {}
    /\ plic = [pending |-> {}, claimed |-> {}, enabled |-> {}]
    /\ table = {}
    /\ trap = [at |-> "none", irq |-> 0, sie |-> TRUE]
    /\ halted = FALSE
    /\ reads = 0

-----------------------------------------------------------------------------
(* Interrupts *)

\* PLIC::enable_irq: bit irq % 4 of the byte irq / 4.
EnableBit(irq) == 8 * (irq \div 4) + (irq % 4)

\* block::init.
enable_irq ==
    /\ boot = "enable_irq" /\ trap.at = "none"
    /\ plic' = [plic EXCEPT !.enabled = @ \cup {EnableBit(Irq)}]
    /\ boot' = "register_interrupt_handler"
    /\ UNCHANGED <<running, sie, process, holder, avail, used, table, trap, halted>>

register_interrupt_handler ==
    /\ boot = "register_interrupt_handler" /\ trap.at = "none"
    /\ table' = table \cup {Irq}
    /\ boot' = "done"
    /\ UNCHANGED <<running, sie, process, holder, avail, used, plic, trap, halted>>

Deliverable == (plic.pending \cap plic.enabled) \ plic.claimed

\* Interrupts reach user mode, and the kernel where they are enabled.
InUserMode == running # Worker /\ pc[running] = "user"

TakeInterrupt ==
    /\ Deliverable # {} /\ trap.at = "none"
    /\ InUserMode \/ sie
    /\ ~halted
    /\ trap' = [at |-> "claim", irq |-> 0, sie |-> sie]
    /\ sie' = FALSE
    /\ UNCHANGED <<boot, running, process, holder, avail, used, plic, table, halted>>

\* interrupt_handler: claim, and the handler from the table.
claim ==
    /\ trap.at = "claim" /\ ~halted
    /\ LET irq == IF Deliverable = {} THEN 0 ELSE CHOOSE i \in Deliverable : TRUE
       IN  /\ plic' = [plic EXCEPT !.pending = @ \ {irq}, !.claimed = @ \cup ({irq} \ {0})]
           /\ trap' = [trap EXCEPT !.irq = irq,
                                   !.at = IF irq = 0 THEN "return"
                                          ELSE IF irq \in table THEN "VIRTIO_BLOCKS" ELSE "complete"]
    /\ UNCHANGED <<boot, running, sie, process, holder, avail, used, table, halted>>

\* block::interrupt_handler and VirtIOBlock::handle_irq take a lock each.
HandlerLock(l, next) ==
    /\ trap.at = l /\ holder[l] = NoOne /\ ~halted
    /\ holder' = [holder EXCEPT ![l] = Handler]
    /\ trap' = [trap EXCEPT !.at = next]
    /\ UNCHANGED <<boot, running, sie, process, avail, used, plic, table, halted>>

\* handle_irq: nobody stores a request in condvars, so a used entry is the end.
handle_irq ==
    /\ trap.at = "peek_used" /\ ~halted
    /\ IF used # {}
       THEN halted' = TRUE /\ UNCHANGED <<holder, trap>>
       ELSE /\ holder' = [l \in Lock |-> IF holder[l] = Handler THEN NoOne ELSE holder[l]]
            /\ trap' = [trap EXCEPT !.at = "complete"]
            /\ UNCHANGED halted
    /\ UNCHANGED <<boot, running, sie, process, avail, used, plic, table>>

complete_Forgotten ==
    /\ trap.at = "complete" /\ ~halted
    /\ trap' = [trap EXCEPT !.at = "return"]
    /\ UNCHANGED <<boot, running, sie, process, holder, avail, used, plic, table, halted>>

complete ==
    /\ trap.at = "complete" /\ ~halted
    /\ plic' = [plic EXCEPT !.claimed = @ \ {trap.irq}]
    /\ trap' = [trap EXCEPT !.at = "return"]
    /\ UNCHANGED <<boot, running, sie, process, holder, avail, used, table, halted>>

TrapReturn ==
    /\ trap.at = "return"
    /\ sie' = trap.sie
    /\ trap' = [trap EXCEPT !.at = "none"]
    /\ UNCHANGED <<boot, running, process, holder, avail, used, plic, table, halted>>

-----------------------------------------------------------------------------
(* The scheduler, and the device *)

Dispatch(p) ==
    /\ boot = "done" /\ running = Worker /\ trap.at = "none" /\ ~halted
    /\ running' = p
    /\ UNCHANGED <<boot, sie, process, holder, avail, used, interrupt, halted>>

\* A timer takes the hart from a process wherever interrupts are enabled.
Timer ==
    /\ running # Worker /\ trap.at = "none" /\ ~halted
    /\ InUserMode \/ sie
    /\ running' = Worker
    /\ sie' = TRUE
    /\ UNCHANGED <<boot, process, holder, avail, used, interrupt, halted>>

\* The device fills the buffer and raises its interrupt.  The handler never
\* acknowledges it at the device: the PLIC takes each completion for a new one.
DeviceCompletes ==
    /\ avail # NoRequest
    /\ used' = used \cup {avail}
    /\ avail' = NoRequest
    /\ plic' = [plic EXCEPT !.pending = @ \cup {Irq}]
    /\ UNCHANGED <<boot, running, sie, process, holder, table, trap, halted>>

-----------------------------------------------------------------------------
(* A read call of process p, which is on the hart and not interrupted *)

At(p, where) == running = p /\ pc[p] = where /\ trap.at = "none" /\ ~halted
Goto(p, where) == pc' = [pc EXCEPT ![p] = where]
Take(p, l) == holder[l] = NoOne /\ holder' = [holder EXCEPT ![l] = p]
MyHandle(p) == IF Opened[p] = Device THEN "device" ELSE Volume

read_InterruptsOn(p, len) ==
    /\ At(p, "user") /\ reads < MaxReads
    /\ reads' = reads + 1
    /\ sie' = TRUE
    /\ call' = [call EXCEPT ![p] = [NoCall EXCEPT !.want = len]]
    /\ Goto(p, IF Opened[p] = Device THEN "cur" ELSE "file")
    /\ UNCHANGED <<boot, running, pos, cur, holder, avail, used, interrupt, halted>>

\* The system call: the trap from user mode turns interrupts off.
read(p, len) ==
    /\ At(p, "user") /\ reads < MaxReads
    /\ reads' = reads + 1
    /\ sie' = FALSE
    /\ call' = [call EXCEPT ![p] = [NoCall EXCEPT !.want = len]]
    /\ Goto(p, IF Opened[p] = Device THEN "cur" ELSE "file")
    /\ UNCHANGED <<boot, running, pos, cur, holder, avail, used, interrupt, halted>>

\* FatFSFile::read: the file's lock.
LockFile(p) ==
    /\ At(p, "file")
    /\ Take(p, Opened[p])
    /\ call' = [call EXCEPT ![p].from = pos[Opened[p]]]
    /\ Goto(p, "chunk")
    /\ UNCHANGED <<boot, running, sie, pos, cur, reads, avail, used, interrupt, halted>>

\* What fatfs::File::read asks of the device next, and where: up to the end of
\* the cluster, of the file, of the buffer.
Smaller(a, b) == IF a < b THEN a ELSE b
Chunk(p) ==
    LET f == Opened[p]
        rest == call[p].want - Len(call[p].got)
    IN  Smaller(rest, Smaller(Length[f] - pos[f], ClusterSize - (pos[f] % ClusterSize)))
ChunkStart(p) ==
    LET f == Opened[p]
    IN  Clusters[f][(pos[f] \div ClusterSize) + 1] + (pos[f] % ClusterSize)

\* FatFSDeviceWrapper::seek, to an address from the start of the device.
Moved(p) == [cur EXCEPT ![Volume] = Smaller(ChunkStart(p), DeviceSize)]

seek_OnlyFirst(p) ==
    /\ At(p, "chunk")
    /\ IF Chunk(p) = 0
       THEN /\ holder' = [holder EXCEPT ![Opened[p]] = NoOne]
            /\ Goto(p, "done")
            /\ UNCHANGED cur
       ELSE /\ holder[Volume] = NoOne
            /\ cur' = IF call[p].got = <<>> THEN Moved(p) ELSE cur
            /\ Goto(p, "cur")
            /\ UNCHANGED holder
    /\ UNCHANGED <<boot, running, sie, call, pos, reads, avail, used, interrupt, halted>>

\* The loop of FatFSFile::read: it ends with a chunk of no bytes, else the
\* device file is moved there (VirtIOBlockFile::seek).
seek(p) ==
    /\ At(p, "chunk")
    /\ IF Chunk(p) = 0
       THEN /\ holder' = [holder EXCEPT ![Opened[p]] = NoOne]
            /\ Goto(p, "done")
            /\ UNCHANGED cur
       ELSE /\ holder[Volume] = NoOne
            /\ cur' = Moved(p)
            /\ Goto(p, "cur")
            /\ UNCHANGED holder
    /\ UNCHANGED <<boot, running, sie, call, pos, reads, avail, used, interrupt, halted>>

\* VirtIOBlockFile::read: the cursor's lock, kept to the end.
LockCur(p) ==
    /\ At(p, "cur")
    /\ Take(p, MyHandle(p))
    /\ call' = IF Opened[p] = Device THEN [call EXCEPT ![p].from = cur["device"]] ELSE call
    /\ Goto(p, "submit")
    /\ UNCHANGED <<boot, running, sie, pos, cur, reads, avail, used, interrupt, halted>>

\* VirtIOBlock::read, before the device is asked: which sectors hold the bytes.
BufLen(p) == IF Opened[p] = Device THEN call[p].want ELSE Chunk(p)
block_id(offset) == offset \div SECTOR_SIZE
in_block_offset(offset) == offset % SECTOR_SIZE
must_read_size(offset, len) ==
    Smaller(in_block_offset(offset) + len, DeviceSize - block_id(offset) * SECTOR_SIZE)
Sectors(offset, len) == (must_read_size(offset, len) + SECTOR_SIZE - 1) \div SECTOR_SIZE
read_size(offset, len) == Smaller(len, DeviceSize - offset)

\* read_block: the device's lock and a request.  A read at the end of the
\* device has no page for a buffer, and fails.
Submit(p) ==
    /\ At(p, "submit")
    /\ LET o == cur[MyHandle(p)]
       IN  IF Sectors(o, BufLen(p)) = 0
           THEN halted' = TRUE /\ UNCHANGED <<pc, holder, avail>>
           ELSE /\ Take(p, "queue")
                /\ avail' = [sector |-> block_id(o), sectors |-> Sectors(o, BufLen(p))]
                /\ Goto(p, "poll")
                /\ UNCHANGED halted
    /\ UNCHANGED <<boot, running, sie, call, pos, cur, reads, used, interrupt>>

\* The queue is polled; then the bytes are copied, and the buffer must have
\* the length of what was read.
Bytes(offset, len) ==
    LET first == block_id(offset) * SECTOR_SIZE
        kbuf == [i \in 1..(SECTOR_SIZE * Sectors(offset, len)) |-> first + i - 1]
    IN  SubSeq(kbuf, in_block_offset(offset) + 1, in_block_offset(offset) + read_size(offset, len))

Poll(p) ==
    /\ At(p, "poll") /\ used # {}
    /\ used' = {}
    /\ LET h == MyHandle(p)
           o == cur[h]
           n == read_size(o, BufLen(p))
       IN  IF n # BufLen(p)
           THEN halted' = TRUE /\ UNCHANGED <<pc, call, pos, cur, holder>>
           ELSE /\ call' = [call EXCEPT ![p].got = @ \o Bytes(o, BufLen(p))]
                /\ cur' = [cur EXCEPT ![h] = @ + n]
                /\ holder' = [holder EXCEPT !["queue"] = NoOne, ![h] = NoOne]
                /\ pos' = IF h = Volume THEN [pos EXCEPT ![Opened[p]] = @ + n] ELSE pos
                /\ Goto(p, IF h = Volume THEN "chunk" ELSE "done")
                /\ UNCHANGED halted
    /\ UNCHANGED <<boot, running, sie, reads, avail, interrupt>>

\* lseek: where an offset leads from position c of n bytes.
Target(whence, c, n, o) ==
    CASE whence = "Set" -> o [] whence = "Cur" -> c + o [] whence = "End" -> n + o

\* FatFSFile::seek: an error below 0, and the end of the file is the last place.
FatFSFile_seek(f, whence, o) ==
    LET t == Target(whence, pos[f], Length[f], o)
    IN  IF t < 0 THEN pos[f] ELSE Smaller(t, Length[f])

\* VirtIOBlockFile::seek computes without a sign: below 0 the development build
\* panics and the release build wraps, to end at the end of the device, as does
\* a negative Set.
lseek(p, whence, o) ==
    /\ At(p, "user") /\ reads < MaxReads
    /\ reads' = reads + 1
    /\ IF Opened[p] = Device
       THEN LET t == Target(whence, cur["device"], DeviceSize, o)
            IN  /\ holder["device"] = NoOne
                /\ \/ /\ cur' = [cur EXCEPT !["device"] = IF t < 0 THEN DeviceSize
                                                          ELSE Smaller(t, DeviceSize)]
                      /\ UNCHANGED halted
                   \/ t < 0 /\ whence # "Set" /\ halted' = TRUE /\ UNCHANGED cur
                /\ UNCHANGED pos
       ELSE /\ holder[Opened[p]] = NoOne
            /\ pos' = [pos EXCEPT ![Opened[p]] = FatFSFile_seek(Opened[p], whence, o)]
            /\ UNCHANGED <<cur, halted>>
    /\ UNCHANGED <<boot, running, sie, pc, call, holder, avail, used, interrupt>>

Return(p) ==
    /\ At(p, "done")
    /\ Goto(p, "user")
    /\ UNCHANGED <<boot, running, sie, call, pos, cur, reads, holder, avail, used, interrupt, halted>>

Steps(p) == LockFile(p) \/ seek(p) \/ LockCur(p) \/ Submit(p) \/ Poll(p) \/ Return(p)
Kernel ==
    \/ enable_irq \/ register_interrupt_handler
    \/ claim \/ handle_irq \/ complete \/ TrapReturn
    \/ HandlerLock("VIRTIO_BLOCKS", "queue") \/ HandlerLock("queue", "peek_used")
    \/ \E p \in Proc : Steps(p)

Next ==
    \/ Kernel
    \/ TakeInterrupt \/ Timer \/ DeviceCompletes
    \/ \E p \in Proc : Dispatch(p) \/ \E len \in Lens : read(p, len)
    \/ \E p \in Proc, whence \in {"Set", "Cur", "End"}, o \in Offsets : lseek(p, whence, o)

Spec == Init /\ [][Next]_vars

\* The kernel goes on, the device answers, the worker dispatches everyone
\* (module Process), and an interrupt that stays pending is taken.
FairSpec ==
    /\ Spec
    /\ WF_vars(Kernel) /\ WF_vars(DeviceCompletes)
    /\ \A p \in Proc : SF_vars(Dispatch(p))
    /\ SF_vars(TakeInterrupt) /\ WF_vars(Timer)

-----------------------------------------------------------------------------
\* The interrupt handler finds VIRTIO_BLOCKS and the device unlocked, so that
\* it never spins on the code it interrupted, and finds no used entry, for
\* which it has no request: every reader of the device polls its own.
HandlerFindsDeviceIdle ==
    /\ trap.at \in {"VIRTIO_BLOCKS", "queue"} => holder[trap.at] = NoOne
    /\ trap.at = "peek_used" => used = {}

\* The bytes of a file, at addresses on the device.
Content(f) ==
    IF f = Device THEN [i \in 1..DeviceSize |-> i - 1]
    ELSE [i \in 1..Length[f] |-> Clusters[f][((i - 1) \div ClusterSize) + 1] + ((i - 1) % ClusterSize)]

\* A read call gets the bytes of its own file, in order from where the file
\* stood, although every file of the volume moves the same cursor between
\* its seek and its read, and whatever sectors the bytes lie in.
ReadsOwnBytes ==
    \A p \in Proc :
        call[p].got = SubSeq(Content(Opened[p]), call[p].from + 1,
                             call[p].from + Len(call[p].got))

\* An interrupt the device raised is handled and completed, so that the next
\* one can come: the PLIC's enable bit is the device's, and the handler gets
\* its locks.
InterruptIsServiced ==
    (Irq \in plic.pending) ~> (halted \/ (trap.at = "return" /\ trap.irq = Irq))
=============================================================================
