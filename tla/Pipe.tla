-------------------------------- MODULE Pipe --------------------------------
(***************************************************************************)
(* device/pipe.rs: the ring buffer of a pipe, its two condition variables  *)
(* and the PipeFile operations that processes run on its two ends.         *)
(*                                                                         *)
(* A byte is named by its position in the stream: the k-th byte written    *)
(* (from 0) is k.  The buffer sits behind a Spinlock, which does not       *)
(* disable interrupts: a call that has yielded once runs with sstatus.SIE  *)
(* set and may be preempted while it holds the lock.  A call that has not  *)
(* runs with SIE clear, so it spins for good on a lock held by another.    *)
(*                                                                         *)
(* The scheduler runs any Ready process (module Process models the round   *)
(* robin).  Condvar::wait and Condvar::wakeup are single steps here; the   *)
(* window inside wait is in module Process.  Which descriptors exist, and  *)
(* hence when close is called, is in module FileTable; here a process may  *)
(* close an end at any time, as dup3 does with an end others still use.    *)
(***************************************************************************)
EXTENDS Integers, Sequences, FiniteSetsExt

CONSTANTS
    Proc,             \* the processes that hold descriptors of the pipe
    None,             \* no process
    PIPE_SIZE,        \* pipe.rs: 512
    MaxLen,           \* bound: the longest buffer given to read or write
    MaxBytes,         \* bound: no write starts that could pass this position
    KernelPreemption  \* FALSE: the timer never arrives inside a system call

ASSUME ConstantsAssumption ==
    /\ None \notin Proc
    /\ PIPE_SIZE \in Nat \ {0}
    /\ MaxLen \in Nat
    /\ MaxBytes \in Nat
    /\ KernelPreemption \in BOOLEAN

VARIABLES
    data, n_read, n_write, read_open, write_open,  \* PipeBuffer
    wait_read, wait_write,                         \* the condvars' lists
    lock,                                          \* who holds the Spinlock
    cur,                                           \* the process on the hart
    status,                                        \* ProcessData::status
    op, pc,                                        \* the call it runs, how far it is
    sie,                                           \* sstatus.SIE during that call
    len,                                           \* bytes the call still has to move
    received,                                      \* the bytes read, in order
    lapped                                         \* a byte was overwritten unread

bufVars == <<data, n_read, n_write, received, lapped>>
openVars == <<read_open, write_open>>
condVars == <<wait_read, wait_write>>
vars == <<bufVars, openVars, condVars, lock, cur, status, op, pc, sie, len>>

Slots == 0..(PIPE_SIZE - 1)

Ops == {"none", "read", "write", "close_reader", "close_writer"}
Pcs == {"user", "lock", "locked", "yield"}

\* PipeFile::create, and the processes about to use the pipe.
Init ==
    /\ data = [i \in Slots |-> 0]
    /\ n_read = 0 /\ n_write = 0
    /\ read_open = TRUE /\ write_open = TRUE
    /\ wait_read = {} /\ wait_write = {}
    /\ lock = None
    /\ cur = None
    /\ status = [p \in Proc |-> "Ready"]
    /\ op = [p \in Proc |-> "none"]
    /\ sie = [p \in Proc |-> FALSE]
    /\ pc = [p \in Proc |-> "user"]
    /\ len = [p \in Proc |-> 0]
    /\ received = <<>>
    /\ lapped = FALSE

-----------------------------------------------------------------------------
(* PipeBuffer *)

\* The test of PipeBuffer::write for a full buffer.
Full(w, r) == w + 1 = (r + PIPE_SIZE) % PIPE_SIZE

\* How many of n bytes PipeBuffer::write stores before it breaks off.
Stored(n) == Min({n} \cup {k \in 0..(n - 1) : Full(n_write + k, n_read)})

Ring_OffByOne(n) ==
    [i \in Slots |->
        LET here == {k \in n_write..(n_write + n - 1) : (k + 1) % PIPE_SIZE = i}
        IN  IF here = {} THEN data[i] ELSE Max(here)]

\* The ring after n more bytes: each slot has the last byte stored in it.
Ring(n) ==
    [i \in Slots |->
        LET here == {k \in n_write..(n_write + n - 1) : k % PIPE_SIZE = i}
        IN  IF here = {} THEN data[i] ELSE Max(here)]

\* How many bytes PipeBuffer::read takes for a buffer of n.
Taken(n) == Min({n, n_write - n_read})

Bytes_OffByOne(n) == [i \in 1..n |-> data[(n_read + i) % PIPE_SIZE]]

\* The bytes it takes, in order.
Bytes(n) == [i \in 1..n |-> data[(n_read + i - 1) % PIPE_SIZE]]

\* Condvar::wakeup on a list: everyone on it becomes Ready.
Woken(list) == [p \in Proc |-> IF p \in list THEN "Ready" ELSE status[p]]

\* The statuses after PipeBuffer::write stored n bytes.
WokenByWrite(n) == IF n = 0 THEN status ELSE Woken(wait_read)

-----------------------------------------------------------------------------
(* The system calls *)

\* Process p is on the hart, at l of call o.
At(p, o, l) == cur = p /\ op[p] = o /\ pc[p] = l

\* A call enters the kernel, with interrupts off.
Call(p, o, n) ==
    /\ At(p, "none", "user")
    /\ op' = [op EXCEPT ![p] = o]
    /\ pc' = [pc EXCEPT ![p] = "lock"]
    /\ len' = [len EXCEPT ![p] = n]
    /\ sie' = [sie EXCEPT ![p] = FALSE]
    /\ UNCHANGED <<bufVars, openVars, condVars, lock, cur, status>>

ReadCall(p)  == \E n \in 0..MaxLen : Call(p, "read", n)
WriteCall(p) == \E n \in 0..MaxLen : n_write + n <= MaxBytes /\ Call(p, "write", n)
CloseCall(p) == Call(p, "close_reader", 0) \/ Call(p, "close_writer", 0)

\* Spinlock::lock succeeds.
Lock(p) ==
    /\ cur = p /\ pc[p] = "lock"
    /\ lock = None
    /\ lock' = p
    /\ pc' = [pc EXCEPT ![p] = "locked"]
    /\ UNCHANGED <<bufVars, openVars, condVars, cur, status, op, sie, len>>

\* The guard is dropped and the call returns.
Return(p) ==
    /\ lock' = None
    /\ op' = [op EXCEPT ![p] = "none"]
    /\ pc' = [pc EXCEPT ![p] = "user"]
    /\ len' = [len EXCEPT ![p] = 0]

\* Condvar::wait was called, m bytes are left; the guard is still held.
Waiting(p, m) ==
    /\ pc' = [pc EXCEPT ![p] = "yield"]
    /\ len' = [len EXCEPT ![p] = m]
    /\ UNCHANGED <<lock, op>>

\* One turn of the loop of PipeFile::read under the lock: nothing handed out
\* and the writer open, wait; else return, and wake wait_write if bytes were
\* taken.  Nothing and the writer closed is the error of line 111.
Read(p) ==
    /\ At(p, "read", "locked")
    /\ LET n == Taken(len[p])
       IN  /\ n_read' = n_read + n
           /\ received' = received \o Bytes(n)
           /\ IF n = 0 /\ write_open
              THEN /\ wait_write' = wait_write \cup {p}
                   /\ status' = [status EXCEPT ![p] = "Suspend"]
                   /\ Waiting(p, len[p])
              ELSE /\ wait_write' = IF n = 0 THEN wait_write ELSE {}
                   /\ status' = IF n = 0 THEN status ELSE Woken(wait_write)
                   /\ Return(p)
    /\ UNCHANGED <<data, n_write, lapped, openVars, wait_read, cur, sie>>

\* One turn of the loop of PipeFile::write under the lock: store what the test
\* for a full buffer lets in and wake wait_read; with a reader and something
\* left to store, wait.  Without a reader it is the error of line 129.
Write(p) ==
    /\ At(p, "write", "locked")
    /\ LET n == Stored(len[p])
           left == IF n = 0 THEN wait_read ELSE {}
       IN  /\ data' = Ring(n)
           /\ n_write' = n_write + n
           /\ lapped' = (lapped \/ n_write + n - n_read > PIPE_SIZE)
           /\ IF read_open /\ n < len[p]
              THEN /\ wait_read' = left \cup {p}
                   /\ status' = [WokenByWrite(n) EXCEPT ![p] = "Suspend"]
                   /\ Waiting(p, len[p] - n)
              ELSE /\ wait_read' = left
                   /\ status' = WokenByWrite(n)
                   /\ Return(p)
    /\ UNCHANGED <<n_read, received, openVars, wait_write, cur, sie>>

\* PipeFile::close of the reader wakes wait_write, of the writer wait_read.
CloseReader(p) ==
    /\ At(p, "close_reader", "locked")
    /\ read_open' = FALSE
    /\ status' = Woken(wait_write)
    /\ wait_write' = {}
    /\ Return(p)
    /\ UNCHANGED <<bufVars, write_open, wait_read, cur, sie>>

CloseWriter(p) ==
    /\ At(p, "close_writer", "locked")
    /\ write_open' = FALSE
    /\ status' = Woken(wait_read)
    /\ wait_read' = {}
    /\ Return(p)
    /\ UNCHANGED <<bufVars, read_open, wait_write, cur, sie>>

\* What do_yield and try_yield leave as the status of a process.
Yielded(p) == [status EXCEPT ![p] = IF @ = "Running" THEN "Ready" ELSE @]

Yield_LockKept(p) ==
    /\ cur = p /\ pc[p] = "yield"
    /\ UNCHANGED lock
    /\ cur' = None
    /\ status' = Yielded(p)
    /\ sie' = [sie EXCEPT ![p] = TRUE]
    /\ pc' = [pc EXCEPT ![p] = "lock"]
    /\ UNCHANGED <<bufVars, openVars, condVars, op, len>>

\* drop(buffer); do_yield().  The call resumes with interrupts enabled.
Yield(p) ==
    /\ cur = p /\ pc[p] = "yield"
    /\ lock' = None
    /\ cur' = None
    /\ status' = Yielded(p)
    /\ sie' = [sie EXCEPT ![p] = TRUE]
    /\ pc' = [pc EXCEPT ![p] = "lock"]
    /\ UNCHANGED <<bufVars, openVars, condVars, op, len>>

-----------------------------------------------------------------------------
(* The hart *)

\* The timer preempts p: in user mode, or in a call that runs with SIE set.
Preempt(p) ==
    /\ cur = p
    /\ pc[p] = "user" \/ (KernelPreemption /\ sie[p])
    /\ cur' = None
    /\ status' = Yielded(p)
    /\ UNCHANGED <<bufVars, openVars, condVars, lock, op, pc, sie, len>>

\* The worker runs a Ready process.
Dispatch(p) ==
    /\ cur = None
    /\ status[p] = "Ready"
    /\ cur' = p
    /\ status' = [status EXCEPT ![p] = "Running"]
    /\ UNCHANGED <<bufVars, openVars, condVars, lock, op, pc, sie, len>>

UserCall(p) == ReadCall(p) \/ WriteCall(p) \/ CloseCall(p)

KernelStep(p) ==
    \/ Lock(p) \/ Read(p) \/ Write(p) \/ CloseReader(p) \/ CloseWriter(p) \/ Yield(p)

Next == \E p \in Proc : UserCall(p) \/ KernelStep(p) \/ Preempt(p) \/ Dispatch(p)

Spec == Init /\ [][Next]_vars

\* A process on the hart goes on, a timer interrupt stays pending until the
\* hart is in user mode and is taken then, and the round robin of the scheduler
\* reaches every Ready process (Process!NoStarvation).
Fairness == \A p \in Proc : WF_vars(KernelStep(p)) /\ SF_vars(Preempt(p)) /\ SF_vars(Dispatch(p))

FairSpec == Spec /\ Fairness

-----------------------------------------------------------------------------
TypeOK ==
    /\ data \in [Slots -> Nat]
    /\ n_read \in Nat /\ n_write \in Nat
    /\ read_open \in BOOLEAN /\ write_open \in BOOLEAN
    /\ wait_read \subseteq Proc /\ wait_write \subseteq Proc
    /\ lock \in Proc \cup {None}
    /\ cur \in Proc \cup {None}
    /\ status \in [Proc -> {"Ready", "Running", "Suspend"}]
    /\ op \in [Proc -> Ops]
    /\ pc \in [Proc -> Pcs]
    /\ sie \in [Proc -> BOOLEAN]
    /\ len \in [Proc -> Nat]
    /\ received \in Seq(Nat)
    /\ lapped \in BOOLEAN

\* The ring holds the last PIPE_SIZE bytes written, each in the slot where
\* PipeBuffer::read will look for it.
RingHoldsLastBytes ==
    \A k \in n_read..(n_write - 1) :
        k >= n_write - PIPE_SIZE => data[k % PIPE_SIZE] = k

\* As long as no writer overran the readers, the bytes handed out by
\* PipeFile::read, over all readers and whatever their buffers, are the bytes
\* written, in order, each once.
FifoUnlessLapped ==
    ~lapped => Len(received) = n_read /\ \A i \in 1..n_read : received[i] = i - 1

\* The buffer's Spinlock is held only between lock and drop of the guard, and
\* by a process off the hart only if the timer took it off in a call that had
\* yielded before: PipeFile::read and write drop the guard before do_yield, so
\* nobody waits for bytes, or for room, with the lock.
NobodyYieldsWithLock ==
    lock # None =>
        /\ pc[lock] \in {"locked", "yield"}
        /\ lock # cur => sie[lock]

-----------------------------------------------------------------------------
(* What a comment says, and the code does not do *)

\* PipeFile::read waits while it "read nothing but writer is open" (line 103):
\* a suspended reader with room for a byte resumes once bytes are there.
SuspendedReaderSeesData ==
    \A p \in Proc :
        status[p] = "Suspend" /\ op[p] = "read" /\ len[p] > 0 /\ n_read < n_write
            ~> status[p] # "Suspend" \/ n_read = n_write
=============================================================================
