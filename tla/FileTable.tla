----------------------------- MODULE FileTable -----------------------------
(***************************************************************************)
(* The descriptor tables of the processes and the File objects they share: *)
(* ProcessData::files and allocate_fd (process/process.rs), the system     *)
(* calls open, close, read, write, pipe2, dup and dup3 (syscall/file.rs),  *)
(* the inheritance of descriptors by fork and their end with the process.  *)
(*                                                                         *)
(* A File is behind an Arc; its strong count is the number of table        *)
(* entries that refer to it, in any process, plus the calls that run on    *)
(* it.  Entry i of a table is descriptor i - 1.  The console files of      *)
(* the first descriptors close without effect and are one value here.      *)
(* Paths and file contents are left out; a failed open changes nothing.    *)
(***************************************************************************)
EXTENDS Integers, FiniteSetsExt, SequencesExt

CONSTANTS
    Proc,       \* processes, each created at most once
    InitProc,
    Files,      \* File objects other than the console's, each opened at most once
    Console,    \* Stdin and Stdout
    None,       \* an empty entry, no file
    StdFds,     \* the descriptors Process::new fills with the console: 3
    MaxFd       \* bound: no table grows beyond this many entries

ASSUME ConstantsAssumption ==
    /\ IsFiniteSet(Proc) /\ InitProc \in Proc
    /\ None \notin Files /\ Console \notin Files /\ None # Console
    /\ StdFds \in Nat /\ MaxFd \in Nat /\ StdFds <= MaxFd

VARIABLES
    state,      \* of each process: "unused", "live", "zombie" or "reaped"
    files,      \* ProcessData::files
    created,    \* the Files that open and pipe2 have created
    closed,     \* "no", or which call ran File::close on it first
    using,      \* the file the process's read or write runs on
    halted      \* the kernel panicked

vars == <<state, files, created, closed, using, halted>>

Stdio == [i \in 1..StdFds |-> Console]

\* Process::new for the first process.
Init ==
    /\ state = [p \in Proc |-> IF p = InitProc THEN "live" ELSE "unused"]
    /\ files = [p \in Proc |-> IF p = InitProc THEN Stdio ELSE <<>>]
    /\ created = {}
    /\ closed = [f \in Files |-> "no"]
    /\ using = [p \in Proc |-> None]
    /\ halted = FALSE

-----------------------------------------------------------------------------
Entries(p) == DOMAIN files[p]

strong_count_OwnTable(p, f) == Cardinality({i \in Entries(p) : files[p][i] = f})

\* Arc::strong_count of a file in p's table, seen by p.
strong_count(p, f) ==
    Cardinality({e \in Proc \X (1..MaxFd) : e[2] \in Entries(e[1]) /\ files[e[1]][e[2]] = f})
    + Cardinality({q \in Proc : using[q] = f})

\* A process between system calls.
Ready(p) == ~halted /\ state[p] = "live" /\ using[p] = None

\* get_file_from_fd for a descriptor that is open.  For AT_FDCWD it opens the
\* working directory anew: dup and dup3 put that file into the table, and the
\* other calls drop it when they return.
Opened(p, i) == i \in Entries(p) /\ files[p][i] # None

\* allocate_fd: the first empty entry, or a new one.
allocate_fd(table) == Min({i \in 1..(Len(table) + 1) : i = Len(table) + 1 \/ table[i] = None})

\* proc_data.files[i] = Some(f), after allocate_fd pushed the entry if need be.
Store(table, i, f) == IF i = Len(table) + 1 THEN Append(table, f) ELSE [table EXCEPT ![i] = f]
StoreNew(table, f) == Store(table, allocate_fd(table), f)

\* open, without O_CREAT, which is a todo!(), and dup of AT_FDCWD.
Open(p) ==
    /\ Ready(p)
    /\ allocate_fd(files[p]) <= MaxFd
    /\ \E f \in Files \ created :
        /\ created' = created \cup {f}
        /\ files' = [files EXCEPT ![p] = StoreNew(@, f)]
    /\ UNCHANGED <<state, closed, using, halted>>

pipe2_AllocateFirst(p) ==
    /\ Ready(p)
    /\ \E r, w \in Files \ created :
        /\ r # w
        /\ created' = created \cup {r, w}
        /\ LET i == allocate_fd(files[p])
               t == Store(Store(files[p], i, r), i, w)
           IN  Len(t) <= MaxFd /\ files' = [files EXCEPT ![p] = t]
    /\ UNCHANGED <<state, closed, using, halted>>

\* pipe2 stores the reader before it allocates the writer's descriptor.
pipe2(p) ==
    /\ Ready(p)
    /\ \E r, w \in Files \ created :
        /\ r # w
        /\ created' = created \cup {r, w}
        /\ LET t == StoreNew(StoreNew(files[p], r), w)
           IN  Len(t) <= MaxFd /\ files' = [files EXCEPT ![p] = t]
    /\ UNCHANGED <<state, closed, using, halted>>

\* File::close on f, called by c; on the console it does nothing.
Closed(f, c) == IF f \in Files /\ closed[f] = "no" THEN [closed EXCEPT ![f] = c] ELSE closed

\* close: a file with another reference only loses this entry.
close(p, i) ==
    /\ Ready(p)
    /\ Opened(p, i)
    /\ closed' = IF strong_count(p, files[p][i]) > 1 THEN closed ELSE Closed(files[p][i], "close")
    /\ files' = [files EXCEPT ![p][i] = None]
    /\ UNCHANGED <<state, created, using, halted>>

dup(p, i) ==
    /\ Ready(p)
    /\ Opened(p, i)
    /\ allocate_fd(files[p]) <= MaxFd
    /\ files' = [files EXCEPT ![p] = StoreNew(@, @[i])]
    /\ UNCHANGED <<state, created, closed, using, halted>>

\* dup3 closes what the new descriptor refers to, whoever else uses it; a
\* descriptor beyond the table is an index out of bounds.
dup3(p, i, j) ==
    /\ Ready(p)
    /\ Opened(p, i)
    /\ IF j \in Entries(p)
       THEN /\ closed' = Closed(files[p][j], "dup3")
            /\ files' = [files EXCEPT ![p][j] = files[p][i]]
            /\ UNCHANGED halted
       ELSE halted' = TRUE /\ UNCHANGED <<closed, files>>
    /\ UNCHANGED <<state, created, using>>

\* dup3 of AT_FDCWD.
dup3_cwd(p, j) ==
    /\ Ready(p)
    /\ IF j \in Entries(p)
       THEN /\ \E f \in Files \ created :
                /\ created' = created \cup {f}
                /\ files' = [files EXCEPT ![p][j] = f]
            /\ closed' = Closed(files[p][j], "dup3")
            /\ UNCHANGED halted
       ELSE halted' = TRUE /\ UNCHANGED <<created, closed, files>>
    /\ UNCHANGED <<state, using>>

\* read and write hold a clone of the Arc while they run, and may yield.
BeginCall(p, i) ==
    /\ Ready(p)
    /\ Opened(p, i)
    /\ files[p][i] \in Files
    /\ using' = [using EXCEPT ![p] = files[p][i]]
    /\ UNCHANGED <<state, files, created, closed, halted>>

EndCall(p) ==
    /\ ~halted
    /\ using[p] # None
    /\ using' = [using EXCEPT ![p] = None]
    /\ UNCHANGED <<state, files, created, closed, halted>>

Inherited_Shifted(table) ==
    LET open == SelectSeq(SubSeq(table, StdFds + 1, Len(table)), LAMBDA f : f # None)
    IN  Stdio \o open

\* The table fork gives a child: its own console, then the descriptors above,
\* up to the last one open.
Inherited(table) ==
    LET open == {i \in (StdFds + 1)..Len(table) : table[i] # None}
    IN  [i \in 1..Max({StdFds} \cup open) |-> IF i <= StdFds THEN Console ELSE table[i]]

fork(p, c) ==
    /\ Ready(p)
    /\ state[c] = "unused"
    /\ state' = [state EXCEPT ![c] = "live"]
    /\ files' = [files EXCEPT ![c] = Inherited(files[p])]
    /\ UNCHANGED <<created, closed, using, halted>>

exit_FilesDropped(p) ==
    /\ Ready(p)
    /\ p # InitProc
    /\ state' = [state EXCEPT ![p] = "zombie"]
    /\ files' = [files EXCEPT ![p] = <<>>]
    /\ UNCHANGED <<created, closed, using, halted>>

\* exit pops the entries one by one and closes a file when its count is 1,
\* which is at its last entry, if nobody else refers to it.
exit(p) ==
    /\ Ready(p)
    /\ p # InitProc
    /\ state' = [state EXCEPT ![p] = "zombie"]
    /\ files' = [files EXCEPT ![p] = <<>>]
    /\ closed' = [f \in Files |->
                    LET own == {i \in Entries(p) : files[p][i] = f}
                    IN  IF own # {} /\ strong_count(p, f) = Cardinality(own)
                        THEN Closed(f, "close")[f] ELSE closed[f]]
    /\ UNCHANGED <<created, using, halted>>

DropProcess(p) ==
    /\ ~halted
    /\ state[p] = "zombie"
    /\ state' = [state EXCEPT ![p] = "reaped"]
    /\ UNCHANGED <<files, created, closed, using, halted>>

Next ==
    \E p \in Proc :
        \/ Open(p) \/ pipe2(p) \/ EndCall(p) \/ exit(p) \/ DropProcess(p)
        \/ \E c \in Proc : fork(p, c)
        \/ \E i \in 1..MaxFd : close(p, i) \/ dup(p, i) \/ BeginCall(p, i)
        \/ \E i, j \in 1..(MaxFd + 1) : dup3(p, i, j)
        \/ \E j \in 1..(MaxFd + 1) : dup3_cwd(p, j)

Spec == Init /\ [][Next]_vars

-----------------------------------------------------------------------------
TypeOK ==
    /\ state \in [Proc -> {"unused", "live", "zombie", "reaped"}]
    /\ files \in [Proc -> Seq(Files \cup {Console, None})]
    /\ \A p \in Proc : Len(files[p]) <= MaxFd
    /\ created \subseteq Files
    /\ closed \in [Files -> {"no", "close", "dup3"}]
    /\ using \in [Proc -> Files \cup {None}]
    /\ halted \in BOOLEAN

\* A table entry, of any process, or a running call refers to f.
Referenced(f) ==
    \/ \E p \in Proc : \E i \in Entries(p) : files[p][i] = f
    \/ \E p \in Proc : using[p] = f

\* The strong-count tests of close and exit: a file they closed is referred to
\* by no table and no running call, now or later; in particular no read that is
\* blocked in another process has its pipe closed under it.
ClosedIsUnused == \A f \in Files : closed[f] = "close" => ~Referenced(f)

\* A file that lost its last reference was closed, whichever of close, dup3 and
\* exit took that reference: the other end of a pipe learns that it is alone.
LastReferenceCloses == \A f \in created : ~Referenced(f) => closed[f] # "no"

\* The calls that only add descriptors.
Creates(p) ==
    \/ Open(p) \/ pipe2(p)
    \/ \E i \in 1..MaxFd : dup(p, i)
    \/ \E c \in Proc : fork(p, c)

\* open, dup, pipe2 and fork lose no descriptor: they change no entry that is
\* in use, of any process, and each file they create is in a table afterwards.
\* In particular pipe2 returns two different descriptors.
NoDescriptorLost ==
    [][(\E p \in Proc : Creates(p)) =>
          /\ \A p \in Proc : \A i \in Entries(p) :
                 files[p][i] # None => i \in DOMAIN files'[p] /\ files'[p][i] = files[p][i]
          /\ \A f \in created' \ created :
                 \E p \in Proc : \E i \in DOMAIN files'[p] : files'[p][i] = f]_vars

\* A child refers, by the same descriptor, to every file its parent has
\* open above the console's descriptors, and to no other.
ForkInherits ==
    [][\A c \in Proc : state[c] = "unused" /\ state'[c] = "live" =>
          \E p \in Proc :
              /\ state[p] = "live"
              /\ \A i \in (StdFds + 1)..MaxFd : \A f \in Files :
                     (i \in Entries(p) /\ files[p][i] = f) <=>
                     (i \in DOMAIN files'[c] /\ files'[c][i] = f)]_vars
=============================================================================
