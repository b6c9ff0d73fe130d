------------------------------ MODULE DirTree -------------------------------
(***************************************************************************)
(* The tree of DirEntries (filesystem/mod.rs) over the inodes of a FAT     *)
(* volume (filesystem/fatfs.rs) and of the block device, and the system    *)
(* calls that walk and change it: open, close, chdir, execve's and stat's  *)
(* lookups, mkdirat, linkat, mount and getdents64 (syscall/file.rs,        *)
(* syscall/utils.rs).                                                      *)
(*                                                                         *)
(* An Arc<DirEntry> is a number; a dentry exists while the root, a process *)
(* (cwd), an open file or the children of an existing dentry hold it.  Its *)
(* parent is a Weak reference.  Names are numbers in the order in which    *)
(* the BTreeMap iterates over them.  A path is absolute or not and a       *)
(* sequence of components.  The system calls are atomic: they hold the     *)
(* process's data lock, and the block device is polled.                    *)
(***************************************************************************)
EXTENDS Integers, FiniteSetsExt, SequencesExt

CONSTANTS
    Names,          \* ordinary names, positive
    Disk,           \* per inode of the FAT directories: name -> inode
    FatRoot,        \* the inode fatfs mounts
    FileInode,      \* the inodes that are files
    EmptyFile,      \* those without a cluster
    Blk,            \* the inode of /dev/blk0
    VFS,            \* no inode: a directory of the VFS alone
    Slots,          \* open files
    Paths,          \* the paths the calls use
    Links,          \* the pairs of paths linkat uses
    MaxDentry,      \* bound: dentries at a time
    MaxCalls        \* bound: calls

DotDot == -1
Dot == 0
Empty == -2

Inodes == DOMAIN Disk \cup FileInode \cup {Blk, VFS}

ASSUME ConstantsAssumption ==
    /\ Names \subseteq Nat \ {0}
    /\ FatRoot \in DOMAIN Disk /\ EmptyFile \subseteq FileInode
    /\ Blk \notin DOMAIN Disk /\ VFS \notin DOMAIN Disk /\ Blk # VFS
    /\ MaxDentry \in Nat /\ MaxCalls \in Nat

VARIABLES
    tree,       \* the existing dentries
    cwd,
    files,      \* per slot, the dentry of an open file and where it is
    panicked,   \* what stopped the kernel
    calls

vars == <<tree, cwd, files, panicked, calls>>

Root == 1
NoParent == 0
Gone == -1                  \* a parent that was dropped
Closed == [dentry |-> 0, pos |-> 0, due |-> {}, seen |-> {}, ended |-> FALSE]
NoChildren == [n \in {} |-> 0]

Entries(i) == IF i \in DOMAIN Disk THEN Disk[i] ELSE NoChildren
TypeOf(i) == IF i \in DOMAIN Disk \cup {VFS} THEN "Dir" ELSE "File"
\* covered is history: a volume was mounted on it after its children were read.
Dentry(parent, name, inode) ==
    [parent |-> parent, name |-> name, inode |-> inode, type |-> TypeOf(inode),
     children |-> NoChildren, loaded |-> FALSE, covered |-> FALSE]

With(f, x, y) == [z \in DOMAIN f \cup {x} |-> IF z = x THEN y ELSE f[z]]

Insert_InGrandparent(t, d, name, inode) ==
    LET id == Min((1..(2 * MaxDentry + Cardinality(Names))) \ DOMAIN t)
    IN  With([t EXCEPT ![d].children = With(@, name, id)], id,
             Dentry(Max({t[d].parent, Root}), name, inode))

\* A new dentry and its entry in the children of d; replaces one of that name.
Insert(t, d, name, inode) ==
    LET id == Min((1..(2 * MaxDentry + Cardinality(Names))) \ DOMAIN t)
    IN  With([t EXCEPT ![d].children = With(@, name, id)], id, Dentry(d, name, inode))

\* What is left of t when only the dentries reachable from held have a holder.
Collect(t, held) ==
    LET reach[n \in 0..MaxDentry] ==
            IF n = 0 THEN {Root} \cup held
            ELSE LET r == reach[n - 1] IN r \cup UNION {Range(t[d].children) : d \in r}
        alive == reach[MaxDentry]
    IN  [d \in alive |-> IF t[d].parent \in alive \cup {NoParent} THEN t[d]
                         ELSE [t[d] EXCEPT !.parent = Gone]]

\* The dentries a process's cwd and the open files hold.
Held(c, f) == {c} \cup ({f[s].dentry : s \in Slots} \ {Closed.dentry})

\* init makes /dev, the block driver links /dev/blk0.
Init ==
    /\ tree = LET dev == Insert(With(NoChildren, Root, Dentry(NoParent, Empty, VFS)),
                               Root, Min(Names), VFS)
              IN  Insert(dev, dev[Root].children[Min(Names)], Max(Names), Blk)
    /\ cwd = Root
    /\ files = [s \in Slots |-> Closed]
    /\ panicked = "no"
    /\ calls = 0

-----------------------------------------------------------------------------
(* Paths *)

Found(t, d) == [tree |-> t, at |-> d, out |-> "found"]
Failed(r, out) == [r EXCEPT !.out = out]

\* parent.upgrade(), which panics when the parent was dropped.
Up(r) ==
    LET p == r.tree[r.at].parent
    IN  CASE p = NoParent -> Found(r.tree, Root)
          [] p = Gone -> Failed(r, "parent dropped")
          [] OTHER -> Found(r.tree, p)

\* A child by name: a loaded one, or else one the inode finds.  The lookup of
\* FAT unwraps the first cluster, which an empty file does not have.
Down(r, name) ==
    LET d == r.tree[r.at]
        inode == Entries(d.inode)[name]
        t == Insert(r.tree, r.at, name, inode)
    IN  CASE name \in DOMAIN d.children -> Found(r.tree, d.children[name])
          [] name \in DOMAIN Entries(d.inode) \ DOMAIN d.children ->
                 IF inode \in EmptyFile THEN Failed(r, "no first cluster")
                 ELSE Found(t, t[r.at].children[name])
          [] OTHER -> Failed(r, "none")

Component(r, name) ==
    CASE r.out # "found" -> r
      [] r.out = "found" /\ name = DotDot -> Up(r)
      [] r.out = "found" /\ name \in {Dot, Empty} -> r
      [] r.out = "found" /\ name \in Names ->
             IF r.tree[r.at].type = "Dir" THEN Down(r, name) ELSE Failed(r, "none")

\* The dentry of all but the last component; the last one is Last(path.names).
get_parent(path, dir) ==
    FoldLeft(Component, Found(tree, IF path.absolute THEN Root ELSE dir), Front(path.names))

LastComponent(r, name) ==
    CASE r.out # "found" -> r
      [] r.out = "found" /\ name = DotDot -> Up(r)
      [] r.out = "found" /\ name \in {Dot, Empty} -> r
      [] r.out = "found" /\ name \in Names -> Down(r, name)

from_path(path, dir) == LastComponent(get_parent(path, dir), Last(path.names))

-----------------------------------------------------------------------------
(* System calls *)

\* A call that ends with dentries t, working directory c and open files f.
Commit(t, c, f) ==
    /\ tree' = Collect(t, Held(c, f))
    /\ Cardinality(DOMAIN tree') <= MaxDentry
    /\ cwd' = c
    /\ files' = f
    /\ calls' = calls + 1
    /\ UNCHANGED panicked

Running == panicked = "no" /\ calls < MaxCalls

Panic(why) ==
    /\ panicked' = why
    /\ calls' = calls + 1
    /\ UNCHANGED <<tree, cwd, files>>

\* The end of a call that only looked up: the dentries it loaded stay.
LookedUp(r) ==
    IF r.out \in {"found", "none"} THEN Commit(r.tree, cwd, files) ELSE Panic(r.out)

\* The directory a path starts from: get_dentry_from_fd.
Dirs == {cwd} \cup {files[s].dentry : s \in {s \in Slots : files[s] # Closed}}

newfstatat(path, dir) == Running /\ LookedUp(from_path(path, dir))

\* The names fullpath collects on the way up from d, and where it ends: at
\* the root, or at a dentry whose parent is gone.
Climb(t, d) ==
    LET up[n \in 0..MaxDentry, e \in DOMAIN t] ==
            IF n = 0 \/ t[e].parent \in {NoParent, Gone} THEN [names |-> <<>>, top |-> t[e].parent]
            ELSE LET r == up[n - 1, t[e].parent] IN [r EXCEPT !.names = Append(@, t[e].name)]
    IN  up[MaxDentry, d]

\* execve and getcwd, which also compute a fullpath.
fullpath(path) ==
    /\ Running
    /\ LET r == from_path(path, cwd)
       IN  IF r.out = "found" /\ Climb(r.tree, r.at).top = Gone
           THEN Panic("parent dropped")
           ELSE LookedUp(r)

open(s, path, dir) ==
    /\ Running
    /\ files[s] = Closed
    /\ LET r == from_path(path, dir)
       IN  IF r.out = "found"
           THEN Commit(r.tree, cwd, [files EXCEPT ![s] = [Closed EXCEPT !.dentry = r.at]])
           ELSE LookedUp(r)

close(s) ==
    /\ Running
    /\ files[s] # Closed
    /\ Commit(tree, cwd, [files EXCEPT ![s] = Closed])

chdir(path) ==
    /\ Running
    /\ LET r == from_path(path, cwd)
       IN  IF r.out = "found" THEN Commit(r.tree, r.at, files) ELSE LookedUp(r)

\* A new dentry without an inode, or with one, under the directory r found.
\* Only the VFS takes it: FAT's mkdir and link are todo!(), the block device's
\* are errors that the callers expect away.
Make(r, name, inode) ==
    IF r.tree[r.at].inode = VFS
    THEN Commit(Insert(r.tree, r.at, name, inode), cwd, files)
    ELSE Panic("todo")

mkdir_Overwrites(path, dir) ==
    /\ Running
    /\ LET r == get_parent(path, dir)
           name == Last(path.names)
       IN  IF r.out = "found" /\ name \notin {Dot, DotDot}
           THEN Make(r, name, VFS)
           ELSE LookedUp(r)

\* mkdirat and DirEntry::mkdir.
mkdir(path, dir) ==
    /\ Running
    /\ LET r == get_parent(path, dir)
           name == Last(path.names)
       IN  IF /\ r.out = "found"
              /\ name \notin {Dot, DotDot}
              /\ name \notin DOMAIN r.tree[r.at].children
           THEN Make(r, name, VFS)
           ELSE LookedUp(r)

\* linkat and DirEntry::link, which do not look at the name.
link(old, new, dir) ==
    /\ Running
    /\ LET o == from_path(old, dir)
           start == [o EXCEPT !.at = IF new.absolute THEN Root ELSE dir]
           r == FoldLeft(Component, start, Front(new.names))
           name == Last(new.names)
       IN  IF /\ r.out = "found"
              /\ r.tree[o.at].inode # VFS
              /\ name \notin DOMAIN r.tree[r.at].children
           THEN Make(r, name, r.tree[o.at].inode)
           ELSE LookedUp(r)

mount_NotEmpty(path) ==
    /\ Running
    /\ LET r == from_path(path, cwd)
       IN  IF r.out = "found" /\ r.tree[r.at].type = "Dir"
           THEN Commit([r.tree EXCEPT ![r.at].inode = FatRoot,
                                      ![r.at].covered = r.tree[r.at].loaded], cwd, files)
           ELSE LookedUp(r)

\* mount of the block device with fatfs.
mount(path) ==
    /\ Running
    /\ LET r == from_path(path, cwd)
           d == r.tree[r.at]
       IN  IF r.out = "found" /\ d.type = "Dir" /\ d.children = NoChildren
           THEN Commit([r.tree EXCEPT ![r.at].inode = FatRoot, ![r.at].covered = d.loaded],
                       cwd, files)
           ELSE LookedUp(r)

\* What the first get_child of a dentry does: read_dir, and extend, which puts
\* new dentries in the place of those already loaded.
get_child(t, d) ==
    IF t[d].loaded THEN t
    ELSE LET u == FoldSet(LAMBDA n, v : Insert(v, d, n, Entries(t[d].inode)[n]), t,
                          DOMAIN Entries(t[d].inode))
         IN  [u EXCEPT ![d].loaded = TRUE]

Position_Past(pos, k, n) == Max({pos, Min({pos + k, n}) + 1})

\* The position after listing up to k of n children.
Position(pos, k, n) == Max({pos, Min({pos + k, n})})

\* getdents64 on a directory with room for k entries: they are the children
\* numbered from the file's position, which moves past them.  A buffer too
\* small for the next entry gets the same 0 as the end of the directory.
\* due, seen and ended are history: what there is to list at the first call,
\* what was listed, and that a buffer with room got nothing.
getdents64(s, k) ==
    /\ Running
    /\ files[s] # Closed
    /\ tree[files[s].dentry].type = "Dir"
    /\ LET h == files[s]
           t == get_child(tree, h.dentry)
           children == DOMAIN t[h.dentry].children
           order == SetToSortSeq(children, <)
           listed == {order[i] : i \in (h.pos + 1)..Min({h.pos + k, Len(order)})}
       IN  Commit(t, cwd,
                  [files EXCEPT ![s] =
                     [h EXCEPT !.pos = Position(@, k, Len(order)),
                               !.due = IF h.pos > 0 THEN @
                                       ELSE children \cup DOMAIN Entries(tree[h.dentry].inode),
                               !.seen = @ \cup listed,
                               !.ended = k > 0 /\ listed = {}]])

Next ==
    \/ \E path \in Paths, dir \in Dirs : newfstatat(path, dir) \/ mkdir(path, dir)
    \/ \E s \in Slots, path \in Paths, dir \in Dirs : open(s, path, dir)
    \/ \E l \in Links, dir \in Dirs : link(l[1], l[2], dir)
    \/ \E path \in Paths : fullpath(path) \/ chdir(path) \/ mount(path)
    \/ \E s \in Slots : close(s) \/ (\E k \in 0..2 : getdents64(s, k))

Spec == Init /\ [][Next]_vars

-----------------------------------------------------------------------------
Attached == DOMAIN Collect(tree, {})

\* getcwd and execve tell a program the fullpath of a dentry: a lookup of that
\* path finds the same dentry again, if its names are ordinary ones.
FullpathLeadsBack ==
    \A d \in Attached \ {Root} :
        LET names == Climb(tree, d).names
            r == from_path([absolute |-> TRUE, names |-> names], Root)
        IN  Range(names) \subseteq Names => r.out = "found" /\ r.at = d

\* Under a directory of a volume lie only dentries of that volume: mount
\* replaces the inode of a dentry and leaves its children, which were loaded
\* from the old inode or made in the VFS, so there must be none.  A child may
\* itself be a mount point.
ChildrenAreOfTheVolume ==
    \A d \in DOMAIN tree :
        LET volume == Entries(tree[d].inode)
        IN  tree[d].inode # VFS =>
              \A n \in DOMAIN tree[d].children :
                 n \in DOMAIN volume /\ tree[tree[d].children[n]].inode \in {volume[n], FatRoot}

\* When getdents64 with room for an entry returns none, the calls on the file
\* have listed every entry that its directory, the volume's part of it
\* included, had at the first, whatever lookups loaded, or mkdir and link made,
\* before or in between.  The exception is a directory that was read before
\* the volume was mounted on it: children_fully_loaded stays set, and the
\* volume is not read.
ListingMissesNothing ==
    \A s \in Slots : files[s].ended /\ ~tree[files[s].dentry].covered =>
        files[s].due \subseteq files[s].seen

\* Once a directory was read, the dentries in it are not replaced: what a file
\* or a mount holds stays the dentry that lookups find.
ReadDirectoryIsStable ==
    [][\A d \in DOMAIN tree \cap DOMAIN tree' :
         tree[d].loaded /\ d \in Attached =>
            \A n \in DOMAIN tree[d].children :
                /\ n \in DOMAIN tree'[d].children
                /\ tree'[d].children[n] = tree[d].children[n]]_vars
=============================================================================
