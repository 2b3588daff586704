----------------------------- MODULE FileSystem -----------------------------
(*****************************************************************************)
(* Open files and the tree of names they are found in.                       *)
(*****************************************************************************)
EXTENDS Integers, FiniteSets, Sequences, SequencesExt

-----------------------------------------------------------------------------
(***************************************************************************)
(* The descriptor table of a process (kernel/fs/src/file.rs) and the system  *)
(* calls on it (kernel/kernel/src/syscall/vfs.rs), made by the threads that  *)
(* share it.  read and write take the inode and the offset under the lock,    *)
(* do the transfer without it, and lock again to move the offset.             *)
(*                                                                         *)
(* An entry carries two history fields: made, how it came into the table, and *)
(* due, the offset its transfers and seeks add up to.                         *)
(***************************************************************************)
CONSTANTS
    FtThreads,      \* threads that share the table
    FtInodes,       \* inode -> its type: "File", "CharDevice"
    FtModes,        \* the flags open is called with: subsets of {"R", "W", "CLOEXEC"}
    FtDeltas,       \* the distances of a seek
    FtFds,          \* 0..n: the descriptor numbers
    FtMaxSize,      \* bound: length of a file
    FtCalls         \* bound: calls

VARIABLES
    ftFds,      \* fds: number -> [inode, off, flags, id, made, due]
    ftNext,     \* next_fd
    ftUsed,     \* history: the numbers that have been in the table
    ftIds,      \* history: entries made so far
    ftLate,     \* history: how the entries were made that a stranger's transfer moved
    ftSize,     \* the length of each file
    ftCall,     \* the read or write of each thread
    ftLeft      \* calls left

ftVars == <<ftFds, ftNext, ftUsed, ftIds, ftLate, ftSize, ftCall, ftLeft>>

Quiet == [pc |-> "none", fd |-> 0, inode |-> "none", off |-> 0, id |-> 0, n |-> 0, write |-> FALSE]

Open == DOMAIN ftFds
Lower(S) == CHOOSE x \in S : \A y \in S : x <= y
Put(t, fd, e) == [f \in DOMAIN t \cup {fd} |-> IF f = fd THEN e ELSE t[f]]
Drop(t, S) == [f \in DOMAIN t \ S |-> t[f]]

Entry(inode, off, flags, id, made) ==
    [inode |-> inode, off |-> off, flags |-> flags, id |-> id, made |-> made, due |-> off]

Spend == ftLeft > 0 /\ ftLeft' = ftLeft - 1

-----------------------------------------------------------------------------
\* The process starts with a file on descriptor 0, as spawn's fd_map puts it.
FtInit ==
    /\ ftFds = [f \in {0} |-> Entry("f", 0, {"R", "W"}, 0, "dup")]
    /\ ftNext = 1 /\ ftUsed = {0} /\ ftIds = 1 /\ ftLate = {}
    /\ ftSize = [i \in DOMAIN FtInodes |-> IF FtInodes[i] = "File" THEN 1 ELSE 0]
    /\ ftCall = [t \in FtThreads |-> Quiet]
    /\ ftLeft = FtCalls

\* (mutant) open takes the lowest number that is free.
OpenReuses(inode, flags) ==
    LET fd == Lower(FtFds \ Open)
    IN  /\ FtFds \ Open # {}
        /\ ftFds' = Put(ftFds, fd, Entry(inode, 0, flags, ftIds, "open"))
        /\ ftNext' = IF fd >= ftNext THEN fd + 1 ELSE ftNext
        /\ ftUsed' = ftUsed \cup {fd} /\ ftIds' = ftIds + 1

\* FileDescriptorTable::open: always the next number.
TableOpen(inode, flags) ==
    /\ ftNext \in FtFds
    /\ ftFds' = Put(ftFds, ftNext, Entry(inode, 0, flags, ftIds, "open"))
    /\ ftNext' = ftNext + 1
    /\ ftUsed' = ftUsed \cup {ftNext} /\ ftIds' = ftIds + 1

\* insert_at over whatever is there, and the end of dup_lowest_from.
InsertFd(fd, inode, off, flags) ==
    /\ ftFds' = Put(ftFds, fd, Entry(inode, off, flags, ftIds, "dup"))
    /\ ftNext' = IF fd >= ftNext THEN fd + 1 ELSE ftNext
    /\ ftUsed' = ftUsed \cup {fd} /\ ftIds' = ftIds + 1

\* sys_vnode_open, once the path is resolved.
VnodeOpen(t, inode, flags) ==
    /\ ftCall[t].pc = "none" /\ Spend
    /\ TableOpen(inode, flags)
    /\ UNCHANGED <<ftLate, ftSize, ftCall>>

\* sys_handle_pipe and pipe2: both ends under one lock.
HandlePipe2(t, extra) ==
    /\ ftCall[t].pc = "none" /\ Spend
    /\ {ftNext, ftNext + 1} \subseteq FtFds
    /\ ftFds' = Put(Put(ftFds, ftNext, Entry("reader", 0, {"R"} \cup extra, ftIds, "open")),
                    ftNext + 1, Entry("writer", 0, {"W"} \cup extra, ftIds + 1, "open"))
    /\ ftNext' = ftNext + 2
    /\ ftUsed' = ftUsed \cup {ftNext, ftNext + 1} /\ ftIds' = ftIds + 2
    /\ UNCHANGED <<ftLate, ftSize, ftCall>>

\* fd_inode_checked, the first half of sys_vnode_read and sys_vnode_write;
\* without the descriptor or the access mode the answer is EBADF.
FtBegin(t, fd, write) ==
    LET e == ftFds[fd]
    IN  /\ ftCall[t].pc = "none" /\ fd \in Open /\ Spend
        /\ (IF write THEN "W" ELSE "R") \in e.flags
        /\ FtInodes[e.inode] = "File"
        /\ ftCall' = [ftCall EXCEPT ![t] =
              [pc |-> "io", fd |-> fd, inode |-> e.inode, off |-> e.off, id |-> e.id, n |-> 0, write |-> write]]
        /\ UNCHANGED <<ftFds, ftNext, ftUsed, ftIds, ftLate, ftSize>>

\* The entry the transfer was begun on, wherever the table has it.
Moved(id, n) == [f \in Open |-> IF ftFds[f].id = id THEN [ftFds[f] EXCEPT !.due = @ + n] ELSE ftFds[f]]

\* RamInode::read and write of one byte: nothing at the end of the file, and a
\* write beyond the end fills the gap.
Transfer(t) ==
    LET c == ftCall[t]
        size == ftSize[c.inode]
        n == IF c.write \/ c.off < size THEN 1 ELSE 0
    IN  /\ c.pc = "io"
        /\ c.write => c.off < FtMaxSize
        /\ ftSize' = [ftSize EXCEPT ![c.inode] = IF c.write /\ c.off + 1 > size THEN c.off + 1 ELSE size]
        /\ ftCall' = [ftCall EXCEPT ![t].pc = "move", ![t].n = n]
        /\ ftFds' = Moved(c.id, n)
        /\ UNCHANGED <<ftNext, ftUsed, ftIds, ftLate, ftLeft>>

\* The descriptor that has the number now moves by the bytes transferred.
Advance(t) ==
    LET c == ftCall[t]
    IN  [ftFds EXCEPT ![c.fd].off = @ + c.n]

MoveOffset(t) ==
    LET c == ftCall[t]
        stranger == c.fd \in Open /\ ftFds[c.fd].id # c.id
    IN  /\ c.pc = "move"
        /\ ftFds' = CASE c.fd \notin Open -> ftFds
                      [] stranger -> [Advance(t) EXCEPT ![c.fd].due = @ + c.n]
                      [] OTHER -> Advance(t)
        /\ ftLate' = IF stranger /\ c.n > 0 THEN ftLate \cup {ftFds[c.fd].made} ELSE ftLate
        /\ ftCall' = [ftCall EXCEPT ![t] = Quiet]
        /\ UNCHANGED <<ftNext, ftUsed, ftIds, ftSize, ftLeft>>

\* sys_handle_close.
HandleClose(t, fd) ==
    /\ ftCall[t].pc = "none" /\ fd \in Open
    /\ ftFds' = Drop(ftFds, {fd})
    /\ UNCHANGED <<ftNext, ftUsed, ftIds, ftLate, ftSize, ftCall, ftLeft>>

\* sys_handle_dup, the call behind dup2: the new number starts at offset 0.
HandleDup(t, old, new) ==
    /\ ftCall[t].pc = "none" /\ old \in Open /\ Spend
    /\ InsertFd(new, ftFds[old].inode, 0, ftFds[old].flags)
    /\ UNCHANGED <<ftLate, ftSize, ftCall>>

\* sys_handle_dup_lowest and fcntl F_DUPFD, F_DUPFD_CLOEXEC: the lowest free
\* number from min on, with the offset of the source.
DupLowestFrom(t, fd, min, extra) ==
    LET free == {f \in FtFds \ Open : f >= min}
    IN  /\ ftCall[t].pc = "none" /\ fd \in Open /\ free # {} /\ Spend
        /\ InsertFd(Lower(free), ftFds[fd].inode, ftFds[fd].off, ftFds[fd].flags \cup extra)
        /\ UNCHANGED <<ftLate, ftSize, ftCall>>

\* fcntl F_SETFD and F_SETFL.
HandleFcntl(t, fd, on, flag) ==
    /\ ftCall[t].pc = "none" /\ fd \in Open /\ Spend
    /\ flag \in {"CLOEXEC", "APPEND", "NONBLOCK"}
    /\ ftFds' = [ftFds EXCEPT ![fd].flags = IF on THEN @ \cup {flag} ELSE @ \ {flag}]
    /\ ftFds' # ftFds
    /\ UNCHANGED <<ftNext, ftUsed, ftIds, ftLate, ftSize, ftCall>>

\* The bytes of an entry that are transferred but not yet added to its offset.
PendingOf(id) == Cardinality({t \in FtThreads : ftCall[t].pc = "move" /\ ftCall[t].id = id /\ ftCall[t].n = 1})

\* sys_vnode_seek: set, relative to the offset, relative to the length.  Not on
\* character devices (ESPIPE) and not to a negative offset (EINVAL).
VnodeSeek(t, fd, whence, delta) ==
    LET e == ftFds[fd]
        new == delta + (CASE whence = "SET" -> 0 [] whence = "CUR" -> e.off [] whence = "END" -> ftSize[e.inode])
    IN  /\ ftCall[t].pc = "none" /\ fd \in Open /\ FtInodes[e.inode] # "CharDevice"
        /\ new \in 0..FtMaxSize /\ Spend
        /\ ftFds' = [ftFds EXCEPT ![fd].off = new, ![fd].due = new + PendingOf(e.id)]
        /\ UNCHANGED <<ftNext, ftUsed, ftIds, ftLate, ftSize, ftCall>>

\* close_cloexec, when a thread runs another program; the other threads go on.
CloseCloexec(t) ==
    /\ ftCall[t].pc = "none"
    /\ ftFds' = Drop(ftFds, {f \in Open : "CLOEXEC" \in ftFds[f].flags})
    /\ ftFds' # ftFds
    /\ UNCHANGED <<ftNext, ftUsed, ftIds, ftLate, ftSize, ftCall, ftLeft>>

FtNext ==
    \E t \in FtThreads :
          \/ \E i \in DOMAIN FtInodes, m \in FtModes : FtInodes[i] = "File" /\ VnodeOpen(t, i, m)
          \/ \E extra \in SUBSET {"CLOEXEC"} : HandlePipe2(t, extra)
          \/ Transfer(t) \/ MoveOffset(t)
          \/ \E fd \in Open :
                \/ \E w \in BOOLEAN : FtBegin(t, fd, w)
                \/ HandleClose(t, fd)
                \/ \E new \in FtFds : HandleDup(t, fd, new)
                \/ \E min \in {0}, extra \in SUBSET {"CLOEXEC"} : DupLowestFrom(t, fd, min, extra)
                \/ \E on \in BOOLEAN : HandleFcntl(t, fd, on, "CLOEXEC")
                \/ \E w \in {"SET", "CUR", "END"}, d \in FtDeltas : VnodeSeek(t, fd, w, d)
          \/ CloseCloexec(t)

FtSpec == FtInit /\ [][FtNext]_ftVars

-----------------------------------------------------------------------------
\* A number that open or pipe hands out has never been in the table before, so
\* the late end of a transfer on a closed descriptor moves a descriptor that a
\* dup has put at its number, and never one that open or pipe has made.
LateOnlyOnDup == "open" \notin ftLate /\ \A f \in ftUsed : f < ftNext

\* No transfer is lost when threads read and write through one descriptor: its
\* offset, with the bytes still to be added to it, is what its seeks and
\* transfers amount to.
OffsetsCounted == \A f \in Open : ftFds[f].due = ftFds[f].off + PendingOf(ftFds[f].id)

-----------------------------------------------------------------------------
(***************************************************************************)
(* Paths, mounts and directories: kernel/fs/src/vfs.rs and path.rs, the trees *)
(* of ramfs, devfs, procfs and sysfs, the registries that fill devfs and      *)
(* sysfs at boot, and the system calls that take a path                       *)
(* (kernel/kernel/src/syscall/vfs.rs).  A walk looks one component up at a     *)
(* time, under the lock of one directory, so other calls change the tree       *)
(* between two of its steps.                                                   *)
(*                                                                         *)
(* A path is [abs, names], the names between its slashes, empty ones included. *)
(* The recursion of resolve_with_depth is unrolled: rest holds the components  *)
(* still to look up, each with the depth of the call it belongs to.            *)
(* An inode is <<kind, number>>: <<"n", i>> is node i of vtNodes, the inodes   *)
(* procfs makes at every lookup have kinds of their own.                       *)
(***************************************************************************)
CONSTANTS
    MaxSymlinkDepth,    \* MAX_SYMLINK_DEPTH
    VtDevices,          \* the paths (sequences of names) register_device is called with
    VtLinks,            \* name in the root directory -> path: the symlinks of the image
    VtThreads,          \* thread -> the name of its process
    VtProcs,            \* the names (pids) of the processes
    VtExe,              \* the exe_path of every process
    VtCalls,            \* the calls: [op, path, target, base]
    VtWidth,            \* bound: the components of a link's target
    VtBudget            \* bound: calls

VARIABLES
    vtNodes,    \* the nodes of ramfs, devfs and sysfs: [fs, type, kids, subs, target]
    vtMounts,   \* mounts: sequence of names -> root inode
    vtAlive,    \* processes in the process table
    vtCall,     \* the call of each thread
    vtLog,      \* history: <<directory, name>> -> times added minus times removed
    vtLeft      \* calls left

vtVars == <<vtNodes, vtMounts, vtAlive, vtCall, vtLog, vtLeft>>

NoPath == [abs |-> FALSE, names |-> <<>>]
NoKids == [x \in {} |-> 0]
AddTo(f, name, x) == [y \in DOMAIN f \cup {name} |-> IF y = name THEN x ELSE f[y]]
Node(fs, type, target) == [fs |-> fs, type |-> type, kids |-> NoKids, subs |-> NoKids, target |-> target]

Found(inode) == [err |-> "ok", inode |-> inode]
Fails(e) == [err |-> e, inode |-> <<"n", 0>>]

-----------------------------------------------------------------------------
\* get_or_create_dir of devfs and sysfs: [nodes, dir].
GetOrCreateDir(nodes, dir, name) ==
    IF name \in DOMAIN nodes[dir].subs
    THEN [nodes |-> nodes, dir |-> nodes[dir].subs[name]]
    ELSE [nodes |-> Append([nodes EXCEPT ![dir].subs = AddTo(@, name, Len(nodes) + 1)],
                           Node(nodes[dir].fs, "Directory", NoPath)),
          dir |-> Len(nodes) + 1]

MakeDirs(nodes, dir, names) ==
    FoldLeft(LAMBDA at, name : GetOrCreateDir(at.nodes, at.dir, name), [nodes |-> nodes, dir |-> dir], names)

Insert(nodes, dir, name, node) ==
    Append([nodes EXCEPT ![dir].kids = AddTo(@, name, Len(nodes) + 1)], node)

\* register_device: the directories of the path, then the device in the last.
RegisterDevice(nodes, root, path) ==
    LET at == MakeDirs(nodes, root, Front(path))
    IN  Insert(at.nodes, at.dir, Last(path), Node("devfs", "CharDevice", NoPath))

\* SysFs::new, populate_pci for one device and register_drm for its card.
PopulateSysfs(nodes, root) ==
    LET bus == MakeDirs(nodes, root, <<"bus", "pci", "devices">>)
        dev == GetOrCreateDir(bus.nodes, bus.dir, "0000:00:02.0")
        attr == Insert(dev.nodes, dev.dir, "vendor", Node("sysfs", "File", NoPath))
        drm == MakeDirs(attr, root, <<"class", "drm">>)
    IN  Insert(drm.nodes, drm.dir, "card0",
               Node("sysfs", "Symlink",
                    [abs |-> TRUE, names |-> <<"sys", "bus", "pci", "devices", "0000:00:02.0">>]))

\* The nodes when userspace starts: ramfs root 1 with its symlinks, devfs root 2,
\* sysfs root 3.
BootNodes ==
    LET roots == <<Node("ramfs", "Directory", NoPath), Node("devfs", "Directory", NoPath),
                   Node("sysfs", "Directory", NoPath)>>
        links == FoldLeft(LAMBDA nodes, l : Insert(nodes, 1, l[1], Node("ramfs", "Symlink", l[2])), roots, VtLinks)
        devs == FoldLeft(LAMBDA nodes, p : RegisterDevice(nodes, 2, p), links, VtDevices)
    IN  PopulateSysfs(devs, 3)

\* find_mount: the longest mount path that is a prefix of the path, name by name.
MountOf(names) ==
    CHOOSE m \in DOMAIN vtMounts :
        IsPrefix(m, names) /\ \A k \in DOMAIN vtMounts : IsPrefix(k, names) => Len(k) <= Len(m)

\* The components that the walk looks up from the root of the mount.
Components(names) == SelectSeq(names, LAMBDA n : n # "")
Below(names, depth) ==
    LET rest == Components(SubSeq(names, Len(MountOf(names)) + 1, Len(names)))
    IN  [i \in 1..Len(rest) |-> [name |-> rest[i], depth |-> depth]]

-----------------------------------------------------------------------------
\* Inode::inode_type.
InodeType(i) ==
    CASE i[1] = "n" -> vtNodes[i[2]].type
      [] i[1] \in {"proc", "pid"} -> "Directory"
      [] i[1] \in {"self", "exe"} -> "Symlink"
      [] OTHER -> "File"

\* lookup of a RamInode, a DevFsDir (subdirectories first) and a SysDir (files
\* first); files and devices are no directories.
NodeLookup(d, name) ==
    CASE d.type # "Directory" -> Fails("ENOTDIR")
      [] d.fs = "devfs" /\ name \in DOMAIN d.subs -> Found(<<"n", d.subs[name]>>)
      [] name \in DOMAIN d.kids /\ ~(d.fs = "devfs" /\ name \in DOMAIN d.subs) -> Found(<<"n", d.kids[name]>>)
      [] d.fs = "sysfs" /\ name \in DOMAIN d.subs \ DOMAIN d.kids -> Found(<<"n", d.subs[name]>>)
      [] OTHER -> Fails("ENOENT")

\* lookup of the inodes of procfs; a process directory asks the process table
\* again at every lookup.
ProcRootLookup(name) ==
    CASE name = "self" -> Found(<<"self", 0>>)
      [] name \in {"meminfo", "cpuinfo"} -> Found(<<"global", 0>>)
      [] name \in vtAlive -> Found(<<"pid", name>>)
      [] OTHER -> Fails("ENOENT")

ProcPidLookup(pid, name) ==
    CASE pid \notin vtAlive -> Fails("ENOENT")
      [] pid \in vtAlive /\ name \in {"maps", "status"} -> Found(<<"pidfile", pid>>)
      [] pid \in vtAlive /\ name = "exe" -> Found(<<"exe", pid>>)
      [] OTHER -> Fails("ENOENT")

Lookup(i, name) ==
    CASE i[1] = "n" -> NodeLookup(vtNodes[i[2]], name)
      [] i[1] = "proc" -> ProcRootLookup(name)
      [] i[1] = "pid" -> ProcPidLookup(i[2], name)
      [] OTHER -> Fails("ENOTDIR")

\* read_link: [err, path].
ReadLink(t, i) ==
    CASE i[1] = "self" -> [err |-> "ok", path |-> [abs |-> TRUE, names |-> <<"proc", VtThreads[t]>>]]
      [] i[1] = "exe" /\ i[2] \in vtAlive -> [err |-> "ok", path |-> VtExe]
      [] i[1] = "exe" /\ i[2] \notin vtAlive -> [err |-> "ENOENT", path |-> NoPath]
      [] InodeType(i) = "Symlink" /\ i[1] = "n" -> [err |-> "ok", path |-> vtNodes[i[2]].target]
      [] i[1] = "n" /\ InodeType(i) # "Symlink" /\ vtNodes[i[2]].fs = "ramfs" -> [err |-> "EINVAL", path |-> NoPath]
      [] OTHER -> [err |-> "ENOSYS", path |-> NoPath]

\* What the inodes of each kind answer to an operation: "ok" where a name or the
\* data has to be looked at, the error otherwise.  The trait's own methods refuse
\* what a kind does not define.
InodeDefault(op) == "ENOSYS"

RamInode(type, op) ==
    CASE op \in {"read", "write"} -> IF type = "Directory" THEN "EISDIR" ELSE "ok"
      [] op \in {"readdir", "mkdir", "unlink", "symlink"} -> IF type = "Directory" THEN "ok" ELSE "ENOTDIR"
      [] OTHER -> InodeDefault(op)

DevFsDir(op) ==
    CASE op \in {"read", "write"} -> "EISDIR"
      [] op \in {"readdir", "unlink"} -> "ok"
      [] op = "mkdir" -> "ENOSYS"
      [] OTHER -> InodeDefault(op)

DevNull(op) ==
    CASE op \in {"read", "write"} -> "ok"
      [] op \in {"readdir", "mkdir", "unlink"} -> "ENOTDIR"
      [] OTHER -> InodeDefault(op)

SysDir(op) ==
    CASE op = "read" -> "EISDIR"
      [] op = "readdir" -> "ok"
      [] op \in {"write", "mkdir", "unlink"} -> "EACCES"
      [] OTHER -> InodeDefault(op)

SysAttrFile(op) ==
    CASE op = "read" -> "ok"
      [] op = "write" -> "EACCES"
      [] op \in {"readdir", "mkdir", "unlink"} -> "ENOTDIR"
      [] OTHER -> InodeDefault(op)

SysSymlink(op) ==
    CASE op = "read" -> "ok"
      [] op = "write" -> "EACCES"
      [] op \in {"readdir", "mkdir", "unlink"} -> "ENOTDIR"
      [] OTHER -> InodeDefault(op)

ProcRootDir(op) ==
    CASE op \in {"read", "write"} -> "EISDIR"
      [] op = "readdir" -> "ok"
      [] op \in {"mkdir", "unlink"} -> "ENOSYS"
      [] OTHER -> InodeDefault(op)

ProcSelfLink(op) ==
    CASE op = "read" -> "ok"
      [] op = "write" -> "ENOSYS"
      [] op \in {"readdir", "mkdir", "unlink"} -> "ENOTDIR"
      [] OTHER -> InodeDefault(op)

ProcGlobalFile(op) ==
    CASE op = "read" -> "ok"
      [] op = "write" -> "ENOSYS"
      [] op \in {"readdir", "mkdir", "unlink"} -> "ENOTDIR"
      [] OTHER -> InodeDefault(op)

ProcPidDir(op) ==
    CASE op \in {"read", "write"} -> "EISDIR"
      [] op = "readdir" -> "ok"
      [] op \in {"mkdir", "unlink"} -> "ENOSYS"
      [] OTHER -> InodeDefault(op)

ProcPidFile(op) ==
    CASE op = "read" -> "ok"
      [] op = "write" -> "ENOSYS"
      [] op \in {"readdir", "mkdir", "unlink"} -> "ENOTDIR"
      [] OTHER -> InodeDefault(op)

ProcExeLink(op) ==
    CASE op = "read" -> "ok"
      [] op = "write" -> "ENOSYS"
      [] op \in {"readdir", "mkdir", "unlink"} -> "ENOTDIR"
      [] OTHER -> InodeDefault(op)

NodeAnswer(d, op) ==
    CASE d.fs = "ramfs" -> RamInode(d.type, op)
      [] d.fs = "devfs" -> IF d.type = "Directory" THEN DevFsDir(op) ELSE DevNull(op)
      [] d.fs = "sysfs" /\ d.type = "Directory" -> SysDir(op)
      [] d.fs = "sysfs" /\ d.type = "File" -> SysAttrFile(op)
      [] d.fs = "sysfs" /\ d.type = "Symlink" -> SysSymlink(op)

Answer(i, op) ==
    CASE i[1] = "n" -> NodeAnswer(vtNodes[i[2]], op)
      [] i[1] = "proc" -> ProcRootDir(op)
      [] i[1] = "self" -> ProcSelfLink(op)
      [] i[1] = "global" -> ProcGlobalFile(op)
      [] i[1] = "pid" -> ProcPidDir(op)
      [] i[1] = "pidfile" -> ProcPidFile(op)
      [] i[1] = "exe" -> ProcExeLink(op)

\* readdir of the directories: the names and the types listed.
NodeEntries(d) ==
    {[name |-> n, type |-> vtNodes[d.kids[n]].type] : n \in DOMAIN d.kids}
        \cup {[name |-> n, type |-> "Directory"] : n \in DOMAIN d.subs}

ProcRootEntries ==
    {[name |-> "self", type |-> "Symlink"], [name |-> "meminfo", type |-> "File"], [name |-> "cpuinfo", type |-> "File"]}
        \cup {[name |-> p, type |-> "Directory"] : p \in vtAlive}

ProcPidEntries ==
    {[name |-> "maps", type |-> "File"], [name |-> "exe", type |-> "Symlink"], [name |-> "status", type |-> "File"]}

-----------------------------------------------------------------------------
NoCall == [pc |-> "idle", op |-> "none", cur |-> <<"n", 0>>, rest |-> <<>>, name |-> "", target |-> NoPath, ans |-> "none"]

VtInit ==
    /\ vtNodes = BootNodes
    /\ vtMounts = [m \in {<<>>, <<"dev">>, <<"proc">>, <<"sys">>} |->
                     CASE m = <<>> -> <<"n", 1>> [] m = <<"dev">> -> <<"n", 2>>
                       [] m = <<"proc">> -> <<"proc", 0>> [] m = <<"sys">> -> <<"n", 3>>]
    /\ vtAlive = VtProcs
    /\ vtCall = [t \in DOMAIN VtThreads |-> NoCall]
    /\ vtLog = [k \in UNION {{<<d, n>> : n \in DOMAIN vtNodes[d].kids \cup DOMAIN vtNodes[d].subs} :
                            d \in DOMAIN vtNodes} |-> 1]
    /\ vtLeft = VtBudget

Ends(t, ans) == vtCall' = [vtCall EXCEPT ![t] = [NoCall EXCEPT !.pc = "end", !.op = vtCall[t].op, !.ans = ans]]

Walks(t, op, cur, rest, name, target) ==
    vtCall' = [vtCall EXCEPT ![t] =
        [pc |-> "walk", op |-> op, cur |-> cur, rest |-> rest, name |-> name, target |-> target, ans |-> "none"]]

\* The calls that act on the parent directory split the path at its last slash;
\* without a slash, or with nothing behind it, the answer is EINVAL, and resolve
\* refuses a relative parent with the same error.
OnParent == {"mkdir", "symlink", "unlink", "readlink", "rename"}

BadName(p) == ~p.abs \/ p.names = <<>> \/ Last(p.names) = ""

Refuses(t, op, ans) == vtCall' = [vtCall EXCEPT ![t] = [NoCall EXCEPT !.pc = "end", !.op = op, !.ans = ans]]

WalksToParent(t, op, p, target) ==
    Walks(t, op, vtMounts[MountOf(Front(p.names))], Below(Front(p.names), 0), Last(p.names), target)

\* rename splits both paths before it resolves one.
BeginOnParent(t, c) ==
    IF BadName(c.path) \/ (c.op = "rename" /\ BadName(c.target))
    THEN Refuses(t, c.op, "EINVAL")
    ELSE WalksToParent(t, c.op, c.path, c.target)

\* link resolves the target first and looks at the new name only then.
BeginLink(t, c) ==
    IF ~c.target.abs THEN Refuses(t, c.op, "EINVAL")
    ELSE Walks(t, c.op, vtMounts[MountOf(c.target.names)], Below(c.target.names, 0), "", c.path)

\* open hands the path on as it is and fstatat joins it to the working directory
\* "/" or starts from a directory descriptor.  The calls on a descriptor (read,
\* write, readdir, truncate, stat) are the open of a path and the call.
BeginOnPath(t, c) ==
    CASE c.op # "fstatat" /\ ~c.path.abs -> Refuses(t, c.op, "ENOENT")
      [] c.op = "fstatat" /\ ~c.path.abs /\ c.base # <<"n", 0>> ->
            Walks(t, c.op, c.base,
                  [i \in 1..Len(Components(c.path.names)) |-> [name |-> Components(c.path.names)[i], depth |-> 0]],
                  "", NoPath)
      [] OTHER -> Walks(t, c.op, vtMounts[MountOf(c.path.names)], Below(c.path.names, 0), "", NoPath)

VtBegin(t, c) ==
    /\ vtCall[t].pc \in {"idle", "end"} /\ vtLeft > 0
    /\ vtLeft' = vtLeft - 1
    /\ IF c.op \in OnParent THEN BeginOnParent(t, c) ELSE IF c.op = "link" THEN BeginLink(t, c) ELSE BeginOnPath(t, c)
    /\ UNCHANGED <<vtNodes, vtMounts, vtAlive, vtLog>>

\* open answers ENOENT whatever the walk failed with.
WalkError(op, e) == IF op \in OnParent \cup {"link", "fstatat"} THEN e ELSE "ENOENT"

\* (mutant) The components of a link's target are looked up at the depth of the link.
FollowSameDepth(t, i, depth) ==
    LET r == ReadLink(t, i)
    IN  [err |-> IF r.err # "ok" THEN r.err ELSE IF ~r.path.abs THEN "EINVAL" ELSE "ok",
         path |-> r.path, depth |-> depth]

\* The call of resolve_with_depth on the target of a symbolic link.
Follow(t, i, depth) ==
    LET r == ReadLink(t, i)
    IN  [err |-> CASE r.err # "ok" -> r.err
                   [] r.err = "ok" /\ depth + 1 > MaxSymlinkDepth -> "ELOOP"
                   [] r.err = "ok" /\ depth + 1 <= MaxSymlinkDepth /\ ~r.path.abs -> "EINVAL"
                   [] OTHER -> "ok",
         path |-> r.path, depth |-> depth + 1]

\* One turn of the loop in resolve_with_depth.
WalkStep(t) ==
    LET c == vtCall[t]
        head == Head(c.rest)
        l == Lookup(c.cur, head.name)
        f == Follow(t, l.inode, head.depth)
    IN  /\ c.pc = "walk" /\ c.rest # <<>>
        /\ CASE l.err # "ok" -> Ends(t, WalkError(c.op, l.err))
             [] l.err = "ok" /\ InodeType(l.inode) # "Symlink" ->
                  vtCall' = [vtCall EXCEPT ![t].cur = l.inode, ![t].rest = Tail(@)]
             [] l.err = "ok" /\ InodeType(l.inode) = "Symlink" /\ f.err # "ok" -> Ends(t, WalkError(c.op, f.err))
             [] OTHER ->
                  vtCall' = [vtCall EXCEPT ![t].cur = vtMounts[MountOf(f.path.names)],
                                           ![t].rest = Below(f.path.names, f.depth) \o Tail(@)]
        /\ UNCHANGED <<vtNodes, vtMounts, vtAlive, vtLog, vtLeft>>

Arrived(t, op) == vtCall[t].pc = "walk" /\ vtCall[t].rest = <<>> /\ vtCall[t].op = op
Count(dir, name) == IF <<dir, name>> \in DOMAIN vtLog THEN vtLog[<<dir, name>>] ELSE 0

\* on_open and the new descriptor; what fstatat reports of the inode; the
\* answer of the inode to a call on its descriptor.
OpenOrStat(t) ==
    /\ \E op \in {"open", "fstatat"} : Arrived(t, op)
    /\ Ends(t, "ok")
    /\ UNCHANGED <<vtNodes, vtMounts, vtAlive, vtLog, vtLeft>>

OnDescriptor(t) ==
    /\ \E op \in {"read", "write", "readdir", "truncate"} : Arrived(t, op)
    /\ Ends(t, Answer(vtCall[t].cur, vtCall[t].op))
    /\ UNCHANGED <<vtNodes, vtMounts, vtAlive, vtLog, vtLeft>>

\* (mutant) create does not look whether the name is there.
AddsAnyway(dir, name, node) ==
    [err |-> "ok", nodes |-> Insert(vtNodes, dir, name, node)]

\* RamInode::create and create_symlink: checked and added under one lock.
AddName(dir, name, node) ==
    IF name \in DOMAIN vtNodes[dir].kids
    THEN [err |-> "EEXIST", nodes |-> vtNodes]
    ELSE [err |-> "ok", nodes |-> Insert(vtNodes, dir, name, node)]

\* The name in the resolved parent, if the file system of the parent makes any.
MakeName(t, node) ==
    LET c == vtCall[t]
        why == Answer(c.cur, c.op)
        r == AddName(c.cur[2], c.name, node)
    IN  /\ IF why # "ok"
           THEN Ends(t, why) /\ UNCHANGED <<vtNodes, vtLog>>
           ELSE /\ vtNodes' = r.nodes
                /\ vtLog' = IF r.err = "ok" THEN AddTo(vtLog, <<c.cur[2], c.name>>, Count(c.cur[2], c.name) + 1)
                                            ELSE vtLog
                /\ Ends(t, r.err)
        /\ UNCHANGED <<vtMounts, vtAlive, vtLeft>>

VnodeMkdir(t) == Arrived(t, "mkdir") /\ MakeName(t, Node("ramfs", "Directory", vtCall[t].target))

VnodeSymlink(t) == Arrived(t, "symlink") /\ MakeName(t, Node("ramfs", "Symlink", vtCall[t].target))

\* sys_vnode_unlink: a directory goes with all that is in it; devfs looks among
\* the devices first, then among the subdirectories.
Unlink(t) ==
    LET c == vtCall[t]
        why == Answer(c.cur, c.op)
        dir == vtNodes[c.cur[2]]
        where == IF c.name \in DOMAIN dir.kids THEN "kids" ELSE "subs"
    IN  /\ Arrived(t, "unlink")
        /\ IF why # "ok" \/ c.name \notin DOMAIN dir.kids \cup DOMAIN dir.subs
           THEN Ends(t, IF why # "ok" THEN why ELSE "ENOENT") /\ UNCHANGED <<vtNodes, vtLog>>
           ELSE /\ vtNodes' = [vtNodes EXCEPT ![c.cur[2]][where] =
                                  [n \in DOMAIN @ \ {c.name} |-> @[n]]]
                /\ vtLog' = AddTo(vtLog, <<c.cur[2], c.name>>, Count(c.cur[2], c.name) - 1)
                /\ Ends(t, "ok")
        /\ UNCHANGED <<vtMounts, vtAlive, vtLeft>>

\* sys_vnode_readlink looks the last name up without following it.
VnodeReadlink(t) ==
    LET l == Lookup(vtCall[t].cur, vtCall[t].name)
    IN  /\ Arrived(t, "readlink")
        /\ Ends(t, IF l.err # "ok" THEN l.err ELSE ReadLink(t, l.inode).err)
        /\ UNCHANGED <<vtNodes, vtMounts, vtAlive, vtLog, vtLeft>>

\* rename and link resolve their second path and end in the trait's defaults,
\* which no file system overrides.
VnodeRename(t) ==
    /\ Arrived(t, "rename")
    /\ IF vtCall[t].target = NoPath THEN Ends(t, "ENOSYS") ELSE WalksToParent(t, "rename", vtCall[t].target, NoPath)
    /\ UNCHANGED <<vtNodes, vtMounts, vtAlive, vtLog, vtLeft>>

VnodeLink(t) ==
    /\ Arrived(t, "link")
    /\ IF vtCall[t].target = NoPath THEN Ends(t, "ENOSYS")
       ELSE IF BadName(vtCall[t].target) THEN Ends(t, "EINVAL")
       ELSE WalksToParent(t, "link", vtCall[t].target, NoPath)
    /\ UNCHANGED <<vtNodes, vtMounts, vtAlive, vtLog, vtLeft>>

\* A process that makes no calls here leaves the process table.
Exit(p) ==
    /\ p \in vtAlive /\ \A t \in DOMAIN VtThreads : VtThreads[t] # p
    /\ vtAlive' = vtAlive \ {p}
    /\ UNCHANGED <<vtNodes, vtMounts, vtCall, vtLog, vtLeft>>

VtStep(t) ==
    \/ WalkStep(t) \/ OpenOrStat(t) \/ OnDescriptor(t) \/ VnodeMkdir(t) \/ VnodeSymlink(t) \/ Unlink(t)
    \/ VnodeReadlink(t) \/ VnodeRename(t) \/ VnodeLink(t)

VtNext ==
    \/ \E t \in DOMAIN VtThreads : VtStep(t) \/ \E c \in VtCalls : VtBegin(t, c)
    \/ \E p \in VtProcs : Exit(p)

VtSpec == VtInit /\ [][VtNext]_vtVars

-----------------------------------------------------------------------------
\* The names of a ramfs directory are the ones made and not removed: of racing
\* calls that make one name exactly one is answered "ok", and every name that an
\* unlink was answered "ok" for was there once.
NamesCounted ==
    \A k \in DOMAIN vtLog :
        LET dir == vtNodes[k[1]]
        IN  vtLog[k] = IF k[2] \in DOMAIN dir.kids \cup DOMAIN dir.subs THEN 1 ELSE 0

\* A name that readdir lists is found by lookup, as an inode of the type that is
\* listed, and no other name is found (devfs lists its directories first and
\* sysfs its files; the root of /proc lists the processes there are; the files of
\* a process directory are listed as long as the process lives).
ListedAsFound ==
    LET agree(i, entries, names) ==
            /\ \A e \in entries : Lookup(i, e.name).err = "ok" /\ InodeType(Lookup(i, e.name).inode) = e.type
            /\ \A n \in names : Lookup(i, n).err = "ok" => \E e \in entries : e.name = n
        names == {k[2] : k \in DOMAIN vtLog} \cup VtProcs \cup {"self", "meminfo", "cpuinfo", "maps", "exe", "status"}
    IN  /\ \A d \in DOMAIN vtNodes : vtNodes[d].type = "Directory" => agree(<<"n", d>>, NodeEntries(vtNodes[d]), names)
        /\ agree(<<"proc", 0>>, ProcRootEntries, names)
        /\ \A p \in vtAlive : agree(<<"pid", p>>, ProcPidEntries, names)

\* What a walk has left to do at most, when no link of the tree has more than
\* VtWidth components: an upper bound on its lookups.
Work(rest) == FoldLeft(LAMBDA sum, c : sum + (VtWidth + 1) ^ (MaxSymlinkDepth + 1 - c.depth), 0, rest)

\* Every walk ends, whatever links it meets and whatever the other calls do to
\* the tree meanwhile: each of its steps leaves it less to do (links that lead to
\* one another stop at the depth limit).  rename and link walk twice: the second
\* walk begins when the first has nothing left.
WalkShrinks ==
    \A t \in DOMAIN VtThreads :
        vtCall[t].pc = "walk" /\ vtCall'[t].pc = "walk" =>
            \/ vtCall'[t] = vtCall[t]
            \/ vtCall[t].rest = <<>> /\ vtCall[t].target # NoPath /\ vtCall'[t].target = NoPath
            \/ Work(vtCall'[t].rest) < Work(vtCall[t].rest)
=============================================================================
