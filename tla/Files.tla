------------------------------- MODULE Files -------------------------------
(***************************************************************************)
(* Processes that open, read, write, name, rename and remove files: the    *)
(* descriptor tables (fd.rs), the calls on them (syscall.rs), and the      *)
(* release of contents that no name and no descriptor leads to (lib.rs).   *)
(* A call runs to its end before another process runs. Descriptors 0 to 2  *)
(* are the terminal's and not shown; the chunks of base files are resident.*)
(***************************************************************************)
EXTENDS FileTree

CONSTANTS
    Procs,      \* processes
    First,      \* the process the machine starts
    NumFds,     \* FD_LIMIT
    OpenFlags,  \* combinations of open flags
    Byte,       \* what a write writes
    Image,      \* the nodes of the filesystem at boot
    HostFiles,  \* paths at which the host puts files
    MaxNodes, MaxLen, MaxCalls   \* bounds of the exploration

ASSUME FilesConstants ==
    /\ First \in Procs /\ NumFds \in Nat \ {0}
    /\ HostFiles \subseteq Paths
    /\ MaxNodes \in Nat /\ MaxLen \in Nat /\ MaxCalls \in Nat

VARIABLES
    vfs,    \* the filesystem: nodes, unlinked
    descs,  \* open file descriptions
    fds,    \* process -> used descriptors -> description, close-on-exec
    cwd,    \* process -> working directory
    alive,  \* processes that have not exited
    ret,    \* the result of the last call
    calls   \* calls made so far

filesVars == <<vfs, descs, fds, cwd, alive, ret, calls>>

Fds == 0..(NumFds - 1)
DescIds == 1..(NumFds * Cardinality(Procs))
NoTable == [fd \in {} |-> None]

\* Results of calls: an errno, or the bytes that were read.
Return(errno) == [err |-> errno, bytes |-> <<>>]
ReadBytes(bytes) == [err |-> Ok, bytes |-> bytes]

-----------------------------------------------------------------------------
(* Descriptor tables *)

\* The descriptions that tables name. The others are dropped.
Held(tables) ==
    UNION {{tables[p][fd].desc : fd \in DOMAIN tables[p]} : p \in Procs}

Kept(ds, tables) == Restrict(ds, Held(tables))

\* FdTable::insert_from: the lowest free slot, none at the limit.
FreeSlots(p) == Fds \ DOMAIN fds[p]
Install(p, fd, d, cloexec) ==
    [fds EXCEPT ![p] = [f \in DOMAIN @ \cup {fd} |->
                            IF f = fd THEN [desc |-> d, cloexec |-> cloexec] ELSE @[f]]]
Remove(p, gone) == [fds EXCEPT ![p] = Restrict(@, DOMAIN @ \ gone)]
Desc(p, fd) == descs[fds[p][fd].desc]

\* Mutant: only the calling process's descriptors are looked at.
ReclaimedOwn(p, v, ds, tables) ==
    Release(v, {ds[tables[p][fd].desc].node : fd \in DOMAIN tables[p]})

\* LinuxEnv::reclaim_unlinked
Reclaimed(p, v, ds, tables) == Release(v, {ds[d].node : d \in Held(tables)})

-----------------------------------------------------------------------------
(* How calls begin and end *)

Calls(p) == p \in alive /\ calls < MaxCalls

\* The call's result; one that changed nothing else is not counted.
Ends(result) == ret' = result /\ calls' = calls + 1

Fails(errno) == ret' = Return(errno) /\ UNCHANGED <<vfs, descs, fds, cwd, alive, calls>>

\* The directory a relative path starts from: the working directory, or the
\* one that a descriptor stands for.
Bases(p) == {cwd[p]} \cup {Desc(p, fd).node : fd \in {f \in DOMAIN fds[p] : Desc(p, f).dir}}

\* The call ends with a filesystem, and the rest stands.
Leaves(result) ==
    /\ vfs' = result.fs
    /\ Ends(Return(result.err))
    /\ UNCHANGED <<descs, fds, cwd, alive>>

-----------------------------------------------------------------------------
(* Descriptors: open, close, dup, dup2, close_range *)

OpenRefused(r, f) ==
    CASE r.err # Ok -> r.err
      [] r.err = Ok /\ r.node # None /\ f.creat /\ f.excl -> "EEXIST"
      [] r.err = Ok /\ r.node = None /\ ~f.creat -> "ENOENT"
      [] OTHER -> Ok

\* What the kind of node i makes of the flags.
KindRefuses(v, i, f) ==
    CASE IsDir(v.nodes, i) /\ f.write -> "EISDIR"
      [] IsFile(v.nodes, i) /\ f.directory -> "ENOTDIR"
      [] v.nodes[i].kind = "link" -> "ELOOP"
      [] OTHER -> Ok

Truncated(v, i) ==
    [v EXCEPT !.nodes[i].kind = "file", !.nodes[i].data = <<>>, !.nodes[i].cap = 0]

\* The file is created, then refused or truncated, and only then a slot found.
SysOpenat(p, base, path, f) ==
    /\ Calls(p)
    /\ LET r == Resolve(vfs.nodes, base, path, ~f.nofollow)
           new == r.err = Ok /\ r.node = None
           made == Create(vfs, r.parent, r.name, Node("file", r.parent, <<>>, <<>>)).fs
           v == IF new THEN made ELSE vfs
           i == IF new THEN NextNode(vfs) ELSE r.node
           w == IF IsFile(v.nodes, i) /\ f.trunc /\ f.write THEN Truncated(v, i) ELSE v
           d == Min(DescIds \ DOMAIN descs)
       IN  \/ OpenRefused(r, f) # Ok /\ Fails(OpenRefused(r, f))
           \/ /\ OpenRefused(r, f) = Ok
              /\ new => Len(vfs.nodes) < MaxNodes
              /\ UNCHANGED <<cwd, alive>>
              /\ \/ /\ KindRefuses(v, i, f) # Ok
                    /\ vfs' = v
                    /\ Ends(Return(KindRefuses(v, i, f)))
                    /\ UNCHANGED <<descs, fds>>
                 \/ /\ KindRefuses(v, i, f) = Ok
                    /\ vfs' = w
                    /\ \/ FreeSlots(p) = {} /\ Ends(Return("EMFILE")) /\ UNCHANGED <<descs, fds>>
                       \/ /\ FreeSlots(p) # {}
                          /\ fds' = Install(p, Min(FreeSlots(p)), d, f.cloexec)
                          /\ descs' = [e \in DOMAIN descs \cup {d} |->
                                IF e = d THEN [node |-> i, dir |-> IsDir(v.nodes, i), offset |-> 0,
                                               read |-> f.read, write |-> f.write, append |-> f.append]
                                ELSE descs[e]]
                          /\ Ends(Return(Ok))

SysClose(p, fd) ==
    /\ Calls(p)
    /\ fd \in DOMAIN fds[p]
    /\ fds' = Remove(p, {fd})
    /\ descs' = Kept(descs, fds')
    /\ vfs' = Reclaimed(p, vfs, descs', fds')
    /\ Ends(Return(Ok))
    /\ UNCHANGED <<cwd, alive>>

\* close_range marks descriptors close-on-exec, or closes them without
\* releasing.
SysCloseRange(p, first, mark) ==
    /\ Calls(p)
    /\ \/ /\ mark
          /\ fds' = [fds EXCEPT ![p] = [fd \in DOMAIN @ |->
                        [@[fd] EXCEPT !.cloexec = @ \/ fd >= first]]]
       \/ ~mark /\ fds' = Remove(p, {fd \in Fds : fd >= first})
    /\ descs' = Kept(descs, fds')
    /\ Ends(Return(Ok))
    /\ UNCHANGED <<vfs, cwd, alive>>

SysDup(p, fd) ==
    /\ Calls(p)
    /\ fd \in DOMAIN fds[p]
    /\ \/ FreeSlots(p) = {} /\ Fails("EMFILE")
       \/ /\ FreeSlots(p) # {}
          /\ fds' = Install(p, Min(FreeSlots(p)), fds[p][fd].desc, FALSE)
          /\ Ends(Return(Ok))
          /\ UNCHANGED <<vfs, descs, cwd, alive>>

\* What the slot held before is closed without releasing.
SysDup2(p, fd, new) ==
    /\ Calls(p)
    /\ fd \in DOMAIN fds[p]
    /\ fds' = IF new = fd THEN fds ELSE Install(p, new, fds[p][fd].desc, FALSE)
    /\ descs' = Kept(descs, fds')
    /\ Ends(Return(Ok))
    /\ UNCHANGED <<vfs, cwd, alive>>

-----------------------------------------------------------------------------
(* Contents: lseek, read, write, pwrite, ftruncate *)

SetOffset(p, fd, offset) == [descs EXCEPT ![fds[p][fd].desc].offset = offset]

OnFile(p, fd) == Calls(p) /\ fd \in DOMAIN fds[p] /\ ~Desc(p, fd).dir

\* SEEK_SET, and SEEK_END with offset 0
SysLseek(p, fd, offset) ==
    /\ OnFile(p, fd)
    /\ offset \in {0, Len(vfs.nodes[Desc(p, fd).node].data)}
    /\ descs' = SetOffset(p, fd, offset)
    /\ Ends(Return(Ok))
    /\ UNCHANGED <<vfs, fds, cwd, alive>>

\* read_backing: the next n bytes, fewer at the end.
ReadBacking(d, n) ==
    LET data == vfs.nodes[d.node].data IN
    SubSeq(data, d.offset + 1, Min({d.offset + n, Len(data)}))

SysRead(p, fd, n) ==
    /\ OnFile(p, fd)
    /\ LET d == Desc(p, fd)
           chunk == ReadBacking(d, n)
       IN  \/ ~d.read /\ Fails("EBADF")
           \/ /\ d.read
              /\ Ends(ReadBytes(chunk))
              /\ descs' = SetOffset(p, fd, d.offset + Len(chunk))
              /\ UNCHANGED <<vfs, fds, cwd, alive>>

\* write_backing at an offset: where it ends, and the filesystem it leaves.
WriteAt(d, offset) == IF d.append THEN Len(vfs.nodes[d.node].data) ELSE offset
WriteBacking(d, offset) ==
    Change(vfs, d.node, Overwrite(vfs.nodes[d.node].data, WriteAt(d, offset), <<Byte>>))

SysWrite(p, fd) ==
    /\ OnFile(p, fd)
    /\ LET d == Desc(p, fd)
           start == WriteAt(d, d.offset)
           w == WriteBacking(d, d.offset)
       IN  \/ ~d.write /\ Fails("EBADF")
           \/ /\ d.write /\ start < MaxLen
              /\ vfs' = w.fs
              /\ Ends(Return(w.err))
              /\ descs' = SetOffset(p, fd,
                    CASE w.err = Ok -> start + 1
                      [] w.err # Ok /\ Materialize(vfs, d.node).err = Ok -> start
                      [] OTHER -> d.offset)
              /\ UNCHANGED <<fds, cwd, alive>>

\* The description's own offset is put back.
SysPwrite(p, fd, pos) ==
    /\ OnFile(p, fd)
    /\ LET d == Desc(p, fd) IN
       \/ ~d.write /\ Fails("EBADF")
       \/ d.write /\ WriteAt(d, pos) < MaxLen /\ Leaves(WriteBacking(d, pos))

SysFtruncate(p, fd, len) ==
    /\ OnFile(p, fd)
    /\ LET d == Desc(p, fd) IN
       \/ ~d.write /\ Fails("EINVAL")
       \/ d.write /\ Leaves(Change(vfs, d.node, Resized(vfs.nodes[d.node].data, len)))

-----------------------------------------------------------------------------
(* Names: mkdir, unlink, rename, link, symlink, chdir *)

\* A call fails with an errno, or leaves a result.
FailsOrLeaves(errno, result) ==
    \/ errno # Ok /\ Fails(errno)
    \/ errno = Ok /\ Leaves(result)

\* What stands in the way of a call that needs a node, or a free name, at r.
Missing(r) == IF r.err # Ok THEN r.err ELSE IF r.node = None THEN "ENOENT" ELSE Ok
Taken(r) == IF r.err # Ok THEN r.err ELSE IF r.node # None THEN "EEXIST" ELSE Ok

\* A call that makes a node at a free path.
MakesNode(r, node) ==
    /\ Taken(r) = Ok => Len(vfs.nodes) < MaxNodes
    /\ FailsOrLeaves(Taken(r), Create(vfs, r.parent, r.name, [node EXCEPT !.parent = r.parent]))

SysMkdirat(p, base, path) ==
    Calls(p) /\ MakesNode(Resolve(vfs.nodes, base, path, TRUE), Node("dir", None, <<>>, <<>>))

SysSymlinkat(p, base, path, target) ==
    Calls(p) /\ MakesNode(Resolve(vfs.nodes, base, path, FALSE), Node("link", None, <<>>, target))

SysUnlinkat(p, base, path, rmdir) ==
    /\ Calls(p)
    /\ LET r == Resolve(vfs.nodes, base, path, FALSE)
           u == Unlink(vfs, r.parent, r.name, rmdir)
       IN  FailsOrLeaves(IF r.err # Ok THEN r.err ELSE u.err, Result(Ok, Reclaimed(p, u.fs, descs, fds)))

\* Also onto another name of the same file, onto a directory given as "/" or
\* "..", and of a directory to a place below itself.
SysRenameat(p, base, from, to) ==
    /\ Calls(p)
    /\ LET old == Resolve(vfs.nodes, base, from, FALSE)
           new == Resolve(vfs.nodes, base, to, FALSE)
           m == Rename(vfs, old.parent, old.name, new.parent, new.name)
           errno == IF old.err # Ok THEN old.err ELSE IF new.err # Ok THEN new.err ELSE m.err
       IN  FailsOrLeaves(errno, Result(Ok, Reclaimed(p, m.fs, descs, fds)))

SysLinkat(p, base, from, to) ==
    /\ Calls(p)
    /\ LET old == Resolve(vfs.nodes, base, from, TRUE)
           new == Resolve(vfs.nodes, base, to, FALSE)
           errno == IF Missing(old) # Ok THEN Missing(old)
                    ELSE IF IsDir(vfs.nodes, old.node) THEN "EPERM" ELSE Taken(new)
       IN  FailsOrLeaves(errno, Result(Ok, Link(vfs, new.parent, new.name, old.node)))

SysChdir(p, path) ==
    /\ Calls(p)
    /\ LET r == Resolve(vfs.nodes, cwd[p], path, TRUE)
           errno == IF Missing(r) # Ok THEN Missing(r)
                    ELSE IF IsDir(vfs.nodes, r.node) THEN Ok ELSE "ENOTDIR"
       IN  \/ errno # Ok /\ Fails(errno)
           \/ /\ errno = Ok
              /\ cwd' = [cwd EXCEPT ![p] = r.node]
              /\ Ends(Return(Ok))
              /\ UNCHANGED <<vfs, descs, fds, alive>>

SysFchdir(p, fd) ==
    /\ Calls(p)
    /\ fd \in DOMAIN fds[p]
    /\ \/ ~Desc(p, fd).dir /\ Fails("ENOTDIR")
       \/ /\ Desc(p, fd).dir
          /\ cwd' = [cwd EXCEPT ![p] = Desc(p, fd).node]
          /\ Ends(Return(Ok))
          /\ UNCHANGED <<vfs, descs, fds, alive>>

-----------------------------------------------------------------------------
(* Processes, and the host *)

\* FdTable::clone: the child's table names the parent's descriptions.
Fork(p, q) ==
    /\ Calls(p)
    /\ q \notin alive /\ DOMAIN fds[q] = {}
    /\ alive' = alive \cup {q}
    /\ fds' = [fds EXCEPT ![q] = fds[p]]
    /\ cwd' = [cwd EXCEPT ![q] = cwd[p]]
    /\ Ends(Return(Ok))
    /\ UNCHANGED <<vfs, descs>>

\* FdTable::close_cloexec, in execve
Execve(p) ==
    /\ Calls(p)
    /\ fds' = Remove(p, {fd \in DOMAIN fds[p] : fds[p][fd].cloexec})
    /\ descs' = Kept(descs, fds')
    /\ Ends(Return(Ok))
    /\ UNCHANGED <<vfs, cwd, alive>>

\* exit_current drops the table; nothing is released.
Exit(p) ==
    /\ Calls(p)
    /\ alive' = alive \ {p}
    /\ fds' = [fds EXCEPT ![p] = NoTable]
    /\ descs' = Kept(descs, fds')
    /\ cwd' = [cwd EXCEPT ![p] = ROOT]
    /\ Ends(Return(Ok))
    /\ UNCHANGED vfs

\* LinuxEnv::add_file and create_file: not refused for want of room.
AddFile(path, data, capacity) ==
    /\ calls < MaxCalls
    /\ Len(vfs.nodes) < MaxNodes
    /\ LET added == AddNode(vfs, path, [Node("file", None, data, <<>>) EXCEPT !.cap = capacity]) IN
       Leaves(Result(added.err, Reclaimed(First, added.fs, descs, fds)))

\* LinuxEnv::append_file
AppendFile(path, bytes) ==
    /\ calls < MaxCalls
    /\ LET r == Resolve(vfs.nodes, ROOT, path, TRUE)
           errno == IF Missing(r) # Ok THEN Missing(r)
                    ELSE IF vfs.nodes[r.node].kind = "file" THEN Ok ELSE "EISDIR"
       IN  /\ errno = Ok => Len(vfs.nodes[r.node].data) + Len(bytes) <= MaxLen
           /\ FailsOrLeaves(errno, Result(Ok, Store(vfs, r.node, vfs.nodes[r.node].data \o bytes)))

-----------------------------------------------------------------------------
(* Specification *)

FilesInit ==
    /\ vfs = [nodes |-> Image, unlinked |-> {}]
    /\ descs = [d \in {} |-> None]
    /\ fds = [p \in Procs |-> NoTable]
    /\ cwd = [p \in Procs |-> ROOT]
    /\ alive = {First}
    /\ ret = Return(Ok)
    /\ calls = 0

OnNames(p) ==
    \E base \in Bases(p), path \in Paths :
        \/ \E f \in OpenFlags : SysOpenat(p, base, path, f)
        \/ SysMkdirat(p, base, path)
        \/ \E rmdir \in BOOLEAN : SysUnlinkat(p, base, path, rmdir)
        \/ \E to \in Paths : SysRenameat(p, base, path, to)
        \/ \E to \in Paths : SysLinkat(p, base, path, to)
        \/ \E target \in Targets : SysSymlinkat(p, base, path, target)

OnDescriptors(p) ==
    \/ \E fd \in Fds :
        \/ SysClose(p, fd)
        \/ \E mark \in BOOLEAN : SysCloseRange(p, fd, mark)
        \/ SysDup(p, fd)
        \/ SysFchdir(p, fd)
        \/ \E new \in Fds : SysDup2(p, fd, new)
        \/ \E offset \in 0..MaxLen : SysLseek(p, fd, offset) \/ SysPwrite(p, fd, offset)
        \/ SysRead(p, fd, 1)
        \/ SysWrite(p, fd)
        \/ \E len \in 0..MaxLen : SysFtruncate(p, fd, len)

FilesNext ==
    \/ \E p \in Procs :
        \/ OnNames(p)
        \/ OnDescriptors(p)
        \/ \E path \in Paths : SysChdir(p, path)
        \/ \E q \in Procs : Fork(p, q)
        \/ Execve(p)
        \/ Exit(p)
    \/ \E path \in HostFiles : AddFile(path, <<>>, MaxLen) \/ AppendFile(path, <<Byte>>)

FilesSpec == FilesInit /\ [][FilesNext]_filesVars

-----------------------------------------------------------------------------
(* Properties *)

FileNodes == DOMAIN vfs.nodes
Dirs(ns) == {d \in DOMAIN ns : IsDir(ns, d)}
NamesOf(ns, i) ==
    UNION {{<<d, n>> : n \in {m \in DOMAIN ns[d].entries : ns[d].entries[m] = i}} : d \in Dirs(ns)}
\* What a process can still get at: by a path, through its working directory
\* or through a descriptor.
Visible(ns, ds, dirs) ==
    Below(ns, {ROOT} \cup Range(dirs) \cup {ds[d].node : d \in DOMAIN ds})

\* By how much the link count of i exceeds its names (and a directory's ".").
Surplus(ns, i) ==
    ns[i].nlink - Cardinality(NamesOf(ns, i)) - (IF IsDir(ns, i) THEN 1 ELSE 0)

\* The step renames one name of node i onto another.
RenamesOntoItself(i) ==
    \E p \in Procs : \E base \in Bases(p), from, to \in Paths :
        /\ SysRenameat(p, base, from, to)
        /\ Resolve(vfs.nodes, base, from, FALSE).node = i
        /\ Resolve(vfs.nodes, base, to, FALSE).node = i

\* A link count follows the number of names (plus the directory's own "."), in
\* any sequence of link, unlink, rename, create and host replacement, with one
\* exception: renaming a file onto another name of the same file takes the old
\* name away and leaves the count (Vfs::rename, displaced = node).
NamesAreLinks ==
    [][\A i \in DOMAIN vfs'.nodes \ {ROOT} :
        LET before == IF i \in FileNodes THEN Surplus(vfs.nodes, i) ELSE 0
            after == Surplus(vfs'.nodes, i)
        IN  after = before \/ (after = before + 1 /\ RenamesOntoItself(i))]_filesVars

\* ".." leads back: the parent link of a directory that has a name is the
\* directory that holds the name, wherever renames have moved it.
DotDotLeadsBack ==
    \A i \in Dirs(vfs.nodes) : \A e \in NamesOf(vfs.nodes, i) : vfs.nodes[i].parent = e[1]

\* A file that a process can still get at keeps its contents, whoever else
\* closes, unlinks, renames or replaces it; only a call that may write to it,
\* or the host, changes them. An open that truncates counts as one also when
\* it then finds no free descriptor.
VisibleIsKept ==
    [][\A i \in FileNodes :
        \/ vfs'.nodes[i].data = vfs.nodes[i].data
        \/ \E d \in DOMAIN descs : descs[d].node = i /\ descs[d].write
        \/ \E d \in DOMAIN descs' : descs'[d].node = i /\ descs'[d].write
        \/ vfs'.nodes[i].data = <<>> /\ ret'.err = "EMFILE"
        \/ \E path \in HostFiles : i = Resolve(vfs.nodes, ROOT, path, TRUE).node
        \/ i \notin Visible(vfs'.nodes, descs', cwd')]_vfs

\* Base files that the step has made files of their own.
Promoted == {i \in FileNodes : vfs.nodes[i].kind = "chunked" /\ vfs'.nodes[i].kind = "file"}

\* A call that fails for want of room leaves every file and every name as they
\* were ("a refusal leaves the file untouched"). It uses up no room either,
\* save that a base file it was to write has been promoted before the growth
\* was refused, and is charged for from then on (write_backing).
FullDiskIsHarmless ==
    [][ret'.err = "ENOSPC" =>
        /\ Len(vfs'.nodes) = Len(vfs.nodes)
        /\ \A i \in FileNodes : /\ vfs'.nodes[i].data = vfs.nodes[i].data
                               /\ vfs'.nodes[i].entries = vfs.nodes[i].entries
        /\ Bytes(vfs'.nodes) = Bytes(vfs.nodes)
                + MapThenSumSet(LAMBDA i : Len(vfs.nodes[i].data), Promoted)]_filesVars

=============================================================================
