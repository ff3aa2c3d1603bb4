------------------------------ MODULE FileTree ------------------------------
(***************************************************************************)
(* The in-memory filesystem (vfs.rs): an arena of nodes that directory     *)
(* entries and descriptors name by index, path resolution over it, and the *)
(* operations that change it. Each operation is a function from the arena  *)
(* to a result: the new arena, the list of unlinked nodes, and an errno.   *)
(* A path is a sequence of components; "/" stands at the head of an        *)
(* absolute one.                                                           *)
(***************************************************************************)
EXTENDS Integers, Sequences, FiniteSets, FiniteSetsExt, Functions

CONSTANTS
    Names,        \* names of directory entries
    Paths,        \* the paths given to calls
    Targets,      \* the targets of the symlinks that are made
    MaxDepth,     \* symlinks followed inside one another: 8 in resolve_depth
    Budget        \* storage_budget

ASSUME TreeConstants ==
    /\ Paths \cup Targets \subseteq Seq(Names \cup {"/", ".."})
    /\ MaxDepth \in Nat /\ Budget \in Nat
    /\ "." \notin Names /\ "/" \notin Names /\ ".." \notin Names

ROOT == 1
None == 0
Ok == "ok"

NoEntries == [n \in {} |-> None]

\* Node: entries of a directory, bytes and Vec capacity of a file, target of
\* a symlink. "chunked" is a file of the immutable base image.
Node(kind, parent, data, target) ==
    [kind |-> kind, parent |-> parent, entries |-> NoEntries, data |-> data,
     cap |-> IF kind = "file" THEN Len(data) ELSE 0,
     target |-> target, nlink |-> IF kind = "dir" THEN 2 ELSE 1]

IsDir(ns, i) == ns[i].kind = "dir"
IsFile(ns, i) == ns[i].kind \in {"file", "chunked"}
Entry(ns, dir, name) ==
    IF name \in DOMAIN ns[dir].entries THEN ns[dir].entries[name] ELSE None

\* What walking directory entries from the nodes of from leads to.
Below(ns, from) ==
    LET down[k \in 0..Len(ns)] ==
        IF k = 0 THEN from
        ELSE down[k - 1] \cup UNION {Range(ns[j].entries) : j \in down[k - 1]}
    IN  down[Len(ns)]

-----------------------------------------------------------------------------
(* Path resolution *)

Failed(errno) == [err |-> errno, parent |-> None, name |-> ".", node |-> None]
Found(parent, name, node) == [err |-> Ok, parent |-> parent, name |-> name, node |-> node]

\* The paths the walk meets: what is left of a path after some components.
Suffixes == UNION {{SubSeq(p, i, Len(p)) : i \in 1..(Len(p) + 1)} : p \in Paths \cup Targets}

\* Vfs::resolve_depth, with the components still to walk as the path. The
\* empty path is that of "/" itself.
Resolve(ns, start, path, follow) ==
    LET walk[d \in 0..(MaxDepth + 1), cur \in DOMAIN ns, p \in Suffixes, last \in BOOLEAN] ==
        LET c == Head(p)
            rest == Tail(p)
            up == ns[cur].parent
            next == Entry(ns, cur, c)
            linked == walk[d + 1, cur, ns[next].target, TRUE]
        IN  CASE d > MaxDepth -> Failed("ELOOP")
              [] d <= MaxDepth /\ p = <<>> -> Found(up, ".", cur)
              [] d <= MaxDepth /\ p # <<>> /\ c = "/" -> walk[d, ROOT, rest, last]
              [] d <= MaxDepth /\ p # <<>> /\ c = ".." -> walk[d, up, rest, last]
              [] OTHER ->
                   IF ~IsDir(ns, cur) THEN Failed("ENOTDIR")
                   ELSE IF rest = <<>>
                        THEN IF last /\ next # None /\ ns[next].kind = "link"
                             THEN linked
                             ELSE Found(cur, c, next)
                   ELSE IF next = None THEN Failed("ENOENT")
                   ELSE IF ns[next].kind # "link"
                        THEN IF IsDir(ns, next) THEN walk[d, next, rest, last] ELSE Failed("ENOTDIR")
                   ELSE IF linked.err # Ok THEN linked
                   ELSE IF linked.node = None THEN Failed("ENOENT")
                   ELSE IF ~IsDir(ns, linked.node) THEN Failed("ENOTDIR")
                   ELSE walk[d, linked.node, rest, last]
    IN  IF path = <<>> THEN Failed("ENOENT") ELSE walk[0, start, path, follow]

-----------------------------------------------------------------------------
(* Storage accounting *)

\* NodeKind::data_len and Vfs::bytes. A symlink target is charged its length;
\* the resident chunks of base files are the pager's and are not counted here.
DataLen(node) == IF node.kind = "link" THEN Len(node.target) ELSE node.cap
Bytes(ns) == SumFunction([i \in DOMAIN ns |-> DataLen(ns[i])])

\* Vfs::reserve
Fits(ns, growth) == growth = 0 \/ Bytes(ns) + growth <= Budget

\* Vec::try_reserve grows to twice the capacity, or to what is needed. A unit
\* of length stands for a block no smaller than the 8 bytes a Vec starts with.
GrownCap(cap, need) ==
    IF need <= cap THEN cap ELSE IF 2 * cap >= need THEN 2 * cap ELSE need

-----------------------------------------------------------------------------
(* Operations on a filesystem v: its arena and its unlinked nodes *)

Result(errno, v) == [err |-> errno, fs |-> v]

SetEntry(v, dir, name, i) ==
    [v EXCEPT !.nodes[dir].entries =
        [n \in DOMAIN @ \cup {name} |-> IF n = name THEN i ELSE @[n]]]
ClearEntry(v, dir, name) ==
    [v EXCEPT !.nodes[dir].entries = Restrict(@, DOMAIN @ \ {name})]

\* Node i loses a name; without the last one it waits for release.
LoseName(v, i) ==
    LET n == v.nodes[i].nlink
        left == IF n = 0 THEN 0 ELSE n - 1
    IN  [v EXCEPT !.nodes[i].nlink = left,
                  !.unlinked = IF left = 0 THEN @ \cup {i} ELSE @]

\* The entry names i from now on; what it named before loses that name.
Replace(v, dir, name, i) ==
    LET old == Entry(v.nodes, dir, name)
        w == SetEntry(v, dir, name, i)
    IN  IF old \in {None, i} THEN w ELSE LoseName(w, old)

\* Vfs::alloc: nodes are never removed, so an index names one node for ever.
Alloc(v, node) == [v EXCEPT !.nodes = Append(@, node)]
NextNode(v) == Len(v.nodes) + 1

\* Vfs::create, below a parent and for a name that resolve found free
Create(v, parent, name, node) ==
    IF ~Fits(v.nodes, DataLen(node)) THEN Result("ENOSPC", v)
    ELSE Result(Ok, SetEntry(Alloc(v, node), parent, name, NextNode(v)))

\* Vfs::add_node at a path whose parent exists
AddNode(v, path, node) ==
    LET r == Resolve(v.nodes, ROOT, path, FALSE) IN
    IF r.err # Ok THEN Result(r.err, v)
    ELSE IF r.node # None /\ IsDir(v.nodes, r.node) THEN Result("EISDIR", v)
    ELSE Result(Ok, Replace(Alloc(v, [node EXCEPT !.parent = r.parent]), r.parent, r.name, NextNode(v)))

\* Mutant: the new name is not counted.
LinkUncounted(v, parent, name, i) == SetEntry(v, parent, name, i)

\* Vfs::link
Link(v, parent, name, i) ==
    [SetEntry(v, parent, name, i) EXCEPT !.nodes[i].nlink = @ + 1]

\* Vfs::unlink
Unlink(v, parent, name, rmdir) ==
    LET i == Entry(v.nodes, parent, name) IN
    IF i = None THEN Result("ENOENT", v)
    ELSE IF IsDir(v.nodes, i) /\ ~rmdir THEN Result("EISDIR", v)
    ELSE IF IsDir(v.nodes, i) /\ DOMAIN v.nodes[i].entries # {} THEN Result("ENOTEMPTY", v)
    ELSE IF ~IsDir(v.nodes, i) /\ rmdir THEN Result("ENOTDIR", v)
    ELSE Result(Ok, LoseName(ClearEntry(v, parent, name), i))

\* Mutant: what was moved keeps its parent link.
RenameForgetsParent(v, from, old, to, new) ==
    LET i == Entry(v.nodes, from, old)
        there == Entry(v.nodes, to, new)
    IN  IF i = None THEN Result("ENOENT", v)
        ELSE IF there # None /\ IsDir(v.nodes, there) /\ DOMAIN v.nodes[there].entries # {}
             THEN Result("ENOTEMPTY", v)
        ELSE Result(Ok, Replace(ClearEntry(v, from, old), to, new, i))

\* Vfs::rename
Rename(v, from, old, to, new) ==
    LET i == Entry(v.nodes, from, old)
        there == Entry(v.nodes, to, new)
    IN  IF i = None THEN Result("ENOENT", v)
        ELSE IF there # None /\ IsDir(v.nodes, there) /\ DOMAIN v.nodes[there].entries # {}
             THEN Result("ENOTEMPTY", v)
        ELSE Result(Ok, [Replace(ClearEntry(v, from, old), to, new, i) EXCEPT !.nodes[i].parent = to])

\* Vfs::release_unreferenced
Release(v, referenced) ==
    LET gone == v.unlinked \ referenced IN
    [nodes |-> [i \in DOMAIN v.nodes |->
                  IF i \in gone
                  THEN [v.nodes[i] EXCEPT !.kind = "file", !.data = <<>>, !.cap = 0, !.target = <<>>]
                  ELSE v.nodes[i]],
     unlinked |-> v.unlinked \cap referenced]

\* Vfs::materialize_file: the base image's bytes become the file's own.
Materialize(v, i) ==
    IF v.nodes[i].kind = "file" THEN Result(Ok, v)
    ELSE IF ~Fits(v.nodes, Len(v.nodes[i].data)) THEN Result("ENOSPC", v)
    ELSE Result(Ok, [v EXCEPT !.nodes[i].kind = "file", !.nodes[i].cap = Len(v.nodes[i].data)])

\* Bytes put at an offset, over zeros where the file did not reach.
Zero == 0
Overwrite(data, offset, bytes) ==
    [k \in 1..Max({Len(data), offset + Len(bytes)}) |->
        IF k > offset /\ k <= offset + Len(bytes) THEN bytes[k - offset]
        ELSE IF k <= Len(data) THEN data[k] ELSE Zero]
Resized(data, len) == [k \in 1..len |-> IF k <= Len(data) THEN data[k] ELSE Zero]

\* The file's contents become data, which has been charged if it is longer.
Store(v, i, data) ==
    [v EXCEPT !.nodes[i].data = data, !.nodes[i].cap = GrownCap(@, Len(data))]

\* Mutant: the file is resized before the growth is charged.
ChangeFirst(v, i, data) ==
    LET m == Materialize(v, i) IN
    IF m.err # Ok THEN m
    ELSE Result(IF Len(data) > Len(v.nodes[i].data) /\ ~Fits(m.fs.nodes, Len(data) - Len(v.nodes[i].data))
                THEN "ENOSPC" ELSE Ok, Store(m.fs, i, data))

\* What write_backing and ftruncate do: promote the file, charge the growth,
\* store.
Change(v, i, data) ==
    LET m == Materialize(v, i) IN
    IF m.err # Ok THEN m
    ELSE IF Len(data) > Len(v.nodes[i].data) /\ ~Fits(m.fs.nodes, Len(data) - Len(v.nodes[i].data))
         THEN Result("ENOSPC", m.fs)
    ELSE Result(Ok, Store(m.fs, i, data))

=============================================================================
