------------------------------ MODULE MCFiles ------------------------------
(***************************************************************************)
(* Instances of Files: two processes, a filesystem with a base file "a"    *)
(* and a directory "d" that share the names of what is created.            *)
(***************************************************************************)
EXTENDS Files, TLC

FileNames == {"a", "d"}
FilePaths == {<<"a">>, <<"d">>, <<"..", "d", "a">>}
FileImage ==
    << [Node("dir", ROOT, <<>>, <<>>) EXCEPT !.entries = [n \in FileNames |-> IF n = "a" THEN 2 ELSE 3]],
       Node("chunked", ROOT, <<7>>, <<>>),
       Node("dir", ROOT, <<>>, <<>>) >>

Flags(on) ==
    [f \in {"read", "write", "creat", "excl", "trunc", "append", "nofollow", "directory", "cloexec"} |-> f \in on]
FileFlags ==
    { Flags({"read"}), Flags({"read", "write", "creat", "cloexec"}),
      Flags({"write", "trunc"}), Flags({"write", "append", "creat", "excl", "nofollow"}) }
HostPaths == {<<"a">>}
LinkTargets == {<<"/", "a">>}

\* The machine after its first process has opened "a" and forked.
Shared == [node |-> 2, dir |-> FALSE, offset |-> 0, read |-> TRUE, write |-> FALSE, append |-> FALSE]
InheritedInit ==
    /\ vfs = [nodes |-> Image, unlinked |-> {}]
    /\ descs = [d \in {1} |-> Shared]
    /\ fds = [p \in Procs |-> [fd \in {0} |-> [desc |-> 1, cloexec |-> FALSE]]]
    /\ cwd = [p \in Procs |-> ROOT]
    /\ alive = Procs
    /\ ret = Return(Ok)
    /\ calls = 0
MCFilesSpec == InheritedInit /\ [][FilesNext]_filesVars

\* From there the two processes differ in nothing: First is read by FilesInit,
\* and by AddFile only to name a caller that Reclaimed does not look at.
ProcSymmetry == Permutations(Procs)

\* No action reads the result of the call before it.
FilesView == <<vfs, descs, fds, cwd, alive, calls>>
=============================================================================
