---------------------------- MODULE EagerMemory ----------------------------
(***************************************************************************)
(* The memory that guest programs are promised: a mapping of a file holds  *)
(* its bytes from the moment it is made, no access waits, and an access    *)
(* fails only where the mappings deny it. Each page records the offset in  *)
(* the file that it was mapped from, which mremap continues.               *)
(*                                                                         *)
(* Three exceptions: an access that straddles ordinary memory and a page   *)
(* of a file may fault; while a replaced program's ticket is owed, so may  *)
(* any access to a file's page; and nothing is said of a space any more    *)
(* once a munmap or mprotect over a hole has changed pages of a file.      *)
(***************************************************************************)
EXTENDS Paging, FiniteSets

CONSTANTS
    Program,     \* the pages of a freshly loaded program
    FirstOffset, \* where a program has the file open
    Spaces       \* names of address spaces

VARIABLES
    memory,  \* address space -> page -> permission, data, offset in the file
    cur,     \* the address space on the CPU
    fpos,    \* the offset of the open file
    reg,     \* the result of the last access or call
    torn,    \* the spaces of which nothing is promised
    owed     \* a replaced program's ticket has not been answered

eagerVars == <<cur, fpos, reg, torn, owed, memory>>

NoFile == -1

FileUnit(o) == IF o \in DOMAIN Contents THEN Contents[o] ELSE Fresh
FilePage(o, perm) ==
    [perm |-> perm, data |-> [i \in 0..(PageSize - 1) |-> FileUnit(o + i)], back |-> Lesser(o, FileSize)]
AnonPage(perm) ==
    [perm |-> perm, data |-> [i \in 0..(PageSize - 1) |-> Fresh], back |-> NoFile]

Here == memory[cur]
Become(f) == memory' = [memory EXCEPT ![cur] = f]
Stores(us, v) ==
    LET here == Here IN
    [q \in DOMAIN here |->
        [here[q] EXCEPT !.data = [i \in 0..(PageSize - 1) |-> IF q + i \in us THEN v ELSE here[q].data[i]]]]
Loads(op) == LET here == Here IN [u \in Units(op) |-> here[PageOf(u)].data[u % PageSize]]

Permits(op) ==
    LET here == Here IN
    PagesOf(op) \subseteq DOMAIN here /\ \A p \in PagesOf(op) : KindOf[op.op] \in here[p].perm

OfFile(ps) == \E p \in ps \cap DOMAIN Here : Here[p].back # NoFile
Straddles(op) == ~OfFile({PageOf(op.at)}) /\ OfFile(PagesOf(op))

Access(op) ==
    /\ op.op \in DOMAIN KindOf
    /\ UNCHANGED <<cur, fpos>>
    /\ \/ /\ reg' = Result("fault") /\ UNCHANGED memory
          /\ ~Permits(op) \/ Straddles(op) \/ (owed /\ OfFile(PagesOf(op)))
       \/ op.op # "store" /\ Permits(op) /\ reg' = Loaded(Loads(op)) /\ UNCHANGED memory
       \/ op.op = "store" /\ reg' = Result("ok") /\ Permits(op) /\ Become(Stores(Units(op), Stored))

\* Calls copy through any mapped page, except against a file mapping's
\* permission.
CopyPermits(op) ==
    LET here == Here IN
    /\ PagesOf(op) \subseteq DOMAIN here
    /\ \A p \in PagesOf(op) : here[p].back # NoFile => CopyKind[op.op] \in here[p].perm

Unfetched(op) == reg' = Result("EIO") /\ owed /\ OfFile(PagesOf(op))

Copy(op) ==
    /\ op.op \in {"copyin", "copyout"}
    /\ UNCHANGED <<cur, fpos>>
    /\ \/ reg' = Result("EFAULT") /\ ~CopyPermits(op) /\ UNCHANGED memory
       \/ Unfetched(op) /\ UNCHANGED memory
       \/ op.op = "copyin" /\ CopyPermits(op) /\ reg' = Loaded(Loads(op)) /\ UNCHANGED memory
       \/ op.op = "copyout" /\ reg' = Result("ok") /\ CopyPermits(op) /\ Become(Stores(Units(op), Stored))

\* A read of one unit advances the offset once. One that fails for an
\* unmapped buffer has advanced it too.
Read(op) ==
    /\ op.op = "read"
    /\ UNCHANGED cur
    /\ \/ /\ reg' = Result("EFAULT") /\ fpos' \in {fpos, fpos + 1}
          /\ ~CopyPermits(op)
          /\ UNCHANGED memory
       \/ Unfetched(op) /\ UNCHANGED <<fpos, memory>>
       \/ /\ reg' = Result("ok") /\ fpos' = fpos + 1
          /\ CopyPermits(op) /\ fpos < FileSize
          /\ Become(Stores(Units(op), Contents[fpos]))
       \/ /\ reg' = Result("end of file") /\ UNCHANGED fpos
          /\ fpos >= FileSize
          /\ UNCHANGED memory

With(ps, pg) ==
    LET here == Here IN [q \in DOMAIN here \cup ps |-> IF q \in ps THEN pg[q] ELSE here[q]]

IsFree(p, n) == PageRange(p, n) \subseteq Pages \ DOMAIN Here

Without(ps) == LET here == Here IN [q \in DOMAIN here \ ps |-> here[q]]

\* MAP_FIXED has unmapped what was there also when the descriptor is refused.
Mmap(op) ==
    /\ op.op = "mmap"
    /\ UNCHANGED <<cur, fpos>>
    /\ \/ \E t \in Pages :
          /\ reg' = MappedAt(t)
          /\ op.from # "bad"
          /\ op.fixed => t = op.at
          /\ op.fixed \/ IsFree(t, op.pages)
          /\ Become(With(PageRange(t, op.pages), [q \in PageRange(t, op.pages) |->
                 IF op.from = "file" /\ op.off < FileSize THEN FilePage(op.off + (q - t), op.perm)
                 ELSE AnonPage(op.perm)]))
       \/ /\ reg' = Result("EBADF") /\ op.from = "bad"
          /\ Become(Without(IF op.fixed THEN PageRange(op.at, op.pages) ELSE {}))
       \/ /\ reg' = Result("ENOMEM") /\ ~op.fixed /\ \A t \in Pages : ~IsFree(t, op.pages)
          /\ UNCHANGED memory

Whole(op) == PageRange(op.at, op.pages) \subseteq DOMAIN Here

\* The pages ps of a failing call become f, or the space is given up.
Fails(ps, f) ==
    IF OfFile(ps) THEN Become(Empty) /\ torn' = torn \cup {cur}
                  ELSE Become(f) /\ UNCHANGED torn

Unmap(op) ==
    /\ op.op \in {"munmap", "shrink"}
    /\ UNCHANGED <<cur, fpos>>
    /\ LET from == IF op.op = "munmap" THEN op.at ELSE op.at + PageSize * op.kept
           ps == {p \in PageRange(op.at, op.pages) : p >= from}
       IN  \/ /\ reg' = Result("ok") /\ (op.op = "munmap" => Whole(op))
              /\ Become(Without(ps)) /\ UNCHANGED torn
           \/ /\ reg' = Result("EINVAL") /\ op.op = "munmap" /\ ~Whole(op)
              /\ Fails(ps, Without(ps))

Mprotect(op) ==
    /\ op.op = "mprotect"
    /\ UNCHANGED <<cur, fpos>>
    /\ LET here == Here
           range == PageRange(op.at, op.pages)
           before == {q \in range : \A h \in range \ DOMAIN here : q < h}
           given(ps) == [q \in DOMAIN here |->
                            IF q \in ps THEN [here[q] EXCEPT !.perm = op.perm] ELSE here[q]]
       IN  \/ reg' = Result("ok") /\ Whole(op) /\ Become(given(range)) /\ UNCHANGED torn
           \/ reg' = Result("ENOMEM") /\ ~Whole(op) /\ Fails(before, given(before))

\* The pages move with their contents; file mappings keep their permission
\* and go on in the file, anonymous memory comes out readable and writable.
\* A hole in the old range leaves the new region behind.
Mremap(op) ==
    /\ op.op = "mremap"
    /\ UNCHANGED <<cur, fpos>>
    /\ \/ /\ Whole(op)
          /\ \E t \in {p \in Pages : reg' = MappedAt(p) /\ IsFree(p, op.grown)} :
            LET here == Here
                old == PageRange(op.at, op.pages)
                last == here[EndOf(op) - PageSize]
                moved(q) == LET pg == here[q - t + op.at] IN
                            IF pg.back = NoFile THEN [pg EXCEPT !.perm = {"r", "w"}] ELSE pg
                added(q) == IF last.back = NoFile THEN AnonPage({"r", "w"})
                            ELSE FilePage(last.back + (q - t) - (EndOf(op) - PageSize - op.at), last.perm)
            IN  Become([q \in (DOMAIN here \ old) \cup PageRange(t, op.grown) |->
                       IF q \notin PageRange(t, op.grown) THEN here[q]
                       ELSE IF q - t + op.at \in old THEN moved(q) ELSE added(q)])
       \/ /\ reg' = Result("EFAULT") /\ ~Whole(op)
          /\ \E t \in {p \in Pages : IsFree(p, op.grown)} :
                Become(With(PageRange(t, op.grown),
                            [q \in PageRange(t, op.grown) |-> AnonPage({"r", "w"})]))
       \/ /\ reg' = Result("ENOMEM") /\ \A t \in Pages : ~IsFree(t, op.grown)
          /\ UNCHANGED memory

\* A space of which nothing is promised: the other spaces keep their memory.
Unpromised(op) ==
    /\ cur \in torn
    /\ op.op \notin {"fork", "execve", "exit"}
    /\ reg' # reg \/ fpos' # fpos
    /\ fpos' \in {fpos, fpos + 1}
    /\ UNCHANGED <<memory, cur, torn>>

Fork(op) ==
    /\ op.op = "fork"
    /\ reg' = Result("ok")
    /\ UNCHANGED <<cur, fpos>>
    /\ \E child \in Spaces \ DOMAIN memory :
        /\ memory' = [a \in DOMAIN memory \cup {child} |-> IF a = child THEN Here ELSE memory[a]]
        /\ torn' = IF cur \in torn THEN torn \cup {child} ELSE torn

Execve(op) ==
    /\ op.op = "execve"
    /\ reg' = Result("ok")
    /\ UNCHANGED <<fpos, torn>>
    /\ cur' \in Spaces \ DOMAIN memory
    /\ memory' = [a \in (DOMAIN memory \ {cur}) \cup {cur'} |-> IF a = cur' THEN Program ELSE memory[a]]

Exit(op) ==
    /\ op.op = "exit"
    /\ reg' = Result("ok")
    /\ UNCHANGED <<fpos, torn>>
    /\ cur' \in DOMAIN memory \ {cur}
    /\ memory' = [a \in DOMAIN memory \ {cur} |-> memory[a]]

Switch == cur' \in DOMAIN memory \ {cur} /\ UNCHANGED <<fpos, reg, torn, owed, memory>>

\* The host replaces the program.
Load ==
    /\ cur' \in Spaces \ DOMAIN memory
    /\ fpos' = FirstOffset
    /\ memory' = [a \in {cur'} |-> Program]
    /\ owed' \in BOOLEAN
    /\ UNCHANGED <<reg, torn>>

\* The host answers the replaced program's ticket.
Answered == owed /\ ~owed' /\ UNCHANGED <<cur, fpos, reg, torn, memory>>

EagerInit ==
    /\ memory = [a \in {1} |-> Program]
    /\ cur = 1 /\ fpos = FirstOffset /\ reg = Result("ok")
    /\ torn = {} /\ owed = FALSE

Promised(op) ==
    /\ cur \notin torn
    /\ \/ (Access(op) \/ Copy(op) \/ Read(op) \/ Mmap(op) \/ Mremap(op)) /\ UNCHANGED torn
       \/ Unmap(op) \/ Mprotect(op)

EagerNext ==
    \/ Switch \/ Load \/ Answered
    \/ /\ UNCHANGED owed
       /\ \E op \in Ops : Promised(op) \/ Unpromised(op) \/ Fork(op) \/ Execve(op) \/ Exit(op)

EagerSpec == EagerInit /\ [][EagerNext]_eagerVars
=============================================================================
