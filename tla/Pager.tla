------------------------------- MODULE Pager -------------------------------
(***************************************************************************)
(* Demand paging of manifest-backed files (pager.rs, chunk.rs, the memory  *)
(* calls of syscall.rs, the page requests of lib.rs). A private mapping of *)
(* a chunked file starts without permissions; the first access to a page   *)
(* fills it from the chunk store, or stops the machine until the host has  *)
(* delivered the chunk that is missing, and is then run again.             *)
(*                                                                         *)
(* There is one chunked file.                                              *)
(***************************************************************************)
EXTENDS Paging, FiniteSets, Sequences, SequencesExt, FiniteSetsExt

CONSTANTS
    ChunkSize,     \* units of a chunk, a multiple of the page size
    MaxAsid,       \* bound on address-space ids
    MaxChanges,    \* bound on the calls that change an address space
    FirstOffset,   \* where the program has the file open
    Image,         \* the loadable segments of the program, as file mappings
    Budgets        \* the memory and storage budgets, in chunks, that a host sets

Asids == 1..MaxAsid
ChunkAt(o) == o \div ChunkSize

Forged == 30       \* what a chunk with the wrong digest would hold
Sentinel == 40     \* 0xaa, the loader's fill before segment data

None == {}
Idle == [op |-> "idle"]
Halted == [op |-> "halted"]

VARIABLES
    mmu,          \* the MMU: asid -> mapped page -> permission and data
    spaces,       \* Pager::spaces: asid -> generation and mappings
    resident,     \* Pager::resident
    pending,      \* Pager::pending, the outstanding page request
    file_wait,    \* LinuxEnv::file_chunk_wait, the outstanding file request
    changes,      \* how often memory calls changed an address space
    store,        \* ChunkStore: hash -> the bytes kept under it
    page_in_wait, \* LinuxEnv::page_in_wait
    next_asid,    \* alloc_asid
    procs,        \* the address spaces of the live processes
    cur,          \* the address space on the CPU
    cpu,          \* the access or call the CPU is stopped at
    fpos,         \* the offset of the open chunked file
    reg,          \* the result of the last access or call
    budget,       \* Machine::memory_budget and Vfs::storage_budget
    torn          \* history: spaces where a munmap or mprotect that met a hole
                  \* changed pages of a file without telling the pager

pagerVars == <<mmu, spaces, resident, pending, file_wait, store, page_in_wait,
               changes, next_asid, procs, cur, cpu, fpos, reg, budget, torn>>

-----------------------------------------------------------------------------
(* Mappings *)

\* FileMapping::new
FileMapping(start, end, at, offset, len, perm, fill) ==
    [start |-> start, end |-> end, data_start |-> at, file_offset |-> offset,
     file_len |-> len, perm |-> perm, fill |-> fill]

DataEnd(m) == m.data_start + m.file_len

\* Mutant: a clipped mapping still starts at the old file offset.
ClippedInPlace(m, lo, hi) ==
    LET start == Greater(lo, m.start)
        end == Lesser(hi, m.end)
        from == Lesser(Greater(m.data_start, start), end)
        to == Greater(Lesser(DataEnd(m), end), from)
    IN  IF lo >= hi \/ start >= end THEN <<>>
        ELSE <<FileMapping(start, end, from, m.file_offset, to - from, m.perm, m.fill)>>

\* FileMapping::clipped, as a sequence of at most one mapping.
Clipped(m, lo, hi) ==
    LET start == Greater(lo, m.start)
        end == Lesser(hi, m.end)
        from == Lesser(Greater(m.data_start, start), end)
        to == Greater(Lesser(DataEnd(m), end), from)
        skipped == Greater(from - m.data_start, 0)
    IN  IF lo >= hi \/ start >= end THEN <<>>
        ELSE <<FileMapping(start, end, from, m.file_offset + skipped, to - from,
                           m.perm, m.fill)>>

\* What Pager::unmap leaves of the mappings.
Cut(ms, lo, hi) ==
    FlattenSeq([i \in DOMAIN ms |-> Clipped(ms[i], ms[i].start, lo) \o Clipped(ms[i], hi, ms[i].end)])

\* Pager::protect
Protected(ms, lo, hi, perm) ==
    FlattenSeq([i \in DOMAIN ms |->
        LET middle == Clipped(ms[i], lo, hi) IN
        Clipped(ms[i], ms[i].start, lo)
        \o [j \in DOMAIN middle |-> [middle[j] EXCEPT !.perm = perm]]
        \o Clipped(ms[i], hi, ms[i].end)])

\* The mapping of the file that continues one that is being grown.
GrownPart(ms, old, oldLen, new, newLen) ==
    LET at == {i \in DOMAIN ms : ms[i].start < old + oldLen /\ old + oldLen <= ms[i].end}
        m == ms[Max(at)]
        offset == Lesser(m.file_offset + (old + oldLen - m.data_start), FileSize)
    IN  IF at = {} THEN <<>>
        ELSE <<FileMapping(new + oldLen, new + newLen, new + oldLen, offset,
                           Lesser(FileSize - offset, newLen - oldLen), m.perm, m.fill)>>

\* Pager::remap, for a mapping that grows.
Remapped(ms, old, oldLen, new, newLen) ==
    LET part(m) == Clipped(m, old, old + oldLen)
        moved(m) == [j \in DOMAIN part(m) |->
            [part(m)[j] EXCEPT !.start = @ + (new - old), !.end = @ + (new - old),
                               !.data_start = @ + (new - old)]]
    IN  Cut(ms, old, old + oldLen)
        \o FlattenSeq([i \in DOMAIN ms |-> moved(ms[i])])
        \o GrownPart(ms, old, oldLen, new, newLen)

Touching(ms, p) == SelectSeq(ms, LAMBDA m : m.start <= p /\ p < m.end)
MappingsOf(a, p) == IF a \in DOMAIN spaces THEN Touching(spaces[a].mappings, p) ELSE <<>>

Lazy(a, p) == MappingsOf(a, p) # <<>>
Cold(a, p) == Lazy(a, p) /\ <<a, p>> \notin resident

\* Pager::page_state: the last mapping wins.
FinalPerm(a, p) == Last(MappingsOf(a, p)).perm

-----------------------------------------------------------------------------
(* The bytes of a page, and the chunk a page lacks *)

\* The file as the chunk store has it.
StoredFile ==
    [o \in {x \in 0..(FileSize - 1) : ChunkAt(x) \in DOMAIN store} |->
        IF store[ChunkAt(o)] = "genuine" THEN Contents[o] ELSE Forged]

\* Pager::resolve builds a page by applying the mappings in insertion order:
\* each one writes its file data and the zeros after it.
ByteAt(t, u, file) ==
    LET over == {i \in DOMAIN t : t[i].data_start <= u}
        m == t[Max(over)]
    IN  IF over = {} THEN t[1].fill
        ELSE IF u < DataEnd(m) THEN file[m.file_offset + (u - m.data_start)]
        ELSE Fresh

PageBytes(t, p, file) == [i \in 0..(PageSize - 1) |-> ByteAt(t, p + i, file)]

\* The chunks that ChunkStore::read_range visits for mapping m of page p.
ChunksOf(m, p) ==
    {ChunkAt(m.file_offset + (u - m.data_start)) :
        u \in {x \in UnitsOf(p) : m.data_start <= x /\ x < DataEnd(m)}}

Lacking(a, p) ==
    {i \in DOMAIN MappingsOf(a, p) : ~(ChunksOf(MappingsOf(a, p)[i], p) \subseteq DOMAIN store)}

Warm(a, p) == Lacking(a, p) = {}

\* The first chunk that is missing, in the order of the mappings.
FirstMissing(a, p) ==
    Min(ChunksOf(MappingsOf(a, p)[Min(Lacking(a, p))], p) \ DOMAIN store)

PageRequest(a, p) ==
    [asid |-> a, generation |-> spaces[a].generation, page |-> p, chunk |-> FirstMissing(a, p)]

-----------------------------------------------------------------------------
(* Memory *)

\* Memory m with the pages ps of space a filled from the store, with their
\* final permission.
Filled(m, a, ps) ==
    [m EXCEPT ![a] = [q \in DOMAIN m[a] |->
        IF q \in ps THEN [perm |-> FinalPerm(a, q), data |-> PageBytes(MappingsOf(a, q), q, StoredFile)]
        ELSE m[a][q]]]

\* Memory m with value v written to the units us of space a.
Written(m, a, us, v) ==
    [m EXCEPT ![a] = [q \in DOMAIN m[a] |->
        [m[a][q] EXCEPT !.data = [i \in 0..(PageSize - 1) |->
            IF q + i \in us THEN v ELSE m[a][q].data[i]]]]]

\* Pager::mark_resident
MarkResident(ps) == resident \cup {<<cur, p>> : p \in ps}

Values(m, op) == [u \in Units(op) |-> m[cur][PageOf(u)].data[u % PageSize]]

Mapped(op) == PagesOf(op) \subseteq DOMAIN mmu[cur]

-----------------------------------------------------------------------------
(* The machine stopped, retried, halted *)

\* Machine::run returns at once while a completion is owed.
Waiting == page_in_wait /\ (pending # None \/ file_wait # None)

\* The CPU starts op, or runs the op it stopped at again.
Begins(op) == ~Waiting /\ cpu \in {Idle, op}

\* The access or call op has completed with a result.
Done(result) == cpu' = Idle /\ reg' = result /\ page_in_wait' = FALSE

\* An access fault that the environment leaves alone ends the run.
Halt == cpu' = Halted /\ reg' = Result("fault") /\ page_in_wait' = FALSE

Refused(a, p) == pending # None /\ pending # {PageRequest(a, p)}

\* FaultResolution::Missing: op waits for page p.
AwaitPage(op, p) ==
    /\ ~Refused(cur, p)
    /\ pending' = {PageRequest(cur, p)}
    /\ page_in_wait' = TRUE
    /\ cpu' = op

\* wait_for_file_chunk: op waits for chunk c of a file.
AwaitFile(op, c) ==
    /\ file_wait = None
    /\ file_wait' = {c}
    /\ page_in_wait' = TRUE
    /\ cpu' = op

-----------------------------------------------------------------------------
(* Guest accesses: LinuxEnv::handle_exception *)

Granted(op) == Mapped(op) /\ \A p \in PagesOf(op) : KindOf[op.op] \in mmu[cur][p].perm

\* The access completes.
Access(op) ==
    /\ Begins(op) /\ op.op \in DOMAIN KindOf
    /\ Granted(op)
    /\ mmu' = IF op.op = "store" THEN Written(mmu, cur, Units(op), Stored) ELSE mmu
    /\ Done(IF op.op = "store" THEN Result("ok") ELSE Loaded(Values(mmu, op)))
    /\ UNCHANGED <<spaces, resident, pending, file_wait, store, changes, next_asid, procs, cur, fpos,
                   budget, torn>>

\* Pager::resolve: the page whose absence explains a fault. The engine reports
\* the first address of an access, also when only the next page is cold.
ColdPage(op) ==
    LET p == PageOf(op.at)
        next == p + PageSize
        kind == KindOf[op.op]
    IN  IF Cold(cur, p) THEN {p}
        ELSE {q \in {next} : /\ Lazy(cur, p) /\ kind \in FinalPerm(cur, p)
                             /\ Cold(cur, q) /\ kind \in FinalPerm(cur, q)}

\* The access faults: the page is filled and the access retried, or the
\* machine stops for a chunk, or the fault is the guest's own. A page that
\* the MMU no longer has cannot be filled.
Fault(op) ==
    /\ Begins(op) /\ op.op \in DOMAIN KindOf
    /\ ~Granted(op)
    /\ \/ /\ \/ ColdPage(op) = {}
             \/ \E p \in ColdPage(op) :
                    IF Warm(cur, p) THEN p \notin DOMAIN mmu[cur] ELSE Refused(cur, p)
          /\ Halt
          /\ UNCHANGED <<mmu, resident, pending>>
       \/ \E p \in ColdPage(op) :
            \/ /\ Warm(cur, p) /\ p \in DOMAIN mmu[cur]
               /\ mmu' = Filled(mmu, cur, {p})
               /\ resident' = MarkResident({p})
               /\ cpu' = op /\ page_in_wait' = FALSE
               /\ UNCHANGED <<pending, reg>>
            \/ /\ ~Warm(cur, p)
               /\ AwaitPage(op, p)
               /\ UNCHANGED <<mmu, resident, reg>>
    /\ UNCHANGED <<spaces, file_wait, store, changes, next_asid, procs, cur, fpos, budget, torn>>

-----------------------------------------------------------------------------
(* Copies between a call and guest memory: host_touch, read_mem, write_mem *)

\* A page of memory m stops host_touch for copy op: its mapping denies the
\* copy, it cannot be filled, or it is missing.
Denies(m, op, p) ==
    /\ Lazy(cur, p)
    /\ \/ CopyKind[op.op] \notin FinalPerm(cur, p)
       \/ Cold(cur, p) /\ Warm(cur, p) /\ p \notin DOMAIN m[cur]
Misses(op, p) == Cold(cur, p) /\ CopyKind[op.op] \in FinalPerm(cur, p) /\ ~Warm(cur, p)
Stops(m, op) == {p \in PagesOf(op) : Denies(m, op, p) \/ Misses(op, p)}

\* The pages host_touch fills before it returns or stops.
TouchedPages(m, op) ==
    {p \in PagesOf(op) : Cold(cur, p) /\ \A q \in Stops(m, op) : p < q}

Touched(m, op) == Filled(m, cur, TouchedPages(m, op))

\* host_touch returns an error for copy op; call is run again after a page-in.
TouchFails(m, op, call) ==
    /\ Stops(m, op) # {}
    /\ LET p == Min(Stops(m, op)) IN
       \/ /\ Denies(m, op, p)
          /\ Done(Result("EFAULT"))
          /\ UNCHANGED pending
       \/ /\ Misses(op, p)
          /\ AwaitPage(call, p)
          /\ UNCHANGED reg
       \/ /\ Misses(op, p) /\ Refused(cur, p)
          /\ Done(Result("EIO"))
          /\ UNCHANGED pending
    /\ mmu' = Touched(m, op)
    /\ resident' = MarkResident(TouchedPages(m, op))

CopyStops(op) ==
    /\ Begins(op) /\ op.op \in DOMAIN CopyKind
    /\ TouchFails(mmu, op, op)
    /\ UNCHANGED <<spaces, file_wait, store, changes, next_asid, procs, cur, fpos, budget, torn>>

\* A call that reads, or writes, the guest's buffer.
Copy(op) ==
    /\ Begins(op) /\ op.op \in {"copyin", "copyout"}
    /\ Stops(mmu, op) = {}
    /\ LET m == Touched(mmu, op) IN
       \/ /\ ~Mapped(op)
          /\ mmu' = m /\ Done(Result("EFAULT"))
       \/ /\ Mapped(op) /\ op.op = "copyin"
          /\ mmu' = m /\ Done(Loaded(Values(m, op)))
       \/ /\ Mapped(op) /\ op.op = "copyout"
          /\ mmu' = Written(m, cur, Units(op), Stored) /\ Done(Result("ok"))
    /\ resident' = MarkResident(TouchedPages(mmu, op))
    /\ UNCHANGED <<spaces, pending, file_wait, store, changes, next_asid, procs, cur, fpos,
                   budget, torn>>

\* outcome_read, sys_read of one unit of the chunked file at the offset.
ReadFile(op) ==
    /\ Begins(op) /\ op.op = "read"
    /\ Stops(mmu, op) = {}
    /\ LET m == Touched(mmu, op)
           c == ChunkAt(fpos)
       IN
       \/ /\ fpos >= FileSize
          /\ mmu' = m /\ Done(Result("end of file"))
          /\ UNCHANGED <<file_wait, fpos>>
       \/ /\ fpos < FileSize /\ c \in DOMAIN store
          /\ mmu' = IF Mapped(op) THEN Written(m, cur, Units(op), StoredFile[fpos]) ELSE m
          /\ Done(Result(IF Mapped(op) THEN "ok" ELSE "EFAULT"))
          /\ fpos' = fpos + 1
          /\ UNCHANGED file_wait
       \/ /\ fpos < FileSize /\ c \notin DOMAIN store
          /\ mmu' = m /\ AwaitFile(op, c)
          /\ UNCHANGED <<fpos, reg>>
    /\ resident' = MarkResident(TouchedPages(mmu, op))
    /\ UNCHANGED <<spaces, pending, store, changes, next_asid, procs, cur, budget, torn>>

-----------------------------------------------------------------------------
(* The memory calls *)

Mappings == spaces[cur].mappings
Changed(ms, n) == [spaces EXCEPT ![cur] = [generation |-> @.generation + n, mappings |-> ms]]
Counted == changes < MaxChanges /\ changes' = changes + 1

IsFree(p, n) == PageRange(p, n) \subseteq Pages \ DOMAIN mmu[cur]
FreeFor(n) == {p \in Pages : IsFree(p, n)}
Holes(op) == PageRange(op.at, op.pages) \ DOMAIN mmu[cur]

\* Space cur with the pages of f added, or replaced.
Overlaid(f) == [mmu EXCEPT ![cur] = [q \in DOMAIN mmu[cur] \cup DOMAIN f |->
                                        IF q \in DOMAIN f THEN f[q] ELSE mmu[cur][q]]]
\* unmap_memory_len, which removes what is there and reports a hole.
Removed(ps) == [mmu EXCEPT ![cur] = [q \in DOMAIN mmu[cur] \ ps |-> mmu[cur][q]]]
Blank(perm) == [perm |-> perm, data |-> [i \in 0..(PageSize - 1) |-> Fresh]]

\* Pager::unmap's residency.
Evicted(ps) == resident \ {<<cur, p>> : p \in ps}

\* A call has changed the pages ps in the MMU alone.
Torn(ps) == torn' = IF \E p \in ps : Lazy(cur, p) THEN torn \cup {cur} ELSE torn

\* sys_mmap, private: of the file from op.off, anonymous, or of a descriptor
\* that cannot be mapped. MAP_FIXED first unmaps what is there, also when the
\* descriptor is then refused; otherwise the hint is taken when it is free.
Mmap(op) ==
    /\ Begins(op) /\ op.op = "mmap" /\ Counted
    /\ LET targets == IF op.fixed \/ IsFree(op.at, op.pages) THEN {op.at} ELSE FreeFor(op.pages)
           range(t) == PageRange(t, op.pages)
           end(t) == t + PageSize * op.pages
           ms(t) == IF op.fixed THEN Cut(Mappings, t, end(t)) ELSE Mappings
           unmaps == IF op.fixed THEN 1 ELSE 0
           len == Lesser(FileSize - op.off, PageSize * op.pages)
           lazy == op.from = "file" /\ len > 0
       IN  \/ /\ targets = {}
              /\ UNCHANGED <<spaces, resident, mmu>>
              /\ Done(Result("ENOMEM"))
           \/ \E t \in targets :
              /\ spaces' = IF lazy
                   THEN Changed(Append(ms(t), FileMapping(t, end(t), t, op.off, len, op.perm, Fresh)), unmaps + 1)
                   ELSE Changed(ms(t), unmaps)
              /\ resident' = IF op.fixed THEN Evicted(range(t)) ELSE resident
              /\ \/ /\ op.from = "bad"
                    /\ mmu' = IF op.fixed THEN Removed(range(t)) ELSE mmu
                    /\ Done(Result("EBADF"))
                 \/ /\ op.from # "bad"
                    /\ mmu' = Overlaid([q \in range(t) |-> Blank(IF lazy THEN {} ELSE op.perm)])
                    /\ Done(MappedAt(t))
    /\ UNCHANGED <<pending, file_wait, store, next_asid, procs, cur, fpos, budget, torn>>

\* SYS_MUNMAP. With a hole in the range the pages go and the pager is not told.
Munmap(op) ==
    /\ Begins(op) /\ op.op = "munmap" /\ Counted
    /\ mmu' = Removed(PageRange(op.at, op.pages))
    /\ \/ /\ Holes(op) = {}
          /\ spaces' = Changed(Cut(Mappings, op.at, EndOf(op)), 1)
          /\ resident' = Evicted(PageRange(op.at, op.pages))
          /\ Done(Result("ok"))
          /\ UNCHANGED torn
       \/ /\ Holes(op) # {}
          /\ Torn(PageRange(op.at, op.pages) \ Holes(op))
          /\ Done(Result("EINVAL"))
          /\ UNCHANGED <<spaces, resident>>
    /\ UNCHANGED <<pending, file_wait, store, next_asid, procs, cur, fpos, budget>>

\* Mutant: mprotect gives unfetched pages their permission at once.
ProtectedAtOnce(p, perm) == perm

\* The permission mprotect leaves in the MMU: none before the page is there.
PermInMmu(p, perm) == IF Cold(cur, p) THEN {} ELSE perm

\* sys_mprotect. update_perm stops at a hole; the pages before it have the new
\* permission then, the pager is not told and nothing is hidden again.
Mprotect(op) ==
    /\ Begins(op) /\ op.op = "mprotect" /\ Counted
    /\ LET range == PageRange(op.at, op.pages)
           before == {q \in range : \A h \in Holes(op) : q < h}
           given(ps, perm(_)) == Overlaid([q \in ps |-> [mmu[cur][q] EXCEPT !.perm = perm(q)]])
       IN  \/ /\ Holes(op) = {}
              /\ spaces' = Changed(Protected(Mappings, op.at, EndOf(op), op.perm), 1)
              /\ mmu' = given(range, LAMBDA q : PermInMmu(q, op.perm))
              /\ Done(Result("ok"))
              /\ UNCHANGED torn
           \/ /\ Holes(op) # {}
              /\ mmu' = given(before, LAMBDA q : op.perm)
              /\ Torn(before)
              /\ Done(Result("ENOMEM"))
              /\ UNCHANGED spaces
    /\ UNCHANGED <<resident, pending, file_wait, store, next_asid, procs, cur, fpos, budget>>

\* The fresh region of a growing mremap, and the copy of the old bytes to it.
Grown(t, op) == Overlaid([q \in PageRange(t, op.grown) |-> Blank({"r", "w"})])
GrownCopy(t, op) == [op |-> "copyout", at |-> t, len |-> PageSize * op.pages]

\* sys_mremap of op.pages pages to op.grown: a fresh region takes the old
\* bytes, the mappings move with it and the last one is continued.
MremapGrows(op) ==
    /\ Begins(op) /\ op.op = "mremap" /\ Counted
    /\ Holes(op) = {}
    /\ \E t \in {p \in FreeFor(op.grown) : Stops(Grown(p, op), GrownCopy(p, op)) = {}} :
        LET delta == t - op.at
            old == PageRange(op.at, op.pages)
            new == PageRange(t, op.grown)
            came == {q \in new : q - delta \in old}
            touched == MarkResident(TouchedPages(Grown(t, op), GrownCopy(t, op)))
            ms == Remapped(Mappings, op.at, PageSize * op.pages, t, PageSize * op.grown)
            warm == (touched \ {<<cur, q>> : q \in old})
                    \cup {<<cur, q>> : q \in {x \in came : <<cur, x - delta>> \in touched}}
            last(q) == Touching(ms, q)
            perm(q) == IF last(q) = <<>> THEN {"r", "w"}
                       ELSE IF <<cur, q>> \in warm THEN Last(last(q)).perm ELSE {}
            bytes(q) == IF q \in came THEN mmu[cur][q - delta].data ELSE Blank({}).data
        IN  /\ spaces' = Changed(ms, 1)
            /\ resident' = warm
            /\ mmu' = [mmu EXCEPT ![cur] = [q \in (DOMAIN mmu[cur] \ old) \cup new |->
                          IF q \in new THEN [perm |-> perm(q), data |-> bytes(q)] ELSE mmu[cur][q]]]
            /\ Done(MappedAt(t))
    /\ UNCHANGED <<pending, file_wait, store, next_asid, procs, cur, fpos, budget, torn>>

\* A growing mremap finds no room; or a hole in the old range, or a mapping
\* left at the new one, stops it and the fresh region stays.
MremapFails(op) ==
    /\ Begins(op) /\ op.op = "mremap"
    /\ changes < MaxChanges
    /\ \/ /\ FreeFor(op.grown) = {}
          /\ Done(Result("ENOMEM"))
          /\ UNCHANGED <<mmu, resident, pending>>
       \/ \E t \in FreeFor(op.grown) :
            IF Holes(op) # {}
            THEN mmu' = Grown(t, op) /\ Done(Result("EFAULT")) /\ UNCHANGED <<resident, pending>>
            ELSE TouchFails(Grown(t, op), GrownCopy(t, op), op)
    /\ changes' = IF cpu' = Idle THEN changes + 1 ELSE changes
    /\ UNCHANGED <<spaces, file_wait, store, next_asid, procs, cur, fpos, budget, torn>>

\* sys_mremap to fewer pages: the tail is unmapped, holes or not.
MremapShrinks(op) ==
    /\ Begins(op) /\ op.op = "shrink" /\ Counted
    /\ LET end == op.at + PageSize * op.kept
           tail == {q \in PageRange(op.at, op.pages) : q >= end}
       IN  /\ mmu' = Removed(tail)
           /\ spaces' = Changed(Cut(Mappings, end, EndOf(op)), 1)
           /\ resident' = Evicted(tail)
    /\ Done(Result("ok"))
    /\ UNCHANGED <<pending, file_wait, store, next_asid, procs, cur, fpos, budget, torn>>

-----------------------------------------------------------------------------
(* Processes *)

\* lazy_elf::load: every page of the segments, without permissions.
ImagePages == {p \in Pages : Touching(Image, p) # <<>>}
ImageMemory == [p \in ImagePages |-> Blank({})]
ImageSpace == [generation |-> Len(Image), mappings |-> Image]

\* Pager::fork_space's residency.
Inherited(child) == {<<child, r[2]>> : r \in {x \in resident : x[1] = cur}}

\* sys_clone of a process: the child gets a copy of memory and mappings.
Fork(op) ==
    /\ Begins(op) /\ op.op = "fork" /\ next_asid <= MaxAsid /\ Counted
    /\ mmu' = [mmu EXCEPT ![next_asid] = mmu[cur]]
    /\ spaces' = [a \in DOMAIN spaces \cup {next_asid} |->
                     IF a = next_asid THEN spaces[cur] ELSE spaces[a]]
    /\ resident' = resident \cup Inherited(next_asid)
    /\ procs' = procs \cup {next_asid}
    /\ next_asid' = next_asid + 1
    /\ torn' = IF cur \in torn THEN torn \cup {next_asid} ELSE torn
    /\ Done(Result("ok"))
    /\ UNCHANGED <<pending, file_wait, store, cur, fpos, budget>>

\* The spaces in live, and a new space with the program's image.
WithImage(live) ==
    /\ mmu' = [a \in Asids |-> IF a = next_asid THEN ImageMemory
                               ELSE IF a \in live THEN mmu[a] ELSE Empty]
    /\ spaces' = [a \in (DOMAIN spaces \ {cur}) \cup {next_asid} |->
                     IF a = next_asid THEN ImageSpace ELSE spaces[a]]
    /\ resident' = {r \in resident : r[1] # cur}
    /\ procs' = live \cup {next_asid}
    /\ cur' = next_asid
    /\ next_asid' = next_asid + 1

\* sys_execve past the point of no return; the header is in the store since
\* the program was loaded.
Execve(op) ==
    /\ Begins(op) /\ op.op = "execve" /\ next_asid <= MaxAsid /\ Counted
    /\ WithImage(procs \ {cur})
    /\ Done(Result("ok"))
    /\ UNCHANGED <<pending, file_wait, store, fpos, budget, torn>>

\* task_exit: the pager keeps the space of the process.
Exit(op) ==
    /\ Begins(op) /\ op.op = "exit" /\ procs # {cur}
    /\ procs' = procs \ {cur}
    /\ cur' \in procs \ {cur}
    /\ mmu' = [mmu EXCEPT ![cur] = Empty]
    /\ Done(Result("ok"))
    /\ UNCHANGED <<spaces, resident, pending, file_wait, store, next_asid, changes, fpos, budget, torn>>

\* The scheduler puts another process on the CPU between two operations.
Switch ==
    /\ ~Waiting /\ cpu = Idle
    /\ cur' \in procs \ {cur}
    /\ UNCHANGED <<mmu, spaces, resident, pending, file_wait, store, changes,
                   page_in_wait, next_asid, procs, cpu, fpos, reg, budget, torn>>

-----------------------------------------------------------------------------
(* The host *)

\* ChunkStore::insert
DigestMatches(bytes) == bytes = "genuine"

WithChunk(c, bytes) ==
    [d \in DOMAIN store \cup {c} |-> IF d \in DOMAIN store THEN store[d] ELSE bytes]

\* A chunk the store has takes no room; another must fit the budget of kind.
Fits(kind, c) == c \in DOMAIN store \/ Cardinality(DOMAIN store) < budget[kind]

\* Pager::complete's test that the request still concerns a mapping.
Current(r) ==
    /\ r.asid \in DOMAIN spaces
    /\ spaces[r.asid].generation = r.generation
    /\ Lazy(r.asid, r.page)

\* Mutant: the machine runs on and the ticket stays.
KeptTicket == pending' = pending /\ page_in_wait' = FALSE

\* The machine is released from its wait.
Released == pending' = None /\ page_in_wait' = FALSE

\* Machine::deliver_page for the page request: a stale ticket is forgotten
\* and its bytes are not kept. Refused without effect are a ticket that is not
\* the outstanding one, bytes over the memory budget, which is asked first,
\* bytes over the storage budget, and bytes with another digest.
DeliverPage(bytes) ==
    /\ \E r \in pending :
       /\ Fits("memory", r.chunk)
       /\ \/ /\ ~Current(r)
             /\ pending' = None
             /\ UNCHANGED <<store, page_in_wait>>
          \/ /\ Current(r) /\ Fits("storage", r.chunk) /\ DigestMatches(bytes)
             /\ store' = WithChunk(r.chunk, bytes)
             /\ Released
    /\ UNCHANGED <<mmu, spaces, resident, file_wait, changes, next_asid, procs, cur, cpu, fpos, reg,
                   budget, torn>>

\* Mutant: the file request is not taken as answered.
FileKept == file_wait' = file_wait /\ page_in_wait' = page_in_wait

FileReleased == file_wait' = None /\ page_in_wait' = FALSE

\* Machine::deliver_page for a file request, which page_request shows when no
\* page request is outstanding; it is refused for the same reasons.
DeliverFile(bytes) ==
    /\ pending = None
    /\ DigestMatches(bytes)
    /\ \E c \in file_wait :
        /\ Fits("memory", c) /\ Fits("storage", c)
        /\ store' = WithChunk(c, bytes)
    /\ FileReleased
    /\ UNCHANGED <<mmu, spaces, resident, pending, changes, next_asid, procs, cur, cpu, fpos, reg,
                   budget, torn>>

Bytes == {"genuine", "forged"}

\* LinuxEnv::load over whatever runs: a fresh process and space. The ticket of
\* the program that is replaced stays until it is answered (drop_space).
Load ==
    /\ next_asid <= MaxAsid
    /\ WithImage({})
    /\ file_wait' = None
    /\ page_in_wait' = FALSE
    /\ cpu' = Idle
    /\ fpos' = FirstOffset
    /\ UNCHANGED <<pending, store, changes, reg, budget, torn>>

-----------------------------------------------------------------------------
\* A loaded program: its header's chunk is in the store.
PagerInit ==
    /\ mmu = [a \in Asids |-> IF a = 1 THEN ImageMemory ELSE Empty]
    /\ spaces = [a \in {1} |-> ImageSpace]
    /\ resident = {}
    /\ pending = None
    /\ file_wait = None
    /\ changes = 0
    /\ store = [c \in {0} |-> "genuine"]
    /\ page_in_wait = FALSE
    /\ next_asid = 2
    /\ procs = {1}
    /\ cur = 1
    /\ cpu = Idle
    /\ fpos = FirstOffset
    /\ reg = Result("ok")
    /\ budget \in Budgets
    /\ torn = {}

Step(op) ==
    \/ Access(op) \/ Fault(op)
    \/ CopyStops(op) \/ Copy(op) \/ ReadFile(op)
    \/ Mmap(op) \/ Munmap(op) \/ Mprotect(op)
    \/ MremapGrows(op) \/ MremapFails(op) \/ MremapShrinks(op)
    \/ Fork(op) \/ Execve(op) \/ Exit(op)

Host == Load \/ \E bytes \in Bytes : DeliverPage(bytes) \/ DeliverFile(bytes)

PagerNext == (\E op \in Ops : Step(op)) \/ Switch \/ Host

PagerSpec == PagerInit /\ [][PagerNext]_pagerVars

\* The CPU runs what it was stopped at from its start.
RunsAgain == \E op \in Ops : cpu = op /\ Step(op)

\* The host answers the request it is shown, and runs the machine.
PagerFairSpec ==
    /\ PagerSpec
    /\ WF_pagerVars(RunsAgain)
    /\ WF_pagerVars(DeliverPage("genuine"))
    /\ WF_pagerVars(DeliverFile("genuine"))

-----------------------------------------------------------------------------
(* Properties *)

\* A page that has not been fetched grants no access in the MMU, whatever
\* mprotect, mremap or fork did to it: a guest access to it must fault, or the
\* program would read the allocator's zeros. Excepted are the spaces in which
\* a munmap or mprotect has failed over a hole after it changed pages of a file:
\* sys_mprotect then returns before it hides the cold pages again, SYS_MUNMAP
\* before it tells the pager.
ColdIsInaccessible ==
    \A a \in procs \ torn : \A p \in Pages :
        Cold(a, p) => p \in DOMAIN mmu[a] /\ mmu[a][p].perm = {}

\* A ticket has authority over one stop only: it is the one the CPU is stopped
\* at (of the space on the CPU, of its present generation, for a page that is
\* still cold and a chunk that is still missing), or the space it was issued to
\* is gone with the program that a load replaced, and its delivery is refused
\* as stale (drop_space, Pager::complete).
TicketIsCurrent ==
    \A r \in pending :
        \/ /\ Waiting /\ file_wait = None
           /\ Cold(cur, r.page) /\ ~Warm(cur, r.page)
           /\ r = PageRequest(cur, r.page)
        \/ ~Current(r) /\ r.asid \notin DOMAIN spaces

Offset(t, p) == Lesser(Last(t).file_offset + (p - Last(t).data_start), FileSize)

\* A page of mappings t with the bytes that the program has in it.
EagerPage(t, p, data) == [perm |-> Last(t).perm, data |-> data, back |-> Offset(t, p)]

EagerView(a) ==
    [p \in DOMAIN mmu[a] |->
        LET t == MappingsOf(a, p) IN
        IF t = <<>> THEN [perm |-> mmu[a][p].perm, data |-> mmu[a][p].data, back |-> -1]
        ELSE EagerPage(t, p, IF <<a, p>> \in resident THEN mmu[a][p].data ELSE PageBytes(t, p, Contents))]

Eager == INSTANCE EagerMemory WITH
    Program <- [p \in ImagePages |->
                   LET t == Touching(Image, p) IN EagerPage(t, p, PageBytes(t, p, Contents))],
    Spaces <- Asids,
    memory <- [a \in procs |-> IF a \in torn THEN Empty ELSE EagerView(a)],
    owed <- \E r \in pending : r.asid \notin DOMAIN spaces

\* Programs cannot tell paged memory from memory that was filled when it was
\* mapped: every access and call, with however many stops and retries, takes
\* effect at most once, with the file's bytes and the permissions of its
\* mapping (handle_exception, host_touch, the memory calls). EagerMemory names
\* the three exceptions: an access that runs from ordinary memory into a page
\* of a file, a ticket left by a replaced program, and a space in which a
\* munmap or mprotect has failed over a hole.
PagingIsInvisible == Eager!EagerSpec

\* The host holds the chunk that is asked for and a budget refuses it.
OverBudget ==
    \E c \in {r.chunk : r \in pending} \cup file_wait :
        ~Fits("memory", c) \/ ~Fits("storage", c)

\* A stopped access or call ends: with the host answering each ticket and
\* running the machine, no sequence of missing chunks stops it for ever, unless
\* a budget has no room for a chunk it needs (check_budget, Vfs::put_chunk).
StoppedAccessEnds == (cpu \in Ops) ~> (cpu \notin Ops \/ OverBudget)

=============================================================================
