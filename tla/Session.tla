------------------------------ MODULE Session ------------------------------
(***************************************************************************)
(* A session of the machine in a browser: the worker boots it, gives it    *)
(* files, images, manifests and secrets, loads a program and runs it in    *)
(* turns, and saves its files into two slots of browser storage.  The      *)
(* worker may die at any await; the next one restores what was saved.      *)
(***************************************************************************)
EXTENDS SessionFiles, FiniteSets

CONSTANTS
    Slots,          \* SNAPSHOT_SLOTS, two numbers
    Fuel,           \* instructions of one turn
    MaxLength,      \* bound on the length of a file the guest writes
    MaxIcount,      \* bound on the instructions a guest without an allowance retires
    MaxArgs,        \* bound on the arguments that are staged
    Scenarios

VARIABLES
    sc,             \* what page, guest and storage may do; never changes
    m,              \* HostState and its Machine
    host,           \* the worker's handlers, and what is history of theirs
    disk,           \* browser storage: [slot, legacy]
    log             \* [exports, alone, promised, deaths]: what the page was told

vars == <<sc, m, host, disk, log>>

NoProgram == [path |-> "none", argv |-> <<>>, data |-> <<>>]

\* wtw_init.
NewMachine ==
    [files |-> [p \in Paths |-> Absent], root |-> None, chunks |-> {}, secrets |-> {},
     manifest |-> None, authority |-> None, inFlight |-> [p \in Paths |-> <<>>],
     wait |-> None, argv |-> <<>>, program |-> NoProgram, icount |-> 0,
     budget |-> None, memory |-> None]

Idle == [step |-> "idle"]
\* saves: the calls of persist under way; forget: what deleteSnapshots has left to
\* delete; givenUp: the arguments of loads given up since the last one that ended.
NewHost == [boot |-> "down", stream |-> Idle, load |-> Idle, saves |-> {}, forget |-> {},
            pumps |-> FALSE, images |-> {}, givenUp |-> <<>>]

Empty == [kind |-> "empty"]
Torn == [kind |-> "torn"]
Stored(gen, image, no) == [kind |-> "whole", gen |-> gen, image |-> image, no |-> no]

Init ==
    /\ sc \in Scenarios
    /\ m = NewMachine
    /\ host = NewHost
    /\ disk = [slot |-> [i \in Slots |-> Empty], legacy |-> sc.legacy]
    /\ log = [exports |-> 0, alone |-> {}, deaths |-> 0,
              promised |-> IF sc.legacy.kind = "image" THEN 0 ELSE -1]

Ready == host.boot = "ready"

-----------------------------------------------------------------------------
(* Storage.                                                                *)

\* decodeSnapshot accepts a slot only whole; the newest generation is first.
Candidates(d) == {i \in Slots : d.slot[i].kind = "whole"}

Newest(d) == CHOOSE i \in Candidates(d) : \A j \in Candidates(d) : d.slot[j].gen <= d.slot[i].gen

ReadSnapshot(d) == IF Candidates(d) # {} THEN d.slot[Newest(d)].image ELSE d.legacy

\* Mutant: a save goes over the newest one.
NextSnapshotSlotNewest(d) == IF Candidates(d) = {} THEN Min(Slots) ELSE Newest(d)

NextSnapshotSlot(d) ==
    IF Candidates(d) = {} THEN Min(Slots) ELSE CHOOSE i \in Slots : i # Newest(d)

NextGeneration(d) == IF Candidates(d) = {} THEN 1 ELSE d.slot[Newest(d)].gen + 1

-----------------------------------------------------------------------------
(* Boot and death.                                                         *)

Boot ==
    /\ host.boot = "down"
    /\ m' = NewMachine
    /\ host' = [host EXCEPT !.boot = "reads"]
    /\ UNCHANGED <<sc, disk, log>>

\* add_file, of the machine: refused when it does not fit.
AddFile(k, p, data) ==
    IF CheckBudget(k, Len(data)) /\ CheckAgainstManifest(k, p, data)
    THEN [k EXCEPT !.files[p] = Whole(data)] ELSE k

ImportFs(k, image) ==
    IF Deserializes(image)
    THEN [k EXCEPT !.files = image.files, !.root = image.root, !.chunks = {}] ELSE k

\* The snapshot is imported, or ignored; the seeds come on top of it.
Restore ==
    /\ host.boot = "reads"
    /\ m' = FoldLeft(LAMBDA k, s : AddFile(k, s[1], s[2]), ImportFs(m, ReadSnapshot(disk)), sc.seeds)
    /\ host' = [host EXCEPT !.boot = "ready"]
    /\ UNCHANGED <<sc, disk, log>>

\* The tab is closed or the worker is killed, at any await.
Die ==
    /\ host.boot # "down"
    /\ log.deaths < sc.deaths
    /\ m' = NewMachine
    /\ host' = NewHost
    /\ log' = [log EXCEPT !.deaths = @ + 1, !.alone = {}]
    /\ UNCHANGED <<sc, disk>>

-----------------------------------------------------------------------------
(* Manifests, images and chunks.                                           *)

SetMemoryBudget(n) ==
    /\ Ready
    /\ m' = [m EXCEPT !.memory = n]
    /\ UNCHANGED <<sc, host, disk, log>>

SetManifest(i) ==
    /\ Ready
    /\ m' = [m EXCEPT !.manifest = i]
    /\ UNCHANGED <<sc, host, disk, log>>

AuthorizedBy(r) == {LayoutOf[r][p] : p \in DOMAIN LayoutOf[r]}

\* With a root already there, from a snapshot, the manifest is bound again and
\* no file is replaced.
InstallChunkManifest(k, r) ==
    CASE k.root = None ->
            [k EXCEPT !.files = [p \in Paths |-> IF p \in DOMAIN LayoutOf[r]
                                                 THEN Chunked(LayoutOf[r][p]) ELSE k.files[p]],
                      !.root = r, !.authority = r]
      [] k.root = r /\ \A p \in Paths : k.files[p].kind = "chunked"
                                            => k.files[p].layout \in AuthorizedBy(r) ->
            [k EXCEPT !.authority = r]
      [] OTHER -> k

InstallLazyImage(r) ==
    /\ Ready
    /\ m' = InstallChunkManifest(m, r)
    /\ UNCHANGED <<sc, host, disk, log>>

\* put_chunk: room and digest are checked before anything is kept.
Accepts(k, l, bytes) ==
    /\ l \notin k.chunks => CheckBudget(k, Len(bytes))
    /\ bytes = BytesOf[l]

PutChunk(k, l, bytes) ==
    IF Accepts(k, l, bytes) THEN [k EXCEPT !.chunks = @ \cup {l}] ELSE k

Preload(l, bytes) ==
    /\ Ready
    /\ m.authority # None /\ l \in AuthorizedBy(m.authority)
    /\ m' = PutChunk(m, l, bytes)
    /\ UNCHANGED <<sc, host, disk, log>>

\* create_file: the digest of an image is taken as it arrives.
CreateFile(k, p, capacity) ==
    [k EXCEPT !.files[p] = File(<<>>, capacity),
              !.inFlight[p] = IF k.manifest # None THEN <<<<>>>> ELSE @]

StreamBegins(x) ==
    /\ Ready /\ host.stream = Idle
    /\ host' = [host EXCEPT !.images = @ \cup {x.path},
                            !.stream = IF CheckBudget(m, Len(FlattenSeq(x.pieces)))
                                       THEN [step |-> "body", path |-> x.path, rest |-> x.pieces]
                                       ELSE Idle]
    /\ m' = IF CheckBudget(m, Len(FlattenSeq(x.pieces)))
            THEN CreateFile(m, x.path, Len(FlattenSeq(x.pieces))) ELSE m
    /\ UNCHANGED <<sc, disk, log>>

Appended(f, bytes) == File(f.data \o bytes, Max({f.cap, Len(f.data \o bytes)}))

AppendFile(k, p, bytes) ==
    LET h == IF k.inFlight[p] = <<>> THEN k
             ELSE [k EXCEPT !.inFlight[p] = <<@[1] \o bytes>>]
    IN IF k.files[p].kind = "file" THEN [h EXCEPT !.files[p] = Appended(@, bytes)] ELSE h

StreamArrives ==
    /\ host.stream.step = "body"
    /\ m' = AppendFile(m, host.stream.path, Head(host.stream.rest))
    /\ host' = [host EXCEPT !.stream = IF Len(@.rest) = 1 THEN Idle ELSE [@ EXCEPT !.rest = Tail(@)]]
    /\ UNCHANGED <<sc, disk, log>>

\* The download fails: what came stays.
StreamBreaks ==
    /\ host.stream.step = "body" /\ sc.faults
    /\ host' = [host EXCEPT !.stream = Idle]
    /\ UNCHANGED <<sc, m, disk, log>>

-----------------------------------------------------------------------------
(* Secrets.                                                                *)

Registered(old, new) == {s \in old : s.name \notin NamesOf(new)} \cup new

\* wtw_secrets_apply: all are registered before the first is expanded.  The
\* arena is in the order in which the files were made, whatever that is.
SecretsApply(k, new, order) ==
    [k EXCEPT !.secrets = Registered(@, new),
              !.files = ExpandSecrets(@, k.chunks, Registered(k.secrets, new), order).files]

ApplySecrets(new) ==
    /\ Ready
    /\ \E order \in SetToSeqs(Paths) : m' = SecretsApply(m, new, order)
    /\ UNCHANGED <<sc, host, disk, log>>

-----------------------------------------------------------------------------
(* Loading a program.                                                      *)

Started(k, p) ==
    [k EXCEPT !.program = [path |-> p, argv |-> k.argv, data |-> BytesAt(k, p)]]

\* start_image, which verifies the image again as it reads it.  A chunked one
\* waits for the chunk its headers are in.
StartImage(k, p) ==
    CASE ~ VerifyImage(k, p) -> [Verified(k, p) EXCEPT !.program = NoProgram]
      [] k.files[p].kind = "chunked" /\ k.files[p].layout \notin k.chunks ->
            [k EXCEPT !.program = NoProgram, !.wait = k.files[p].layout]
      [] BytesAt(k, p) \notin Images -> [Verified(k, p) EXCEPT !.program = NoProgram]
      [] OTHER -> Started(Verified(k, p), p)

\* Environment::load: nothing of the previous process stays.
LoadEnv(k, p) == StartImage([k EXCEPT !.wait = None, !.icount = 0, !.program = NoProgram], p)

MachineLoad(k, p) == IF VerifyImage(k, p) THEN LoadEnv(Verified(k, p), p) ELSE Verified(k, p)

\* Mutant: the arguments go with the first call.
UnstagedAlways(k) == [k EXCEPT !.argv = <<>>]

\* wtw_load keeps the staged arguments while a chunk is awaited.
Unstaged(k) == IF k.wait = None THEN [k EXCEPT !.argv = <<>>] ELSE k

Loaded(k, p) == VerifyImage(k, p) /\ LoadEnv(Verified(k, p), p).program # NoProgram

LoadCall(k, p) ==
    /\ m' = Unstaged(MachineLoad(k, p))
    /\ host' = [host EXCEPT
                  !.load = IF MachineLoad(k, p).wait # None
                           THEN [step |-> "asks", path |-> p, args |-> host.load.args] ELSE Idle,
                  !.givenUp = IF MachineLoad(k, p).wait # None THEN @ ELSE <<>>,
                  !.pumps = Loaded(k, p)]

\* The page loads no second program while one runs.
LoadBegins(p, args) ==
    /\ Ready /\ host.load = Idle /\ ~ host.pumps
    /\ Len(m.argv \o args) <= MaxArgs
    /\ host' = [host EXCEPT !.load = [step |-> "calls", path |-> p, args |-> args]]
    /\ m' = [m EXCEPT !.argv = @ \o args]
    /\ UNCHANGED <<sc, disk, log>>

LoadCalls ==
    /\ host.load.step = "calls"
    /\ LoadCall(m, host.load.path)
    /\ UNCHANGED <<sc, disk, log>>

\* wtw_page_deliver, for the file chunk that was asked for.
Delivered(k, bytes) ==
    IF Accepts(k, k.wait, bytes)
    THEN [PutChunk(k, k.wait, bytes) EXCEPT !.wait = None] ELSE k

\* The load ends with an error; the arguments it staged stay.
GivenUp == [host EXCEPT !.load = Idle, !.givenUp = @ \o host.load.args]

ChunkArrives ==
    /\ host.load.step = "asks"
    /\ m' = Delivered(m, BytesOf[m.wait])
    /\ host' = IF Delivered(m, BytesOf[m.wait]).wait = None
               THEN [host EXCEPT !.load.step = "calls"] ELSE GivenUp
    /\ UNCHANGED <<sc, disk, log>>

\* The chunk cannot be had, or is not what was asked for: the load is given up.
ChunkFails ==
    /\ host.load.step = "asks" /\ sc.faults
    /\ host' = GivenUp
    /\ UNCHANGED <<sc, m, disk, log>>

-----------------------------------------------------------------------------
(* Running it.                                                             *)

SetCpuBudget(n) ==
    /\ Ready /\ n > m.budget
    /\ m' = [m EXCEPT !.budget = n]
    /\ UNCHANGED <<sc, host, disk, log>>

\* Mutant: off by one, at the limit that a turn never passes.
OutOfCpuPast(k) == k.budget # None /\ k.icount > k.budget

OutOfCpu(k) == k.budget # None /\ k.icount >= k.budget

IcountLimit(k) == IF k.budget = None THEN k.icount + Fuel ELSE Min({k.icount + Fuel, k.budget})

\* A turn of a guest that only computes: wtw_run, and the pump's answer to it.
Turn ==
    /\ host.pumps
    /\ m.budget = None => m.icount < MaxIcount
    /\ m' = IF OutOfCpu(m) THEN m ELSE [m EXCEPT !.icount = IcountLimit(m)]
    /\ host' = [host EXCEPT !.pumps = ~ OutOfCpu(m)]
    /\ UNCHANGED <<sc, disk, log>>

\* The host runs a program on that had spent its allowance.
RunOn ==
    /\ Ready /\ ~ host.pumps /\ host.load = Idle
    /\ m.program # NoProgram /\ ~ OutOfCpu(m)
    /\ host' = [host EXCEPT !.pumps = TRUE]
    /\ UNCHANGED <<sc, m, disk, log>>

Guest == host.pumps /\ ~ OutOfCpu(m)

Exits ==
    /\ Guest
    /\ m' = [m EXCEPT !.program = NoProgram]
    /\ host' = [host EXCEPT !.pumps = FALSE]
    /\ UNCHANGED <<sc, disk, log>>

\* The guest writes a file, or copies one.
Writes(p, t) ==
    /\ Guest
    /\ LET f == Materialized(m.files[p], m.chunks)
           data == IF f.kind = "file" THEN f.data ELSE <<>>
       IN /\ f.kind # "chunked" /\ Len(data) < MaxLength
          /\ m' = [m EXCEPT !.files[p] = IF f.kind = "file" THEN Appended(f, <<t>>) ELSE Whole(<<t>>)]
    /\ UNCHANGED <<sc, host, disk, log>>

Copies(p, q) ==
    /\ Guest
    /\ Materialized(m.files[p], m.chunks).kind = "file"
    /\ m' = [m EXCEPT !.files[q] = Whole(BytesAt(m, p))]
    /\ UNCHANGED <<sc, host, disk, log>>

\* execve: what does not begin as an ELF image is turned down; a chunked image is
\* verified before the old one is given up, a resident one after.
HasMagic(data) == data # <<>> /\ Head(data) \in {Head(i) : i \in Images}

Executes(p) ==
    /\ Guest
    /\ m.files[p].kind # "absent"
    /\ m.files[p].kind = "chunked" => m.files[p].layout \in m.chunks
    /\ LET k == StartImage(m, p)
       IN IF ~ HasMagic(BytesAt(m, p)) \/ (m.files[p].kind = "chunked" /\ k.program = NoProgram)
          THEN UNCHANGED <<m, host>>
          ELSE /\ m' = k
               /\ host' = [host EXCEPT !.pumps = k.program # NoProgram]
    /\ UNCHANGED <<sc, disk, log>>

-----------------------------------------------------------------------------
(* Saving the session: the files are exported at once, storage is read and *)
(* written in steps.  Nothing keeps the page from asking again meanwhile.  *)

Exported == Export(m.files, m.root, m.secrets, host.images)

\* Nothing else works on the saved files.
StorageIdle == host.saves = {} /\ host.forget = {}

Persist ==
    /\ Ready /\ log.exports < sc.saves /\ (sc.hasty \/ StorageIdle)
    /\ m' = [m EXCEPT !.files = Exported.files]
    /\ host' = [host EXCEPT !.saves = @ \cup {[no |-> log.exports + 1, step |-> "reads",
                                               image |-> Exported.image]}]
    /\ log' = [log EXCEPT !.exports = @ + 1, !.alone = IF StorageIdle THEN {log.exports + 1} ELSE {}]
    /\ UNCHANGED <<sc, disk>>

Proceeds(s, t) == host' = [host EXCEPT !.saves = (@ \ {s}) \cup {t}]

\* writeSnapshot: the slot and the generation are chosen by what is there now.
SaveReads(s) ==
    /\ s.step = "reads"
    /\ Proceeds(s, [no |-> s.no, step |-> "opens", image |-> s.image,
                    slot |-> NextSnapshotSlot(disk), gen |-> NextGeneration(disk)])
    /\ UNCHANGED <<sc, m, disk, log>>

\* createWritable: storage may write in place, or beside until it is closed.
SaveOpens(s) ==
    /\ s.step = "opens"
    /\ Proceeds(s, [s EXCEPT !.step = "writes"])
    /\ disk' = IF sc.inPlace THEN [disk EXCEPT !.slot[s.slot] = Torn] ELSE disk
    /\ UNCHANGED <<sc, m, log>>

SaveCloses(s) ==
    /\ s.step = "writes"
    /\ Proceeds(s, [no |-> s.no, step |-> "closed"])
    /\ disk' = [disk EXCEPT !.slot[s.slot] = Stored(s.gen, s.image, s.no)]
    /\ UNCHANGED <<sc, m, log>>

\* The old single file goes, and the page is told.
SaveEnds(s) ==
    /\ s.step = "closed"
    /\ disk' = [disk EXCEPT !.legacy = Empty]
    /\ log' = [log EXCEPT !.promised = IF s.no \in log.alone THEN s.no ELSE @, !.alone = @ \ {s.no}]
    /\ host' = [host EXCEPT !.saves = @ \ {s}]
    /\ UNCHANGED <<sc, m>>

\* Storage fails, for want of room above all; the page is told of an error.
SaveFails(s) ==
    /\ s.step \in {"opens", "writes"} /\ sc.faults
    /\ log' = [log EXCEPT !.alone = @ \ {s.no}]
    /\ host' = [host EXCEPT !.saves = @ \ {s}]
    /\ UNCHANGED <<sc, m, disk>>

\* deleteSnapshots: three deletions in no order.
ForgetBegins ==
    /\ Ready /\ sc.forgets /\ (sc.hasty \/ StorageIdle)
    /\ host' = [host EXCEPT !.forget = Slots \cup {0}]
    /\ log' = [log EXCEPT !.promised = -1, !.alone = {}]
    /\ UNCHANGED <<sc, m, disk>>

Deletes(i) ==
    /\ i \in host.forget
    /\ disk' = IF i = 0 THEN [disk EXCEPT !.legacy = Empty] ELSE [disk EXCEPT !.slot[i] = Empty]
    /\ host' = [host EXCEPT !.forget = @ \ {i}]
    /\ UNCHANGED <<sc, m, log>>

-----------------------------------------------------------------------------
Starts ==
    \/ Boot
    \/ Restore
    \/ Die

Gives ==
    \/ \E n \in sc.memory : SetMemoryBudget(n)
    \/ \E i \in sc.manifests : SetManifest(i)
    \/ \E r \in sc.roots : InstallLazyImage(r)
    \/ \E l \in sc.preload, d \in DOMAIN BytesOf : Preload(l, BytesOf[d])
    \/ \E x \in sc.streams : StreamBegins(x)
    \/ StreamArrives
    \/ StreamBreaks
    \/ \E s \in sc.secrets : ApplySecrets(s)

Runs ==
    \/ \E x \in sc.loads : LoadBegins(x[1], x[2])
    \/ LoadCalls
    \/ ChunkArrives
    \/ ChunkFails
    \/ \E n \in sc.budgets : SetCpuBudget(n)
    \/ sc.budgets # {} /\ (Turn \/ RunOn)
    \/ Exits
    \/ \E x \in sc.writes : Writes(x[1], x[2])
    \/ \E x \in sc.copies : Copies(x[1], x[2])
    \/ \E p \in sc.execs : Executes(p)

Saves ==
    \/ Persist
    \/ \E s \in host.saves :
          SaveReads(s) \/ SaveOpens(s) \/ SaveCloses(s) \/ SaveEnds(s) \/ SaveFails(s)
    \/ ForgetBegins
    \/ \E i \in Slots \cup {0} : Deletes(i)

Next == Starts \/ Gives \/ Runs \/ Saves

Spec == Init /\ [][Next]_vars

(* The worker's loops go on: it calls load again when a chunk came, its    *)
(* fetches end, and the pump takes the next turn.                          *)
LoadStep == LoadCalls \/ ChunkArrives \/ ChunkFails

CanTurn ==
    /\ sc.budgets # {} /\ host.pumps /\ (m.budget = None => m.icount < MaxIcount)
    /\ OutOfCpu(m) \/ IcountLimit(m) # m.icount

FairSpec ==
    /\ Spec
    /\ []<>(host.load = Idle) \/ []<><<LoadStep>>_vars
    /\ []<>(~ CanTurn) \/ []<><<Turn>>_vars

-----------------------------------------------------------------------------
(* Properties.                                                             *)

\* What the next boot restores: the number of a save, 0 for the old single file.
Restores ==
    IF Candidates(disk) # {} THEN disk.slot[Newest(disk)].no
    ELSE IF Deserializes(disk.legacy) THEN 0 ELSE -1

Saved == INSTANCE SavedSession WITH
    exported <- log.exports, underway <- {s.no : s \in host.saves}, alone <- log.alone,
    forgetting <- host.forget # {}, restores <- Restores, promised <- log.promised

\* Saving keeps its promise (SavedSession): a save lands whole or not at all,
\* a worker that dies while it writes leaves the newest complete save alone,
\* and once "persisted" was posted for a save that no other save and no deletion
\* overlapped, every later boot restores that save or a newer one, until the user
\* deletes them.  Saves that overlap may share a slot and a generation, and the
\* older may close last (writeSnapshot reads before it writes, and persist is not
\* serialised): of those, "persisted" promises nothing but the earlier saves.
ImplementsSavedSession == Saved!Spec

HoldsValue(i) ==
    i.kind = "image" /\ \E p \in Paths : i.files[p].kind = "file"
        /\ \E j \in DOMAIN i.files[p].data : i.files[p].data[j][1] = "value"

\* No value of a registered secret is in storage or in an exported image,
\* whatever text file the guest copied it to, and also when expanding the
\* secrets failed half way.
NothingSecretIsSaved ==
    /\ \A i \in Candidates(disk) : ~ HoldsValue(disk.slot[i].image)
    /\ \A s \in host.saves : s.step # "closed" => ~ HoldsValue(s.image)

\* The manifest in force names these bytes for the path of program g.
Vouched(k, g) ==
    CASE k.authority # None -> g.path \in DOMAIN LayoutOf[k.authority]
                               /\ g.data = BytesOf[LayoutOf[k.authority][g.path]]
      [] k.manifest # None -> g.path \in DOMAIN NamedBytes[k.manifest]
                               /\ g.data = NamedBytes[k.manifest][g.path]
      [] OTHER -> TRUE

ProgramStarts == m'.program # m.program /\ m'.program # NoProgram

\* The file was changed after the manifest's bytes had arrived, and the digest taken
\* of them as they did was not used yet.
ChangedSinceDelivery(k, p) ==
    /\ k.authority = None /\ k.inFlight[p] # <<>>
    /\ CheckAgainstManifest(k, p, k.inFlight[p][1])
    /\ k.inFlight[p][1] # k.files[p].data

\* While a manifest is installed the program that starts has the bytes that it
\* names for the path, however the file came to be there.  One that the host
\* loads always has; one that the guest executes has them unless the guest
\* changed a streamed file before anything used the digest of the delivery
\* (verify_image takes it in place of the file's, once).
OnlyNamedImagesRun ==
    [][ProgramStarts =>
          \/ Vouched(m, m'.program)
          \/ host.load = Idle /\ ChangedSinceDelivery(m, m'.program.path)]_vars

\* A program starts with the arguments of its own load, also when the load had
\* to be called again for every chunk that was missing; before them come only
\* those of loads that were given up while they waited for a chunk, which
\* wtw_load leaves staged.
ArgumentsAreExact ==
    [][host.load # Idle /\ ProgramStarts
          => m'.program.argv = host.givenUp \o host.load.args]_vars

\* A guest that computes without end stops when its allowance is spent: the
\* pump is told so, and not that the turn is over.
AllowanceStopsTheGuest == (host.pumps /\ m.budget # None) ~> ~ host.pumps
=============================================================================
