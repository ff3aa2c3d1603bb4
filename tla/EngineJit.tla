----------------------------- MODULE EngineJit -----------------------------
(***************************************************************************)
(* The JIT: which code is compiled (vm.rs), what compiled code does        *)
(* (jit.rs), and the cache of compiled modules with its byte budget.       *)
(*                                                                         *)
(* A module holds the blocks that it was compiled from, by value.  The     *)
(* backend maps handles to modules (`live'), never reuses the slot of an   *)
(* evicted one, and may decline a compilation.  How a compilation goes is  *)
(* one of "yes", "declined" and, of a trace or a region, "untranslated".   *)
(***************************************************************************)
EXTENDS EngineState

TraceResumeBits == 8

(***************************************************************************)
(* JitBudget.  `lru' lists the handles of `meta', least recent first: the  *)
(* order of their last_epoch.                                              *)
(***************************************************************************)
Without(f, k) == [x \in DOMAIN f \ {k} |-> f[x]]

\* Mutant: the caches keep naming the evicted handle.
EvictKeepingName(v) ==
    LET h == Head(v.lru)
    IN  [v EXCEPT !.lru = Tail(@), !.meta = Without(@, h), !.live = Without(@, h),
                  !.total = @ - v.meta[h].bytes]

EvictLeastRecent(v) ==
    LET h == Head(v.lru)
        e == v.meta[h]
        drop(cache) == IF e.key \in DOMAIN cache /\ cache[e.key] = h
                       THEN Without(cache, e.key) ELSE cache
    IN  [v EXCEPT !.lru = Tail(@), !.meta = Without(@, h), !.live = Without(@, h),
                  !.region = IF e.isRegion THEN drop(@) ELSE @,
                  !.cache = IF e.isRegion THEN @ ELSE drop(@),
                  !.trace = IF e.isRegion THEN Without(@, e.key) ELSE @,
                  !.total = @ - e.bytes]

RECURSIVE MakeRoom(_, _)
MakeRoom(v, incoming) ==
    IF prog.budget = 0 \/ v.total + incoming <= prog.budget \/ v.lru = <<>> THEN v
    ELSE MakeRoom(EvictLeastRecent(v), incoming)

Record(v, h, key, isRegion, bytes) ==
    [v EXCEPT !.meta = (h :> [key |-> key, isRegion |-> isRegion, bytes |-> bytes]) @@ @,
              !.lru = Append(@, h), !.total = @ + bytes]

Touch(v, h) == [v EXCEPT !.lru = Append(SelectSeq(@, LAMBDA g: g # h), h)]

ClearBudget(v) == [v EXCEPT !.live = <<>>, !.meta = <<>>, !.lru = <<>>, !.total = 0]

\* Everything built from lifted code is forgotten with it; hotness too.
ForgetCompiled(v) ==
    ClearBudget([v EXCEPT !.cache = <<>>, !.region = <<>>, !.trace = <<>>,
                          !.jitEntries = <<>>])

FlushCode(v) ==
    ForgetCompiled([v EXCEPT !.blocks = <<>>, !.map = <<>>,
                             !.lifted = [a \in Addrs |-> <<>>]])

SetJitTiering(v, after) == ForgetCompiled([v EXCEPT !.after = after])

(***************************************************************************)
(* What is compiled.                                                       *)
(***************************************************************************)
Translates(b) == \A k \in 1 .. Len(b.code) : b.code[k].op # "x87"

SelfLoop(b) == Last(b.code).op \in {"jmp", "jnz"} /\ Last(b.code).a = b.start

\* The block mapped at a static target in the current address space.
ResolveTraceExternal(v, a) == IF Mapped(v, a) THEN BlockAt(v, a) ELSE NoBlock

\* Where a block may go inside a trace, the preferred direction first.
TraceExits(v, b) ==
    LET taken == <<ResolveTraceExternal(v, Last(b.code).a)>>
        past == <<ResolveTraceExternal(v, b.start + Len(b.code))>>
    IN  CASE Last(b.code).op = "jnz" -> past \o taken
          [] Last(b.code).op = "jmp" -> taken
          [] b.invalid -> <<>>
          [] OTHER -> past

\* The chain of blocks that follows `order' and closes at its first block.
RECURSIVE FollowTrace(_, _, _)
FollowTrace(v, order, exits) ==
    LET fresh == SelectSeq(exits, LAMBDA id: id \notin Range(order) \cup {NoBlock})
    IN  CASE ~Translates(v.blocks[Last(order)]) -> <<>>
          [] Head(order) \in Range(exits) /\ Len(order) >= 2 -> order
          [] OTHER -> IF fresh = <<>> \/ Len(order) = MaxTrace THEN <<>>
                      ELSE FollowTrace(v, Append(order, Head(fresh)),
                                       TraceExits(v, v.blocks[Head(fresh)]))

SelectTrace(v, header) == FollowTrace(v, <<header>>, TraceExits(v, v.blocks[header]))

Module(kind, body) ==
    [kind |-> kind, body |-> body,
     bytes |-> MapThenSumSet(LAMBDA k: Len(body[k].code), DOMAIN body)]

\* JitBackend::compile, after make_room; a decline leaves the cache absent.
Install(v, h, isRegion, module) ==
    Record([v EXCEPT !.live = (h :> module) @@ @, !.slots = h,
                     !.cache = IF isRegion THEN @ ELSE (v.at :> h) @@ @,
                     !.region = IF isRegion THEN (v.at :> h) @@ @ ELSE @],
           h, v.at, isRegion, module.bytes)

Compiled(v, isRegion, module, how) ==
    IF how = "yes" THEN Install(v, v.slots + 1, isRegion, module) ELSE v

Compile(v, isRegion, module, how) ==
    Compiled(MakeRoom(v, module.bytes), isRegion, module, how)

Hot(v) == v.jitEntries[v.at] >= v.after

CountEntry(v) ==
    LET n == IF v.at \in DOMAIN v.jitEntries THEN v.jitEntries[v.at] ELSE 0
    IN  [v EXCEPT !.jitEntries = (v.at :> Min({n + 1, v.after})) @@ @]

\* The region or block decision for v.at: known, a bail, or a compilation.
Decide(v, isRegion, module, how) ==
    IF v.at \in DOMAIN (IF isRegion THEN v.region ELSE v.cache) \/ ~Hot(v) THEN v
    ELSE IF ~Translates(Head(module.body)) \/ (isRegion /\ how = "untranslated")
    THEN IF isRegion THEN [v EXCEPT !.region = (v.at :> Bail) @@ @]
         ELSE [v EXCEPT !.cache = (v.at :> Bail) @@ @]
    ELSE Compile(v, isRegion, module, how)

HandleOf(v, isRegion) ==
    LET cache == IF isRegion THEN v.region ELSE v.cache
    IN  IF v.at \in DOMAIN cache THEN cache[v.at] ELSE Bail

(***************************************************************************)
(* What compiled code does.  It counts no instructions: the engine charges *)
(* them from the result.                                                   *)
(***************************************************************************)
RECURSIVE TranslatedFrom(_, _, _)
TranslatedFrom(v, b, n) ==
    LET w == Operation(v, b.code[n])
    IN  IF n > Len(b.code) THEN v
        ELSE IF w.exc # "None" THEN [w EXCEPT !.off = 2 * n - 1]
        ELSE TranslatedFrom(w, b, n + 1)

TranslatedBlock(v, b) == TranslatedFrom(v, b, 1)

\* A self-loop runs until its condition fails or `max' iterations are done.
RECURSIVE TranslatedRegion(_, _, _, _)
TranslatedRegion(v, b, done, max) ==
    LET w == TranslatedBlock(v, b)
    IN  IF w.exc # "None" THEN [vm |-> w, ran |-> done]
        ELSE IF done + 1 = max \/ NextPc(b, w.r) # b.start
        THEN [vm |-> w, ran |-> done + 1]
        ELSE TranslatedRegion(w, b, done + 1, max)

\* A trace runs whole blocks while the budget allows, and says which member
\* or, with resume 0, which address comes next.
RECURSIVE TranslatedTrace(_, _, _, _, _)
TranslatedTrace(v, body, k, retired, max) ==
    LET b == body[k]
        w == TranslatedBlock(v, b)
        a == NextPc(b, w.r)
        n == retired + Len(b.code)
        member == {j \in DOMAIN body : body[j].start = a}
    IN  IF n > max
        THEN [vm |-> v, retired |-> retired, resume |-> k, addr |-> b.start]
        ELSE IF w.exc # "None"
        THEN [vm |-> w, retired |-> retired, resume |-> k, addr |-> b.start]
        ELSE IF member = {}
        THEN [vm |-> w, retired |-> n, resume |-> 0, addr |-> a]
        ELSE TranslatedTrace(w, body, Min(member), n, max)

\* call_region on either kind of module; a trace packs its resume into the
\* low TRACE_RESUME_BITS of what a region returns as iterations.
\* A fault in a trace is placed by its index in all the members' p-code.
CallRegion(v, h, max) ==
    LET m == v.live[h]
        t == TranslatedTrace(v, m.body, 1, 0, max)
        ahead == MapThenSumSet(LAMBDA k: 2 * Len(m.body[k].code), 1 .. t.resume - 1)
    IN  CASE m.kind = "region" -> TranslatedRegion(v, Head(m.body), 0, max)
          [] m.kind = "trace" /\ t.vm.exc = "None" ->
                [vm |-> Astray(t.vm, TRUE), ran |-> t.retired * 2 ^ TraceResumeBits + t.resume]
          [] OTHER -> [vm |-> Astray([t.vm EXCEPT !.off = @ + ahead], TRUE), ran |-> t.retired]

(***************************************************************************)
(* Dispatch of the block v.at, entered at its start.  The answer says      *)
(* whether the tier did not run ("no"), ran the block ("ran"), went on to  *)
(* another block ("next") or raised an exception ("trap").                 *)
(***************************************************************************)
Answer(v, did) == [vm |-> v, did |-> did]

\* A compiled block stopped at v.off: the markers that it skipped are charged.
Faulted(v, id) ==
    LET n == Min({v.off \div 2 + 1, Len(v.blocks[id].code)})
    IN  Answer([v EXCEPT !.pc = v.blocks[id].start + n - 1, !.fuel = @ - n,
                         !.block = id, !.offset = v.off], "trap")

GoTo(v, id) == Answer([v EXCEPT !.at = id, !.off = 0], "next")

LeaveTrace(v) ==
    IF Mapped(v, v.pc)
    THEN GoTo([v EXCEPT !.block = BlockAt(v, v.pc), !.offset = 0], BlockAt(v, v.pc))
    ELSE Answer([Raise(v, "CodeNotTranslated", v.pc) EXCEPT !.block = v.at], "trap")

\* What a trace returned: a fault in a member, the member that comes next or
\* the address that does.
TraceReturned(v, ids, run) ==
    CASE v.exc # "None" -> Faulted(v, ids[run.resume])
      [] v.exc = "None" /\ run.retired = 0 ->
            Answer(Raise(v, "InternalError", 0), "trap")
      [] v.exc = "None" /\ run.retired # 0 /\ run.resume # 0 ->
            GoTo([v EXCEPT !.block = ids[run.resume], !.offset = 0], ids[run.resume])
      [] OTHER -> LeaveTrace([v EXCEPT !.pc = run.addr])

ChargeTrace(ids, h, run) ==
    TraceReturned(Touch([run.vm EXCEPT !.fuel = @ - run.retired], h), ids, run)

TraceIsHere(v, ids) == \A id \in Range(ids) : SourceMatches(v, v.blocks[id])

CallTrace(v, h) ==
    ChargeTrace(v.trace[v.at], h,
                TranslatedTrace(Astray(v, ~TraceIsHere(v, v.trace[v.at])),
                                v.live[h].body, 1, 0, v.fuel))

RunTrace(v) ==
    IF \/ HandleOf(v, TRUE) \notin DOMAIN v.live
       \/ v.at \notin DOMAIN v.trace
       \/ v.fuel < Len(v.blocks[v.at].code)
    THEN Answer(v, "no") ELSE CallTrace(v, HandleOf(v, TRUE))

\* A trace that cannot be translated (a member without an instruction, too
\* many exits) is a bail for good.
CompileTrace(v, order, how) ==
    CASE v.at \in DOMAIN v.region -> v
      [] v.at \notin DOMAIN v.region /\ how = "untranslated" ->
            [v EXCEPT !.region = (v.at :> Bail) @@ @]
      [] OTHER ->
            Compile([v EXCEPT !.trace = IF how = "yes" THEN (v.at :> order) @@ @ ELSE @], TRUE,
                    Module("trace", [k \in DOMAIN order |-> v.blocks[order[k]]]), how)

TryTrace(v, order, how) ==
    IF order = <<>> THEN Answer(v, "no") ELSE RunTrace(CompileTrace(v, order, how))

TraceTier(v, how) == TryTrace(v, IF Hot(v) THEN SelectTrace(v, v.at) ELSE <<>>, how)

RegionOutcome(v) ==
    IF v.exc # "None" THEN Faulted(v, v.at) ELSE Answer(v, "ran")

\* A region charges every iteration that it completed; after a fault the charge
\* stops at zero.  (Below zero the u64 wraps: the count is past the limit.)
RegionReturned(h, num, run) ==
    LET left == run.vm.fuel - run.ran * num
    IN  RegionOutcome(Touch([run.vm EXCEPT !.fuel = IF run.vm.exc = "None" THEN left
                                                    ELSE Max({0, left})], h))

RunRegion(v, h, num) ==
    IF h \notin DOMAIN v.live \/ v.fuel < num THEN Answer(v, "no")
    ELSE RegionReturned(h, num, CallRegion(v, h, v.fuel \div num))

DecidedRegion(v, b) == RunRegion(v, HandleOf(v, TRUE), Len(b.code))

TryRegion(v, b, how) ==
    IF ~SelfLoop(b) THEN Answer(v, "no")
    ELSE DecidedRegion(Decide(v, TRUE, Module("region", <<b>>), how), b)

RegionTier(v, how) == TryRegion(v, v.blocks[v.at], how)

BlockReturned(v, num) ==
    IF v.exc # "None" THEN Faulted(v, v.at)
    ELSE Answer([v EXCEPT !.fuel = @ - num], "ran")

RunCompiled(v, h, num) ==
    IF h \notin DOMAIN v.live \/ v.fuel < num THEN Answer(v, "no")
    ELSE BlockReturned(Touch(TranslatedBlock(v, Head(v.live[h].body)), h), num)

DecidedBlock(v, b) == RunCompiled(v, HandleOf(v, FALSE), Len(b.code))

TryBlock(v, b, how) ==
    DecidedBlock(Decide(v, FALSE, Module("block", <<b>>),
                        IF how = "untranslated" THEN "yes" ELSE how), b)

BlockTier(v, how) == TryBlock(v, v.blocks[v.at], how)

Interpreted(v) ==
    IF v.exc = "None" THEN Answer(v, "ran")
    ELSE Answer([v EXCEPT !.block = v.at, !.offset = v.off], "trap")

InterpreterTier(v) == Interpreted(InterpretBlock(v, v.blocks[v.at], v.off))

ElseRegion(t, how) == IF t.did = "no" THEN RegionTier(t.vm, how) ELSE t
ElseBlock(t, how) == IF t.did = "no" THEN BlockTier(t.vm, how) ELSE t
ElseInterpret(t) == IF t.did = "no" THEN InterpreterTier(t.vm) ELSE t

Dispatch(v, how) ==
    ElseInterpret(IF v.off # 0 \/ v.after = Off THEN Answer(v, "no")
                  ELSE ElseBlock(ElseRegion(TraceTier(CountEntry(v), how), how), how))
=============================================================================
