------------------------------- MODULE Engine -------------------------------
(***************************************************************************)
(* The engine's run loop (InterpVm::run), its exceptions, the environment  *)
(* that serves them (LinuxEnv::handle_exception, the pager's page-in, the  *)
(* switch of tasks) and the host that runs the machine slice by slice.     *)
(***************************************************************************)
EXTENDS EngineJit

CONSTANTS MaxICount,    \* the host starts no slice past this count
          Burst         \* instructions that one dispatch can retire

(***************************************************************************)
(* Where execution continues.                                              *)
(***************************************************************************)
\* Mutant: the timer ignores the limit of the slice.
UpdateTimerOnly(v) == [v EXCEPT !.timer = v.icount + prog.tick, !.carried = FALSE]

UpdateTimer(v) ==
    [v EXCEPT !.timer = Min({v.limit, v.icount + prog.tick}), !.carried = FALSE]

Stop(v, why) == [vm |-> [v EXCEPT !.exit = why], mode |-> "stopped"]
Turn(v) == [vm |-> [v EXCEPT !.exc = "None"], mode |-> "turn"]

EnterBlock(v, id) == Turn([v EXCEPT !.block = id, !.offset = 0])

EnterHere(v) == EnterBlock(v, BlockAt(v, v.pc))

CannotFetch(v) ==
    IF v.icount >= v.limit THEN Stop(v, "limit") ELSE [vm |-> v, mode |-> "trap"]

HandleCodeNotTranslated(v) ==
    CASE Mapped(v, v.pc) -> Stop(v, "internal")
      [] ~Mapped(v, v.pc) /\ Fetchable(v, v.pc) -> EnterHere(Lift(v, v.pc))
      [] OTHER -> CannotFetch([Raise(v, "ExecViolation", v.pc) EXCEPT !.block = NoBlock])

GoOn(v) == IF Mapped(v, v.pc) THEN EnterHere(v) ELSE HandleCodeNotTranslated(v)

HandleExternalAddress(v, a) == GoOn([v EXCEPT !.pc = a])

HandleSelfModifyingCode(v) ==
    HandleExternalAddress(FlushCode(ClearCodeCache([v EXCEPT !.block = NoBlock,
                                                             !.offset = 0, !.again = @ + 1])),
                          v.pc)

HandleLimit(v) ==
    IF v.icount >= v.limit THEN Stop(v, "limit") ELSE Turn(UpdateTimer(v))

(***************************************************************************)
(* The environment.  A page that the store can build is filled: a data     *)
(* access runs again where it faulted, a fetch drops all lifted code and   *)
(* re-enters run().  A page that is not there suspends the machine.        *)
(***************************************************************************)
FindBlock(v) ==
    IF v.block = NoBlock /\ Mapped(v, v.pc)
    THEN [v EXCEPT !.block = BlockAt(v, v.pc), !.offset = 0] ELSE v

\* run() as it is entered.  After a wait for a page it leaves the timer as it
\* was (`carried' is history), whatever the limit is now.
StartRun(v) ==
    IF v.resume THEN [v EXCEPT !.resume = FALSE, !.carried = TRUE]
    ELSE UpdateTimer(FindBlock(v))

ServeFetch(v) ==
    Turn(StartRun(FlushCode(ClearCodeCache(
        [FillPage(v, PageOf(v.value)) EXCEPT !.pc = v.value, !.block = NoBlock,
                                             !.offset = 0]))))

ServeData(v) == Turn([FillPage(v, PageOf(v.value)) EXCEPT !.retry = TRUE])

HandleAccessFault(v) ==
    CASE v.cold[v.space][PageOf(v.value)] = "absent" ->
            Stop([v EXCEPT !.resume = TRUE], "page")
      [] v.cold[v.space][PageOf(v.value)] # "absent" /\ v.exc = "ExecViolation" ->
            ServeFetch(v)
      [] OTHER -> ServeData(v)

\* A system call returns to its caller, or the scheduler restores task s: its
\* registers and its address map, whose installation empties the TLB.
Restored(v, s, ctx) ==
    [v EXCEPT !.ctx = ctx, !.space = s, !.tlb = {}, !.pc = ctx[s].pc, !.r = ctx[s].r,
              !.block = NoBlock, !.offset = 0]

Switched(v, s) ==
    IF s = v.space THEN [v EXCEPT !.pc = @ + 1]
    ELSE Restored(v, s, [v.ctx EXCEPT ![v.space] = [pc |-> v.pc + 1, r |-> v.r]])

HandleSyscall(v, s) == GoOn(Switched(v, s))

(***************************************************************************)
(* The steps of run().                                                     *)
(***************************************************************************)
Become(next) == vm' = next.vm /\ mode' = next.mode /\ UNCHANGED prog

HandleException(v, s) ==
    CASE v.exc = "InstructionLimit"  -> HandleLimit(v)
      [] v.exc = "CodeNotTranslated" -> HandleCodeNotTranslated(v)
      [] v.exc = "SelfModifyingCode" -> HandleSelfModifyingCode(v)
      [] v.exc = "Syscall"           -> HandleSyscall(v, s)
      [] v.exc \in AccessFaults      -> HandleAccessFault(v)
      [] OTHER                       -> Stop(v, "internal")

TakePending ==
    /\ mode = "turn" /\ vm.pending # "None"
    /\ Become(HandleException([vm EXCEPT !.exc = vm.pending, !.pending = "None"],
                              vm.space))

\* Fuel up to the timer; then into the block where the CPU stands.  A re-entry
\* behind a marker pays for the marker, unless a page-in brought it about.
ReenterBlock(v, id, off) ==
    IF id = NoBlock
    THEN [vm |-> Raise(v, "CodeNotTranslated", v.pc), mode |-> "trap"]
    ELSE [vm |-> [Astray(v, v.cut) EXCEPT !.at = id, !.off = off, !.offset = 0, !.retry = FALSE,
                           !.fuel = IF ~v.retry /\ off % 2 = 1 THEN @ - 1 ELSE @],
          mode |-> "block"]

Resumed(v) ==
    CASE v.timer <= v.icount ->
            [vm |-> Raise(v, "InstructionLimit", v.pc), mode |-> "trap"]
      [] v.timer > v.icount /\ v.block # NoBlock ->
            ReenterBlock(UpdateFuel(v, v.timer - v.icount), v.block, v.offset)
      [] OTHER ->
            ReenterBlock(UpdateFuel(v, v.timer - v.icount), ResolveTraceExternal(v, v.pc), 0)

RunBlockInterpreter == mode = "turn" /\ vm.pending = "None" /\ Become(Resumed(vm))

\* An address entered often enough is lifted again, with the optimizer.
Promote(v, a) ==
    [v EXCEPT !.promoted = @ \cup {a}, !.map = Without(@, <<v.space, a>>),
              !.lifted[a] = <<>>, !.block = v.at]

ToTrap(v, code) == [vm |-> Raise(v, code, v.pc), mode |-> "trap"]

ChainTo(v) ==
    IF Mapped(v, v.pc)
    THEN [vm |-> [v EXCEPT !.at = BlockAt(v, v.pc), !.off = 0], mode |-> "block"]
    ELSE ToTrap([v EXCEPT !.block = v.at], "CodeNotTranslated")

CountPromotion(v) ==
    IF v.entries[v.pc] >= prog.promote
    THEN ToTrap(Promote(v, v.pc), "CodeNotTranslated") ELSE ChainTo(v)

\* The block has run to its end; v.pc is where it exits to.  An exit to an
\* address that cannot be fetched leaves the block where the CPU stands as it
\* was, also when only the fuel is used up.
ExitTo(v) ==
    CASE v.blocks[v.at].invalid ->
            ToTrap([v EXCEPT !.cut = v.fuel = 0 /\ v.block # NoBlock],
                   IF v.fuel = 0 THEN "InstructionLimit" ELSE "ExecViolation")
      [] ~v.blocks[v.at].invalid /\ prog.promote # Off /\ v.pc \notin v.promoted ->
            CountPromotion([v EXCEPT !.entries[v.pc] = @ + 1])
      [] OTHER -> ChainTo(v)

BlockExit(v) == ExitTo([v EXCEPT !.pc = NextPc(v.blocks[v.at], v.r)])

Dispatched(d) ==
    IF d.did = "ran" THEN BlockExit(d.vm)
    ELSE [vm |-> d.vm, mode |-> IF d.did = "next" THEN "block" ELSE "trap"]

RunBlock ==
    /\ mode = "block"
    /\ \E how \in prog.compiles : Become(Dispatched(Dispatch(vm, how)))

\* `icount' is made exact, then the exception is handled.
Trap ==
    /\ mode = "trap"
    /\ \E s \in Spaces :
        /\ vm.exc # "Syscall" => s = vm.space
        /\ Become(HandleException(UpdateFuel(vm, 0), s))

(***************************************************************************)
(* The host.                                                               *)
(***************************************************************************)
NextSlice ==
    /\ mode = "stopped" /\ vm.exit = "limit" /\ vm.icount < MaxICount
    /\ \E slice \in prog.slices :
        Become([vm |-> StartRun([vm EXCEPT !.limit = vm.icount + slice,
                                           !.exc = "None", !.exit = "none"]),
                mode |-> "turn"])

DeliverPage ==
    /\ mode = "stopped" /\ vm.exit = "page"
    /\ \E slice \in prog.slices :
        Become([vm |-> StartRun([vm EXCEPT !.cold[vm.space][PageOf(vm.value)] = "present",
                                           !.pending = vm.exc, !.exc = "None",
                                           !.exit = "none",
                                           !.limit = vm.icount + slice]),
                mode |-> "turn"])

SetTiering ==
    /\ mode = "stopped" /\ vm.exit = "limit" /\ vm.icount < MaxICount
    /\ \E after \in prog.retier : Become([vm |-> SetJitTiering(vm, after), mode |-> mode])

\* The host is done, or the engine has gone astray.
Done ==
    /\ vm.astray \/ (mode = "stopped" /\ vm.exit = "limit" /\ vm.icount >= MaxICount)
    /\ UNCHANGED vars

EngineStep == ~vm.astray /\ (TakePending \/ RunBlockInterpreter \/ RunBlock \/ Trap)
HostStep == ~vm.astray /\ (NextSlice \/ DeliverPage \/ SetTiering)

Next == EngineStep \/ HostStep \/ Done

Init ==
    /\ prog \in Programs
    /\ \E slice \in prog.slices : vm = StartRun([InitVm(prog) EXCEPT !.limit = slice])
    /\ mode = "turn"

Spec == Init /\ [][Next]_vars

\* Weak fairness of the engine's steps, which are possible unless it is stopped,
\* and of the delivery of a page that is awaited.
FairSpec ==
    /\ Spec
    /\ []<>(mode = "stopped" \/ vm.astray) \/ []<><<EngineStep>>_vars
    /\ []<>~(mode = "stopped" /\ vm.exit = "page") \/ []<><<DeliverPage>>_vars

(***************************************************************************)
(* Properties.                                                             *)
(***************************************************************************)

\* An instruction whose marker has been charged and whose operation has not
\* been done: it faulted, or waits for its retry.
InFlight ==
    \/ mode = "block" /\ vm.off % 2 = 1
    \/ mode # "block" /\ vm.retry
    \/ {vm.exc, vm.pending} \cap (DataFaults \cup {"Syscall", "SelfModifyingCode"}) # {}

Architectural ==
    [pc |-> IF mode = "block" THEN vm.blocks[vm.at].start + vm.off \div 2 ELSE vm.pc,
     count |-> ICount(vm) - vm.again - (IF InFlight THEN 1 ELSE 0)]

Bare == INSTANCE Processor WITH
    patch <- prog.patch, space <- vm.space, ctx <- vm.ctx, r <- vm.r, mem <- vm.mem,
    pc <- Architectural.pc, count <- Architectural.count, astray <- vm.astray

\* Whatever tier runs the code, and wherever a slice, a fault, a missing page,
\* a flush, a promotion or a switch of tasks cuts it, the guest sees the bare
\* processor: each instruction once, in order, as memory is at that moment, and
\* counted once, up to a step in which the engine goes astray (`astray' lists
\* the cases).  (A store that is run again after self-modifying code was found
\* is charged again; `again' counts those.)
ImplementsProcessor == Bare!Spec

\* A handle that the engine would call is live in the backend, holds the code
\* of the block or of the trace that it is cached for, and the budget counts
\* it: eviction, flush and reuse of handles leave no dangling handle and no
\* uncounted module.
HandlesAreLive ==
    /\ \A id \in DOMAIN vm.cache : vm.cache[id] # Bail =>
        /\ vm.cache[id] \in DOMAIN vm.live
        /\ vm.live[vm.cache[id]].body = <<vm.blocks[id]>>
    /\ \A id \in DOMAIN vm.region : vm.region[id] # Bail =>
        /\ vm.region[id] \in DOMAIN vm.live
        /\ vm.live[vm.region[id]].body =
             IF id \in DOMAIN vm.trace
             THEN [k \in DOMAIN vm.trace[id] |-> vm.blocks[vm.trace[id][k]]]
             ELSE <<vm.blocks[id]>>
    /\ Range(vm.cache) \cap Range(vm.region) \subseteq {Bail}
    /\ Range(vm.lru) = DOMAIN vm.live /\ DOMAIN vm.meta = DOMAIN vm.live
    /\ vm.total = MapThenSumSet(LAMBDA h: vm.live[h].bytes, DOMAIN vm.live)

\* A slice never runs past the instructions that the host gave it ("Runs up to
\* `fuel` guest instructions", wtw_run).  There are two exceptions.  A slice that
\* begins where the last one waited for a page runs to the timer of that one, if
\* it lies further ahead.  And when the engine has gone astray, a trace that is
\* charged as a region is charged for far more than it ran.
SliceIsExact ==
    \/ vm.astray
    \/ ICount(vm) <= vm.limit
    \/ vm.carried /\ ICount(vm) <= vm.timer

\* Every slice ends: the engine never spins between two tiers, a retry and a
\* fault, or a lift and a flush without retiring an instruction.
SliceEnds == mode # "stopped" ~> mode = "stopped" \/ vm.astray

\* "an id never serves one block's compiled code to another" (vm.rs:1224): the
\* trace cached for the block about to run holds the code of this address space.
RunsItsOwnCode ==
    mode = "block" /\ vm.at \in DOMAIN vm.trace /\ SelectTrace(vm, vm.at) # <<>> =>
        \A id \in Range(vm.trace[vm.at]) : SourceMatches(vm, vm.blocks[id])
=============================================================================
