---------------------------- MODULE EngineState ----------------------------
(***************************************************************************)
(* The state of the emulator's engine (crates/x64-engine/src/vm.rs), the   *)
(* part of icicle's MMU that tracks executed code, and the lifter.         *)
(*                                                                         *)
(* A guest address holds one cell: an instruction or a datum.  The         *)
(* instruction set has what the engine tells apart: a register operation   *)
(* ("set", "dec"), one the JIT does not translate ("x87"), a load, a       *)
(* store, a jump, a conditional jump and a system call.  One register      *)
(* stands for the register file.                                           *)
(*                                                                         *)
(* `vm' is the InterpVm: guest memory and MMU, CPU, block table, JIT       *)
(* caches, and the modules that the backend holds.                         *)
(***************************************************************************)
EXTENDS Integers, Sequences, FiniteSets, SequencesExt, FiniteSetsExt

CONSTANTS
    Programs,       \* the scenarios: images, residency, tiering, budget
    LastAddr,       \* guest addresses are 0 .. LastAddr
    PageSize,       \* cells to a page
    RegMax,         \* the register holds 0 .. RegMax and wraps
    MaxBlock,       \* settings.max_instructions_per_block
    MaxTrace,       \* MAX_BLOCKS of select_trace
    MaxCandidates   \* MAX_LIFTED_CANDIDATES

VARIABLES
    prog,           \* the scenario, fixed by Init
    vm,             \* the engine
    mode            \* where run() is: "turn", "go", "block", "trap", "stopped"

vars == <<prog, vm, mode>>

Addrs == 0 .. LastAddr
Pages == {a \div PageSize : a \in Addrs}
PageOf(a) == a \div PageSize
Spaces == DOMAIN prog.image

NoBlock == 0        \* u64::MAX, no block
Bail == 0           \* a cached None: known not to compile
Off == 0            \* a tiering threshold of None

DataFaults == {"ReadPerm", "WritePerm"}
AccessFaults == DataFaults \cup {"ExecViolation"}

(***************************************************************************)
(* The machine that Machine::new and the loader leave.                     *)
(***************************************************************************)
InitVm(p) ==
    [mem |-> p.image, ctx |-> [s \in DOMAIN p.image |-> [pc |-> 0, r |-> 0]],
     space |-> 1, cold |-> p.cold, marks |-> {}, tlb |-> {},
     pc |-> 0, r |-> 0, icount |-> 0, start |-> 0, fuel |-> 0,
     block |-> NoBlock, offset |-> 0, exc |-> "None", value |-> 0,
     pending |-> "None", retry |-> FALSE, resume |-> FALSE,
     limit |-> 0, timer |-> 0, exit |-> "none", again |-> 0,
     at |-> NoBlock, off |-> 0, cut |-> FALSE, astray |-> FALSE,
     carried |-> FALSE,
     blocks |-> <<>>, map |-> <<>>, lifted |-> [a \in Addrs |-> <<>>],
     entries |-> [a \in Addrs |-> 0], promoted |-> {},
     after |-> p.after, cache |-> <<>>, region |-> <<>>, trace |-> <<>>,
     jitEntries |-> <<>>, meta |-> <<>>, lru |-> <<>>, total |-> 0,
     live |-> <<>>, slots |-> 0]

ICount(v) == v.icount + v.start - v.fuel

UpdateFuel(v, new) == [v EXCEPT !.icount = ICount(v), !.start = new, !.fuel = new]

(***************************************************************************)
(* The permission bit IN_CODE_CACHE and the write half of the TLB.         *)
(***************************************************************************)
ClearCodeCache(v) ==
    [v EXCEPT !.marks = {m \in @ : m[1] # v.space}, !.tlb = {}]

EnsureExecutable(v, b) ==
    [v EXCEPT !.marks = @ \cup {<<v.space, b.start + k - 1>> : k \in 1 .. Len(b.code)},
              !.tlb = @ \ {PageOf(b.start + k - 1) : k \in 1 .. Len(b.code)}]

\* Mutant: the bytes are written, the permissions are not granted.
FillNotGranted(v, page) == [v EXCEPT !.tlb = @ \ {page}]

\* The environment fills a page: its bytes are written, its permissions replaced.
FillPage(v, page) ==
    [v EXCEPT !.cold[v.space][page] = "resident",
              !.marks = {m \in @ : ~(m[1] = v.space /\ PageOf(m[2]) = page)},
              !.tlb = @ \ {page}]

IsResident(v, a) == v.cold[v.space][PageOf(a)] = "resident"

(***************************************************************************)
(* The interpreter.  A run state is the engine's record: an operation      *)
(* changes the register, the memory or the TLB, or raises an exception.    *)
(* An offset is twice the index of an instruction marker, plus one for the *)
(* operation behind the marker.                                            *)
(***************************************************************************)
Raise(v, code, value) == [v EXCEPT !.exc = code, !.value = value]

(***************************************************************************)
(* History.  `astray' becomes TRUE in the step in which the engine runs, or *)
(* will go on to run, what is not the code at the program counter:         *)
(*   - a store changes code that this address space runs and that is not   *)
(*     marked as executed, because it was lifted in another one;           *)
(*   - a trace is called whose members are another space's code, or a      *)
(*     trace is called as if it were a region;                             *)
(*   - a block that ends at an unfetchable address used up the fuel, so    *)
(*     that the CPU still stands on the block that the slice began with    *)
(*     (`cut'), and is entered there again.                                *)
(* The model follows that step and ends with it: nothing is claimed of     *)
(* what the engine does then.                                              *)
(***************************************************************************)
Astray(v, wrong) == [v EXCEPT !.astray = @ \/ wrong]

Unwatched(v, a, cell) ==
    /\ <<v.space, a>> \notin v.marks /\ v.mem[v.space][a] # cell
    /\ \E k \in DOMAIN v.map :
        /\ k[1] = v.space
        /\ a - v.blocks[v.map[k]].start \in 0 .. Len(v.blocks[v.map[k]].code) - 1

\* A write through the write TLB, by compiled code or by the interpreter, asks
\* nothing about executed code; only the slow path does.
WriteThroughTlb(v, a, cell) ==
    [Astray(v, Unwatched(v, a, cell)) EXCEPT !.mem[v.space][a] = cell]

WritePhysical(v, a, cell) ==
    IF <<v.space, a>> \in v.marks /\ v.mem[v.space][a] # cell
    THEN Raise(v, "SelfModifyingCode", a)
    ELSE [WriteThroughTlb(v, a, cell) EXCEPT !.tlb = @ \cup {PageOf(a)}]

Store(v, a, cell) ==
    CASE ~IsResident(v, a) -> Raise(v, "WritePerm", a)
      [] IsResident(v, a) /\ PageOf(a) \in v.tlb -> WriteThroughTlb(v, a, cell)
      [] OTHER -> WritePhysical(v, a, cell)

Operation(v, i) ==
    CASE i.op \in {"set", "x87"} -> [v EXCEPT !.r = i.v]
      [] i.op = "dec"  -> [v EXCEPT !.r = IF @ = 0 THEN RegMax ELSE @ - 1]
      [] i.op = "load" -> IF IsResident(v, i.a)
                          THEN [v EXCEPT !.r = v.mem[v.space][i.a].v]
                          ELSE Raise(v, "ReadPerm", i.a)
      [] i.op = "store" -> Store(v, i.a, prog.patch[i.v])
      [] i.op = "sys"  -> Raise(v, "Syscall", 0)
      [] OTHER -> v

\* InstructionMarker: the program counter, then one unit of fuel.
Marker(v, addr) ==
    IF v.fuel = 0 THEN [Raise(v, "InstructionLimit", addr) EXCEPT !.pc = addr]
    ELSE [v EXCEPT !.pc = addr, !.fuel = @ - 1]

\* The p-code of block b from `offset'; v.off tells where it stopped.
RECURSIVE InterpretBlock(_, _, _)
InterpretBlock(v, b, offset) ==
    LET n == offset \div 2 + 1
        w == IF offset % 2 = 0 THEN Marker(v, b.start + n - 1) ELSE Operation(v, b.code[n])
    IN  IF n > Len(b.code) THEN v
        ELSE IF w.exc # "None" THEN [w EXCEPT !.off = offset]
        ELSE InterpretBlock(w, b, offset + 1)

NextPc(b, r) ==
    LET last == Last(b.code)
    IN  IF last.op = "jmp" \/ (last.op = "jnz" /\ r # 0)
        THEN last.a ELSE b.start + Len(b.code)

(***************************************************************************)
(* Lifting.  A group is one block: the cells from its start up to a branch *)
(* or a system call, to MaxBlock, or to a page that cannot be fetched, in  *)
(* which case its exit is a Target::Invalid.                               *)
(***************************************************************************)
Fetchable(v, a) == a \in Addrs /\ IsResident(v, a)

Ends(i) == i.op \in {"jmp", "jnz", "sys"}

LiftBlock(v, a) ==
    LET ended(k) == k = MaxBlock \/ Ends(v.mem[v.space][a + k - 1])
        len == Min({k \in 1 .. MaxBlock :
                        /\ Fetchable(v, a + k - 1)
                        /\ ended(k) \/ ~Fetchable(v, a + k)})
    IN  [start |-> a, code |-> [k \in 1 .. len |-> v.mem[v.space][a + k - 1]],
         invalid |-> ~ended(len)]

SourceMatches(v, b) ==
    \A k \in 1 .. Len(b.code) : v.mem[v.space][b.start + k - 1] = b.code[k]

\* Mutant: what was lifted at the address is reused unread.
ReuseUnread(v, a) == v.lifted[a]

\* The blocks at this address whose bytes are those in memory now.
ReuseLifted(v, a) ==
    SelectSeq(v.lifted[a], LAMBDA id: SourceMatches(v, v.blocks[id]))

RememberLifted(v, a, id) ==
    IF Len(v.lifted[a]) < MaxCandidates
    THEN [v EXCEPT !.lifted[a] = Append(@, id)] ELSE v

Mapped(v, a) == <<v.space, a>> \in DOMAIN v.map
BlockAt(v, a) == v.map[<<v.space, a>>]
MapTo(v, a, id) == [v EXCEPT !.map = (<<v.space, a>> :> id) @@ @]

AddBlock(v, b) ==
    RememberLifted(MapTo(EnsureExecutable([v EXCEPT !.blocks = Append(@, b)], b),
                         b.start, Len(v.blocks) + 1),
                   b.start, Len(v.blocks) + 1)

LiftOr(v, a, known) ==
    IF known # <<>> THEN MapTo(v, a, Head(known)) ELSE AddBlock(v, LiftBlock(v, a))

\* lift: the group at `a', reused or decoded, is entered in the block map.
Lift(v, a) == LiftOr(v, a, ReuseLifted(v, a))
=============================================================================
