----------------------------- MODULE Processor -----------------------------
(***************************************************************************)
(* The processor that the engine promises: it fetches each instruction     *)
(* from memory as memory is at that moment, executes it once and counts    *)
(* it.  It knows no blocks, tiers, caches, fuel or pages.  When it has gone *)
(* astray nothing is promised.                                             *)
(***************************************************************************)
EXTENDS Integers, Sequences

CONSTANTS RegMax, Burst     \* Burst: the most instructions in one observed step

VARIABLES patch, space, ctx, pc, r, mem, count, astray

state == <<patch, space, ctx, pc, r, mem, count, astray>>

Executed(x) ==
    LET i == x.mem[x.pc]
    IN  [left |-> 0,
         mem |-> IF i.op = "store" THEN [x.mem EXCEPT ![i.a] = patch[i.v]] ELSE x.mem,
         r |-> CASE i.op \in {"set", "x87"} -> i.v
                 [] i.op = "dec"  -> IF x.r = 0 THEN RegMax ELSE x.r - 1
                 [] i.op = "load" -> x.mem[i.a].v
                 [] OTHER -> x.r,
         pc |-> IF i.op = "jmp" \/ (i.op = "jnz" /\ x.r # 0) THEN i.a ELSE x.pc + 1]

\* The state after n instructions, none of which is a system call.
RECURSIVE After(_, _)
After(x, n) ==
    IF n = 0 \/ x.mem[x.pc].op = "sys" THEN [x EXCEPT !.left = n]
    ELSE After(Executed(x), n - 1)

Retire ==
    \E n \in 1 .. Burst :
        /\ count' = count + n
        /\ LET x == After([mem |-> mem[space], r |-> r, pc |-> pc, left |-> 0], n)
           IN  /\ x.left = 0
               /\ r' = x.r /\ pc' = x.pc
               /\ mem' = [mem EXCEPT ![space] = x.mem]
        /\ UNCHANGED <<patch, space, ctx>>

\* A system call returns to its caller or puts another task on the CPU.
SystemCall ==
    /\ mem[space][pc].op = "sys"
    /\ count' = count + 1
    /\ \E s \in DOMAIN ctx :
        LET saved == [ctx EXCEPT ![space] = [pc |-> pc + 1, r |-> r]]
        IN  /\ space' = s /\ pc' = saved[s].pc /\ r' = saved[s].r
            /\ ctx' = IF s = space THEN ctx ELSE saved
    /\ UNCHANGED <<patch, mem>>

Boot ==
    /\ space = 1 /\ pc = 0 /\ r = 0 /\ count = 0 /\ ~astray
    /\ ctx = [s \in DOMAIN mem |-> [pc |-> 0, r |-> 0]]

GoAstray == astray'

Step == (~astray' /\ (Retire \/ SystemCall)) \/ GoAstray

Spec == Boot /\ [][Step]_state
=============================================================================
