----------------------------- MODULE AddrSpace -----------------------------
(***************************************************************************)
(* What the kernel promises its processes about memory: each has its own.  *)
(* A process changes only the memory it runs on; a new process starts with *)
(* a copy of its creator's; giving the CPU away changes nobody's memory.   *)
(***************************************************************************)
EXTENDS Integers

CONSTANTS Processes, Root, None, Addrs, Vals

VARIABLES
    mem,   \* process -> the words of its memory
    on     \* the process on the CPU, None while the machine is idle

spaceVars == <<mem, on>>

Zeroed == [a \in Addrs |-> 0]

Init == mem = [g \in {Root} |-> Zeroed] /\ on = Root

\* Whoever runs next is a process that exists.
Switch == on' \in DOMAIN mem' \cup {None}

\* The running process stores a word, or replaces its image.
Store(a, v) == mem' = [mem EXCEPT ![on] = [@ EXCEPT ![a] = v]] /\ Switch
Replace == mem' = [mem EXCEPT ![on] = Zeroed] /\ Switch

Spawn(g) == mem' = [h \in DOMAIN mem \cup {g} |-> IF h = g THEN mem[on] ELSE mem[h]] /\ Switch

\* Processes end; with none of them it is a mere switch.
End(S) == mem' = [g \in DOMAIN mem \ S |-> mem[g]] /\ Switch

Next ==
    \/ /\ on \in DOMAIN mem
       /\ \/ \E a \in Addrs, v \in Vals : Store(a, v)
          \/ Replace
          \/ \E g \in Processes \ DOMAIN mem : Spawn(g)
    \/ \E S \in SUBSET DOMAIN mem : End(S)

Spec == Init /\ [][Next]_spaceVars
=============================================================================
