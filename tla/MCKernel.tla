------------------------------ MODULE MCKernel ------------------------------
(***************************************************************************)
(* Instances of the kernel for TLC. A run chooses one of several sets of   *)
(* guest programs: the system calls they issue, the values they store, how *)
(* many tasks there may be, and what the host does meanwhile. The root     *)
(* process is pid 10, its children and threads are 11 and 12.              *)
(***************************************************************************)
EXTENDS Kernel

CONSTANT Programs

VARIABLE chosen   \* the programs of this run

MCSignals == KernelSignals

Clone(kind, a, w) == [op |-> "clone", kind |-> kind, ctid |-> a, ptid |-> w]
Fork == Clone("fork", NoAddr, "writable")
Vfork == Clone("vfork", NoAddr, "writable")
Thread(a) == Clone("thread", a, "writable")
Exec(b) == [op |-> "execve", ok |-> b]
Exit == [op |-> "exit", group |-> FALSE]
ExitGroup == [op |-> "exit", group |-> TRUE]
Wait(p) == [op |-> "wait4", pid |-> p, untraced |-> FALSE, nohang |-> FALSE]
WaitUntraced == [op |-> "wait4", pid |-> NoPid, untraced |-> TRUE, nohang |-> FALSE]
WaitNohang == [op |-> "wait4", pid |-> NoPid, untraced |-> TRUE, nohang |-> TRUE]
Kill(t, s) == [op |-> "kill", target |-> t, sig |-> s]
Sigaction(s, a) == [op |-> "sigaction", sig |-> s, act |-> a]
Sigprocmask(h, S) == [op |-> "sigprocmask", how |-> h, set |-> S]
Sigreturn == [op |-> "sigreturn"]
Yield == [op |-> "yield"]
FutexWait(a, v, d) == [op |-> "futex_wait", addr |-> a, val |-> v, timeout |-> d]
FutexWakeOf(a, m) == [op |-> "futex_wake", addr |-> a, n |-> m]
Sleep(d) == [op |-> "sleep", on |-> {}, timeout |-> d]
PollNet(d) == [op |-> "sleep", on |-> {"net"}, timeout |-> d]
Recv == [op |-> "recv"]
ReadTty == [op |-> "read_tty"]
Tcsetpgrp(g) == [op |-> "tcsetpgrp", pgid |-> g]
Setpgid(p, g) == [op |-> "setpgid", pid |-> p, pgid |-> g]

-----------------------------------------------------------------------------
Guests(calls, pids) ==
    [calls |-> calls, pids |-> pids, stores |-> {}, clock |-> 0, keys |-> 0, host |-> {}]

\* Processes: fork, vfork, execve, exit, wait, SIGKILL, and a signal for a
\* parent that may be suspended.
Life ==
    [Guests({Fork, Vfork, Exec(TRUE), Exec(FALSE), ExitGroup, Wait(NoPid), WaitNohang,
             Wait(11), Yield, Kill(12, NoSig), Kill(11, SIGKILL), Kill(12, SIGKILL)}, 12)
        EXCEPT !.stores = {1}]

SignalledVfork ==
    Guests({Vfork, Exec(TRUE), ExitGroup, Yield, Sigaction(SIGINT, "handler"), Sigreturn,
            Kill(10, SIGINT), Kill(10, SIGTSTP), Kill(10, SIGCONT)}, 11)

\* Threads: clone, join through the cleared tid word, futexes, and stopping
\* and continuing processes that have several.
Threads ==
    [Guests({Thread(4), Fork, Exit, ExitGroup, FutexWait(4, 1, Never),
             FutexWakeOf(4, 1), Yield, Kill(11, SIGTSTP), Kill(11, SIGCONT),
             WaitUntraced}, 12)
        EXCEPT !.stores = {1}]

\* Clones whose parent_tid word is not there.
WastedPids ==
    Guests({Clone("thread", NoAddr, "cold"), Clone("fork", NoAddr, "bad"),
            Clone("vfork", NoAddr, "cold"), Exit, Exec(TRUE), Wait(NoPid)}, 12)

\* Handlers, masks and interrupted waits.
Handlers ==
    [Guests({Fork, Wait(NoPid), ExitGroup, Sigaction(SIGINT, "handler"),
             Sigaction(SIGWINCH, "restart"), Sigaction(SIGCHLD, "handler"),
             Sigprocmask("block", {SIGINT, SIGCHLD}),
             Sigprocmask("unblock", {SIGINT, SIGCHLD}),
             Kill(10, SIGINT), Sigreturn, Yield}, 11)
        EXCEPT !.host = {"resize"}]

\* A parent with a SIGCHLD handler, and children that exit or are killed, by it
\* or by one another.
Reapers ==
    Guests({Fork, Wait(NoPid), ExitGroup, Sigaction(SIGCHLD, "handler"), Kill(11, SIGKILL),
            Sigreturn, Yield}, 12)

\* A job-control shell and its children on one terminal.
Jobs ==
    [Guests({Fork, Setpgid(0, 0), Tcsetpgrp(10), Tcsetpgrp(11), ReadTty,
             Kill(11, SIGCONT), Kill(-11, SIGTSTP), ExitGroup,
             Sigprocmask("set", {SIGTTIN, SIGTTOU})}, 11)
        EXCEPT !.keys = 2, !.host = {"type"}]

\* Every reason to wait at once: time, the terminal, the network, a word.
Stalls ==
    [Guests({Fork, Recv, PollNet(1), Sleep(1), ReadTty, FutexWait(4, 1, Never),
             FutexWait(4, 1, 1), ExitGroup}, 11)
        EXCEPT !.stores = {1}, !.clock = 2, !.keys = 1, !.host = {"type", "net"}]

SafetyPrograms == <<Life, SignalledVfork, Threads, WastedPids, Handlers, Reapers, Jobs, Stalls>>
SafetyCalls == UNION {g.calls : g \in Range(SafetyPrograms)}

\* A sleep that a handler interrupts.
SleepPrograms ==
    <<[Guests({Fork, Sleep(1), Sigaction(SIGINT, "handler"), Kill(10, SIGINT)}, 11)
        EXCEPT !.clock = 1]>>
SleepCalls == SleepPrograms[1].calls

\* Who gets the CPU, and when: busy tasks, sleepers, network and child waits.
ProgressPrograms ==
    <<[Guests({Fork, Yield, Wait(NoPid), Recv, PollNet(1), FutexWait(4, 0, 1), ExitGroup}, 12)
        EXCEPT !.clock = 1, !.host = {"net"}]>>
ProgressCalls == ProgressPrograms[1].calls

-----------------------------------------------------------------------------
program == Programs[chosen]

MCInit == KernelInit /\ chosen \in DOMAIN Programs

WithinBounds(c) ==
    /\ c.op = "clone" => nextPid + Cardinality(ClonesAhead) <= program.pids
    /\ c.op \in {"sleep", "futex_wait"} => clock + c.timeout <= program.clock

MCNext ==
    /\ \/ \E c \in program.calls : WithinBounds(c) /\ SysCall(c)
       \/ \E a \in Addrs, v \in program.stores : UserStore(a, v)
       \/ clock < program.clock /\ Tick
       \/ Resume
       \/ /\ "type" \in program.host /\ Len(tty.input) + tty.m2s < program.keys
          /\ \E key \in Keys : HostType(key)
       \/ "net" \in program.host /\ HostNetArrives
       \/ HostExpiresNetworkWait
       \/ "resize" \in program.host /\ HostResizes
       \/ Ended
    /\ UNCHANGED chosen

MCSpec == MCInit /\ [][MCNext]_<<kernelVars, chosen>>

MCFairSpec == MCSpec /\ Fairness
=============================================================================
