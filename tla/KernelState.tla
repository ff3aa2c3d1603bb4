---------------------------- MODULE KernelState ----------------------------
(***************************************************************************)
(* The tables of the cooperative kernel in crates/linux-compat: the tasks  *)
(* (`Process` plus saved CPU), the queue of parked tasks, the zombies, the *)
(* address spaces of the thread groups that are off the CPU, the signal    *)
(* dispositions, and the host-driven terminal.                             *)
(*                                                                         *)
(* A task owns its record wherever it is: `env.proc` for the task on the   *)
(* CPU and `sched.parked[i].proc` for the others are the same Rust object  *)
(* moving between two places, so the model keeps one function `task` and   *)
(* says with `cur` and `queue` where each record is.                       *)
(***************************************************************************)
EXTENDS Integers, Sequences, FiniteSets, Functions

CONSTANTS
    MaxPid,      \* bound on the task ids Scheduler::next_pid hands out
    Signals,     \* the signal numbers in play
    Addrs,       \* addresses of 32-bit words in a guest address space
    Vals,        \* the values such a word takes
    Stores,      \* the values the guest programs store
    Calls,       \* the system calls the guest programs issue
    MaxClock,    \* bound on the deterministic clock
    MaxFrames,   \* bound on handler frames beyond which no mask is lowered
    HostEvents,  \* what the host does between runs
    ColdPages,   \* result words may lie on pages not paged in or no longer writable
    MaxKeys      \* bound on host keystrokes not yet read by the guest

RootPid == 10
InitPid == 1     \* the parent the root process reports; no such task exists
NoPid == 0
NoSig == 0
NoAddr == 0
Never == -1

\* The signals the kernel raises or treats specially: SIGINT, SIGKILL,
\* SIGCHLD, SIGCONT, SIGSTOP, SIGTSTP, SIGTTIN, SIGTTOU, SIGWINCH.
SIGINT == 2
SIGKILL == 9
SIGCHLD == 17
SIGCONT == 18
SIGSTOP == 19
SIGTSTP == 20
SIGTTIN == 21
SIGTTOU == 22
SIGWINCH == 28
KernelSignals == {SIGINT, SIGKILL, SIGWINCH} \cup (SIGCHLD..SIGTTOU)

Pids == RootPid..MaxPid

\* Dispositions. "restart" is a handler installed with SA_RESTART; "handler"
\* one without. sa_mask is empty and SA_NODEFER clear.
Dispositions == {"dfl", "ign", "handler", "restart"}
Handled == {"handler", "restart"}

\* The system calls, with the arguments the kernel's control depends on. A
\* timeout is Never where the program passed none.
CallSet ==
    [op: {"clone"}, kind: {"fork", "vfork", "thread"}, ctid: Addrs \cup {NoAddr},
     ptid: {"writable", "cold", "bad"}]
    \cup [op: {"execve"}, ok: BOOLEAN]
    \cup [op: {"exit"}, group: BOOLEAN]
    \cup [op: {"wait4"}, pid: Pids \cup {NoPid}, untraced: BOOLEAN, nohang: BOOLEAN]
    \cup [op: {"kill"}, target: Int, sig: Signals \cup {NoSig}]
    \cup [op: {"sigaction"}, sig: Signals, act: Dispositions]
    \cup [op: {"sigprocmask"}, how: {"block", "unblock", "set"}, set: SUBSET Signals]
    \cup [op: {"futex_wait"}, addr: Addrs, val: Vals, timeout: Nat \cup {Never}]
    \cup [op: {"futex_wake"}, addr: Addrs, n: Nat]
    \cup [op: {"sleep"}, on: SUBSET {"net"}, timeout: Nat]
    \cup [op: {"tcsetpgrp"}, pgid: Pids]
    \cup [op: {"setpgid"}, pid: Pids \cup {NoPid}, pgid: Pids \cup {NoPid}]
    \cup [op: {"sigreturn", "yield", "recv", "read_tty"}]

ASSUME ConstantsAssumption ==
    /\ MaxPid \in Nat /\ MaxPid >= RootPid
    /\ Signals \subseteq 1..64 /\ KernelSignals \subseteq Signals
    /\ Addrs \subseteq Nat \ {NoAddr}
    /\ 0 \in Vals /\ Stores \subseteq Vals
    /\ \A c \in Calls : c \in CallSet
    /\ MaxClock \in Nat
    /\ MaxFrames \in Nat
    /\ MaxKeys \in Nat
    /\ ColdPages \in BOOLEAN
    /\ HostEvents \subseteq {"type", "net", "resize"}

\* What the host types on the terminal: a data byte, or one of the two
\* characters the line discipline turns into a signal.
Keys == {"byte", "intr", "susp"}

VARIABLES
    task,        \* the live tasks: pid -> Task
    cur,         \* the task on the CPU, NoPid while none is
    queue,       \* the parked tasks, in the order of sched.parked
    zombies,     \* sched.zombies
    sigactions,  \* per thread group: its disposition table
    released,    \* the vfork children whose release flag has fired
    maps,        \* sched.group_maps: tgid -> the words of its address space
    mmu,         \* the words the CPU's MMU maps now
    lastGroup,   \* env.last_group
    nextPid,     \* sched.next_pid
    clock,       \* env.now_nanos: instructions retired plus warped time
    tty,         \* the stdio pty and the keystrokes queued for it
    net,         \* the host-driven broker: readable data, expired wait
    mode,        \* what the last run ended with
    waits        \* the waits the host was told of

kernelVars == <<task, cur, queue, zombies, sigactions, released, maps, mmu,
                lastGroup, nextPid, clock, tty, net, mode, waits>>

-----------------------------------------------------------------------------
NoCall == [op |-> "none"]

\* A saved CPU: between two instructions of the program ("user"), at the
\* syscall instruction of `call` so that resuming issues it again
\* ("syscall"), or two bytes past a syscall that had already been stepped
\* over ("astray"). `rax` is what the last system call returned.
Contexts == [pc: {"user", "syscall", "astray"},
             call: Calls \cup {NoCall},
             rax: {"ret", "ETIMEDOUT", "EINTR"}]

UserAt(r) == [pc |-> "user", call |-> NoCall, rax |-> r]
Reissue(c) == [pc |-> "syscall", call |-> c, rax |-> "ret"]

\* ParkState. `on` are the watches of a Waiting state, `deadline` is Never
\* where the code has None.
ParkStates == [kind: {"Ready", "WaitChild", "Futex", "Waiting", "VforkDone"},
               pid: Pids \cup {NoPid}, untraced: BOOLEAN,
               addr: Addrs \cup {NoAddr}, woken: BOOLEAN,
               deadline: Nat \cup {Never}, on: SUBSET {"tty", "net"}]

Ready == [kind |-> "Ready", pid |-> NoPid, untraced |-> FALSE,
          addr |-> NoAddr, woken |-> FALSE, deadline |-> Never, on |-> {}]
WaitChild(filter, u) ==
    [Ready EXCEPT !.kind = "WaitChild", !.pid = filter, !.untraced = u]
Futex(a, d) == [Ready EXCEPT !.kind = "Futex", !.addr = a, !.deadline = d]
Waiting(w, d) == [Ready EXCEPT !.kind = "Waiting", !.on = w, !.deadline = d]

VforkDone(c) == [Ready EXCEPT !.kind = "VforkDone", !.pid = c]

Frames == [cpu: Contexts, mask: SUBSET Signals]

\* Process, with the CPU and the wait of its ParkedTask. `vfork_done` says
\* that the task still carries the release flag of its suspended parent.
Tasks == [tgid: Pids, ppid: Pids \cup {InitPid}, pgid: Pids,
          sigmask: SUBSET Signals, pending: SUBSET Signals,
          saved: Seq(Frames), clear_child_tid: Addrs \cup {NoAddr},
          vfork_done: BOOLEAN, stopped: BOOLEAN,
          stop_report: Signals \cup {NoSig},
          cpu: Contexts, state: ParkStates]

\* How a process ended: by exit, by a fatal signal, or by an execve that
\* failed after its point of no return.
Statuses == Signals \cup {0, 127}
Zombies == [pid: Pids, ppid: Pids \cup {InitPid}, status: Statuses]

Words == [Addrs -> Vals]

\* Process::initial
InitialTask ==
    [tgid |-> RootPid, ppid |-> InitPid, pgid |-> RootPid,
     sigmask |-> {}, pending |-> {}, saved |-> <<>>,
     clear_child_tid |-> NoAddr, vfork_done |-> FALSE, stopped |-> FALSE,
     stop_report |-> NoSig, cpu |-> UserAt("ret"), state |-> Ready]

\* Process::fork_child
ForkChild(t, pid, tgid) ==
    [tgid |-> pid, ppid |-> tgid, pgid |-> t.pgid,
     sigmask |-> t.sigmask, pending |-> {}, saved |-> <<>>,
     clear_child_tid |-> NoAddr, vfork_done |-> FALSE, stopped |-> FALSE,
     stop_report |-> NoSig, cpu |-> UserAt("ret"), state |-> Ready]

\* Process::thread_sibling
ThreadSibling(t) == ForkChild(t, t.tgid, t.ppid)

-----------------------------------------------------------------------------
(***************************************************************************)
(* A handler computes on the tables and then either returns to the task    *)
(* that called it or gives the CPU away, so the intermediate values are    *)
(* passed around as one record.                                            *)
(***************************************************************************)
Tables == [task |-> task, queue |-> queue, zombies |-> zombies,
           sigactions |-> sigactions, released |-> released,
           maps |-> maps, mmu |-> mmu, tty |-> tty]

Commit(k) ==
    /\ task' = k.task
    /\ queue' = k.queue
    /\ zombies' = k.zombies
    /\ sigactions' = k.sigactions
    /\ released' = k.released

\* The tasks of a handler's tables that are parked while cur is on the CPU.
Parked(k) == DOMAIN k.task \ {cur}

GroupOf(k, g) == {p \in DOMAIN k.task : k.task[p].tgid = g}

Acts(k, p) == k.sigactions[k.task[p].tgid]

Deliverable(t) == t.pending \ t.sigmask

Position(q, p) == CHOOSE i \in DOMAIN q : q[i] = p

\* Mutant: the most recently parked task is taken first.
LastOf(k, S) ==
    {p \in S : \A o \in S : Position(k.queue, p) >= Position(k.queue, o)}

\* The first of S in queue order, as a set of at most one task.
FirstOf(k, S) ==
    {p \in S : \A o \in S : Position(k.queue, p) <= Position(k.queue, o)}

\* f with x mapped to v, whether or not x was in its domain.
Put(f, x, v) == [y \in DOMAIN f \cup {x} |-> IF y = x THEN v ELSE f[y]]

\* The record of task p becomes t; its saved CPU becomes cpu.
SetTask(k, p, t) == [k EXCEPT !.task = Put(@, p, t)]
SetCpu(k, p, cpu) == SetTask(k, p, [k.task[p] EXCEPT !.cpu = cpu])

\* Marks s pending on every task of S.
Raise(k, S, s) ==
    [k EXCEPT !.task = [p \in DOMAIN k.task |->
        IF p \in S THEN [k.task[p] EXCEPT !.pending = @ \cup {s}] ELSE k.task[p]]]

ParkedTask(t, state, cpu) == [t EXCEPT !.state = state, !.cpu = cpu]

\* park_current, after prepare_resume has chosen where the task resumes.
Park(k, p, state, cpu) ==
    SetTask([k EXCEPT !.queue = Append(@, p)], p, ParkedTask(k.task[p], state, cpu))

\* The tasks of S leave the tables.
Drop(k, S) ==
    [k EXCEPT !.task = [p \in DOMAIN k.task \ S |-> k.task[p]],
              !.queue = SelectSeq(@, LAMBDA p : p \notin S)]

KernelInit ==
    /\ task = [p \in {RootPid} |-> InitialTask]
    /\ cur = RootPid
    /\ queue = <<>>
    /\ zombies = <<>>
    /\ sigactions = [g \in Pids |-> [s \in Signals |-> "dfl"]]
    /\ released = {}
    /\ maps = [g \in {} |-> [a \in Addrs |-> 0]]
    /\ mmu = [a \in Addrs |-> 0]
    /\ lastGroup = RootPid
    /\ nextPid = RootPid + 1
    /\ clock = 0
    /\ tty = [input |-> <<>>, m2s |-> 0, fg_pgrp |-> RootPid]
    /\ net = [readable |-> FALSE, expired |-> FALSE]
    /\ mode = "run"
    /\ waits = {}
=============================================================================
