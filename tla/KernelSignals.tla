--------------------------- MODULE KernelSignals ---------------------------
(***************************************************************************)
(* Raising, blocking and handling signals, job-control stops, and the end  *)
(* of a task: the second part of syscall.rs.                               *)
(***************************************************************************)
EXTENDS KernelSched

\* The task on the CPU goes on after its system call with what the handler
\* left in the tables.
Continue(k) ==
    /\ Commit(k)
    /\ maps' = k.maps
    /\ mmu' = k.mmu
    /\ tty' = k.tty
    /\ UNCHANGED <<cur, lastGroup, clock, net, mode, waits>>

Return(k) == Continue(SetCpu(k, cur, UserAt("ret")))

-----------------------------------------------------------------------------
\* Mutant: a signal every thread blocks is dropped instead of recorded.
UnblockedTarget(k, C, g, s) ==
    LET open == {p \in C : s \notin k.task[p].sigmask}
    IN  IF g \in open THEN {g} ELSE FirstOf(k, open)

\* The thread of group g, among the parked tasks C of it, that gets a signal:
\* one that does not block it if there is one, the leader before the others,
\* else the first in queue order.
SignalTarget(k, C, g, s) ==
    LET open == {p \in C : s \notin k.task[p].sigmask}
        S == IF open = {} THEN C ELSE open
    IN  IF g \in S THEN {g} ELSE FirstOf(k, S)

\* notify_parent_sigchld: only parked threads of the parent are considered.
NotifyParentSigchld(k, g) ==
    IF g \in Pids /\ k.sigactions[g][SIGCHLD] \in Handled
    THEN Raise(k, SignalTarget(k, GroupOf(k, g) \cap Parked(k), g, SIGCHLD), SIGCHLD)
    ELSE k

\* Scheduler::futex_wake: the first n waiters of the address, in queue order,
\* whatever address space they wait in.
FutexWaiters(k, a) ==
    {p \in Parked(k) : /\ k.task[p].state.kind = "Futex"
                       /\ k.task[p].state.addr = a
                       /\ ~k.task[p].state.woken}
FutexWake(k, a, n) ==
    LET W == FutexWaiters(k, a)
        Ahead(p) == {o \in W : Position(k.queue, o) < Position(k.queue, p)}
    IN  [k EXCEPT !.task = [p \in DOMAIN k.task |->
            IF p \in W /\ Cardinality(Ahead(p)) < n
            THEN [k.task[p] EXCEPT !.state.woken = TRUE]
            ELSE k.task[p]]]

-----------------------------------------------------------------------------
\* task_exit up to its scheduling decision. The task's own release flag
\* fires; those of the siblings it takes along do not.
Released(k) ==
    IF k.task[cur].vfork_done THEN [k EXCEPT !.released = @ \cup {cur}] ELSE k

\* Mutant: one joiner is woken, not all of them.
ClearedTidWakesOne(k, written) ==
    LET a == k.task[cur].clear_child_tid
    IN  IF a = NoAddr THEN k
        ELSE FutexWake([k EXCEPT !.mmu[a] = IF written THEN 0 ELSE @], a, 1)

\* The tid word is cleared if it can be written; its joiners are woken anyway.
ClearedTid(k, written) ==
    LET a == k.task[cur].clear_child_tid
    IN  IF a = NoAddr THEN k
        ELSE FutexWake([k EXCEPT !.mmu[a] = IF written THEN 0 ELSE @], a, MaxPid)

TidWritten == IF ColdPages THEN BOOLEAN ELSE {TRUE}


ExitedTables(k, status, group, written) ==
    LET t == k.task[cur]
        dead == IF group THEN GroupOf(k, t.tgid) ELSE {cur}
        left == Drop(ClearedTid(Released(k), written), dead)
        zombie == [pid |-> t.tgid, ppid |-> t.ppid, status |-> status]
    IN  IF group \/ cur = t.tgid
        THEN NotifyParentSigchld([left EXCEPT !.zombies = Append(@, zombie)], t.ppid)
        ELSE left

\* The root process ends the machine.
HaltsMachine(k, group) ==
    k.task[cur].tgid = RootPid /\ (group \/ cur = RootPid)

TaskExit(k, status, group) ==
    \E written \in TidWritten :
        \/ /\ ~HaltsMachine(k, group)
           /\ Reschedule(ExitedTables(k, status, group, written))
        \/ /\ HaltsMachine(k, group)
           /\ Idle(Drop(ClearedTid(Released(k), written),
                        IF group THEN GroupOf(k, RootPid) ELSE {cur}), "halted", {})
           /\ UNCHANGED <<clock, net>>

\* Mutant: only the task that took the signal stops.
StoppedAlone(k, s) ==
    NotifyParentSigchld(
        SetTask(k, cur, [k.task[cur] EXCEPT !.stopped = TRUE,
                             !.stop_report = IF cur = k.task[cur].tgid THEN s ELSE @]),
        k.task[cur].ppid)

\* stop_thread_group: `cpu` is where the task resumes once SIGCONT lifts the
\* stop. The leader holds the report for the parent's wait4(WUNTRACED).
StoppedTables(k, s) ==
    LET g == k.task[cur].tgid
        stopped == [p \in DOMAIN k.task |->
            IF k.task[p].tgid # g THEN k.task[p]
            ELSE [k.task[p] EXCEPT !.stopped = TRUE,
                                   !.stop_report = IF p = g THEN s ELSE @]]
    IN  NotifyParentSigchld([k EXCEPT !.task = stopped], k.task[cur].ppid)

StopThreadGroup(k, s, cpu) ==
    Reschedule(Park(StoppedTables(k, s), cur, Ready, cpu))

-----------------------------------------------------------------------------
\* pending_signal_action for the task on the CPU: the signal that decides, if
\* its disposition is the default, and the tables once the scan has dropped
\* the signals it passed over.
Fatal(k) ==
    {s \in Lowest(Effective(k.task[cur], Acts(k, cur))) : Acts(k, cur)[s] = "dfl"}

Scanned(k) ==
    SetTask(k, cur, [k.task[cur] EXCEPT !.pending = @ \ PassedOver(k.task[cur], Acts(k, cur))])

Consumed(k, s) ==
    LET q == Scanned(k)
    IN  SetTask(q, cur, [q.task[cur] EXCEPT !.pending = @ \ {s}])

DefaultAction(k, s, cpu) ==
    \/ DefaultActionTerminates(s) /\ TaskExit(Consumed(k, s), s, TRUE)
    \/ DefaultActionStops(s) /\ StopThreadGroup(Consumed(k, s), s, cpu)

\* MaxPid bounds the ids handed out: no program clones beyond it, the clones
\* that stopped tasks are going to issue again included.
ClonesAhead == {p \in DOMAIN task \ {cur} : task[p].cpu.call.op = "clone"}
WithinPids == nextPid \in Pids /\ nextPid + Cardinality(ClonesAhead) <= MaxPid

\* A task whose saved CPU points at a system call can only issue that one.
Issues(c) ==
    /\ mode = "run"
    /\ c \in Calls
    /\ c.op = "clone" => WithinPids
    /\ task[cur].cpu.pc = "syscall" => task[cur].cpu.call = c

\* handle: a pending signal whose default action kills or stops is carried
\* out at the kernel entry, before the call is looked at.
KernelEntry(c) ==
    /\ Issues(c)
    /\ \E s \in Fatal(Tables) : DefaultAction(Tables, s, Reissue(c))
    /\ UNCHANGED nextPid

\* The call is dispatched, on tables without the ignored signals.
Enters(c, op) == c.op = op /\ Issues(c) /\ Fatal(Tables) = {}
Entered == Scanned(Tables)

-----------------------------------------------------------------------------
\* rt_sigaction
SysRtSigaction(c) ==
    /\ Enters(c, "sigaction")
    /\ Return(IF c.sig \in {SIGKILL, SIGSTOP} THEN Entered
              ELSE [Entered EXCEPT !.sigactions[task[cur].tgid][c.sig] = c.act])
    /\ UNCHANGED nextPid

\* rt_sigprocmask: what the new mask lets through acts before the call
\* returns. MaxFrames bounds how deep unblocking inside handlers may nest.
SysRtSigprocmask(c) ==
    LET t == Entered.task[cur]
        mask == CASE c.how = "block" -> t.sigmask \cup c.set
                  [] c.how = "unblock" -> t.sigmask \ c.set
                  [] c.how = "set" -> c.set
        k == SetTask(Entered, cur, [t EXCEPT !.sigmask = mask, !.cpu = UserAt("ret")])
    IN  /\ Enters(c, "sigprocmask")
        /\ Len(task[cur].saved) <= MaxFrames
        /\ \/ \E s \in Fatal(k) : DefaultAction(k, s, UserAt("ret"))
           \/ /\ Fatal(k) = {}
              /\ Continue(SetTask(k, cur, DeliverSignal(k.task[cur], Acts(k, cur))))
        /\ UNCHANGED nextPid

\* rt_sigreturn: the interrupted CPU and mask come back, and a signal the
\* mask now lets through enters its handler at once.
SysRtSigreturn(c) ==
    LET t == Entered.task[cur]
        frame == t.saved[Len(t.saved)]
        back == [t EXCEPT !.saved = SubSeq(@, 1, Len(@) - 1),
                         !.cpu = frame.cpu, !.sigmask = frame.mask]
    IN  /\ Enters(c, "sigreturn")
        /\ \/ /\ t.saved # <<>>
              /\ Continue(SetTask(Entered, cur, DeliverSignal(back, Acts(Entered, cur))))
           \/ /\ t.saved = <<>>
              /\ Return(Entered)
        /\ UNCHANGED nextPid

-----------------------------------------------------------------------------
\* kill with signal 0 only probes for the process.
KillProbe(c) ==
    /\ Enters(c, "kill") /\ c.sig = NoSig
    /\ Return(Entered)
    /\ UNCHANGED nextPid

\* kill, to the caller itself: resolved against its disposition at once. A
\* blocked signal is queued even if it is ignored now.
KillSelf(c) ==
    LET k == SetCpu(Entered, cur, UserAt("ret"))
        raised == Raise(k, {cur}, c.sig)
        act == Acts(k, cur)[c.sig]
    IN  /\ Enters(c, "kill") /\ c.sig # NoSig
        /\ c.target \in {cur, task[cur].tgid}
        /\ \/ /\ c.sig \in k.task[cur].sigmask
              /\ Continue(raised)
           \/ /\ c.sig \notin k.task[cur].sigmask /\ act \in Handled
              /\ Continue(SetTask(k, cur, DeliverSignal(raised.task[cur], Acts(k, cur))))
           \/ /\ c.sig \notin k.task[cur].sigmask /\ act = "dfl"
              /\ \/ DefaultActionTerminates(c.sig) /\ TaskExit(k, c.sig, TRUE)
                 \/ DefaultActionStops(c.sig) /\ StopThreadGroup(k, c.sig, UserAt("ret"))
           \/ /\ c.sig \notin k.task[cur].sigmask /\ Discards(Acts(k, cur), c.sig)
              /\ Continue(k)
        /\ UNCHANGED nextPid

\* The process group a non-positive target names.
TargetGroup(c) == IF c.target = 0 THEN task[cur].pgid ELSE -c.target

\* kill with SIGCONT or a stop signal, to another process or to a group: acts
\* on every matching task, the caller included, whatever the dispositions.
StopSignals == SIGSTOP..SIGTTOU
JobTargets(k, c) ==
    {p \in DOMAIN k.task : IF c.target > 0 THEN k.task[p].tgid = c.target
                           ELSE k.task[p].pgid = TargetGroup(c)}

Continued(t) ==
    [t EXCEPT !.stopped = FALSE, !.stop_report = NoSig,
              !.pending = @ \ StopSignals]

Lifted(k, S) ==
    [k EXCEPT !.task = [p \in DOMAIN k.task |->
        IF p \in S THEN Continued(k.task[p]) ELSE k.task[p]]]

KillJobControl(c) ==
    LET k == Entered
        hit == JobTargets(k, c)
    IN  /\ Enters(c, "kill")
        /\ c.target \notin {cur, task[cur].tgid}
        /\ \/ c.sig = SIGCONT /\ Return(Lifted(k, hit))
           \/ c.sig \in StopSignals /\ Return(Raise(k, hit, c.sig))
        /\ UNCHANGED nextPid

\* The other signals, to the processes they are sent to: one process, or the
\* members of a group other than the caller's own process.
Victims(k, c) ==
    IF c.target > 0 THEN {c.target}
    ELSE {k.task[p].tgid : p \in {q \in Parked(k) : k.task[q].pgid = TargetGroup(c)}}
             \ {k.task[cur].tgid}

\* signal_process
SignalProcess(k, g, s) ==
    SignalTarget(k, {p \in GroupOf(k, g) : ActsOnSignal(Acts(k, p), s)}, g, s)

KillSignal(c) ==
    LET k == Entered
        hit == UNION {SignalProcess(k, g, c.sig) : g \in Victims(k, c)}
    IN  /\ Enters(c, "kill")
        /\ c.target \notin {cur, task[cur].tgid}
        /\ c.sig \notin {NoSig, SIGKILL, SIGCONT} \cup StopSignals
        /\ Return(IF c.target = -1 THEN k ELSE Raise(k, hit, c.sig))
        /\ UNCHANGED nextPid

\* SIGKILL is carried out by the sender: the victims' tasks go, every one
\* that held a vfork release flag fires it, and each victim whose leader was
\* still there leaves a zombie (in ascending order) and a SIGCHLD.
Gone(k, V) == {p \in Parked(k) : k.task[p].tgid \in V}

KilledTables(k, V, dead) ==
    LET gone == Gone(k, V)
        left == Drop([k EXCEPT !.released = @ \cup {p \in gone : k.task[p].vfork_done},
                               !.zombies = @ \o dead,
                               !.maps = [g \in DOMAIN @ \ {k.task[p].tgid : p \in gone} |-> @[g]]],
                     gone)
        parents == {k.task[p].ppid : p \in gone \cap V}
        told == UNION {SignalTarget(left, GroupOf(left, g) \cap Parked(left), g, SIGCHLD) :
                          g \in {h \in parents \cap Pids : k.sigactions[h][SIGCHLD] \in Handled}}
    IN  Raise(left, told, SIGCHLD)

\* The zombies of the leaders L in ascending order of pid.
ZombiesOf(k, L) ==
    {z \in [1..Cardinality(L) -> {[pid |-> p, ppid |-> k.task[p].ppid, status |-> SIGKILL] : p \in L}] :
        \A i, j \in DOMAIN z : i < j => z[i].pid < z[j].pid}

KillKill(c) ==
    LET k == Entered
        V == IF c.target = -1 THEN {} ELSE Victims(k, c)
    IN  /\ Enters(c, "kill")
        /\ c.target \notin {cur, task[cur].tgid}
        /\ c.sig = SIGKILL
        /\ \E dead \in ZombiesOf(k, V \cap Gone(k, V)) : Return(KilledTables(k, V, dead))
        /\ UNCHANGED nextPid

SysKill(c) ==
    KillProbe(c) \/ KillSelf(c) \/ KillJobControl(c) \/ KillSignal(c) \/ KillKill(c)
=============================================================================
