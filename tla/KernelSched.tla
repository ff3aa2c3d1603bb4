---------------------------- MODULE KernelSched ----------------------------
(***************************************************************************)
(* Choosing the next task and putting it on the CPU: Scheduler::find_ready *)
(* and wait_is_satisfied in proc.rs; schedule_next, resolve_stall,         *)
(* stall_outcome and deliver_signal in syscall.rs; Machine::run in lib.rs. *)
(*                                                                         *)
(* Nothing preempts a task: it runs until one of its system calls parks    *)
(* it, and the handler of that call ends by scheduling another one.        *)
(***************************************************************************)
EXTENDS KernelState

DefaultActionTerminates(s) == s \notin (SIGCHLD..23) \cup {SIGWINCH}
DefaultActionStops(s) == s \in SIGSTOP..SIGTTOU

\* Signals that are dropped when they come up for delivery.
Discards(acts, s) ==
    \/ acts[s] = "ign"
    \/ acts[s] = "dfl" /\ ~DefaultActionTerminates(s) /\ ~DefaultActionStops(s)

\* The deliverable signals that do something; the lowest one decides.
Effective(t, acts) == {s \in Deliverable(t) : ~Discards(acts, s)}

\* The scan of the pending set, lowest signal first, drops every signal it
\* passes over on its way to the one that decides.
PassedOver(t, acts) ==
    {s \in Deliverable(t) : \A e \in Effective(t, acts) : s < e}

Lowest(S) == {s \in S : \A o \in S : s <= o}

\* deliver_signal: enter the handler of the lowest signal that does
\* something; one whose default action is to kill or to stop is left pending
\* for the next kernel entry to carry out.
DeliverSignal(t, acts) ==
    LET kept == [t EXCEPT !.pending = @ \ PassedOver(t, acts)]
        entered == {s \in Lowest(Effective(t, acts)) : acts[s] \in Handled}
    IN  IF entered = {}
        THEN kept
        ELSE [kept EXCEPT !.pending = @ \ entered,
                          !.saved = Append(@, [cpu |-> t.cpu, mask |-> t.sigmask]),
                          !.sigmask = @ \cup entered,
                          !.cpu = UserAt("ret")]

\* signal_restarts_the_syscall = Some(false)
EndsTheCall(t, acts) ==
    \E s \in Lowest(Deliverable(t)) : acts[s] = "handler"

\* end_wait_with(-EINTR): step over the instruction the saved CPU points at,
\* whether or not that instruction is the system call.
EndWaitWith(t) ==
    [t EXCEPT !.cpu = [pc |-> IF t.cpu.pc = "syscall" THEN "user" ELSE "astray",
                       call |-> NoCall, rax |-> "EINTR"]]

-----------------------------------------------------------------------------
Expired(s, now) == s.deadline # Never /\ s.deadline <= now

ChildMatches(ppid, pid, parent, filter) ==
    ppid = parent /\ (filter = NoPid \/ pid = filter)

\* Scheduler::wait_is_satisfied, where `parked` are the parked tasks.
WaitIsSatisfied(k, parked, t, now) ==
    LET s == t.state IN
    \/ s.kind = "Ready"
    \/ s.kind = "Futex" /\ (s.woken \/ Expired(s, now))
    \/ /\ s.kind = "WaitChild"
       /\ \/ \E z \in Range(k.zombies) : ChildMatches(z.ppid, z.pid, t.tgid, s.pid)
          \/ /\ s.untraced
             /\ \E c \in parked :
                    /\ k.task[c].stop_report # NoSig
                    /\ ChildMatches(k.task[c].ppid, k.task[c].tgid, t.tgid, s.pid)
    \/ /\ s.kind = "Waiting"
       /\ \/ Expired(s, now)
          \/ "tty" \in s.on /\ k.tty.m2s > 0
          \/ "net" \in s.on /\ net.readable
    \/ s.kind = "VforkDone" /\ s.pid \in k.released

\* Mutant: a signal wakes any wait.
RunnableBySignal(k, parked, t, now) ==
    ~t.stopped /\ (Deliverable(t) # {} \/ WaitIsSatisfied(k, parked, t, now))

\* The test of Scheduler::find_ready.
Runnable(k, parked, t, now) ==
    /\ ~t.stopped
    /\ \/ Deliverable(t) # {} /\ t.state.kind # "VforkDone"
       \/ WaitIsSatisfied(k, parked, t, now)

ReadyTasks(k, parked, now) ==
    {p \in parked : Runnable(k, parked, k.task[p], now)}

\* Scheduler::find_ready, as a set of at most one task.
FindReady(k, parked, now) == FirstOf(k, ReadyTasks(k, parked, now))

\* Scheduler::earliest_deadline
Deadlines(k) ==
    {k.task[p].state.deadline :
        p \in {q \in DOMAIN k.task : ~k.task[q].stopped}} \ {Never}

\* Mutant: a wait with a timeout does not keep the host informed.
NetWatchedUntimed(k) ==
    \E p \in DOMAIN k.task : /\ "net" \in k.task[p].state.on
                            /\ k.task[p].state.deadline = Never

\* Scheduler::net_watch_handles is not empty.
NetWatched(k) == \E p \in DOMAIN k.task : "net" \in k.task[p].state.on

\* Mutant: a reader of the terminal does not count as waiting for the host.
NeverBlockedOnTerminal(k) == FALSE

\* blocked_on_terminal_input: the stopped flag is not consulted.
BlockedOnTerminalInput(k) ==
    /\ k.tty.input = <<>>
    /\ \E p \in DOMAIN k.task : /\ "tty" \in k.task[p].state.on
                                /\ k.task[p].state.deadline = Never

\* acts_on_signal
ActsOnSignal(acts, s) ==
    \/ s \in {SIGKILL, SIGSTOP}
    \/ acts[s] \in Handled
    \/ acts[s] = "dfl" /\ (DefaultActionTerminates(s) \/ DefaultActionStops(s))

\* deliver_signal_to_pgrp
DeliverSignalToPgrp(k, g, s) ==
    Raise(k, {p \in DOMAIN k.task : /\ k.task[p].pgid = g
                                    /\ ActsOnSignal(Acts(k, p), s)}, s)

\* Pty::feed_input with ISIG: a signal character discards what was queued
\* before it, and the last one typed is the signal raised.
SignalOf(key) == IF key = "intr" THEN SIGINT ELSE SIGTSTP
DataFrom(keys, i) == \A j \in i..Len(keys) : keys[j] = "byte"
Raises(keys) ==
    {SignalOf(keys[i]) : i \in {h \in DOMAIN keys : keys[h] # "byte" /\ DataFrom(keys, h + 1)}}

FeedInput(k) ==
    LET keys == k.tty.input
        line == [k.tty EXCEPT !.m2s = Cardinality({i \in DOMAIN keys : DataFrom(keys, i)}),
                              !.input = <<>>]
        fed == [k EXCEPT !.tty = line]
    IN  IF Raises(keys) = {} THEN fed
        ELSE DeliverSignalToPgrp(fed, k.tty.fg_pgrp, CHOOSE s \in Raises(keys) : TRUE)

-----------------------------------------------------------------------------
\* The swap of schedule_next: the map in the MMU is kept under its group
\* while that group still has a parked task, and the map of the next group
\* moves from the table to the MMU. p is leaving the parked set.

\* Mutant: the map of the task that leaves the CPU is always let go.
KeptNoMap(k, p) == k.maps

KeptMaps(k, p) ==
    IF \E q \in DOMAIN k.task \ {p} : k.task[q].tgid = lastGroup
    THEN Put(k.maps, lastGroup, k.mmu)
    ELSE k.maps

HasSpace(k, p) == k.task[p].tgid \in DOMAIN k.maps \cup {lastGroup}

\* Mutant: the tables change but the MMU goes on with the map it has.
SwapTablesOnly(k, p) ==
    /\ maps' = [h \in DOMAIN KeptMaps(k, p) \ {k.task[p].tgid} |-> KeptMaps(k, p)[h]]
    /\ mmu' = k.mmu

SwapMaps(k, p) ==
    LET g == k.task[p].tgid IN
    IF g = lastGroup
    THEN maps' = k.maps /\ mmu' = k.mmu
    ELSE /\ maps' = [h \in DOMAIN KeptMaps(k, p) \ {g} |-> KeptMaps(k, p)[h]]
         /\ mmu' = IF HasSpace(k, p) THEN k.maps[g] ELSE k.mmu

\* Mutant: a wait4 is interrupted without asking whether it has come good.
ResumedUnasked(k, p, now) ==
    LET t == [k.task[p] EXCEPT !.state = Ready]
        acts == Acts(k, p)
    IN  IF Deliverable(t) = {} THEN t
        ELSE IF k.task[p].state.kind = "WaitChild" /\ EndsTheCall(t, acts)
             THEN DeliverSignal(EndWaitWith(t), acts)
             ELSE DeliverSignal(t, acts)

\* What schedule_next makes of the task it took off the queue. `now` is the
\* clock as it was read before the stall was resolved.
Resumed(k, p, now) ==
    LET t == k.task[p]
        acts == Acts(k, p)
        timedOut == t.state.kind = "Futex" /\ ~t.state.woken /\ Expired(t.state, now)
        woken == [t EXCEPT !.state = Ready,
                           !.cpu.rax = IF timedOut THEN "ETIMEDOUT" ELSE @]
        interrupted == /\ t.state.kind # "VforkDone"
                       /\ ~timedOut
                       /\ ~WaitIsSatisfied(k, DOMAIN k.task \ {p}, t, now)
                       /\ EndsTheCall(t, acts)
    IN  IF Deliverable(t) = {} THEN woken
        ELSE DeliverSignal(IF interrupted THEN EndWaitWith(woken) ELSE woken, acts)

\* Mutant: the task taken up stays in the queue.
DispatchListed(k, p, now) ==
    /\ Commit(SetTask(k, p, Resumed(k, p, now)))
    /\ SwapMaps(k, p)
    /\ lastGroup' = k.task[p].tgid
    /\ tty' = k.tty
    /\ cur' = p
    /\ mode' = IF HasSpace(k, p) THEN "run" ELSE "fault"
    /\ waits' = {}

\* The rest of schedule_next once a task is chosen. Finding no map for its
\* group ("missing address space for thread group") ends the run; it never
\* does, by SpaceOfEveryTask in Kernel.
Dispatch(k, p, now) ==
    /\ Commit(SetTask([k EXCEPT !.queue = SelectSeq(@, LAMBDA q : q # p)],
                      p, Resumed(k, p, now)))
    /\ SwapMaps(k, p)
    /\ lastGroup' = k.task[p].tgid
    /\ tty' = k.tty
    /\ cur' = p
    /\ mode' = IF HasSpace(k, p) THEN "run" ELSE "fault"
    /\ waits' = {}

\* Nothing runs: the tables stay as they are and the run ends with `m`.
Idle(k, m, w) ==
    /\ Commit(k)
    /\ maps' = k.maps
    /\ mmu' = k.mmu
    /\ tty' = k.tty
    /\ cur' = NoPid
    /\ mode' = m
    /\ waits' = w
    /\ UNCHANGED lastGroup

\* Keystrokes queued by the host reach an empty line discipline when nothing
\* else is runnable (the first half of resolve_stall).
Fed(k) == IF k.tty.input # <<>> /\ k.tty.m2s = 0 THEN FeedInput(k) ELSE k

\* The expiry is used up by the watches it was for.
Unexpired(k) == IF NetWatched(k) THEN [net EXCEPT !.expired = FALSE] ELSE net

\* stall_outcome
StallOutcome(k, w) ==
    \/ w # {} /\ Idle(k, "paused", w)
    \/ w = {} /\ BlockedOnTerminalInput(k) /\ Idle(k, "paused", {"terminal"})
    \/ w = {} /\ ~BlockedOnTerminalInput(k) /\ Idle(k, "deadlock", {})

\* Mutant: a resume that finds nothing reports only the terminal.
StillWaitingTerminal(k, w) ==
    Idle(k, "paused", IF BlockedOnTerminalInput(k) THEN {"terminal"} ELSE {})

\* pending_host_wait, and the flags Machine::run leaves set when a resume
\* found nothing to run.
StillWaiting(k, w) ==
    LET host == IF BlockedOnTerminalInput(k) THEN {"terminal"}
                ELSE IF NetWatched(k) THEN {"network"} ELSE {}
    IN  Idle(k, "paused", w \cup host)

\* How the caller ends when nothing became runnable, w being the waits
\* resolve_stall itself asked the host for: a handler that gave up the CPU
\* asks stall_outcome, a run that resumes the machine pending_host_wait.
Stalled(k, w, resuming) == IF resuming THEN StillWaiting(k, w) ELSE StallOutcome(k, w)

\* The second half of resolve_stall. A wait on the network pauses the machine
\* until the host has said that nothing came; only then does time move, to
\* the earliest deadline, which makes the task waiting for it ready.
ResolveStall(k, resuming) ==
    \/ /\ NetWatched(k) /\ ~net.expired
       /\ Stalled(k, {"network"}, resuming)
       /\ UNCHANGED <<clock, net>>
    \/ /\ ~NetWatched(k) \/ net.expired
       /\ net' = Unexpired(k)
       /\ \/ /\ Deadlines(k) = {}
             /\ Stalled(k, {}, resuming)
             /\ UNCHANGED clock
          \/ \E d \in Lowest(Deadlines(k)) :
                /\ clock' = IF d > clock THEN d ELSE clock
                /\ \E p \in FindReady(k, DOMAIN k.task, clock') : Dispatch(k, p, clock)

\* schedule_next: the first ready task in queue order, or whatever resolving
\* the stall makes ready.
ScheduleNext(k, resuming) ==
    LET first == FindReady(k, DOMAIN k.task, clock)
        fed == Fed(k)
        second == FindReady(fed, DOMAIN k.task, clock)
    IN  \/ /\ \E p \in first : Dispatch(k, p, clock)
           /\ UNCHANGED <<clock, net>>
        \/ /\ first = {}
           /\ \E p \in second : Dispatch(fed, p, clock)
           /\ UNCHANGED <<clock, net>>
        \/ /\ first = {} /\ second = {}
           /\ ResolveStall(fed, resuming)

\* block_and_switch's last step, and task_exit's.
Reschedule(k) == ScheduleNext(k, FALSE)

\* Machine::run after a pause the host was asked to end.
Resume ==
    /\ mode = "paused"
    /\ waits # {}
    /\ ScheduleNext(Tables, TRUE)
    /\ UNCHANGED nextPid
=============================================================================
