---------------------------- MODULE KernelCalls ----------------------------
(***************************************************************************)
(* The calls that create, replace, end and wait for tasks, the blocking    *)
(* calls, and what the host does between runs: sys_clone_impl, sys_execve, *)
(* sys_wait4, sys_futex, outcome_nanosleep, sys_yield, the terminal and    *)
(* network reads of outcome_read, and the LinuxEnv entry points of lib.rs. *)
(***************************************************************************)
EXTENDS KernelSignals

\* block_and_switch: `cpu` is where the task resumes.
BlockAndSwitch(k, state, cpu) ==
    /\ Reschedule(Park(k, cur, state, cpu))
    /\ UNCHANGED nextPid

-----------------------------------------------------------------------------
\* sys_clone_impl. The child is parked ready; the caller goes on, except a
\* vfork caller, which waits for the child's release flag.
CloneTables(k, c) ==
    LET t == k.task[cur]
        born == IF c.kind = "thread" THEN ThreadSibling(t)
                ELSE ForkChild(t, nextPid, t.tgid)
        child == [born EXCEPT !.clear_child_tid = c.ctid,
                              !.vfork_done = (c.kind = "vfork")]
        spawned == [k EXCEPT !.task = Put(@, nextPid, child),
                             !.queue = Append(@, nextPid)]
    IN  IF c.kind = "thread" THEN spawned
        ELSE [spawned EXCEPT !.sigactions[nextPid] = k.sigactions[t.tgid],
                             !.maps = Put(@, nextPid, k.mmu)]

\* A pid is taken before the parent's tid word turns out not to be writable: the
\* call fails with EFAULT, or runs again once the page of the word is there.
PidWasted(c) ==
    \/ c.ptid = "bad" /\ Return(Entered)
    \/ /\ c.ptid = "cold" /\ nextPid + Cardinality(ClonesAhead) < MaxPid
       /\ Continue(SetCpu(Entered, cur, Reissue(c)))

SysClone(c) ==
    /\ Enters(c, "clone")
    /\ nextPid' = nextPid + 1
    /\ LET k == CloneTables(Entered, c) IN
       \/ PidWasted(c)
       \/ c.ptid # "bad" /\ c.kind # "vfork" /\ Return(k)
       \/ /\ c.ptid # "bad" /\ c.kind = "vfork"
          /\ Reschedule(Park(k, cur, VforkDone(nextPid), UserAt("ret")))

\* sys_execve past its validation: the table of dispositions is emptied (it
\* is shared with any sibling thread), a vfork parent is released, the image
\* is replaced. Mask, pending signals and handler frames stay. An image that
\* fails to load after that ends the process.

\* Mutant: the flag is taken off the child without being set.
ExecUnreleased(k) ==
    SetTask([k EXCEPT !.sigactions[k.task[cur].tgid] = [s \in Signals |-> "dfl"],
                      !.mmu = [a \in Addrs |-> 0]],
            cur, [k.task[cur] EXCEPT !.vfork_done = FALSE])

ExecTables(k) ==
    SetTask([Released(k) EXCEPT
                !.sigactions[k.task[cur].tgid] = [s \in Signals |-> "dfl"],
                !.mmu = [a \in Addrs |-> 0]],
            cur, [k.task[cur] EXCEPT !.vfork_done = FALSE])

SysExecve(c) ==
    /\ Enters(c, "execve")
    /\ \/ c.ok /\ Return(ExecTables(Entered))
       \/ ~c.ok /\ TaskExit(ExecTables(Entered), 127, TRUE)
    /\ UNCHANGED nextPid

SysExit(c) ==
    /\ Enters(c, "exit")
    /\ TaskExit(Entered, 0, c.group)
    /\ UNCHANGED nextPid

\* sys_wait4. A zombie comes before a stop report. With ColdPages the word
\* the status goes to may not be paged in: the child has been taken off the
\* table when the copy out suspends the call, which then runs again.
MatchingZombies(k, c) ==
    {i \in DOMAIN k.zombies :
        ChildMatches(k.zombies[i].ppid, k.zombies[i].pid, k.task[cur].tgid, c.pid)}
MatchingChildren(k, c) ==
    {p \in Parked(k) :
        ChildMatches(k.task[p].ppid, k.task[p].tgid, k.task[cur].tgid, c.pid)}
StopReports(k, c) ==
    IF c.untraced THEN {p \in MatchingChildren(k, c) : k.task[p].stop_report # NoSig}
    ELSE {}

CopyOut(k, c) ==
    \/ Return(k)
    \/ ColdPages /\ Continue(SetCpu(k, cur, Reissue(c)))

ReapZombie(k, c) ==
    \E i \in Lowest(MatchingZombies(k, c)) :
        CopyOut([k EXCEPT !.zombies = SubSeq(@, 1, i - 1) \o SubSeq(@, i + 1, Len(@))], c)

ReportStop(k, c) ==
    \E p \in FirstOf(k, StopReports(k, c)) :
        CopyOut(SetTask(k, p, [k.task[p] EXCEPT !.stop_report = NoSig]), c)

SysWait4(c) ==
    LET k == Entered IN
    /\ Enters(c, "wait4")
    /\ \/ ReapZombie(k, c) /\ UNCHANGED nextPid
       \/ /\ MatchingZombies(k, c) = {}
          /\ ReportStop(k, c) /\ UNCHANGED nextPid
       \/ /\ MatchingZombies(k, c) = {} /\ StopReports(k, c) = {}
          /\ MatchingChildren(k, c) = {} \/ c.nohang
          /\ Return(k) /\ UNCHANGED nextPid
       \/ /\ MatchingZombies(k, c) = {} /\ StopReports(k, c) = {}
          /\ MatchingChildren(k, c) # {} /\ ~c.nohang
          /\ BlockAndSwitch(k, WaitChild(c.pid, c.untraced), Reissue(c))

-----------------------------------------------------------------------------
\* sys_futex. An untimed wait is re-issued when it resumes; a timed one has
\* its return value set and resumes after the call.
SysFutexWait(c) ==
    LET k == Entered IN
    /\ Enters(c, "futex_wait")
    /\ \/ /\ k.mmu[c.addr] # c.val
          /\ Return(k) /\ UNCHANGED nextPid
       \/ /\ k.mmu[c.addr] = c.val /\ c.timeout = Never
          /\ BlockAndSwitch(k, Futex(c.addr, Never), Reissue(c))
       \/ /\ k.mmu[c.addr] = c.val /\ c.timeout # Never
          /\ clock + c.timeout <= MaxClock
          /\ BlockAndSwitch(k, Futex(c.addr, clock + c.timeout), UserAt("ret"))

SysFutexWake(c) ==
    /\ Enters(c, "futex_wake")
    /\ Return(FutexWake(Entered, c.addr, c.n))
    /\ UNCHANGED nextPid

\* outcome_nanosleep, and the timed poll of park_timeout_returning_zero
SysTimedWait(c) ==
    /\ Enters(c, "sleep")
    /\ \/ /\ "net" \in c.on /\ net.readable
          /\ Return(Entered) /\ UNCHANGED nextPid
       \/ /\ ~("net" \in c.on /\ net.readable)
          /\ clock + c.timeout <= MaxClock
          /\ BlockAndSwitch(Entered, Waiting(c.on, clock + c.timeout), UserAt("ret"))

SysYield(c) ==
    LET k == Entered
        idle == FindReady(k, Parked(k), clock) = {}
    IN  /\ Enters(c, "yield")
        /\ \/ idle /\ Return(k) /\ UNCHANGED nextPid
           \/ ~idle /\ BlockAndSwitch(k, Ready, UserAt("ret"))

\* A blocking read of a network socket.
SysRecv(c) ==
    /\ Enters(c, "recv")
    /\ \/ /\ ~net.readable
          /\ BlockAndSwitch(Entered, Waiting({"net"}, Never), Reissue(c))
       \/ /\ net.readable
          /\ net' = [net EXCEPT !.readable = FALSE]
          /\ Commit(SetCpu(Entered, cur, UserAt("ret")))
          /\ UNCHANGED <<maps, mmu, tty, cur, lastGroup, clock, mode, waits, nextPid>>

-----------------------------------------------------------------------------
\* background_tty_access and background_tty_ioctl: a task outside the
\* foreground group stops its group, unless it blocks or ignores the signal.

Background(k) ==
    k.tty.fg_pgrp # NoPid /\ k.tty.fg_pgrp # k.task[cur].pgid
Shielded(k, s) == s \in k.task[cur].sigmask \/ Acts(k, cur)[s] = "ign"
BackgroundStop(k, s, c) ==
    LET all == DeliverSignalToPgrp(k, k.task[cur].pgid, s)
    IN  StopThreadGroup(SetTask(all, cur, [all.task[cur] EXCEPT !.pending = @ \ {s}]),
                        s, Reissue(c))

\* outcome_read on the slave of the stdio pty.
SysReadTty(c) ==
    LET k == Entered IN
    /\ Enters(c, "read_tty")
    /\ \/ Background(k) /\ Shielded(k, SIGTTIN) /\ Return(k)
       \/ Background(k) /\ ~Shielded(k, SIGTTIN) /\ BackgroundStop(k, SIGTTIN, c)
       \/ /\ ~Background(k) /\ k.tty.m2s > 0
          /\ Return([k EXCEPT !.tty.m2s = 0])
       \/ /\ ~Background(k) /\ k.tty.m2s = 0
          /\ Reschedule(Park(k, cur, Waiting({"tty"}, Never), Reissue(c)))
    /\ UNCHANGED nextPid

\* ioctl(TIOCSPGRP)
SysTcsetpgrp(c) ==
    LET k == Entered IN
    /\ Enters(c, "tcsetpgrp")
    /\ \/ Background(k) /\ ~Shielded(k, SIGTTOU) /\ BackgroundStop(k, SIGTTOU, c)
       \/ /\ ~Background(k) \/ Shielded(k, SIGTTOU)
          /\ Return([k EXCEPT !.tty.fg_pgrp = c.pgid])
    /\ UNCHANGED nextPid

\* set_group_pgid
Regrouped(k, target, group) ==
    [k EXCEPT !.task = [p \in DOMAIN k.task |->
        IF k.task[p].tgid = target THEN [k.task[p] EXCEPT !.pgid = group] ELSE k.task[p]]]

\* setpgid, and setsid as the call with both arguments zero
SysSetpgid(c) ==
    LET k == Entered
        target == IF c.pid = NoPid THEN k.task[cur].tgid ELSE c.pid
        group == IF c.pgid = NoPid THEN target ELSE c.pgid
    IN  /\ Enters(c, "setpgid")
        /\ Return(Regrouped(k, target, group))
        /\ UNCHANGED nextPid

-----------------------------------------------------------------------------
\* Guest instructions between system calls: a store, and the clock moving.
UserStore(a, v) ==
    /\ mode = "run" /\ task[cur].cpu.pc # "syscall"
    /\ mmu' = [mmu EXCEPT ![a] = v]
    /\ UNCHANGED <<task, cur, queue, zombies, sigactions, released, maps,
                   lastGroup, nextPid, clock, tty, net, mode, waits>>

Tick ==
    /\ mode = "run" /\ task[cur].cpu.pc # "syscall"
    /\ clock < MaxClock
    /\ clock' = clock + 1
    /\ UNCHANGED <<task, cur, queue, zombies, sigactions, released, maps, mmu,
                   lastGroup, nextPid, tty, net, mode, waits>>

\* The host between two runs: LinuxEnv::feed_terminal_input, bytes arriving
\* at the broker, expire_network_wait, resize_terminal. The worker expires a
\* wait only if nothing was delivered during it, and runs the machine in the
\* same turn, so nothing else comes in between.
HostsTurn == mode \in {"run", "paused"} /\ ~(mode = "paused" /\ net.expired)

HostType(key) ==
    /\ HostsTurn /\ "type" \in HostEvents
    /\ Len(tty.input) + tty.m2s < MaxKeys
    /\ tty' = [tty EXCEPT !.input = Append(@, key)]
    /\ UNCHANGED <<task, cur, queue, zombies, sigactions, released, maps, mmu,
                   lastGroup, nextPid, clock, net, mode, waits>>

HostNetArrives ==
    /\ HostsTurn /\ "net" \in HostEvents
    /\ ~net.readable
    /\ net' = [net EXCEPT !.readable = TRUE]
    /\ UNCHANGED <<task, cur, queue, zombies, sigactions, released, maps, mmu,
                   lastGroup, nextPid, clock, tty, mode, waits>>

\* Mutant: a wait that has a timer of its own is left to it.
HostExpiresUntimed ==
    /\ mode = "paused" /\ "network" \in waits
    /\ ~net.expired /\ ~net.readable /\ Deadlines(Tables) = {}
    /\ net' = [net EXCEPT !.expired = TRUE]
    /\ UNCHANGED <<task, cur, queue, zombies, sigactions, released, maps, mmu,
                   lastGroup, nextPid, clock, tty, mode, waits>>

HostExpiresNetworkWait ==
    /\ mode = "paused" /\ "network" \in waits
    /\ ~net.expired /\ ~net.readable
    /\ net' = [net EXCEPT !.expired = TRUE]
    /\ UNCHANGED <<task, cur, queue, zombies, sigactions, released, maps, mmu,
                   lastGroup, nextPid, clock, tty, mode, waits>>

HostResizes ==
    /\ HostsTurn /\ "resize" \in HostEvents
    /\ task' = DeliverSignalToPgrp(Tables, tty.fg_pgrp, SIGWINCH).task
    /\ UNCHANGED <<cur, queue, zombies, sigactions, released, maps, mmu,
                   lastGroup, nextPid, clock, tty, net, mode, waits>>
=============================================================================
