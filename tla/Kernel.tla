------------------------------- MODULE Kernel -------------------------------
(***************************************************************************)
(* The cooperative kernel as a whole: every system call of KernelSignals   *)
(* and KernelCalls, the guest's own instructions, the host's entry points, *)
(* and the properties that make the kernel correct.                        *)
(***************************************************************************)
EXTENDS KernelCalls

SysCall(c) ==
    \/ KernelEntry(c)
    \/ SysRtSigaction(c)
    \/ SysRtSigprocmask(c)
    \/ SysRtSigreturn(c)
    \/ SysKill(c)
    \/ SysClone(c)
    \/ SysExecve(c)
    \/ SysExit(c)
    \/ SysWait4(c)
    \/ SysFutexWait(c)
    \/ SysFutexWake(c)
    \/ SysTimedWait(c)
    \/ SysYield(c)
    \/ SysRecv(c)
    \/ SysReadTty(c)
    \/ SysTcsetpgrp(c)
    \/ SysSetpgid(c)

Host ==
    \/ Resume
    \/ \E key \in Keys : HostType(key)
    \/ HostNetArrives
    \/ HostExpiresNetworkWait
    \/ HostResizes

\* The run has ended: nothing is left to do.
Ended == mode \in {"halted", "deadlock", "fault"} /\ UNCHANGED kernelVars

Next ==
    \/ \E c \in Calls : SysCall(c)
    \/ \E a \in Addrs, v \in Stores : UserStore(a, v)
    \/ Tick
    \/ Host
    \/ Ended

Spec == KernelInit /\ [][Next]_kernelVars

-----------------------------------------------------------------------------
\* Every table holds what the Rust types allow. What is in the run queue is
\* said by ParkedOnce.
TablesTyped ==
    /\ DOMAIN task \subseteq Pids
    /\ task \in [DOMAIN task -> Tasks]
    /\ cur \in DOMAIN task \cup {NoPid}
    /\ zombies \in Seq(Zombies)
    /\ sigactions \in [Pids -> [Signals -> Dispositions]]
    /\ released \subseteq Pids
    /\ DOMAIN maps \subseteq Pids
    /\ maps \in [DOMAIN maps -> Words]
    /\ mmu \in Words
    /\ lastGroup \in Pids
    /\ nextPid \in Nat
    /\ clock \in Nat
    /\ tty \in [input: Seq(Keys), m2s: Nat, fg_pgrp: Pids \cup {NoPid}]
    /\ net \in [readable: BOOLEAN, expired: BOOLEAN]
    /\ mode \in {"run", "paused", "halted", "deadlock", "fault"}
    /\ waits \subseteq {"terminal", "network"}

\* The tables are well typed, and while the machine runs the task on the CPU is
\* a live one (env.proc, which park_current leaves a placeholder).
TypeOK == TablesTyped /\ (mode = "run" => cur \in DOMAIN task)

\* A task is on the CPU or parked, and parked once: no call that parks, stops,
\* ends or kills tasks loses one from sched.parked or lists it a second time.
ParkedOnce ==
    /\ Range(queue) = DOMAIN task \ {cur}
    /\ Len(queue) = Cardinality(DOMAIN task \ {cur})

\* schedule_next always finds the address space of the task it chose: the
\* group of every parked task has its map in the MMU or in the table, and the
\* task on the CPU runs on its own group's map.
SpaceOfEveryTask ==
    /\ \A p \in DOMAIN task : task[p].tgid \in DOMAIN maps \cup {lastGroup}
    /\ mode = "run" => cur \in DOMAIN task /\ task[cur].tgid = lastGroup
    /\ mode # "fault"

\* The words of group g, wherever its map is.
WordsOf(g) == IF g = lastGroup THEN mmu ELSE maps[g]

Space == INSTANCE AddrSpace WITH
    Processes <- Pids, Root <- RootPid, None <- NoPid,
    mem <- [g \in {task[p].tgid : p \in DOMAIN task} |-> WordsOf(g)],
    on <- IF mode = "run" THEN task[cur].tgid ELSE NoPid

\* Moving one map between the MMU and the table, by whichever call switches
\* tasks, gives every process a memory of its own.
PrivateMemory == Space!Spec

-----------------------------------------------------------------------------
(* The life of processes *)

Live(g) == \E p \in DOMAIN task : task[p].tgid = g

\* While a vfork child has neither replaced its image nor exited, the parent
\* it borrows from is not on the CPU, also when a signal that it does not block
\* is pending (find_ready excepts VforkDone from the signals that wake).
VforkParentSuspended ==
    \A c \in DOMAIN task :
        task[c].vfork_done => ~(mode = "run" /\ cur = task[c].ppid)

\* A vfork parent is not left behind: as long as it is suspended, the child
\* that will fire the flag is alive and still carries it, or it has fired.
VforkParentReleasable ==
    \A p \in DOMAIN task :
        task[p].state.kind = "VforkDone" =>
            LET c == task[p].state.pid IN
            c \in released \/ (c \in DOMAIN task /\ task[c].vfork_done)


\* A child's death is announced: when a process becomes a zombie and its
\* parent has a SIGCHLD handler, a thread of the parent has the signal
\* pending or has entered the handler.  Excepted is a parent that itself kills
\* the child: notify_parent_sigchld signals parked tasks only.
SigchldAnnounced ==
    [][\A g \in Pids :
         LET parent == zombies'[Len(zombies')].ppid IN
         (Len(zombies') > Len(zombies) /\ g = parent /\ Live(g)'
            /\ sigactions'[g][SIGCHLD] \in Handled
            /\ ~(zombies'[Len(zombies')].status = SIGKILL /\ task[cur].tgid = g))
         => \E p \in DOMAIN task' :
                /\ task'[p].tgid = g
                /\ \/ SIGCHLD \in task'[p].pending
                   \/ p = cur' /\ Len(task'[p].saved) > Len(task[p].saved)]_kernelVars

-----------------------------------------------------------------------------
(* Waiting and waking *)

\* Clearing a thread's tid word and waking its joiners is one step: with
\* programs that only ever store non-zero words, nobody sleeps on a word
\* that has been cleared.
NoSleeperOnClearedWord ==
    \A p \in DOMAIN task :
        task[p].state.kind = "Futex" /\ ~task[p].state.woken
            => WordsOf(task[p].tgid)[task[p].state.addr] # 0

\* A wait that has come good is not turned into -EINTR by a signal that came
\* with it: the SIGCHLD of the child a wait4 waits for, above all.
SatisfiedWaitIsNotInterrupted ==
    [][\A p \in DOMAIN task \ {cur} :
         (/\ cur' = p /\ task[p].state.kind = "WaitChild"
          /\ \E z \in Range(zombies') : ChildMatches(z.ppid, z.pid, p, task[p].state.pid))
         => /\ task'[p].cpu.rax # "EINTR"
            /\ \/ task'[p].saved = task[p].saved
               \/ task'[p].saved[Len(task'[p].saved)].cpu.rax # "EINTR"]_kernelVars

\* No task resumes past the instruction it was to resume at: a wait that a
\* handler ended continues right after its system call (end_wait_with: "A parked
\* task's saved state points the CPU *at* the `syscall` instruction").
NeverAstray ==
    \A p \in DOMAIN task :
        /\ task[p].cpu.pc # "astray"
        /\ \A i \in DOMAIN task[p].saved : task[p].saved[i].cpu.pc # "astray"

\* The machine gives up only when nothing can happen any more: no task is
\* runnable, and no task that is not stopped waits for time or for the
\* terminal, nor for the network unless the host has said that nothing comes.
\* The host need not have said so of this stall: an expiry that found another
\* task runnable stays set (network_expired) until a later stall uses it up.
DeadlockIsReal ==
    [][mode # "deadlock" /\ mode' = "deadlock" =>
         \A p \in DOMAIN task' :
            /\ ~Runnable(Tables, DOMAIN task, task[p], clock)'
            /\ \/ task'[p].stopped
               \/ /\ task'[p].state.deadline = Never
                  /\ "tty" \notin task'[p].state.on
                  /\ "net" \in task'[p].state.on => net.expired]_kernelVars

\* A pause is explained: whenever the machine stops for the host it says what
\* for (terminal_input_wait, network_wait), or the host's loop takes the pause
\* for the end.
PauseIsExplained == mode = "paused" => waits # {}

\* A socket is waited on when the clock is warped, by a task that stays parked,
\* by the one the warp wakes, or by the caller of a timed wait.
NetWaitAtWarp ==
    \/ \E p \in DOMAIN task \cap DOMAIN task' : p # cur /\ "net" \in task[p].state.on
    \/ \E p \in DOMAIN task' : "net" \in task'[p].state.on
    \/ \E c \in Calls : c.op = "sleep" /\ "net" \in c.on /\ SysTimedWait(c)

\* Time does not jump over a network wait before the host had its turn: each
\* warp of the clock with a socket waited on uses up an expiry that the host
\* gave while the machine was paused for the network.
HostHasItsTurn ==
    [][clock' > clock /\ ~Tick /\ NetWaitAtWarp => net.expired /\ ~net'.expired]_kernelVars

-----------------------------------------------------------------------------
(* Signals and job control *)

\* A stop takes the whole thread group off the CPU until it is continued:
\* the threads of a group agree on being stopped, and the task that runs is
\* not in a stopped group.
StopIsGroupWide ==
    \A p, q \in DOMAIN task :
        task[p].tgid = task[q].tgid =>
            /\ task[p].stopped = task[q].stopped
            /\ ~(mode = "run" /\ p = cur /\ task[q].stopped)

-----------------------------------------------------------------------------
(***************************************************************************)
(* Progress. The scheduler is cooperative, so the guests are assumed to    *)
(* give up the CPU sooner or later (they yield) and to execute the system  *)
(* call they are resumed at. The clock counts instructions, so it moves as *)
(* long as some task keeps coming back to its own code. The host           *)
(* expires a network wait in which nothing came and runs the machine again *)
(* after a pause it was asked to end.                                      *)
(***************************************************************************)
Reissues == task[cur].cpu.pc = "syscall" /\ SysCall(task[cur].cpu.call)
GivesUp == \E c \in Calls : SysYield(c) \/ KernelEntry(c)

Fairness ==
    /\ WF_kernelVars(mode = "run" /\ Reissues)
    /\ WF_kernelVars(GivesUp)
    /\ SF_kernelVars(Tick)
    /\ WF_kernelVars(Resume)
    /\ WF_kernelVars(HostExpiresNetworkWait)

FairSpec == Spec /\ Fairness

\* Nobody starves: a runnable task is put on the CPU, unless it stops being
\* runnable (another thread took what it waited for, it was stopped or
\* killed) or the machine ends.
RunnableRuns ==
    \A p \in Pids :
        (p \in DOMAIN task \ {cur} /\ Runnable(Tables, DOMAIN task \ {cur}, task[p], clock))
        ~> (\/ cur = p \/ p \notin DOMAIN task
            \/ mode = "halted"
            \/ ~Runnable(Tables, DOMAIN task \ {cur}, task[p], clock))

\* A timed wait ends: a task that waits with a deadline comes back to the
\* CPU, unless it is stopped, killed or the machine ends.
TimedWaitEnds ==
    \A p \in Pids :
        (p \in DOMAIN task /\ task[p].state.deadline # Never)
        ~> (\/ cur = p \/ p \notin DOMAIN task
            \/ mode = "halted" \/ task[p].stopped)
=============================================================================
