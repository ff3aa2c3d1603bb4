---------------------------- MODULE KernelProofs ----------------------------
(***************************************************************************)
(* Type correctness of the kernel, and that no task is ever left without   *)
(* an address space. Every system call and every step of the host is shown *)
(* to preserve the invariant Inv of KernelSchedProofs, one lemma for each  *)
(* action of Next.                                                         *)
(***************************************************************************)
EXTENDS KernelSchedProofs

-----------------------------------------------------------------------------
\* What a handler may assume of the tables it computes on.
Good(k) == TablesOK(k) /\ OnCpu(k)

\* Kindred tables are good together.
LEMMA KinGood ==
    ASSUME NEW k, NEW q, Good(k), TablesOK(q), Kin(k, q)
    PROVE  Good(q)
BY KinOnCpu DEF Good

\* The task on the CPU is a task.
LEMMA GoodTask ==
    ASSUME NEW k, Good(k)
    PROVE  /\ cur \in DOMAIN k.task /\ cur \in Pids /\ k.task[cur] \in Tasks
           /\ Acts(k, cur) \in [Signals -> Dispositions]
BY TaskOf, ActsOf DEF Good, OnCpu

\* Exchanging one task for a mate keeps tables good.
LEMMA GoodSetTask ==
    ASSUME NEW k, Good(k), NEW p \in DOMAIN k.task, NEW t, Mate(k.task[p], t)
    PROVE  Good(SetTask(k, p, t)) /\ SetTask(k, p, t).task[p] = t
BY SetTaskOK, KinGood DEF Good

\* The tables a system call starts from are good.
LEMMA EnteredOK ==
    ASSUME Inv, mode = "run", nextPid' \in Nat, nextPid' >= nextPid
    PROVE  Good(Tables) /\ Good(Entered) /\ DOMAIN Entered.task = DOMAIN task
<1>1. Good(Tables)
  BY TablesFacts DEF Good
<1>2. TablesOK(Entered) /\ Kin(Tables, Entered)
  BY <1>1, ScannedOK DEF Good, Entered
<1>3. DOMAIN Entered.task = DOMAIN task
  BY <1>2 DEF Kin, Tables
<1> QED BY <1>1, <1>2, <1>3, KinGood

\* Going on with good tables re-establishes the invariant.
LEMMA GoodContinue ==
    ASSUME NEW k, Good(k), Inv, mode = "run", nextPid' \in Nat, Continue(k)
    PROVE  Inv'
BY ContinueOK DEF Good

\* Returning with good tables re-establishes the invariant.
LEMMA GoodReturn ==
    ASSUME NEW k, Good(k), Inv, mode = "run", nextPid' \in Nat, Return(k)
    PROVE  Inv'
BY ReturnOK DEF Good

\* Parking the caller and scheduling re-establishes the invariant.
LEMMA BlockOK ==
    ASSUME NEW k, Good(k), Inv, nextPid' \in Nat, NEW st \in ParkStates, NEW c \in Contexts,
           Reschedule(Park(k, cur, st, c))
    PROVE  Inv'
<1>1. TablesOK(Park(k, cur, st, c))
  BY ParkOK DEF Good, OnCpu
<1> QED BY <1>1, RescheduleOK

\* task_exit re-establishes the invariant.
LEMMA TaskExitOK ==
    ASSUME NEW k, Good(k), Inv, nextPid' \in Nat, NEW status \in Statuses, NEW group,
           TaskExit(k, status, group)
    PROVE  Inv'
<1>1. ASSUME NEW written, Reschedule(ExitedTables(k, status, group, written)) PROVE Inv'
  <2>1. TablesOK(ExitedTables(k, status, group, written))
    BY ExitedTablesOK DEF Good
  <2> QED BY <1>1, <2>1, RescheduleOK
<1>2. ASSUME NEW written, NEW S, UNCHANGED <<clock, net>>,
             Idle(Drop(ClearedTid(Released(k), written), S), "halted", {})
      PROVE  Inv'
  <2>2. TablesOK(Drop(ClearedTid(Released(k), written), S))
    BY ReleasedOK, ClearedTidOK, DropOK DEF Good
  <2>3. HostSideOK
    BY <1>2 DEF HostSideOK, Inv, TablesTyped
  <2>4. {} \subseteq {"terminal", "network"}
    OBVIOUS
  <2> QED BY <1>2, <2>2, <2>3, <2>4, IdleOK
<1> QED BY <1>1, <1>2 DEF TaskExit

\* stop_thread_group re-establishes the invariant.
LEMMA StopThreadGroupOK ==
    ASSUME NEW k, Good(k), Inv, nextPid' \in Nat, NEW s \in Signals, NEW c \in Contexts,
           StopThreadGroup(k, s, c)
    PROVE  Inv'
<1>1. Good(StoppedTables(k, s))
  BY StoppedTablesOK, KinGood DEF Good
<1>2. Ready \in ParkStates
  BY ParkStateFacts
<1> QED BY <1>1, <1>2, BlockOK DEF StopThreadGroup

\* Carrying out a default action re-establishes the invariant.
LEMMA DefaultActionOK ==
    ASSUME NEW k, Good(k), Inv, nextPid' \in Nat, NEW s \in Signals, NEW c \in Contexts,
           DefaultAction(k, s, c)
    PROVE  Inv'
<1>1. Good(Consumed(k, s))
  BY ConsumedOK DEF Good
<1>2. s \in Statuses
  BY DEF Statuses
<1> QED BY <1>1, <1>2, TaskExitOK, StopThreadGroupOK DEF DefaultAction

\* The signal that decides is a signal.
LEMMA FatalFacts ==
    ASSUME NEW k, Good(k)
    PROVE  Fatal(k) \subseteq Signals
BY GoodTask DEF Fatal, Lowest, Effective, Deliverable, Tasks

-----------------------------------------------------------------------------
\* What holds when a task issues a call.
LEMMA IssuesFacts ==
    ASSUME Inv, NEW c, Issues(c), nextPid' \in Nat, nextPid' >= nextPid
    PROVE  mode = "run" /\ c \in Calls /\ Good(Tables) /\ Good(Entered)
BY EnteredOK DEF Issues

\* A step that hands out no id keeps the id counter in range.
LEMMA SameNextPid ==
    ASSUME Inv, UNCHANGED nextPid
    PROVE  nextPid' \in Nat /\ nextPid' >= nextPid
BY DEF Inv, TablesTyped

\* A kernel entry that kills or stops the task preserves the invariant.
LEMMA KernelEntryOK ==
    ASSUME Inv, NEW c, KernelEntry(c)
    PROVE  Inv'
<1>1. nextPid' \in Nat /\ nextPid' >= nextPid /\ Issues(c)
  BY SameNextPid DEF KernelEntry
<1>2. Good(Tables) /\ Reissue(c) \in Contexts
  BY <1>1, IssuesFacts, ContextFacts
<1>3. PICK s \in Signals : DefaultAction(Tables, s, Reissue(c))
  BY <1>2, FatalFacts DEF KernelEntry
<1> QED BY <1>1, <1>2, <1>3, DefaultActionOK

\* rt_sigaction preserves the invariant.
LEMMA SysRtSigactionOK ==
    ASSUME Inv, NEW c, SysRtSigaction(c)
    PROVE  Inv'
<1> DEFINE g == task[cur].tgid
           acts == [Entered.sigactions EXCEPT ![g][c.sig] = c.act]
           q == [Entered EXCEPT !.sigactions = acts]
<1>1. nextPid' \in Nat /\ nextPid' >= nextPid /\ Issues(c) /\ c.op = "sigaction"
  BY SameNextPid DEF SysRtSigaction, Enters
<1>2. Good(Tables) /\ Good(Entered) /\ mode = "run" /\ c \in Calls
  BY <1>1, IssuesFacts
<1>3. c.sig \in Signals /\ c.act \in Dispositions
  BY <1>1, <1>2, ConstantsAssumption DEF CallSet
<1>4. g \in Pids
  BY <1>2, GoodTask DEF Tables, Tasks
<1>5. acts \in [Pids -> [Signals -> Dispositions]]
  <2>1. Entered.sigactions \in [Pids -> [Signals -> Dispositions]]
    BY <1>2 DEF Good, TablesOK, IsTables
  <2> QED BY <1>3, <1>4, <2>1
<1>6. \/ Return(Entered)
      \/ Return(q)
  BY DEF SysRtSigaction
<1> HIDE DEF acts
<1>7. Good(q)
  <2>1. \A k : Good(k) => Good([k EXCEPT !.sigactions = acts])
    BY <1>5 DEF Good, TablesOK, OnCpu, IsTables
  <2> QED BY <1>2, <2>1
<1> HIDE DEF q
<1> QED BY <1>1, <1>2, <1>6, <1>7, GoodReturn

\* rt_sigprocmask preserves the invariant.
LEMMA SysRtSigprocmaskOK ==
    ASSUME Inv, NEW c, SysRtSigprocmask(c)
    PROVE  Inv'
<1> DEFINE t == Entered.task[cur]
           mask == CASE c.how = "block" -> t.sigmask \cup c.set
                     [] c.how = "unblock" -> t.sigmask \ c.set
                     [] c.how = "set" -> c.set
           u == [t EXCEPT !.sigmask = mask, !.cpu = UserAt("ret")]
           k == SetTask(Entered, cur, u)
           d == DeliverSignal(k.task[cur], Acts(k, cur))
<1>1. nextPid' \in Nat /\ nextPid' >= nextPid /\ Issues(c) /\ c.op = "sigprocmask"
  BY SameNextPid DEF SysRtSigprocmask, Enters
<1>2. Good(Entered) /\ mode = "run" /\ c \in Calls
  BY <1>1, IssuesFacts
<1>3. UserAt("ret") \in Contexts
  BY ContextFacts
<1>4. t \in Tasks /\ cur \in DOMAIN Entered.task
  BY <1>2, GoodTask
<1>5. c.how \in {"block", "unblock", "set"} /\ c.set \in SUBSET Signals
  BY <1>1, <1>2, ConstantsAssumption DEF CallSet
<1>6. mask \in SUBSET Signals
  <2>1. t.sigmask \in SUBSET Signals
    BY <1>4 DEF Tasks
  <2> HIDE DEF t
  <2> QED BY <1>5, <2>1
<1>7. \/ \E s \in Fatal(k) : DefaultAction(k, s, UserAt("ret"))
      \/ Continue(SetTask(k, cur, d))
  BY DEF SysRtSigprocmask
<1> HIDE DEF mask
<1>8. Mate(t, u)
  <2> HIDE DEF t
  <2> QED BY <1>3, <1>4, <1>6, MaskMate
<1> HIDE DEF u
<1>9. Good(k)
  BY <1>2, <1>4, <1>8, GoodSetTask
<1> HIDE DEF k
<1>10. Good(SetTask(k, cur, d))
  <2>1. cur \in DOMAIN k.task /\ k.task[cur] \in Tasks
    BY <1>9, GoodTask
  <2>2. Mate(k.task[cur], d)
    BY <2>1, DeliverSignalMate
  <2> QED BY <1>9, <2>1, <2>2, GoodSetTask
<1>11. CASE \E s \in Fatal(k) : DefaultAction(k, s, UserAt("ret"))
  BY <1>1, <1>3, <1>9, <1>11, FatalFacts, DefaultActionOK
<1>12. CASE Continue(SetTask(k, cur, d))
  BY <1>1, <1>2, <1>10, <1>12, GoodContinue
<1> QED BY <1>7, <1>11, <1>12

\* rt_sigreturn preserves the invariant.
LEMMA SysRtSigreturnOK ==
    ASSUME Inv, NEW c, SysRtSigreturn(c)
    PROVE  Inv'
<1> DEFINE t == Entered.task[cur]
           frame == t.saved[Len(t.saved)]
           u == [t EXCEPT !.saved = SubSeq(@, 1, Len(@) - 1)]
           back == [u EXCEPT !.cpu = frame.cpu, !.sigmask = frame.mask]
           d == DeliverSignal(back, Acts(Entered, cur))
<1>1. nextPid' \in Nat /\ nextPid' >= nextPid /\ Issues(c)
  BY SameNextPid DEF SysRtSigreturn, Enters
<1>2. Good(Entered) /\ mode = "run"
  BY <1>1, IssuesFacts
<1>3. t \in Tasks /\ cur \in DOMAIN Entered.task
  BY <1>2, GoodTask
<1>4. \/ t.saved # <<>> /\ Continue(SetTask(Entered, cur, d))
      \/ Return(Entered)
  BY DEF SysRtSigreturn
<1>5. CASE t.saved # <<>> /\ Continue(SetTask(Entered, cur, d))
  <2> HIDE DEF t
  <2>1. t.saved \in Seq(Frames) /\ Len(t.saved) \in Nat \ {0}
    BY <1>3, <1>5 DEF Tasks
  <2>2. frame \in Frames
    BY <2>1
  <2>3. SubSeq(t.saved, 1, Len(t.saved) - 1) \in Seq(Frames)
    BY <2>1
  <2>4. Mate(t, u)
    BY <1>3, <2>3, FrameMate
  <2> HIDE DEF frame, u
  <2>5. Mate(u, back)
    BY <2>2, <2>4, ContextMate DEF Frames, Mate
  <2> HIDE DEF back
  <2>6. Mate(back, d)
    BY <2>5, DeliverSignalMate DEF Mate
  <2>7. Mate(t, d)
    BY <2>4, <2>5, <2>6 DEF Mate
  <2>8. Good(SetTask(Entered, cur, d))
    <3> HIDE DEF d
    <3> QED BY <1>2, <1>3, <2>7, GoodSetTask DEF t
  <2> QED BY <1>1, <1>2, <1>5, <2>8, GoodContinue
<1>6. CASE Return(Entered)
  BY <1>1, <1>2, <1>6, GoodReturn
<1> QED BY <1>4, <1>5, <1>6

-----------------------------------------------------------------------------
\* Marking a signal pending keeps tables good.
LEMMA GoodRaise ==
    ASSUME NEW k, Good(k), NEW S, NEW s \in Signals
    PROVE  Good(Raise(k, S, s))
BY RaiseOK, KinGood DEF Good

\* Setting one saved CPU keeps tables good.
LEMMA GoodSetCpu ==
    ASSUME NEW k, Good(k), NEW c \in Contexts
    PROVE  Good(SetCpu(k, cur, c))
BY SetCpuOK, KinGood, GoodTask DEF Good

\* The arguments of a kill call are in range.
LEMMA KillCall ==
    ASSUME NEW c \in Calls, c.op = "kill"
    PROVE  c.sig \in Signals \cup {NoSig}
BY ConstantsAssumption DEF CallSet

\* kill with signal 0 preserves the invariant.
LEMMA KillProbeOK ==
    ASSUME Inv, NEW c, KillProbe(c)
    PROVE  Inv'
<1>1. nextPid' \in Nat /\ nextPid' >= nextPid /\ Issues(c)
  BY SameNextPid DEF KillProbe, Enters
<1> QED BY <1>1, IssuesFacts, GoodReturn DEF KillProbe

\* kill to oneself preserves the invariant.
LEMMA KillSelfOK ==
    ASSUME Inv, NEW c, KillSelf(c)
    PROVE  Inv'
<1> DEFINE k == SetCpu(Entered, cur, UserAt("ret"))
           raised == Raise(k, {cur}, c.sig)
           d == DeliverSignal(raised.task[cur], Acts(k, cur))
<1>1. nextPid' \in Nat /\ nextPid' >= nextPid /\ Issues(c) /\ c.op = "kill" /\ c.sig # NoSig
  BY SameNextPid DEF KillSelf, Enters
<1>2. Good(Entered) /\ mode = "run" /\ c \in Calls /\ UserAt("ret") \in Contexts
  BY <1>1, IssuesFacts, ContextFacts
<1>3. c.sig \in Signals /\ c.sig \in Statuses
  BY <1>1, <1>2, KillCall DEF Statuses
<1>4. \/ Continue(raised)
      \/ Continue(SetTask(k, cur, d))
      \/ TaskExit(k, c.sig, TRUE)
      \/ StopThreadGroup(k, c.sig, UserAt("ret"))
      \/ Continue(k)
  BY DEF KillSelf
<1>5. Good(k)
  BY <1>2, GoodSetCpu
<1> HIDE DEF k
<1>6. Good(raised) /\ Kin(k, raised)
  BY <1>3, <1>5, GoodRaise, RaiseOK DEF Good
<1> HIDE DEF raised
<1>7. Mate(raised.task[cur], d)
  BY <1>6, GoodTask, DeliverSignalMate
<1>8. Mate(k.task[cur], d)
  BY <1>5, <1>6, <1>7, GoodTask DEF Kin, Mate
<1> HIDE DEF d
<1>9. Good(SetTask(k, cur, d))
  BY <1>5, <1>8, GoodTask, GoodSetTask
<1> QED BY <1>1, <1>2, <1>3, <1>4, <1>5, <1>6, <1>9,
           GoodContinue, TaskExitOK, StopThreadGroupOK

\* SIGCONT keeps the tables good.
LEMMA LiftedOK ==
    ASSUME NEW k, Good(k), NEW S
    PROVE  Good(Lifted(k, S))
<1> DEFINE f == [p \in DOMAIN k.task |-> IF p \in S THEN Continued(k.task[p]) ELSE k.task[p]]
<1>1. \A p \in DOMAIN k.task : Mate(k.task[p], Continued(k.task[p])) /\ Mate(k.task[p], k.task[p])
  BY TaskOf, StopMate DEF Good, Mate
<1>2. /\ f \in [DOMAIN f -> Tasks] /\ DOMAIN f = DOMAIN k.task
      /\ \A p \in DOMAIN k.task : Mate(k.task[p], f[p])
  BY <1>1 DEF Mate
<1>3. Lifted(k, S) = [k EXCEPT !.task = f]
  BY DEF Lifted
<1> HIDE DEF f
<1> QED BY <1>2, <1>3, Retask, KinGood DEF Good

\* kill with a job-control signal preserves the invariant.
LEMMA KillJobControlOK ==
    ASSUME Inv, NEW c, KillJobControl(c)
    PROVE  Inv'
<1> DEFINE k == Entered
           hit == JobTargets(k, c)
<1>1. nextPid' \in Nat /\ nextPid' >= nextPid /\ Issues(c) /\ c.op = "kill"
  BY SameNextPid DEF KillJobControl, Enters
<1>2. Good(k) /\ mode = "run" /\ c \in Calls
  BY <1>1, IssuesFacts
<1>3. CASE Return(Lifted(k, hit))
  BY <1>1, <1>2, <1>3, LiftedOK, GoodReturn
<1>4. CASE c.sig \in StopSignals /\ Return(Raise(k, hit, c.sig))
  <2>1. c.sig \in Signals
    BY <1>1, <1>2, <1>4, KillCall DEF StopSignals, NoSig, SIGSTOP, SIGTTOU
  <2>2. Good(Raise(k, hit, c.sig))
    BY <1>2, <2>1, GoodRaise
  <2> QED BY <1>1, <1>2, <1>4, <2>2, GoodReturn
<1> QED BY <1>3, <1>4 DEF KillJobControl

\* kill with another signal preserves the invariant.
LEMMA KillSignalOK ==
    ASSUME Inv, NEW c, KillSignal(c)
    PROVE  Inv'
<1> DEFINE k == Entered
           hit == UNION {SignalProcess(k, g, c.sig) : g \in Victims(k, c)}
<1>1. nextPid' \in Nat /\ nextPid' >= nextPid /\ Issues(c) /\ c.op = "kill" /\ c.sig # NoSig
  BY SameNextPid DEF KillSignal, Enters
<1>2. Good(k) /\ mode = "run" /\ c \in Calls
  BY <1>1, IssuesFacts
<1>3. Return(k) \/ Return(Raise(k, hit, c.sig))
  BY DEF KillSignal
<1> HIDE DEF k, hit
<1>4. Good(Raise(k, hit, c.sig))
  BY <1>1, <1>2, KillCall, GoodRaise
<1> QED BY <1>1, <1>2, <1>3, <1>4, GoodReturn

\* The tables with some processes unlisted: their zombies added, their maps
\* and their suspended parents let go.
Unhoused(k, r, z, g) == [k EXCEPT !.released = r, !.zombies = z, !.maps = g]

\* Tables whose killed groups lost their maps are tables.
LEMMA UnhousedOK ==
    ASSUME NEW k, IsTables(k), NEW r \in SUBSET Pids, NEW z \in Seq(Zombies), NEW g \in MapTables
    PROVE  /\ IsTables(Unhoused(k, r, z, g))
           /\ Unhoused(k, r, z, g).task = k.task
           /\ Unhoused(k, r, z, g).maps = g
<1> DEFINE h == [k EXCEPT !.released = r]
           i == [h EXCEPT !.zombies = z]
<1>1. IsTables(h) /\ h.task = k.task
  BY DEF IsTables
<1> HIDE DEF h
<1>2. IsTables(i) /\ i.task = k.task
  <2>1. ASSUME NEW q, IsTables(q)
        PROVE  IsTables([q EXCEPT !.zombies = z]) /\ [q EXCEPT !.zombies = z].task = q.task
    BY <2>1 DEF IsTables
  <2> QED BY <1>1, <2>1
<1> HIDE DEF i
<1>3. LET q == [i EXCEPT !.maps = g] IN IsTables(q) /\ q.task = k.task /\ q.maps = g
  BY <1>2, WithMaps
<1> QED BY <1>3 DEF h, i, Unhoused

\* The zombies of a SIGKILL are a list of zombies.
LEMMA ZombiesOfFacts ==
    ASSUME NEW k, Good(k), NEW L, L \subseteq DOMAIN k.task, NEW dead \in ZombiesOf(k, L)
    PROVE  dead \in Seq(Zombies)
<1> DEFINE Z == {[pid |-> p, ppid |-> k.task[p].ppid, status |-> SIGKILL] : p \in L}
<1>1. L \subseteq RootPid..MaxPid /\ RootPid \in Int /\ MaxPid \in Int
  BY TaskOf, ConstantsAssumption DEF Good, Pids, RootPid
<1>3. Cardinality(L) \in Nat
  BY <1>1, CountingFacts
<1>4. Z \subseteq Zombies
  BY TaskOf, KernelSignalFacts DEF Good, Zombies, Tasks, Statuses
<1>5. dead \in [1..Cardinality(L) -> Z]
  BY DEF ZombiesOf
<1> HIDE DEF Z
<1>6. dead \in [1..Cardinality(L) -> Zombies]
  BY <1>4, <1>5
<1> QED BY <1>3, <1>6

\* SIGKILL takes the victims' tasks and their maps together, so the tables
\* stay good.
LEMMA KilledTablesOK ==
    ASSUME NEW k, Good(k), NEW V, NEW dead \in Seq(Zombies)
    PROVE  Good(KilledTables(k, V, dead))
<1> DEFINE gone == Gone(k, V)
           r == k.released \cup {p \in gone : k.task[p].vfork_done}
           z == k.zombies \o dead
           h == {k.task[p].tgid : p \in gone}
           g == [x \in DOMAIN k.maps \ h |-> k.maps[x]]
           q == Unhoused(k, r, z, g)
           left == Drop(q, gone)
           f == [p \in DOMAIN k.task \ gone |-> k.task[p]]
           s == SelectSeq(q.queue, LAMBDA p : p \notin gone)
<1>1. gone \subseteq DOMAIN k.task \ {cur}
  BY DEF Gone, Parked
<1>2. r \in SUBSET Pids
  <2>1. gone \subseteq Pids
    BY <1>1, TaskOf DEF Good
  <2> QED BY <2>1 DEF Good, TablesOK, IsTables
<1>3. z \in Seq(Zombies)
  BY DEF Good, TablesOK, IsTables
<1>4. g \in MapTables /\ DOMAIN g = DOMAIN k.maps \ h
  <2>1. DOMAIN k.maps \subseteq Pids /\ k.maps \in [DOMAIN k.maps -> Words]
    BY MapTableFacts DEF Good, TablesOK, IsTables
  <2>2. DOMAIN k.maps \ h \subseteq Pids /\ g \in [DOMAIN k.maps \ h -> Words]
    BY <2>1
  <2> HIDE DEF g
  <2> QED BY <2>2, MapTableIntro
<1>5. KilledTables(k, V, dead) =
        LET told == UNION {SignalTarget(left, GroupOf(left, x) \cap Parked(left), x, SIGCHLD) :
                        x \in {y \in {k.task[p].ppid : p \in gone \cap V} \cap Pids :
                                 k.sigactions[y][SIGCHLD] \in Handled}}
        IN  Raise(left, told, SIGCHLD)
  BY DEF KilledTables, Unhoused
<1> HIDE DEF r, z, g
<1>6. IsTables(q) /\ q.task = k.task /\ q.maps = g
  BY <1>2, <1>3, <1>4, UnhousedOK DEF Good, TablesOK
<1> HIDE DEF q
<1>7. f \in TaskTables /\ DOMAIN f = DOMAIN k.task \ gone
  <2>1. DOMAIN k.task \ gone \subseteq Pids /\ f \in [DOMAIN k.task \ gone -> Tasks]
    BY TaskOf DEF Good
  <2> HIDE DEF f
  <2> QED BY <2>1, TaskTableIntro
<1>8. left = Relisted(q, f, s)
  BY <1>6 DEF Drop, Relisted
<1>9. \A p \in DOMAIN k.task \ gone : f[p] = k.task[p]
  OBVIOUS
<1> HIDE DEF left, f, s
<1>10. IsTables(left) /\ left.task = f /\ left.maps = g
  BY <1>6, <1>7, <1>8, RelistedOK
<1>11. \A p \in DOMAIN f : f[p].tgid \in DOMAIN g \cup {lastGroup}
  <2> SUFFICES ASSUME NEW p \in DOMAIN k.task \ gone
               PROVE  k.task[p].tgid \in DOMAIN g \cup {lastGroup}
    BY <1>7, <1>9
  <2>1. CASE p = cur
    BY <2>1 DEF Good, OnCpu
  <2>2. CASE p # cur
    <3>1. k.task[p].tgid \notin V
      BY <2>2 DEF Gone, Parked
    <3>2. h \subseteq V
      BY DEF Gone
    <3> QED BY <1>4, <3>1, <3>2 DEF Good, TablesOK
  <2> QED BY <2>1, <2>2
<1>12. Good(left)
  <2>1. cur \in DOMAIN f /\ f[cur].tgid = lastGroup
    BY <1>1, <1>7, <1>9 DEF Good, OnCpu
  <2>2. \A p \in DOMAIN f : p < nextPid'
    BY <1>7 DEF Good, TablesOK
  <2> QED BY <1>10, <1>11, <2>1, <2>2 DEF Good, OnCpu, TablesOK
<1> QED BY <1>5, <1>12, GoodRaise, KernelSignalFacts

\* kill with SIGKILL preserves the invariant.
LEMMA KillKillOK ==
    ASSUME Inv, NEW c, KillKill(c)
    PROVE  Inv'
<1> DEFINE k == Entered
           V == IF c.target = -1 THEN {} ELSE Victims(k, c)
<1>1. nextPid' \in Nat /\ nextPid' >= nextPid /\ Issues(c)
  BY SameNextPid DEF KillKill, Enters
<1>2. Good(k) /\ mode = "run"
  BY <1>1, IssuesFacts
<1>3. PICK dead \in ZombiesOf(k, V \cap Gone(k, V)) : Return(KilledTables(k, V, dead))
  BY DEF KillKill
<1> HIDE DEF k, V
<1>4. V \cap Gone(k, V) \subseteq DOMAIN k.task
  BY DEF Gone, Parked
<1>5. Good(KilledTables(k, V, dead))
  BY <1>2, <1>3, <1>4, ZombiesOfFacts, KilledTablesOK
<1> QED BY <1>1, <1>2, <1>3, <1>5, GoodReturn

\* kill preserves the invariant.
LEMMA SysKillOK ==
    ASSUME Inv, NEW c, SysKill(c)
    PROVE  Inv'
BY KillProbeOK, KillSelfOK, KillJobControlOK, KillSignalOK, KillKillOK DEF SysKill

-----------------------------------------------------------------------------
\* clone, fork and vfork preserve the invariant.
LEMMA SysCloneOK ==
    ASSUME Inv, NEW c, SysClone(c)
    PROVE  Inv'
<1> DEFINE k == CloneTables(Entered, c)
<1>1. /\ nextPid' = nextPid + 1 /\ nextPid' \in Nat /\ nextPid' >= nextPid
      /\ Issues(c) /\ c.op = "clone" /\ nextPid \in Pids
  BY DEF SysClone, Enters, Issues, WithinPids, Inv, TablesTyped
<1>2. /\ Good(Entered) /\ mode = "run" /\ c \in Calls
      /\ DOMAIN Entered.task = DOMAIN task
  BY <1>1, IssuesFacts, EnteredOK
<1>3. nextPid \notin DOMAIN Entered.task
  BY <1>2 DEF Inv, TablesTyped, PidsIssued
<1>4. Good(k)
  BY <1>1, <1>2, <1>3, CloneTablesOK DEF Good
<1>5. VforkDone(nextPid) \in ParkStates /\ UserAt("ret") \in Contexts
  BY <1>1, ParkStateFacts, ContextFacts
<1>6. \/ Return(k)
      \/ Reschedule(Park(k, cur, VforkDone(nextPid), UserAt("ret")))
      \/ Return(Entered)
      \/ Continue(SetCpu(Entered, cur, Reissue(c)))
  BY DEF SysClone, PidWasted
<1>7. Good(SetCpu(Entered, cur, Reissue(c)))
  BY <1>2, ContextFacts, GoodSetCpu
<1> HIDE DEF k
<1> QED BY <1>1, <1>2, <1>4, <1>5, <1>6, <1>7, GoodReturn, GoodContinue, BlockOK

\* The tables with dispositions a and image m.
Reset(k, a, m) == [k EXCEPT !.sigactions = a, !.mmu = m]

\* Tables with other dispositions and an empty image are tables.
LEMMA ResetOK ==
    ASSUME NEW k, TablesOK(k), NEW a \in [Pids -> [Signals -> Dispositions]], NEW m \in Words
    PROVE  TablesOK(Reset(k, a, m)) /\ Reset(k, a, m).task = k.task
<1> DEFINE h == [k EXCEPT !.sigactions = a]
<1>1. TablesOK(h) /\ h.task = k.task
  BY DEF TablesOK, IsTables
<1> HIDE DEF h
<1>2. ASSUME NEW q, TablesOK(q)
      PROVE  TablesOK([q EXCEPT !.mmu = m]) /\ [q EXCEPT !.mmu = m].task = q.task
  BY <1>2 DEF TablesOK, IsTables
<1>3. TablesOK([h EXCEPT !.mmu = m]) /\ [h EXCEPT !.mmu = m].task = k.task
  BY <1>1, <1>2
<1> QED BY <1>3 DEF h, Reset

\* Replacing the image keeps the tables good.
LEMMA ExecTablesOK ==
    ASSUME NEW k, Good(k)
    PROVE  Good(ExecTables(k))
<1> DEFINE g == k.task[cur].tgid
           r == Released(k)
           a == [r.sigactions EXCEPT ![g] = [s \in Signals |-> "dfl"]]
           m == [x \in Addrs |-> 0]
           q == Reset(r, a, m)
           t == [k.task[cur] EXCEPT !.vfork_done = FALSE]
<1>1. TablesOK(r) /\ r.task = k.task
  BY ReleasedOK DEF Good, r
<1>2. ExecTables(k) = SetTask(q, cur, t)
  BY DEF ExecTables, Reset
<1> HIDE DEF r
<1>3. g \in Pids
  BY GoodTask DEF Tasks
<1>4. a \in [Pids -> [Signals -> Dispositions]]
  <2>1. r.sigactions \in [Pids -> [Signals -> Dispositions]]
    BY <1>1 DEF TablesOK, IsTables
  <2>2. [s \in Signals |-> "dfl"] \in [Signals -> Dispositions]
    BY DEF Dispositions
  <2> QED BY <1>3, <2>1, <2>2
<1>5. m \in Words
  BY ConstantsAssumption DEF Words
<1> HIDE DEF a, m
<1>6. TablesOK(q) /\ q.task = k.task
  BY <1>1, <1>4, <1>5, ResetOK
<1> HIDE DEF q
<1>7. Good(q)
  BY <1>6 DEF Good, OnCpu
<1>8. Mate(k.task[cur], t)
  BY GoodTask, FlagMate
<1> QED BY <1>2, <1>6, <1>7, <1>8, GoodTask, GoodSetTask

\* execve preserves the invariant.
LEMMA SysExecveOK ==
    ASSUME Inv, NEW c, SysExecve(c)
    PROVE  Inv'
<1>1. nextPid' \in Nat /\ nextPid' >= nextPid /\ Issues(c)
  BY SameNextPid DEF SysExecve, Enters
<1>2. Good(Entered) /\ mode = "run"
  BY <1>1, IssuesFacts
<1>3. Good(ExecTables(Entered)) /\ 127 \in Statuses
  BY <1>2, ExecTablesOK DEF Statuses
<1> QED BY <1>1, <1>2, <1>3, GoodReturn, TaskExitOK DEF SysExecve

\* exit and exit_group preserve the invariant.
LEMMA SysExitOK ==
    ASSUME Inv, NEW c, SysExit(c)
    PROVE  Inv'
<1>1. nextPid' \in Nat /\ nextPid' >= nextPid /\ Issues(c)
  BY SameNextPid DEF SysExit, Enters
<1>2. Good(Entered) /\ 0 \in Statuses
  BY <1>1, IssuesFacts DEF Statuses
<1> QED BY <1>1, <1>2, TaskExitOK DEF SysExit

\* block_and_switch re-establishes the invariant.
LEMMA BlockAndSwitchOK ==
    ASSUME NEW k, Good(k), Inv, NEW st \in ParkStates, NEW c \in Contexts,
           BlockAndSwitch(k, st, c)
    PROVE  Inv'
BY SameNextPid, BlockOK DEF BlockAndSwitch

\* Copying a result out, or suspending on a cold page, re-establishes the
\* invariant.
LEMMA CopyOutOK ==
    ASSUME NEW k, Good(k), Inv, mode = "run", nextPid' \in Nat, NEW c \in Calls, CopyOut(k, c)
    PROVE  Inv'
<1>1. Good(SetCpu(k, cur, Reissue(c)))
  BY ContextFacts, GoodSetCpu
<1> QED BY <1>1, GoodReturn, GoodContinue DEF CopyOut

\* wait4 preserves the invariant.
LEMMA SysWait4OK ==
    ASSUME Inv, NEW c, SysWait4(c)
    PROVE  Inv'
<1> DEFINE k == Entered
<1>1. UNCHANGED nextPid /\ Issues(c) /\ c.op = "wait4"
  BY DEF SysWait4, Enters, BlockAndSwitch
<1>2. nextPid' \in Nat /\ Good(k) /\ mode = "run" /\ c \in Calls
  BY <1>1, SameNextPid, IssuesFacts
<1>3. CASE ReapZombie(k, c)
  <2> HIDE DEF k
  <2>1. PICK i \in DOMAIN k.zombies :
           CopyOut([k EXCEPT !.zombies = SubSeq(@, 1, i - 1) \o SubSeq(@, i + 1, Len(@))], c)
    BY <1>3 DEF ReapZombie, Lowest, MatchingZombies
  <2> DEFINE z == SubSeq(k.zombies, 1, i - 1) \o SubSeq(k.zombies, i + 1, Len(k.zombies))
  <2>2. z \in Seq(Zombies)
    <3>1. k.zombies \in Seq(Zombies)
      BY <1>2 DEF Good, TablesOK, IsTables
    <3>2. i \in 1..Len(k.zombies)
      BY <2>1, <3>1
    <3>3. /\ SubSeq(k.zombies, 1, i - 1) \in Seq(Zombies)
          /\ SubSeq(k.zombies, i + 1, Len(k.zombies)) \in Seq(Zombies)
      BY <3>1, <3>2
    <3> QED BY <3>3
  <2>3. CopyOut([k EXCEPT !.zombies = z], c)
    BY <2>1
  <2> HIDE DEF z
  <2>4. Good([k EXCEPT !.zombies = z])
    BY <1>2, <2>2, WithZombie, KinGood DEF Good
  <2> QED BY <1>2, <2>3, <2>4, CopyOutOK
<1>4. CASE ReportStop(k, c)
  <2> HIDE DEF k
  <2>1. PICK p \in DOMAIN k.task :
           CopyOut(SetTask(k, p, [k.task[p] EXCEPT !.stop_report = NoSig]), c)
    BY <1>4 DEF ReportStop, FirstOf, StopReports, MatchingChildren, Parked
  <2>2. Mate(k.task[p], [k.task[p] EXCEPT !.stop_report = NoSig])
    BY <1>2, TaskOf, StopMate DEF Good
  <2>3. Good(SetTask(k, p, [k.task[p] EXCEPT !.stop_report = NoSig]))
    BY <1>2, <2>2, GoodSetTask
  <2> QED BY <1>2, <2>1, <2>3, CopyOutOK
<1>5. CASE Return(k)
  BY <1>2, <1>5, GoodReturn
<1>6. CASE BlockAndSwitch(k, WaitChild(c.pid, c.untraced), Reissue(c))
  <2>1. c.pid \in Pids \cup {NoPid} /\ c.untraced \in BOOLEAN
    BY <1>1, <1>2, ConstantsAssumption DEF CallSet
  <2>2. WaitChild(c.pid, c.untraced) \in ParkStates /\ Reissue(c) \in Contexts
    BY <1>2, <2>1, ParkStateFacts, ContextFacts
  <2> QED BY <1>2, <1>6, <2>2, BlockAndSwitchOK
<1> QED BY <1>3, <1>4, <1>5, <1>6 DEF SysWait4

\* A futex wait preserves the invariant.
LEMMA SysFutexWaitOK ==
    ASSUME Inv, NEW c, SysFutexWait(c)
    PROVE  Inv'
<1> DEFINE k == Entered
<1>1. UNCHANGED nextPid /\ Issues(c) /\ c.op = "futex_wait"
  BY DEF SysFutexWait, Enters, BlockAndSwitch
<1>2. nextPid' \in Nat /\ Good(k) /\ mode = "run" /\ c \in Calls
  BY <1>1, SameNextPid, IssuesFacts
<1>3. c.addr \in Addrs /\ c.timeout \in Nat \cup {Never} /\ clock \in Nat
  BY <1>1, <1>2, ConstantsAssumption DEF CallSet, Inv, TablesTyped
<1>4. UserAt("ret") \in Contexts /\ Reissue(c) \in Contexts
  BY <1>2, ContextFacts
<1>5. CASE Return(k)
  BY <1>2, <1>5, GoodReturn
<1>6. CASE BlockAndSwitch(k, Futex(c.addr, Never), Reissue(c))
  <2>1. Futex(c.addr, Never) \in ParkStates
    BY <1>3, ParkStateFacts
  <2> QED BY <1>2, <1>4, <1>6, <2>1, BlockAndSwitchOK
<1>7. CASE c.timeout # Never /\ BlockAndSwitch(k, Futex(c.addr, clock + c.timeout), UserAt("ret"))
  <2>1. clock + c.timeout \in Nat
    BY <1>3, <1>7
  <2>2. Futex(c.addr, clock + c.timeout) \in ParkStates
    BY <1>3, <2>1, ParkStateFacts
  <2> QED BY <1>2, <1>4, <1>7, <2>2, BlockAndSwitchOK
<1> QED BY <1>5, <1>6, <1>7 DEF SysFutexWait

\* A futex wake preserves the invariant.
LEMMA SysFutexWakeOK ==
    ASSUME Inv, NEW c, SysFutexWake(c)
    PROVE  Inv'
<1>1. nextPid' \in Nat /\ nextPid' >= nextPid /\ Issues(c)
  BY SameNextPid DEF SysFutexWake, Enters
<1>2. Good(Entered) /\ mode = "run"
  BY <1>1, IssuesFacts
<1>3. Good(FutexWake(Entered, c.addr, c.n))
  BY <1>2, FutexWakeOK, KinGood DEF Good
<1> QED BY <1>1, <1>2, <1>3, GoodReturn DEF SysFutexWake

\* nanosleep and the timed poll preserve the invariant.
LEMMA SysTimedWaitOK ==
    ASSUME Inv, NEW c, SysTimedWait(c)
    PROVE  Inv'
<1> DEFINE k == Entered
<1>1. UNCHANGED nextPid /\ Issues(c) /\ c.op = "sleep"
  BY DEF SysTimedWait, Enters, BlockAndSwitch
<1>2. nextPid' \in Nat /\ Good(k) /\ mode = "run" /\ c \in Calls
  BY <1>1, SameNextPid, IssuesFacts
<1>3. c.on \in SUBSET {"tty", "net"} /\ c.timeout \in Nat /\ clock \in Nat
  BY <1>1, <1>2, ConstantsAssumption DEF CallSet, Inv, TablesTyped
<1>4. clock + c.timeout \in Nat
  BY <1>3
<1>5. Waiting(c.on, clock + c.timeout) \in ParkStates /\ UserAt("ret") \in Contexts
  BY <1>3, <1>4, ParkStateFacts, ContextFacts
<1>6. CASE Return(k)
  BY <1>2, <1>6, GoodReturn
<1>7. CASE BlockAndSwitch(k, Waiting(c.on, clock + c.timeout), UserAt("ret"))
  BY <1>2, <1>5, <1>7, BlockAndSwitchOK
<1> QED BY <1>6, <1>7 DEF SysTimedWait

\* sched_yield preserves the invariant.
LEMMA SysYieldOK ==
    ASSUME Inv, NEW c, SysYield(c)
    PROVE  Inv'
<1>1. UNCHANGED nextPid /\ Issues(c)
  BY DEF SysYield, Enters, BlockAndSwitch
<1>2. nextPid' \in Nat /\ Good(Entered) /\ mode = "run"
  BY <1>1, SameNextPid, IssuesFacts
<1>3. Ready \in ParkStates /\ UserAt("ret") \in Contexts
  BY ParkStateFacts, ContextFacts
<1>4. CASE Return(Entered)
  BY <1>2, <1>4, GoodReturn
<1>5. CASE BlockAndSwitch(Entered, Ready, UserAt("ret"))
  BY <1>2, <1>3, <1>5, BlockAndSwitchOK
<1> QED BY <1>4, <1>5 DEF SysYield

\* A blocking read of a socket preserves the invariant.
LEMMA SysRecvOK ==
    ASSUME Inv, NEW c, SysRecv(c)
    PROVE  Inv'
<1> DEFINE k == SetCpu(Entered, cur, UserAt("ret"))
<1>1. UNCHANGED nextPid /\ Issues(c)
  BY DEF SysRecv, Enters, BlockAndSwitch
<1>2. nextPid' \in Nat /\ Good(Entered) /\ mode = "run" /\ c \in Calls
  BY <1>1, SameNextPid, IssuesFacts
<1>3. CASE BlockAndSwitch(Entered, Waiting({"net"}, Never), Reissue(c))
  <2>1. {"net"} \in SUBSET {"tty", "net"} /\ Never \in Nat \cup {Never}
    OBVIOUS
  <2>2. Waiting({"net"}, Never) \in ParkStates /\ Reissue(c) \in Contexts
    BY <1>2, <2>1, ParkStateFacts, ContextFacts
  <2> QED BY <1>2, <1>3, <2>2, BlockAndSwitchOK
<1>4. CASE /\ net' = [net EXCEPT !.readable = FALSE]
           /\ Commit(k)
           /\ UNCHANGED <<maps, mmu, tty, cur, lastGroup, clock, mode, waits, nextPid>>
  <2>1. Good(k)
    BY <1>2, ContextFacts, GoodSetCpu
  <2>2. k.maps = maps /\ k.tty = tty
    <3>1. Entered.maps = maps /\ Entered.tty = tty
      BY DEF Entered, Scanned, SetTask, Tables
    <3> QED BY <3>1 DEF SetCpu, SetTask, Entered, Scanned, Tables
  <2>3. net' \in [readable: BOOLEAN, expired: BOOLEAN]
    <3>1. net \in [readable: BOOLEAN, expired: BOOLEAN]
      BY DEF Inv, TablesTyped
    <3>2. ASSUME NEW n \in [readable: BOOLEAN, expired: BOOLEAN]
          PROVE  [n EXCEPT !.readable = FALSE] \in [readable: BOOLEAN, expired: BOOLEAN]
      OBVIOUS
    <3> QED BY <1>4, <3>1, <3>2
  <2>4. HostSideOK
    BY <1>4, <2>3 DEF HostSideOK, Inv, TablesTyped
  <2>5. /\ maps' \in MapTables /\ mmu' \in Words /\ lastGroup' \in Pids
        /\ waits' \subseteq {"terminal", "network"} /\ mode' = "run" /\ tty' = k.tty
        /\ cur' = cur /\ lastGroup' = lastGroup /\ maps' = k.maps
    <3>1. maps \in MapTables
      BY MapTableIntro DEF Inv, TablesTyped
    <3> QED BY <1>2, <1>4, <2>2, <3>1 DEF Inv, TablesTyped
  <2>6. /\ \A p \in DOMAIN k.task : k.task[p].tgid \in DOMAIN maps' \cup {lastGroup'}
        /\ cur' \in DOMAIN k.task /\ k.task[cur'].tgid = lastGroup'
    BY <2>1, <2>5 DEF Good, TablesOK, OnCpu
  <2> HIDE DEF k
  <2> QED BY <1>4, <2>1, <2>4, <2>5, <2>6, AfterCommit DEF Good
<1> QED BY <1>3, <1>4 DEF SysRecv

\* Stopping a background group re-establishes the invariant.
LEMMA BackgroundStopOK ==
    ASSUME NEW k, Good(k), Inv, nextPid' \in Nat, NEW s \in Signals, NEW c \in Calls,
           BackgroundStop(k, s, c)
    PROVE  Inv'
<1> DEFINE all == DeliverSignalToPgrp(k, k.task[cur].pgid, s)
           t == [all.task[cur] EXCEPT !.pending = @ \ {s}]
<1>1. Good(all)
  BY DeliverSignalToPgrpOK, KinGood DEF Good
<1>2. StopThreadGroup(SetTask(all, cur, t), s, Reissue(c))
  BY DEF BackgroundStop
<1> HIDE DEF all
<1>3. all.task[cur] \in Tasks /\ cur \in DOMAIN all.task
  BY <1>1, GoodTask
<1>4. all.task[cur].pending \ {s} \in SUBSET Signals
  BY <1>3 DEF Tasks
<1>5. Mate(all.task[cur], t)
  BY <1>3, <1>4, PendingMate
<1> HIDE DEF t
<1>6. Good(SetTask(all, cur, t))
  BY <1>1, <1>3, <1>5, GoodSetTask
<1> QED BY <1>2, <1>6, ContextFacts, StopThreadGroupOK

\* Another state of the line discipline keeps the tables good.
LEMMA WithTty ==
    ASSUME NEW k, Good(k), NEW y \in Terminals
    PROVE  Good([k EXCEPT !.tty = y])
BY DEF Good, TablesOK, OnCpu, IsTables

\* Reading the terminal and moving its foreground leave it well-typed.
LEMMA TerminalEdits ==
    ASSUME NEW y \in Terminals, NEW n \in Nat, NEW g \in Pids \cup {NoPid}
    PROVE  [y EXCEPT !.m2s = n] \in Terminals /\ [y EXCEPT !.fg_pgrp = g] \in Terminals
BY DEF Terminals

\* A read of the terminal preserves the invariant.
LEMMA SysReadTtyOK ==
    ASSUME Inv, NEW c, SysReadTty(c)
    PROVE  Inv'
<1> DEFINE k == Entered
           y == [k.tty EXCEPT !.m2s = 0]
<1>1. UNCHANGED nextPid /\ Issues(c)
  BY DEF SysReadTty, Enters
<1>2. nextPid' \in Nat /\ Good(k) /\ mode = "run" /\ c \in Calls
  BY <1>1, SameNextPid, IssuesFacts
<1>3. CASE Return(k)
  BY <1>2, <1>3, GoodReturn
<1>4. CASE BackgroundStop(k, SIGTTIN, c)
  BY <1>2, <1>4, KernelSignalFacts, BackgroundStopOK
<1>5. CASE Return([k EXCEPT !.tty = y])
  <2> HIDE DEF k
  <2>1. y \in Terminals
    <3>1. k.tty \in Terminals
      BY <1>2 DEF Good, TablesOK, IsTables
    <3> QED BY <3>1, TerminalEdits
  <2> HIDE DEF y
  <2> QED BY <1>2, <1>5, <2>1, WithTty, GoodReturn
<1>6. CASE Reschedule(Park(k, cur, Waiting({"tty"}, Never), Reissue(c)))
  <2>1. {"tty"} \in SUBSET {"tty", "net"} /\ Never \in Nat \cup {Never}
    OBVIOUS
  <2>2. Waiting({"tty"}, Never) \in ParkStates /\ Reissue(c) \in Contexts
    BY <1>2, <2>1, ParkStateFacts, ContextFacts
  <2> QED BY <1>2, <1>6, <2>2, BlockOK
<1> QED BY <1>3, <1>4, <1>5, <1>6 DEF SysReadTty

\* TIOCSPGRP preserves the invariant.
LEMMA SysTcsetpgrpOK ==
    ASSUME Inv, NEW c, SysTcsetpgrp(c)
    PROVE  Inv'
<1> DEFINE k == Entered
           y == [k.tty EXCEPT !.fg_pgrp = c.pgid]
<1>1. UNCHANGED nextPid /\ Issues(c) /\ c.op = "tcsetpgrp"
  BY DEF SysTcsetpgrp, Enters
<1>2. nextPid' \in Nat /\ Good(k) /\ mode = "run" /\ c \in Calls
  BY <1>1, SameNextPid, IssuesFacts
<1>3. CASE BackgroundStop(k, SIGTTOU, c)
  BY <1>2, <1>3, KernelSignalFacts, BackgroundStopOK
<1>4. CASE Return([k EXCEPT !.tty = y])
  <2>1. c.pgid \in Pids \cup {NoPid}
    BY <1>1, <1>2, ConstantsAssumption DEF CallSet
  <2> HIDE DEF k
  <2>2. y \in Terminals
    <3>1. k.tty \in Terminals
      BY <1>2 DEF Good, TablesOK, IsTables
    <3> QED BY <2>1, <3>1, TerminalEdits
  <2> HIDE DEF y
  <2> QED BY <1>2, <1>4, <2>2, WithTty, GoodReturn
<1> QED BY <1>3, <1>4 DEF SysTcsetpgrp

\* set_group_pgid keeps the tables good.
LEMMA RegroupedOK ==
    ASSUME NEW k, Good(k), NEW x, NEW g \in Pids
    PROVE  Good(Regrouped(k, x, g))
<1> DEFINE u(p) == [k.task[p] EXCEPT !.pgid = g]
           f == [p \in DOMAIN k.task |-> IF k.task[p].tgid = x THEN u(p) ELSE k.task[p]]
<1>1. \A p \in DOMAIN k.task : Mate(k.task[p], u(p)) /\ Mate(k.task[p], k.task[p])
  BY TaskOf, PgidMate DEF Good, Mate
<1>2. Regrouped(k, x, g) = [k EXCEPT !.task = f]
  BY DEF Regrouped
<1> HIDE DEF u
<1>3. /\ f \in [DOMAIN f -> Tasks] /\ DOMAIN f = DOMAIN k.task
      /\ \A p \in DOMAIN k.task : Mate(k.task[p], f[p])
  BY <1>1 DEF Mate
<1> HIDE DEF f
<1> QED BY <1>2, <1>3, Retask, KinGood DEF Good

\* setpgid and setsid preserve the invariant.
LEMMA SysSetpgidOK ==
    ASSUME Inv, NEW c, SysSetpgid(c)
    PROVE  Inv'
<1> DEFINE k == Entered
           x == IF c.pid = NoPid THEN k.task[cur].tgid ELSE c.pid
           g == IF c.pgid = NoPid THEN x ELSE c.pgid
<1>1. UNCHANGED nextPid /\ Issues(c) /\ c.op = "setpgid" /\ Return(Regrouped(k, x, g))
  BY DEF SysSetpgid, Enters
<1>2. nextPid' \in Nat /\ Good(k) /\ mode = "run" /\ c \in Calls
  BY <1>1, SameNextPid, IssuesFacts
<1>3. c.pid \in Pids \cup {NoPid} /\ c.pgid \in Pids \cup {NoPid}
  BY <1>1, <1>2, ConstantsAssumption DEF CallSet
<1>4. g \in Pids
  <2>1. k.task[cur].tgid \in Pids
    BY <1>2, GoodTask DEF Tasks
  <2> QED BY <1>3, <2>1
<1> HIDE DEF k, x, g
<1> QED BY <1>1, <1>2, <1>4, RegroupedOK, GoodReturn

-----------------------------------------------------------------------------
\* A store of the guest preserves the invariant.
LEMMA UserStoreOK ==
    ASSUME Inv, NEW a \in Addrs, NEW v \in Stores, UserStore(a, v)
    PROVE  Inv'
<1>1. mmu' \in Words
  BY ConstantsAssumption DEF UserStore, Inv, TablesTyped, Words
<1> QED BY <1>1 DEF UserStore, Inv, TablesTyped, SpaceOfEveryTask, PidsIssued

\* The clock moving preserves the invariant.
LEMMA TickOK ==
    ASSUME Inv, Tick
    PROVE  Inv'
BY DEF Tick, Inv, TablesTyped, SpaceOfEveryTask, PidsIssued

\* A keystroke of the host preserves the invariant.
LEMMA HostTypeOK ==
    ASSUME Inv, NEW key \in Keys, HostType(key)
    PROVE  Inv'
<1>1. tty \in Terminals
  BY DEF Inv, TablesTyped, Terminals
<1>2. Append(tty.input, key) \in Seq(Keys)
  BY <1>1 DEF Terminals
<1>3. ASSUME NEW y \in Terminals, NEW s \in Seq(Keys)
      PROVE  [y EXCEPT !.input = s] \in Terminals
  BY DEF Terminals
<1>4. tty' \in [input: Seq(Keys), m2s: Nat, fg_pgrp: Pids \cup {NoPid}]
  BY <1>1, <1>2, <1>3 DEF HostType, Terminals
<1> QED BY <1>4 DEF HostType, Inv, TablesTyped, SpaceOfEveryTask, PidsIssued

\* Data arriving, and the host expiring a wait, preserve the invariant.
LEMMA HostNetOK ==
    ASSUME Inv, HostNetArrives \/ HostExpiresNetworkWait
    PROVE  Inv'
<1>1. net \in [readable: BOOLEAN, expired: BOOLEAN]
  BY DEF Inv, TablesTyped
<1>2. ASSUME NEW n \in [readable: BOOLEAN, expired: BOOLEAN]
      PROVE  /\ [n EXCEPT !.readable = TRUE] \in [readable: BOOLEAN, expired: BOOLEAN]
             /\ [n EXCEPT !.expired = TRUE] \in [readable: BOOLEAN, expired: BOOLEAN]
  OBVIOUS
<1>3. net' \in [readable: BOOLEAN, expired: BOOLEAN]
  BY <1>1, <1>2 DEF HostNetArrives, HostExpiresNetworkWait
<1> QED BY <1>3 DEF HostNetArrives, HostExpiresNetworkWait, Inv, TablesTyped,
                    SpaceOfEveryTask, PidsIssued

\* Resizing the terminal preserves the invariant.
LEMMA HostResizesOK ==
    ASSUME Inv, HostResizes
    PROVE  Inv'
<1> DEFINE k == DeliverSignalToPgrp(Tables, tty.fg_pgrp, SIGWINCH)
<1>1. nextPid' \in Nat /\ nextPid' >= nextPid
  BY SameNextPid DEF HostResizes
<1>2. TablesOK(Tables)
  BY <1>1, TablesFacts
<1>3. TablesOK(k) /\ Kin(Tables, k)
  BY <1>2, KernelSignalFacts, DeliverSignalToPgrpOK
<1>4. task' = k.task
  BY DEF HostResizes
<1> HIDE DEF k
<1>5. /\ DOMAIN task' = DOMAIN task
      /\ task' \in [DOMAIN task' -> Tasks]
      /\ \A p \in DOMAIN task : task'[p].tgid = task[p].tgid
  BY <1>3, <1>4, TaskTableFacts DEF TablesOK, IsTables, Kin, Tables
<1>6. UNCHANGED <<cur, queue, zombies, sigactions, released, maps, mmu,
                  lastGroup, nextPid, clock, tty, net, mode, waits>>
  BY DEF HostResizes
<1>7. TablesTyped'
  BY <1>5, <1>6 DEF Inv, TablesTyped
<1> QED BY <1>5, <1>6, <1>7 DEF Inv, SpaceOfEveryTask, PidsIssued, TablesTyped

\* Process::initial is a task of the root group.
LEMMA InitialTaskFacts == InitialTask \in Tasks /\ InitialTask.tgid = RootPid
<1>1. UserAt("ret") \in Contexts /\ Ready \in ParkStates /\ <<>> \in Seq(Frames)
  BY ContextFacts, ParkStateFacts
<1>2. RootPid \in Pids
  BY ConstantsAssumption DEF Pids, RootPid
<1> QED BY <1>1, <1>2 DEF Tasks, InitialTask

\* The invariant holds initially.
LEMMA InitOK == KernelInit => Inv
<1> SUFFICES ASSUME KernelInit PROVE Inv
  OBVIOUS
<1>1. RootPid \in Pids
  BY ConstantsAssumption DEF Pids, RootPid
<1>2. DOMAIN task = {RootPid} /\ task[RootPid] = InitialTask /\ task \in [DOMAIN task -> Tasks]
  BY InitialTaskFacts DEF KernelInit
<1>3. sigactions \in [Pids -> [Signals -> Dispositions]]
  BY DEF KernelInit, Dispositions
<1>4. mmu \in Words /\ maps \in [DOMAIN maps -> Words] /\ DOMAIN maps = {}
  BY ConstantsAssumption DEF KernelInit, Words
<1>5. tty \in [input: Seq(Keys), m2s: Nat, fg_pgrp: Pids \cup {NoPid}]
  BY <1>1 DEF KernelInit
<1>6. zombies \in Seq(Zombies)
  BY DEF KernelInit
<1>7. TablesTyped
  BY <1>1, <1>2, <1>3, <1>4, <1>5, <1>6 DEF TablesTyped, KernelInit, RootPid
<1>8. SpaceOfEveryTask
  BY <1>2, InitialTaskFacts DEF SpaceOfEveryTask, KernelInit
<1>9. PidsIssued
  BY <1>2 DEF PidsIssued, KernelInit, RootPid
<1> QED BY <1>7, <1>8, <1>9 DEF Inv

\* Every system call preserves the invariant.
LEMMA SysCallOK ==
    ASSUME Inv, NEW c, SysCall(c)
    PROVE  Inv'
BY KernelEntryOK, SysRtSigactionOK, SysRtSigprocmaskOK, SysRtSigreturnOK, SysKillOK,
   SysCloneOK, SysExecveOK, SysExitOK, SysWait4OK, SysFutexWaitOK, SysFutexWakeOK,
   SysTimedWaitOK, SysYieldOK, SysRecvOK, SysReadTtyOK, SysTcsetpgrpOK, SysSetpgidOK
   DEF SysCall

\* Every step preserves the invariant.
LEMMA StepOK == Inv /\ [Next]_kernelVars => Inv'
<1> SUFFICES ASSUME Inv, [Next]_kernelVars PROVE Inv'
  OBVIOUS
<1>1. ASSUME NEW c \in Calls, SysCall(c) PROVE Inv'
  BY <1>1, SysCallOK
<1>2. ASSUME NEW a \in Addrs, NEW v \in Stores, UserStore(a, v) PROVE Inv'
  BY <1>2, UserStoreOK
<1>3. CASE Tick
  BY <1>3, TickOK
<1>4. CASE Host
  BY <1>4, ResumeOK, HostTypeOK, HostNetOK, HostResizesOK DEF Host
<1>5. CASE UNCHANGED kernelVars
  BY <1>5 DEF kernelVars, Inv, TablesTyped, SpaceOfEveryTask, PidsIssued
<1> QED BY <1>1, <1>2, <1>3, <1>4, <1>5 DEF Next, Ended

\* The tables are well typed in every state of the kernel, for every set of
\* programs, any number of tasks, signals and words, and a machine that runs
\* has a live task on the CPU.
THEOREM TypeCorrect == Spec => []TypeOK
<1>1. Inv => TypeOK
  BY DEF Inv, TypeOK, SpaceOfEveryTask
<1> QED BY InitOK, StepOK, <1>1, PTL DEF Spec

\* schedule_next always finds the address space of the task it chose: in no
\* state of any run is a task left without one, so "missing address space
\* for thread group" is unreachable.
THEOREM SpacesKept == Spec => []SpaceOfEveryTask
<1>1. Inv => SpaceOfEveryTask
  BY DEF Inv
<1> QED BY InitOK, StepOK, <1>1, PTL DEF Spec
=============================================================================
