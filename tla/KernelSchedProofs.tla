------------------------- MODULE KernelSchedProofs --------------------------
(***************************************************************************)
(* The invariant, and why the scheduler re-establishes it. A handler ends  *)
(* by returning to the task on the CPU, by leaving the machine idle or by  *)
(* putting another task on the CPU. In the last case the map of the group  *)
(* that leaves is kept if the group has a parked task, and the map of the  *)
(* group that comes is found, because every task of good tables has one.   *)
(***************************************************************************)
EXTENDS KernelTableProofs

-----------------------------------------------------------------------------
\* The tasks issued so far have ids below the next one.
PidsIssued == \A p \in DOMAIN task : p < nextPid

\* The inductive invariant.
Inv == TablesTyped /\ SpaceOfEveryTask /\ PidsIssued

\* What the fields of the machine outside the tables satisfy after a step.
HostSideOK ==
    /\ nextPid' \in Nat
    /\ clock' \in Nat
    /\ net' \in [readable: BOOLEAN, expired: BOOLEAN]

\* The invariant, read as a statement about the current tables.
LEMMA TablesFacts ==
    ASSUME Inv, nextPid' \in Nat, nextPid' >= nextPid
    PROVE  TablesOK(Tables) /\ (mode = "run" => OnCpu(Tables))
<1>1. task \in TaskTables /\ maps \in MapTables
  <2>1. /\ DOMAIN task \subseteq Pids /\ task \in [DOMAIN task -> Tasks]
        /\ DOMAIN maps \subseteq Pids /\ maps \in [DOMAIN maps -> Words]
    BY DEF Inv, TablesTyped
  <2> QED BY <2>1, TaskTableIntro, MapTableIntro
<1>2. IsTables(Tables)
  BY <1>1 DEF IsTables, Tables, Terminals, Inv, TablesTyped
<1>3. \A p \in DOMAIN task : p < nextPid'
  BY DEF Inv, TablesTyped, PidsIssued, Pids, RootPid
<1> QED BY <1>2, <1>3 DEF TablesOK, OnCpu, Tables, Inv, SpaceOfEveryTask

\* A handler that commits good tables, and leaves the MMU with the group it
\* puts on the CPU, re-establishes the invariant.
LEMMA AfterCommit ==
    ASSUME NEW k, TablesOK(k), Commit(k), HostSideOK, tty' = k.tty,
           maps' \in MapTables, mmu' \in Words, lastGroup' \in Pids,
           cur' \in DOMAIN k.task \cup {NoPid},
           mode' \in {"run", "paused", "halted", "deadlock"},
           waits' \subseteq {"terminal", "network"},
           \A p \in DOMAIN k.task : k.task[p].tgid \in DOMAIN maps' \cup {lastGroup'},
           mode' = "run" => cur' \in DOMAIN k.task /\ k.task[cur'].tgid = lastGroup'
    PROVE  Inv'
<1>1. /\ task' = k.task /\ zombies' = k.zombies
      /\ sigactions' = k.sigactions /\ released' = k.released
  BY DEF Commit
<1>2. DOMAIN task' \subseteq Pids /\ task' \in [DOMAIN task' -> Tasks]
  BY <1>1, TaskTableFacts DEF TablesOK, IsTables
<1>3. DOMAIN maps' \subseteq Pids /\ maps' \in [DOMAIN maps' -> Words]
  BY MapTableFacts
<1>4. /\ zombies' \in Seq(Zombies) /\ released' \subseteq Pids
      /\ sigactions' \in [Pids -> [Signals -> Dispositions]]
      /\ tty' \in Terminals
  BY <1>1 DEF TablesOK, IsTables
<1>5. TablesTyped'
  BY <1>1, <1>2, <1>3, <1>4 DEF TablesTyped, HostSideOK, Terminals
<1>6. SpaceOfEveryTask' /\ PidsIssued'
  BY <1>1 DEF SpaceOfEveryTask, PidsIssued, TablesOK
<1> QED BY <1>5, <1>6 DEF Inv

\* Going on with the same task re-establishes the invariant.
LEMMA ContinueOK ==
    ASSUME NEW k, TablesOK(k), OnCpu(k), Inv, mode = "run", nextPid' \in Nat,
           Continue(k)
    PROVE  Inv'
<1>1. HostSideOK
  BY DEF Inv, TablesTyped, Continue, HostSideOK
<1>2. maps' \in MapTables /\ mmu' \in Words
  BY DEF Continue, TablesOK, IsTables
<1>3. lastGroup' = lastGroup /\ lastGroup \in Pids /\ waits' \subseteq {"terminal", "network"}
  BY DEF Inv, TablesTyped, Continue
<1>4. \A p \in DOMAIN k.task : k.task[p].tgid \in DOMAIN maps' \cup {lastGroup'}
  BY DEF TablesOK, Continue
<1>5. cur' \in DOMAIN k.task /\ k.task[cur'].tgid = lastGroup' /\ mode' = "run"
  BY DEF OnCpu, Continue
<1> QED BY <1>1, <1>2, <1>3, <1>4, <1>5, AfterCommit DEF Continue

\* Returning from a system call re-establishes the invariant.
LEMMA ReturnOK ==
    ASSUME NEW k, TablesOK(k), OnCpu(k), Inv, mode = "run", nextPid' \in Nat,
           Return(k)
    PROVE  Inv'
<1> DEFINE q == SetCpu(k, cur, UserAt("ret"))
<1>1. TablesOK(q) /\ OnCpu(q)
  BY SetCpuOK, ContextFacts, KinOnCpu DEF OnCpu
<1> HIDE DEF q
<1> QED BY <1>1, ContinueOK DEF Return, q

\* Leaving the machine idle re-establishes the invariant.
LEMMA IdleOK ==
    ASSUME NEW k, TablesOK(k), Inv, HostSideOK,
           NEW m \in {"paused", "halted", "deadlock"},
           NEW w, w \subseteq {"terminal", "network"}, Idle(k, m, w)
    PROVE  Inv'
<1>1. maps' \in MapTables /\ mmu' \in Words
  BY DEF Idle, TablesOK, IsTables
<1>2. lastGroup' = lastGroup /\ lastGroup \in Pids
  BY DEF Inv, TablesTyped, Idle
<1>3. \A p \in DOMAIN k.task : k.task[p].tgid \in DOMAIN maps' \cup {lastGroup'}
  BY DEF TablesOK, Idle
<1> QED BY <1>1, <1>2, <1>3, AfterCommit DEF Idle

\* The swap keeps a map for every group with a parked task.
LEMMA KeptMapsOK ==
    ASSUME NEW k, TablesOK(k), Inv, NEW p
    PROVE  /\ KeptMaps(k, p) \in MapTables
           /\ DOMAIN k.maps \subseteq DOMAIN KeptMaps(k, p)
           /\ \A q \in DOMAIN k.task \ {p} :
                 k.task[q].tgid = lastGroup => lastGroup \in DOMAIN KeptMaps(k, p)
<1>1. /\ DOMAIN k.maps \subseteq Pids /\ k.maps \in [DOMAIN k.maps -> Words]
      /\ k.mmu \in Words /\ lastGroup \in Pids
  BY MapTableFacts DEF TablesOK, IsTables, Inv, TablesTyped
<1> DEFINE f == Put(k.maps, lastGroup, k.mmu)
<1>2. DOMAIN f = DOMAIN k.maps \cup {lastGroup} /\ f \in [DOMAIN f -> Words]
  BY <1>1 DEF Put
<1> HIDE DEF f
<1>3. f \in MapTables /\ k.maps \in MapTables
  BY <1>1, <1>2, MapTableIntro
<1> QED BY <1>2, <1>3 DEF KeptMaps, f

\* Putting a task on the CPU re-establishes the invariant: its group's map
\* is found.
LEMMA DispatchOK ==
    ASSUME NEW k, TablesOK(k), Inv, HostSideOK, NEW p \in DOMAIN k.task, NEW now,
           Dispatch(k, p, now)
    PROVE  Inv'
<1> DEFINE g == k.task[p].tgid
           r == [k EXCEPT !.queue = SelectSeq(@, LAMBDA q : q # p)]
           s == SetTask(r, p, Resumed(k, p, now))
           kept == KeptMaps(k, p)
<1>1. TablesOK(r) /\ r.task = k.task /\ r.tty = k.tty
  BY WithQueue
<1>2. Mate(k.task[p], Resumed(k, p, now))
  BY TaskOf, ResumedMate
<1>3. Commit(s)
  BY DEF Dispatch
<1> HIDE DEF r
<1>4. TablesOK(s) /\ Kin(k, s) /\ s.tty = k.tty
  BY <1>1, <1>2, SetTaskOK DEF Kin
<1> HIDE DEF s
<1>5. HasSpace(k, p)
  BY DEF TablesOK, HasSpace
<1>6. g \in Pids /\ k.maps \in MapTables /\ k.mmu \in Words
  BY TaskOf DEF Tasks, TablesOK, IsTables
<1>7. /\ tty' = s.tty /\ cur' = p /\ lastGroup' = g /\ mode' = "run" /\ waits' = {}
      /\ cur' \in DOMAIN s.task /\ s.task[cur'].tgid = lastGroup'
  BY <1>4, <1>5 DEF Dispatch, Kin
<1>8. CASE g = lastGroup
  <2>1. maps' = k.maps /\ mmu' = k.mmu
    BY <1>8 DEF Dispatch, SwapMaps
  <2>2. \A q \in DOMAIN s.task : s.task[q].tgid \in DOMAIN maps' \cup {g}
    BY <1>4, <1>8, <2>1 DEF TablesOK, Kin
  <2> QED BY <1>3, <1>4, <1>6, <1>7, <2>1, <2>2, AfterCommit
<1>9. CASE g # lastGroup
  <2> DEFINE f == [h \in DOMAIN kept \ {g} |-> kept[h]]
  <2>1. /\ kept \in MapTables /\ DOMAIN k.maps \subseteq DOMAIN kept
        /\ \A q \in DOMAIN k.task \ {p} :
                 k.task[q].tgid = lastGroup => lastGroup \in DOMAIN kept
    BY KeptMapsOK
  <2> HIDE DEF kept
  <2>2. f \in MapTables /\ DOMAIN f = DOMAIN kept \ {g}
    <3>1. DOMAIN kept \ {g} \subseteq Pids /\ f \in [DOMAIN kept \ {g} -> Words]
      BY <2>1, MapTableFacts
    <3> QED BY <3>1, MapTableIntro
  <2>3. maps' = f /\ mmu' = k.maps[g]
    BY <1>5, <1>9 DEF Dispatch, SwapMaps, kept
  <2>4. mmu' \in Words
    BY <1>5, <1>6, <1>9, <2>3, MapTableFacts DEF HasSpace
  <2>5. \A q \in DOMAIN k.task : k.task[q].tgid \in DOMAIN f \cup {g}
    BY <1>9, <2>1, <2>2 DEF TablesOK
  <2> HIDE DEF f
  <2>6. \A q \in DOMAIN s.task : s.task[q].tgid \in DOMAIN maps' \cup {g}
    BY <1>4, <2>3, <2>5 DEF Kin
  <2> QED BY <1>3, <1>4, <1>6, <1>7, <2>2, <2>3, <2>4, <2>6, AfterCommit
<1> QED BY <1>8, <1>9

-----------------------------------------------------------------------------
\* find_ready finds a parked task.
LEMMA FindReadyFacts ==
    ASSUME NEW k, NEW S, NEW now
    PROVE  FindReady(k, S, now) \subseteq S
BY DEF FindReady, FirstOf, ReadyTasks

\* A deadline is a time.
LEMMA DeadlinesFacts ==
    ASSUME NEW k, TablesOK(k)
    PROVE  Deadlines(k) \subseteq Nat
<1>1. \A p \in DOMAIN k.task : k.task[p].state.deadline \in Nat \cup {Never}
  BY TaskOf DEF Tasks, ParkStates
<1> QED BY <1>1 DEF Deadlines

\* Resolving a stall by dispatching a task keeps the invariant.
Warped(k) ==
    /\ net' = Unexpired(k)
    /\ \E d \in Lowest(Deadlines(k)) :
          /\ clock' = IF d > clock THEN d ELSE clock
          /\ \E p \in FindReady(k, DOMAIN k.task, clock') : Dispatch(k, p, clock)

\* Using up an expiry leaves the broker well-typed.
LEMMA UnexpiredFacts ==
    ASSUME Inv, NEW k
    PROVE  Unexpired(k) \in [readable: BOOLEAN, expired: BOOLEAN]
<1>1. net \in [readable: BOOLEAN, expired: BOOLEAN]
  BY DEF Inv, TablesTyped
<1>2. ASSUME NEW n \in [readable: BOOLEAN, expired: BOOLEAN]
      PROVE  [n EXCEPT !.expired = FALSE] \in [readable: BOOLEAN, expired: BOOLEAN]
  OBVIOUS
<1> QED BY <1>1, <1>2 DEF Unexpired

\* A step that leaves clock and broker alone leaves them well-typed.
LEMMA SameHostSide ==
    ASSUME Inv, nextPid' \in Nat, UNCHANGED clock, NEW k,
           net' = net \/ net' = Unexpired(k)
    PROVE  HostSideOK
<1>1. net' \in [readable: BOOLEAN, expired: BOOLEAN]
  BY UnexpiredFacts DEF Inv, TablesTyped
<1> QED BY <1>1 DEF Inv, TablesTyped, HostSideOK

\* The clock after the warp to a deadline is a time.
LEMMA WarpedOK ==
    ASSUME NEW k, TablesOK(k), Inv, nextPid' \in Nat, Warped(k)
    PROVE  Inv'
<1>1. PICK d \in Lowest(Deadlines(k)) :
          /\ clock' = IF d > clock THEN d ELSE clock
          /\ \E p \in FindReady(k, DOMAIN k.task, clock') : Dispatch(k, p, clock)
  BY DEF Warped
<1>2. HostSideOK
  <2>1. clock' \in Nat
    BY <1>1, DeadlinesFacts DEF Lowest, Inv, TablesTyped
  <2>2. net' \in [readable: BOOLEAN, expired: BOOLEAN]
    BY UnexpiredFacts DEF Warped
  <2> QED BY <2>1, <2>2 DEF HostSideOK
<1>3. PICK p \in DOMAIN k.task : Dispatch(k, p, clock)
  BY <1>1, FindReadyFacts
<1> QED BY <1>2, <1>3, DispatchOK

\* stall_outcome re-establishes the invariant.
LEMMA StallOutcomeOK ==
    ASSUME NEW k, TablesOK(k), Inv, HostSideOK,
           NEW w, w \subseteq {"terminal", "network"}, StallOutcome(k, w)
    PROVE  Inv'
<1>1. CASE Idle(k, "paused", w)
  <2>1. w \subseteq {"terminal", "network"} /\ "paused" \in {"paused", "halted", "deadlock"}
    OBVIOUS
  <2> QED BY <1>1, <2>1, IdleOK, Zenon
<1>2. CASE Idle(k, "paused", {"terminal"})
  <2>1. {"terminal"} \subseteq {"terminal", "network"}
    OBVIOUS
  <2> QED BY <1>2, <2>1, IdleOK
<1>3. CASE Idle(k, "deadlock", {})
  <2>1. {} \subseteq {"terminal", "network"}
    OBVIOUS
  <2> QED BY <1>3, <2>1, IdleOK
<1> QED BY <1>1, <1>2, <1>3 DEF StallOutcome

\* A resume that finds nothing to run re-establishes the invariant.
LEMMA StillWaitingOK ==
    ASSUME NEW k, TablesOK(k), Inv, HostSideOK,
           NEW w, w \subseteq {"terminal", "network"}, StillWaiting(k, w)
    PROVE  Inv'
<1> DEFINE host == IF BlockedOnTerminalInput(k) THEN {"terminal"}
                   ELSE IF NetWatched(k) THEN {"network"} ELSE {}
<1>1. w \cup host \subseteq {"terminal", "network"}
  OBVIOUS
<1>2. Idle(k, "paused", w \cup host)
  BY DEF StillWaiting
<1> HIDE DEF host
<1> QED BY <1>1, <1>2, IdleOK

\* schedule_next re-establishes the invariant from good tables, whoever
\* leaves the CPU.
LEMMA RescheduleOK ==
    ASSUME NEW k, TablesOK(k), Inv, nextPid' \in Nat, Reschedule(k)
    PROVE  Inv'
<1> DEFINE fed == Fed(k)
<1>1. TablesOK(fed) /\ DOMAIN fed.task = DOMAIN k.task
  BY FedOK DEF Kin
<1>2. CASE \E p \in FindReady(k, DOMAIN k.task, clock) :
              Dispatch(k, p, clock) /\ UNCHANGED <<clock, net>>
  BY <1>2, FindReadyFacts, SameHostSide, DispatchOK
<1>3. CASE \E p \in FindReady(fed, DOMAIN k.task, clock) :
              Dispatch(fed, p, clock) /\ UNCHANGED <<clock, net>>
  BY <1>1, <1>3, FindReadyFacts, SameHostSide, DispatchOK
<1>4. CASE StallOutcome(fed, {"network"}) /\ UNCHANGED <<clock, net>>
  BY <1>1, <1>4, SameHostSide, StallOutcomeOK
<1>5. CASE /\ StallOutcome(fed, {}) /\ UNCHANGED clock
           /\ net' = Unexpired(fed)
  BY <1>1, <1>5, SameHostSide, StallOutcomeOK
<1>6. CASE Warped(fed)
  BY <1>1, <1>6, WarpedOK
<1> HIDE DEF fed
<1> QED BY <1>1, <1>2, <1>3, <1>4, <1>5, <1>6
        DEF Reschedule, ScheduleNext, ResolveStall, Stalled, Warped, fed

\* Machine::run after a pause re-establishes the invariant.
LEMMA ResumeOK ==
    ASSUME Inv, Resume
    PROVE  Inv'
<1> DEFINE k == Tables
           fed == Fed(k)
<1>1. nextPid' \in Nat /\ nextPid' >= nextPid
  BY DEF Resume, Inv, TablesTyped
<1>2. TablesOK(k)
  BY <1>1, TablesFacts
<1> HIDE DEF k
<1>3. TablesOK(fed) /\ DOMAIN fed.task = DOMAIN k.task
  BY <1>2, FedOK DEF Kin
<1>4. CASE \E p \in FindReady(k, DOMAIN k.task, clock) :
              Dispatch(k, p, clock) /\ UNCHANGED <<clock, net>>
  BY <1>1, <1>2, <1>4, FindReadyFacts, SameHostSide, DispatchOK
<1>5. CASE \E p \in FindReady(fed, DOMAIN k.task, clock) :
              Dispatch(fed, p, clock) /\ UNCHANGED <<clock, net>>
  BY <1>1, <1>3, <1>5, FindReadyFacts, SameHostSide, DispatchOK
<1>6. CASE StillWaiting(fed, {"network"}) /\ UNCHANGED <<clock, net>>
  BY <1>1, <1>3, <1>6, SameHostSide, StillWaitingOK
<1>7. CASE /\ StillWaiting(fed, {}) /\ UNCHANGED clock
           /\ net' = Unexpired(fed)
  BY <1>1, <1>3, <1>7, SameHostSide, StillWaitingOK
<1>8. CASE Warped(fed)
  BY <1>1, <1>3, <1>8, WarpedOK
<1> HIDE DEF fed
<1> QED BY <1>1, <1>3, <1>4, <1>5, <1>6, <1>7, <1>8
        DEF Resume, ScheduleNext, ResolveStall, Stalled, Warped, fed, k

-----------------------------------------------------------------------------
\* Setting clear_child_tid keeps a task's group and type.
LEMMA TidMate ==
    ASSUME NEW t \in Tasks, NEW a \in Addrs \cup {NoAddr}
    PROVE  Mate(t, [t EXCEPT !.clear_child_tid = a])
BY DEF Tasks, Mate

\* The child with the flags of the clone call.
Born(t, a, b) == [t EXCEPT !.clear_child_tid = a, !.vfork_done = b]

\* The flags sys_clone_impl sets on the child keep its group and type.
LEMMA BornMate ==
    ASSUME NEW t \in Tasks, NEW a \in Addrs \cup {NoAddr}, NEW b \in BOOLEAN
    PROVE  Mate(t, Born(t, a, b))
<1> DEFINE u == [t EXCEPT !.clear_child_tid = a]
<1>1. u \in Tasks /\ u.tgid = t.tgid
  BY TidMate DEF Mate
<1> HIDE DEF u
<1>2. Mate(u, [u EXCEPT !.vfork_done = b])
  BY <1>1, FlagMate
<1> QED BY <1>1, <1>2 DEF Mate, u, Born

\* fork_child and thread_sibling make tasks of the right group.
LEMMA ForkChildFacts ==
    ASSUME NEW t \in Tasks, NEW pid \in Pids, NEW ppid \in Pids \cup {InitPid}
    PROVE  ForkChild(t, pid, ppid) \in Tasks /\ ForkChild(t, pid, ppid).tgid = pid
<1>1. UserAt("ret") \in Contexts /\ Ready \in ParkStates /\ <<>> \in Seq(Frames)
  BY ContextFacts, ParkStateFacts
<1> QED BY <1>1 DEF Tasks, ForkChild

\* The arguments of a clone call are in range.
LEMMA CloneCall ==
    ASSUME NEW c \in Calls, c.op = "clone"
    PROVE  c.kind \in {"fork", "vfork", "thread"} /\ c.ctid \in Addrs \cup {NoAddr}
BY ConstantsAssumption DEF CallSet

\* sys_clone_impl keeps the tables good: a process gets the map it runs on,
\* a thread shares its creator's.
LEMMA CloneTablesOK ==
    ASSUME NEW k, TablesOK(k), OnCpu(k), Inv, NEW c \in Calls, c.op = "clone",
           nextPid \in Pids, nextPid \notin DOMAIN k.task, nextPid' = nextPid + 1
    PROVE  TablesOK(CloneTables(k, c)) /\ OnCpu(CloneTables(k, c))
<1> DEFINE t == k.task[cur]
           born == IF c.kind = "thread" THEN ThreadSibling(t)
                   ELSE ForkChild(t, nextPid, t.tgid)
           b == c.kind = "vfork"
           child == Born(born, c.ctid, b)
           f == Put(k.task, nextPid, child)
           q == Append(k.queue, nextPid)
           spawned == Relisted(k, f, q)
           g == Put(k.maps, nextPid, k.mmu)
           acts == [k.sigactions EXCEPT ![nextPid] = k.sigactions[t.tgid]]
<1>1. /\ child \in Tasks
      /\ c.kind = "thread" => child.tgid = lastGroup
      /\ c.kind # "thread" => child.tgid = nextPid
  <2>1. t \in Tasks /\ t.tgid = lastGroup
    BY TaskOf DEF OnCpu
  <2>2. c.ctid \in Addrs \cup {NoAddr}
    BY CloneCall
  <2>3. /\ born \in Tasks
        /\ c.kind = "thread" => born.tgid = lastGroup
        /\ c.kind # "thread" => born.tgid = nextPid
    BY <2>1, ForkChildFacts DEF ThreadSibling, Tasks
  <2> HIDE DEF born
  <2>4. b \in BOOLEAN
    OBVIOUS
  <2> HIDE DEF b
  <2>5. Mate(born, child)
    BY <2>2, <2>3, <2>4, BornMate
  <2> QED BY <2>3, <2>5 DEF Mate
<1> HIDE DEF child
<1>2. /\ DOMAIN f = DOMAIN k.task \cup {nextPid} /\ f[nextPid] = child
      /\ \A p \in DOMAIN k.task : f[p] = k.task[p]
  BY DEF Put
<1>3. f \in TaskTables
  <2>1. DOMAIN f \subseteq Pids /\ f \in [DOMAIN f -> Tasks]
    BY <1>1, <1>2, TaskOf DEF Put
  <2> HIDE DEF f
  <2> QED BY <2>1, TaskTableIntro
<1> HIDE DEF f
<1>4. DOMAIN g = DOMAIN k.maps \cup {nextPid} /\ g \in MapTables
  <2>1. DOMAIN k.maps \subseteq Pids /\ k.maps \in [DOMAIN k.maps -> Words] /\ k.mmu \in Words
    BY MapTableFacts DEF TablesOK, IsTables
  <2>2. DOMAIN g = DOMAIN k.maps \cup {nextPid} /\ g \in [DOMAIN g -> Words]
    BY <2>1 DEF Put
  <2> HIDE DEF g
  <2> QED BY <2>1, <2>2, MapTableIntro
<1> HIDE DEF g, q
<1>5. acts \in [Pids -> [Signals -> Dispositions]]
  <2>1. t.tgid \in Pids /\ k.sigactions \in [Pids -> [Signals -> Dispositions]]
    BY TaskOf DEF OnCpu, Tasks, TablesOK, IsTables
  <2> QED BY <2>1
<1> HIDE DEF acts
<1>6. IsTables(spawned) /\ spawned.task = f /\ spawned.maps = k.maps
  <2>1. IsTables(k)
    BY DEF TablesOK
  <2> QED BY <1>3, <2>1, RelistedOK
<1>7. \A p \in DOMAIN f : p < nextPid'
  BY <1>2, TaskOf DEF TablesOK, Pids, RootPid, Inv, TablesTyped
<1>8. cur \in DOMAIN f /\ f[cur].tgid = lastGroup
  BY <1>2 DEF OnCpu
<1>9. CASE c.kind = "thread"
  <2>1. CloneTables(k, c) = spawned
    BY <1>9 DEF CloneTables, Relisted, Born, f, q, child
  <2>2. \A p \in DOMAIN f : f[p].tgid \in DOMAIN k.maps \cup {lastGroup}
    BY <1>1, <1>2, <1>9 DEF TablesOK
  <2> HIDE DEF spawned
  <2> QED BY <1>6, <1>7, <1>8, <2>1, <2>2 DEF TablesOK, OnCpu
<1>10. CASE c.kind # "thread"
  <2> DEFINE r == Rehoused(spawned, acts, g)
  <2>1. CloneTables(k, c) = r
    BY <1>10 DEF CloneTables, Relisted, Rehoused, Born, f, q, child, g, acts
  <2>2. IsTables(r) /\ r.task = f /\ r.maps = g
    <3> HIDE DEF spawned
    <3> QED BY <1>4, <1>5, <1>6, RehousedOK
  <2>3. \A p \in DOMAIN f : f[p].tgid \in DOMAIN g \cup {lastGroup}
    BY <1>1, <1>2, <1>4, <1>10 DEF TablesOK
  <2> HIDE DEF r
  <2> QED BY <1>7, <1>8, <2>1, <2>2, <2>3 DEF TablesOK, OnCpu
<1> QED BY <1>9, <1>10
=============================================================================
