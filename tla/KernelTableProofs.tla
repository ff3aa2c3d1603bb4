------------------------- MODULE KernelTableProofs --------------------------
(***************************************************************************)
(* What the handlers do to the tables. A handler computes on a record of   *)
(* tables; each operator it is made of is shown here to keep them good:    *)
(* well-typed, with ids below the next one to be handed out, and with an   *)
(* address space for the group of every task.                              *)
(***************************************************************************)
EXTENDS Kernel, KernelTaskProofs

-----------------------------------------------------------------------------
\* The values of the task table, of the map table and of the terminal.
TaskTables == UNION {[S -> Tasks] : S \in SUBSET Pids}
MapTables == UNION {[S -> Words] : S \in SUBSET Pids}
Terminals == [input: Seq(Keys), m2s: Nat, fg_pgrp: Pids \cup {NoPid}]

\* k is a record of tables.
IsTables(k) ==
    k \in [task: TaskTables, queue: {k.queue}, zombies: Seq(Zombies),
           sigactions: [Pids -> [Signals -> Dispositions]],
           released: SUBSET Pids, maps: MapTables, mmu: Words, tty: Terminals]

\* The tables of a handler are well formed, its tasks have ids that were
\* handed out by the end of the step, and none of them lacks a map.
TablesOK(k) ==
    /\ IsTables(k)
    /\ \A p \in DOMAIN k.task : p < nextPid'
    /\ \A p \in DOMAIN k.task : k.task[p].tgid \in DOMAIN k.maps \cup {lastGroup}

\* The task on the CPU is live and runs on its group's map.
OnCpu(k) == cur \in DOMAIN k.task /\ k.task[cur].tgid = lastGroup

\* q has the tasks of k, each in the group it was in.
Kin(k, q) ==
    /\ DOMAIN q.task = DOMAIN k.task
    /\ \A p \in DOMAIN k.task : q.task[p].tgid = k.task[p].tgid

\* Kindred tables agree on who is on the CPU.
LEMMA KinOnCpu ==
    ASSUME NEW k, NEW q, OnCpu(k), Kin(k, q)
    PROVE  OnCpu(q)
BY DEF OnCpu, Kin

\* What membership in TaskTables says of a function.
LEMMA TaskTableFacts ==
    ASSUME NEW f \in TaskTables
    PROVE  /\ DOMAIN f \subseteq Pids
           /\ f \in [DOMAIN f -> Tasks]
           /\ \A p \in DOMAIN f : f[p] \in Tasks
BY DEF TaskTables

\* How a function is shown to be in TaskTables.
LEMMA TaskTableIntro ==
    ASSUME NEW S, S \subseteq Pids, NEW f \in [S -> Tasks]
    PROVE  f \in TaskTables
BY DEF TaskTables

\* What membership in MapTables says of a function.
LEMMA MapTableFacts ==
    ASSUME NEW f \in MapTables
    PROVE  DOMAIN f \subseteq Pids /\ f \in [DOMAIN f -> Words]
BY DEF MapTables

\* How a function is shown to be in MapTables.
LEMMA MapTableIntro ==
    ASSUME NEW S, S \subseteq Pids, NEW f \in [S -> Words]
    PROVE  f \in MapTables
BY DEF MapTables

\* Tables with another task table are tables.
LEMMA WithTask ==
    ASSUME NEW k, IsTables(k), NEW f \in TaskTables
    PROVE  LET q == [k EXCEPT !.task = f] IN
           /\ IsTables(q) /\ q.task = f /\ q.queue = k.queue /\ q.zombies = k.zombies
           /\ q.sigactions = k.sigactions /\ q.released = k.released
           /\ q.maps = k.maps /\ q.mmu = k.mmu /\ q.tty = k.tty
BY DEF IsTables

\* Tables with another queue are tables.
LEMMA WithNewQueue ==
    ASSUME NEW k, IsTables(k), NEW r
    PROVE  LET q == [k EXCEPT !.queue = r] IN
           IsTables(q) /\ q.task = k.task /\ q.maps = k.maps
BY DEF IsTables

\* Tables with another map table are tables.
LEMMA WithMaps ==
    ASSUME NEW k, IsTables(k), NEW g \in MapTables
    PROVE  LET q == [k EXCEPT !.maps = g] IN
           IsTables(q) /\ q.task = k.task /\ q.maps = g
BY DEF IsTables

\* Two changes to the tables at once.
Relisted(k, f, r) == [k EXCEPT !.task = f, !.queue = r]
Rehoused(k, a, g) == [k EXCEPT !.sigactions = a, !.maps = g]

\* Tables with another task table and queue are tables.
LEMMA RelistedOK ==
    ASSUME NEW k, IsTables(k), NEW f \in TaskTables, NEW r
    PROVE  /\ IsTables(Relisted(k, f, r))
           /\ Relisted(k, f, r).task = f
           /\ Relisted(k, f, r).maps = k.maps
<1> DEFINE h == [k EXCEPT !.task = f]
<1>1. IsTables(h) /\ h.task = f /\ h.maps = k.maps
  BY WithTask
<1> HIDE DEF h
<1>2. LET q == [h EXCEPT !.queue = r] IN
        IsTables(q) /\ q.task = f /\ q.maps = k.maps
  BY <1>1, WithNewQueue
<1> QED BY <1>2 DEF h, Relisted

\* Tables with other dispositions and maps are tables.
LEMMA RehousedOK ==
    ASSUME NEW k, IsTables(k), NEW a \in [Pids -> [Signals -> Dispositions]], NEW g \in MapTables
    PROVE  /\ IsTables(Rehoused(k, a, g))
           /\ Rehoused(k, a, g).task = k.task
           /\ Rehoused(k, a, g).maps = g
<1> DEFINE h == [k EXCEPT !.sigactions = a]
<1>1. IsTables(h) /\ h.task = k.task
  BY DEF IsTables
<1> HIDE DEF h
<1>2. LET q == [h EXCEPT !.maps = g] IN
        IsTables(q) /\ q.task = k.task /\ q.maps = g
  BY <1>1, WithMaps
<1> QED BY <1>2 DEF h, Rehoused

\* A task of good tables is a task whose group has an address space.
LEMMA TaskOf ==
    ASSUME NEW k, TablesOK(k), NEW p \in DOMAIN k.task
    PROVE  k.task[p] \in Tasks /\ p \in Pids
BY TaskTableFacts DEF TablesOK, IsTables

\* A task's dispositions, read from good tables, are a disposition table.
LEMMA ActsOf ==
    ASSUME NEW k, TablesOK(k), NEW p \in DOMAIN k.task
    PROVE  Acts(k, p) \in [Signals -> Dispositions]
BY TaskOf DEF TablesOK, IsTables, Acts, Tasks

\* Exchanging every task for a mate keeps the tables good.
LEMMA Retask ==
    ASSUME NEW k, TablesOK(k), NEW f, DOMAIN f = DOMAIN k.task,
           f \in [DOMAIN f -> Tasks],
           \A p \in DOMAIN k.task : Mate(k.task[p], f[p])
    PROVE  LET q == [k EXCEPT !.task = f] IN
           TablesOK(q) /\ Kin(k, q) /\ q.task = f /\ q.tty = k.tty
<1>1. k.task \in TaskTables
  BY DEF TablesOK, IsTables
<1>2. f \in TaskTables
  BY <1>1, TaskTableFacts, TaskTableIntro
<1> QED BY <1>2, WithTask DEF TablesOK, Kin, Mate

\* Exchanging one task for a mate keeps the tables good.
LEMMA SetTaskOK ==
    ASSUME NEW k, TablesOK(k), NEW p \in DOMAIN k.task, NEW t, Mate(k.task[p], t)
    PROVE  /\ TablesOK(SetTask(k, p, t))
           /\ Kin(k, SetTask(k, p, t))
           /\ SetTask(k, p, t).task[p] = t
           /\ SetTask(k, p, t).tty = k.tty
<1> DEFINE f == Put(k.task, p, t)
<1>1. \A q \in DOMAIN k.task : Mate(k.task[q], k.task[q])
  BY TaskOf DEF Mate
<1>2. /\ DOMAIN f = DOMAIN k.task
      /\ \A q \in DOMAIN k.task : f[q] = IF q = p THEN t ELSE k.task[q]
      /\ f \in [DOMAIN f -> Tasks]
  BY <1>1 DEF Put, Mate
<1> HIDE DEF f
<1>3. SetTask(k, p, t) = [k EXCEPT !.task = f]
  BY DEF SetTask, f
<1> QED BY <1>1, <1>2, <1>3, Retask

\* Setting one saved CPU keeps the tables good.
LEMMA SetCpuOK ==
    ASSUME NEW k, TablesOK(k), NEW p \in DOMAIN k.task, NEW c \in Contexts
    PROVE  TablesOK(SetCpu(k, p, c)) /\ Kin(k, SetCpu(k, p, c))
BY SetTaskOK, TaskOf, CpuMate DEF SetCpu

\* Marking a signal pending keeps the tables good.
LEMMA RaiseOK ==
    ASSUME NEW k, TablesOK(k), NEW S, NEW s \in Signals
    PROVE  TablesOK(Raise(k, S, s)) /\ Kin(k, Raise(k, S, s))
<1> DEFINE u(p) == [k.task[p] EXCEPT !.pending = @ \cup {s}]
           f == [p \in DOMAIN k.task |-> IF p \in S THEN u(p) ELSE k.task[p]]
<1>1. \A p \in DOMAIN k.task : Mate(k.task[p], u(p)) /\ Mate(k.task[p], k.task[p])
  <2> SUFFICES ASSUME NEW p \in DOMAIN k.task
               PROVE  Mate(k.task[p], u(p)) /\ Mate(k.task[p], k.task[p])
    OBVIOUS
  <2>1. k.task[p] \in Tasks /\ k.task[p].pending \cup {s} \in SUBSET Signals
    BY TaskOf DEF Tasks
  <2> QED BY <2>1, PendingMate DEF Mate
<1> HIDE DEF u
<1>2. f \in [DOMAIN f -> Tasks]
  BY <1>1 DEF Mate
<1>3. Raise(k, S, s) = [k EXCEPT !.task = f]
  BY DEF Raise, u
<1>4. DOMAIN f = DOMAIN k.task /\ \A p \in DOMAIN k.task : Mate(k.task[p], f[p])
  BY <1>1
<1> HIDE DEF f
<1> QED BY <1>2, <1>3, <1>4, Retask

\* Another queue keeps the tables good.
LEMMA WithQueue ==
    ASSUME NEW k, TablesOK(k), NEW r
    PROVE  LET q == [k EXCEPT !.queue = r] IN
           TablesOK(q) /\ q.task = k.task /\ q.tty = k.tty
BY DEF TablesOK, IsTables

\* Parking a task keeps the tables good.
LEMMA ParkOK ==
    ASSUME NEW k, TablesOK(k), NEW p \in DOMAIN k.task,
           NEW st \in ParkStates, NEW c \in Contexts
    PROVE  TablesOK(Park(k, p, st, c))
<1> DEFINE q == [k EXCEPT !.queue = Append(@, p)]
<1>1. TablesOK(q) /\ q.task = k.task
  BY WithQueue
<1>2. Mate(k.task[p], ParkedTask(k.task[p], st, c))
  BY TaskOf, ParkMate
<1>3. Park(k, p, st, c) = SetTask(q, p, ParkedTask(k.task[p], st, c))
  BY DEF Park
<1> HIDE DEF q
<1> QED BY <1>1, <1>2, <1>3, SetTaskOK

\* Tables that some tasks left are good.
LEMMA DropOK ==
    ASSUME NEW k, TablesOK(k), NEW S
    PROVE  /\ TablesOK(Drop(k, S))
           /\ DOMAIN Drop(k, S).task = DOMAIN k.task \ S
           /\ \A p \in DOMAIN k.task \ S : Drop(k, S).task[p] = k.task[p]
<1> DEFINE f == [p \in DOMAIN k.task \ S |-> k.task[p]]
           r == SelectSeq(k.queue, LAMBDA p : p \notin S)
<1>1. f \in TaskTables
  <2>1. DOMAIN k.task \ S \subseteq Pids
    BY TaskOf
  <2>2. f \in [DOMAIN k.task \ S -> Tasks]
    BY TaskOf
  <2> HIDE DEF f
  <2> QED BY <2>1, <2>2, TaskTableIntro
<1>2. /\ DOMAIN f = DOMAIN k.task \ S
      /\ \A p \in DOMAIN k.task \ S : f[p] = k.task[p]
  OBVIOUS
<1> HIDE DEF f, r
<1>3. Drop(k, S) = Relisted(k, f, r)
  BY DEF Drop, Relisted, f, r
<1>4. IsTables(k)
  BY DEF TablesOK
<1>5. IsTables(Drop(k, S)) /\ Drop(k, S).task = f /\ Drop(k, S).maps = k.maps
  BY <1>1, <1>3, <1>4, RelistedOK
<1> QED BY <1>2, <1>5 DEF TablesOK

-----------------------------------------------------------------------------
\* The signals the kernel raises itself are signals.
LEMMA KernelSignalFacts ==
    /\ SIGINT \in Signals /\ SIGTSTP \in Signals /\ SIGCHLD \in Signals
    /\ SIGTTIN \in Signals /\ SIGTTOU \in Signals /\ SIGWINCH \in Signals
    /\ SIGKILL \in Signals
BY ConstantsAssumption
   DEF KernelSignals, SIGINT, SIGTSTP, SIGCHLD, SIGTTIN, SIGTTOU, SIGWINCH, SIGKILL

\* deliver_signal_to_pgrp keeps the tables good.
LEMMA DeliverSignalToPgrpOK ==
    ASSUME NEW k, TablesOK(k), NEW g, NEW s \in Signals
    PROVE  /\ TablesOK(DeliverSignalToPgrp(k, g, s))
           /\ Kin(k, DeliverSignalToPgrp(k, g, s))
BY RaiseOK DEF DeliverSignalToPgrp

\* notify_parent_sigchld keeps the tables good.
LEMMA NotifyParentSigchldOK ==
    ASSUME NEW k, TablesOK(k), NEW g
    PROVE  TablesOK(NotifyParentSigchld(k, g)) /\ Kin(k, NotifyParentSigchld(k, g))
<1>1. Kin(k, k)
  BY DEF Kin
<1> QED BY <1>1, RaiseOK, KernelSignalFacts DEF NotifyParentSigchld

\* futex_wake keeps the tables good.
LEMMA FutexWakeOK ==
    ASSUME NEW k, TablesOK(k), NEW a, NEW n
    PROVE  TablesOK(FutexWake(k, a, n)) /\ Kin(k, FutexWake(k, a, n))
<1> DEFINE W == FutexWaiters(k, a)
           Ahead(p) == {o \in W : Position(k.queue, o) < Position(k.queue, p)}
           u(p) == [k.task[p] EXCEPT !.state.woken = TRUE]
           hit(p) == p \in W /\ Cardinality(Ahead(p)) < n
           f == [p \in DOMAIN k.task |-> IF hit(p) THEN u(p) ELSE k.task[p]]
<1>1. \A p \in DOMAIN k.task : Mate(k.task[p], u(p)) /\ Mate(k.task[p], k.task[p])
  BY TaskOf, WokenMate DEF Mate
<1>2. FutexWake(k, a, n) = [k EXCEPT !.task = f]
  BY DEF FutexWake
<1> HIDE DEF u, hit
<1>3. f \in [DOMAIN f -> Tasks]
  BY <1>1 DEF Mate
<1>4. DOMAIN f = DOMAIN k.task /\ \A p \in DOMAIN k.task : Mate(k.task[p], f[p])
  BY <1>1
<1> HIDE DEF f
<1> QED BY <1>2, <1>3, <1>4, Retask

\* Firing a vfork release flag keeps the tables good.
LEMMA ReleasedOK ==
    ASSUME NEW k, TablesOK(k), OnCpu(k)
    PROVE  TablesOK(Released(k)) /\ OnCpu(Released(k)) /\ Released(k).task = k.task
<1>1. cur \in Pids
  BY TaskOf DEF OnCpu
<1> QED BY <1>1 DEF Released, TablesOK, IsTables, OnCpu

\* Clearing the tid word and waking its joiners keeps the tables good.
LEMMA ClearedTidOK ==
    ASSUME NEW k, TablesOK(k), OnCpu(k), NEW written
    PROVE  TablesOK(ClearedTid(k, written)) /\ Kin(k, ClearedTid(k, written))
<1> DEFINE a == k.task[cur].clear_child_tid
           q == [k EXCEPT !.mmu[a] = IF written THEN 0 ELSE @]
<1>1. CASE a = NoAddr
  BY <1>1 DEF ClearedTid, Kin
<1>2. CASE a # NoAddr
  <2>1. a \in Addrs
    BY <1>2, TaskOf DEF OnCpu, Tasks
  <2>2. TablesOK(q) /\ q.task = k.task
    BY <2>1, ConstantsAssumption DEF TablesOK, IsTables, Words
  <2>3. ClearedTid(k, written) = FutexWake(q, a, MaxPid)
    BY <1>2 DEF ClearedTid
  <2> HIDE DEF q, a
  <2> QED BY <2>2, <2>3, FutexWakeOK DEF Kin
<1> QED BY <1>1, <1>2

\* One more zombie keeps the tables good.
LEMMA WithZombie ==
    ASSUME NEW k, TablesOK(k), NEW zs \in Seq(Zombies)
    PROVE  TablesOK([k EXCEPT !.zombies = zs]) /\ Kin(k, [k EXCEPT !.zombies = zs])
BY DEF TablesOK, IsTables, Kin

\* What task_exit leaves behind is good.
LEMMA ExitedTablesOK ==
    ASSUME NEW k, TablesOK(k), OnCpu(k), NEW status \in Statuses, NEW group,
           NEW written
    PROVE  TablesOK(ExitedTables(k, status, group, written))
<1> DEFINE t == k.task[cur]
           dead == IF group THEN GroupOf(k, t.tgid) ELSE {cur}
           left == Drop(ClearedTid(Released(k), written), dead)
           zombie == [pid |-> t.tgid, ppid |-> t.ppid, status |-> status]
           zs == Append(left.zombies, zombie)
<1>1. TablesOK(left)
  BY ReleasedOK, ClearedTidOK, DropOK
<1>2. zombie \in Zombies
  BY TaskOf DEF OnCpu, Tasks, Zombies
<1> HIDE DEF left, zombie
<1>3. zs \in Seq(Zombies)
  BY <1>1, <1>2 DEF TablesOK, IsTables
<1>4. TablesOK([left EXCEPT !.zombies = zs])
  BY <1>1, <1>3, WithZombie
<1>5. TablesOK(NotifyParentSigchld([left EXCEPT !.zombies = zs], t.ppid))
  BY <1>4, NotifyParentSigchldOK
<1> QED BY <1>1, <1>5 DEF ExitedTables, left, zombie

\* stop_thread_group keeps the tables good.
LEMMA StoppedTablesOK ==
    ASSUME NEW k, TablesOK(k), OnCpu(k), NEW s \in Signals
    PROVE  TablesOK(StoppedTables(k, s)) /\ Kin(k, StoppedTables(k, s))
<1> DEFINE g == k.task[cur].tgid
           u(p) == [k.task[p] EXCEPT !.stopped = TRUE,
                                     !.stop_report = IF p = g THEN s ELSE @]
           f == [p \in DOMAIN k.task |-> IF k.task[p].tgid # g THEN k.task[p] ELSE u(p)]
           q == [k EXCEPT !.task = f]
<1>1. \A p \in DOMAIN k.task : Mate(k.task[p], u(p)) /\ Mate(k.task[p], k.task[p])
  <2> SUFFICES ASSUME NEW p \in DOMAIN k.task
               PROVE  Mate(k.task[p], u(p)) /\ Mate(k.task[p], k.task[p])
    OBVIOUS
  <2>1. k.task[p] \in Tasks
    BY TaskOf
  <2>2. (IF p = g THEN s ELSE k.task[p].stop_report) \in Signals \cup {NoSig}
    BY <2>1 DEF Tasks
  <2> QED BY <2>1, <2>2, StopMate DEF Mate
<1>2. StoppedTables(k, s) = NotifyParentSigchld(q, k.task[cur].ppid)
  BY DEF StoppedTables
<1> HIDE DEF u
<1>3. f \in [DOMAIN f -> Tasks]
  BY <1>1 DEF Mate
<1>4. DOMAIN f = DOMAIN k.task /\ \A p \in DOMAIN k.task : Mate(k.task[p], f[p])
  BY <1>1
<1> HIDE DEF f
<1>5. TablesOK(q) /\ Kin(k, q)
  BY <1>3, <1>4, Retask
<1> HIDE DEF q
<1>6. TablesOK(StoppedTables(k, s)) /\ Kin(q, StoppedTables(k, s))
  BY <1>2, <1>5, NotifyParentSigchldOK
<1> QED BY <1>5, <1>6 DEF Kin

\* The scan of the pending set keeps the tables good.
LEMMA ScannedOK ==
    ASSUME NEW k, TablesOK(k), OnCpu(k)
    PROVE  TablesOK(Scanned(k)) /\ Kin(k, Scanned(k))
<1>1. k.task[cur] \in Tasks
  BY TaskOf DEF OnCpu
<1>2. k.task[cur].pending \ PassedOver(k.task[cur], Acts(k, cur)) \in SUBSET Signals
  BY <1>1 DEF Tasks
<1> QED BY <1>1, <1>2, PendingMate, SetTaskOK DEF OnCpu, Scanned

\* Consuming the signal that decides keeps the tables good.
LEMMA ConsumedOK ==
    ASSUME NEW k, TablesOK(k), OnCpu(k), NEW s
    PROVE  TablesOK(Consumed(k, s)) /\ OnCpu(Consumed(k, s))
<1> DEFINE q == Scanned(k)
<1>1. TablesOK(q) /\ OnCpu(q)
  BY ScannedOK, KinOnCpu
<1> HIDE DEF q
<1>2. q.task[cur] \in Tasks
  BY <1>1, TaskOf DEF OnCpu
<1>3. q.task[cur].pending \ {s} \in SUBSET Signals
  BY <1>2 DEF Tasks
<1>4. Mate(q.task[cur], [q.task[cur] EXCEPT !.pending = @ \ {s}])
  BY <1>2, <1>3, PendingMate
<1>5. Consumed(k, s) = SetTask(q, cur, [q.task[cur] EXCEPT !.pending = @ \ {s}])
  BY DEF Consumed, q
<1> QED BY <1>1, <1>4, <1>5, SetTaskOK, KinOnCpu DEF OnCpu

\* A line discipline after feed_input is one.
LEMMA TerminalLine ==
    ASSUME NEW y \in Terminals, NEW n \in Nat, NEW s \in Seq(Keys)
    PROVE  [y EXCEPT !.m2s = n, !.input = s] \in Terminals
BY DEF Terminals

\* Feeding the host's keystrokes keeps the tables good.
LEMMA FedOK ==
    ASSUME NEW k, TablesOK(k)
    PROVE  TablesOK(Fed(k)) /\ Kin(k, Fed(k))
<1> DEFINE keys == k.tty.input
           data == {i \in DOMAIN keys : DataFrom(keys, i)}
           line == [k.tty EXCEPT !.m2s = Cardinality(data), !.input = <<>>]
           q == [k EXCEPT !.tty = line]
           s == CHOOSE s \in Raises(keys) : TRUE
<1>1. k.tty \in Terminals /\ keys \in Seq(Keys)
  BY DEF TablesOK, IsTables, Terminals
<1>2. Cardinality(data) \in Nat
  <2>1. data \subseteq 1..Len(keys) /\ 1 \in Int /\ Len(keys) \in Int
    BY <1>1
  <2> HIDE DEF data
  <2> QED BY <2>1, CountingFacts
<1>3. line \in Terminals
  <2>1. <<>> \in Seq(Keys)
    OBVIOUS
  <2> QED BY <1>1, <1>2, <2>1, TerminalLine
<1>4. TablesOK(q) /\ Kin(k, q)
  <2> HIDE DEF line
  <2> QED BY <1>3 DEF TablesOK, IsTables, Kin
<1>5. Raises(keys) # {} => s \in Signals
  BY KernelSignalFacts DEF Raises, SignalOf
<1>6. FeedInput(k) = IF Raises(keys) = {} THEN q ELSE DeliverSignalToPgrp(q, k.tty.fg_pgrp, s)
  BY DEF FeedInput
<1> HIDE DEF q, s
<1>7. TablesOK(FeedInput(k)) /\ Kin(k, FeedInput(k))
  BY <1>4, <1>5, <1>6, DeliverSignalToPgrpOK DEF Kin
<1>8. Kin(k, k)
  BY DEF Kin
<1> QED BY <1>7, <1>8 DEF Fed
=============================================================================
