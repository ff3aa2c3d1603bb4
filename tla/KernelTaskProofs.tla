-------------------------- MODULE KernelTaskProofs --------------------------
(***************************************************************************)
(* What the handlers do to one task. Whatever happens to a task, it        *)
(* remains a task of the same thread group: its record and the new one are *)
(* mates. The last lemma is about numbers only.                            *)
(***************************************************************************)
EXTENDS KernelCalls, FiniteSetTheorems, TLAPS

\* u is a task record of the same thread group as t.
Mate(t, u) == u \in Tasks /\ u.tgid = t.tgid

\* The saved CPUs the handlers make up are saved CPUs.
LEMMA ContextFacts ==
    /\ \A r \in {"ret", "ETIMEDOUT", "EINTR"} : UserAt(r) \in Contexts
    /\ \A c \in Calls : Reissue(c) \in Contexts
BY DEF UserAt, Reissue, Contexts

\* Every wait a handler parks a task with is a ParkState.
LEMMA ParkStateFacts ==
    /\ Ready \in ParkStates
    /\ \A f \in Pids \cup {NoPid}, u \in BOOLEAN : WaitChild(f, u) \in ParkStates
    /\ \A a \in Addrs, d \in Nat \cup {Never} : Futex(a, d) \in ParkStates
    /\ \A w \in SUBSET {"tty", "net"}, d \in Nat \cup {Never} : Waiting(w, d) \in ParkStates
    /\ \A p \in Pids : VforkDone(p) \in ParkStates
<1>1. Ready \in ParkStates
  BY DEF Ready, ParkStates
<1> HIDE DEF Ready
<1> QED BY <1>1 DEF ParkStates, WaitChild, Futex, Waiting, VforkDone

\* Changing the pending set keeps a task's group and type.
LEMMA PendingMate ==
    ASSUME NEW t \in Tasks, NEW S \in SUBSET Signals
    PROVE  Mate(t, [t EXCEPT !.pending = S])
BY DEF Tasks, Mate

\* Changing the signal mask keeps a task's group and type.
LEMMA MaskMate ==
    ASSUME NEW t \in Tasks, NEW S \in SUBSET Signals, NEW c \in Contexts
    PROVE  Mate(t, [t EXCEPT !.sigmask = S, !.cpu = c])
BY DEF Tasks, Mate

\* Changing the saved CPU keeps a task's group and type.
LEMMA ContextMate ==
    ASSUME NEW t \in Tasks, NEW S \in SUBSET Signals, NEW c \in Contexts
    PROVE  Mate(t, [t EXCEPT !.cpu = c, !.sigmask = S])
BY DEF Tasks, Mate

\* Changing the handler frames keeps a task's group and type.
LEMMA FrameMate ==
    ASSUME NEW t \in Tasks, NEW r \in Seq(Frames)
    PROVE  Mate(t, [t EXCEPT !.saved = r])
BY DEF Tasks, Mate

\* park_current keeps a task's group and type.
LEMMA ParkMate ==
    ASSUME NEW t \in Tasks, NEW st \in ParkStates, NEW c \in Contexts
    PROVE  Mate(t, ParkedTask(t, st, c))
BY DEF Tasks, Mate, ParkedTask

\* Setting the return value of a saved CPU keeps a task's group and type.
LEMMA CpuMate ==
    ASSUME NEW t \in Tasks, NEW c \in Contexts
    PROVE  Mate(t, [t EXCEPT !.cpu = c])
BY DEF Tasks, Mate

\* stop_thread_group and SIGCONT keep a task's group and type.
LEMMA StopMate ==
    ASSUME NEW t \in Tasks, NEW b \in BOOLEAN, NEW s \in Signals \cup {NoSig}
    PROVE  /\ Mate(t, [t EXCEPT !.stopped = b, !.stop_report = s])
           /\ Mate(t, [t EXCEPT !.stop_report = s])
           /\ Mate(t, Continued(t))
BY DEF Tasks, Mate, Continued

\* futex_wake keeps a task's group and type.
LEMMA WokenMate ==
    ASSUME NEW t \in Tasks
    PROVE  Mate(t, [t EXCEPT !.state.woken = TRUE])
BY DEF Tasks, Mate, ParkStates

\* set_group_pgid keeps a task's thread group and type.
LEMMA PgidMate ==
    ASSUME NEW t \in Tasks, NEW g \in Pids
    PROVE  Mate(t, [t EXCEPT !.pgid = g])
BY DEF Tasks, Mate

\* Taking the vfork flag off keeps a task's group and type.
LEMMA FlagMate ==
    ASSUME NEW t \in Tasks, NEW b \in BOOLEAN
    PROVE  Mate(t, [t EXCEPT !.vfork_done = b])
BY DEF Tasks, Mate

\* end_wait_with keeps a task's group and type.
LEMMA EndWaitWithMate ==
    ASSUME NEW t \in Tasks
    PROVE  Mate(t, EndWaitWith(t))
BY DEF Tasks, Mate, EndWaitWith, Contexts

\* deliver_signal keeps a task's group and type.
LEMMA DeliverSignalMate ==
    ASSUME NEW t \in Tasks, NEW acts
    PROVE  Mate(t, DeliverSignal(t, acts))
<1> DEFINE kept == [t EXCEPT !.pending = @ \ PassedOver(t, acts)]
           entered == {s \in Lowest(Effective(t, acts)) : acts[s] \in Handled}
           frame == [cpu |-> t.cpu, mask |-> t.sigmask]
           inside == [kept EXCEPT !.pending = @ \ entered, !.saved = Append(@, frame),
                                  !.sigmask = @ \cup entered, !.cpu = UserAt("ret")]
<1>1. Mate(t, kept)
  <2>1. t.pending \ PassedOver(t, acts) \in SUBSET Signals
    BY DEF Tasks
  <2> QED BY <2>1, PendingMate
<1>2. entered \in SUBSET Signals
  BY DEF Lowest, Effective, Deliverable, Tasks
<1>3. frame \in Frames
  BY DEF Frames, Tasks
<1>4. Mate(t, inside)
  <2> HIDE DEF kept, entered, frame
  <2>1. /\ kept.pending \ entered \in SUBSET Signals
        /\ kept.sigmask \cup entered \in SUBSET Signals
        /\ Append(kept.saved, frame) \in Seq(Frames)
        /\ UserAt("ret") \in Contexts
    BY <1>1, <1>2, <1>3, ContextFacts DEF Mate, Tasks
  <2> QED BY <1>1, <2>1 DEF Mate, Tasks
<1> QED BY <1>1, <1>4 DEF DeliverSignal

\* What schedule_next does to the task it resumes keeps its group and type.
LEMMA ResumedMate ==
    ASSUME NEW k, NEW p, k.task[p] \in Tasks, NEW now
    PROVE  Mate(k.task[p], Resumed(k, p, now))
<1> DEFINE t == k.task[p]
           timedOut == t.state.kind = "Futex" /\ ~t.state.woken /\ Expired(t.state, now)
           woken == [t EXCEPT !.state = Ready,
                              !.cpu.rax = IF timedOut THEN "ETIMEDOUT" ELSE @]
           interrupted == /\ t.state.kind # "VforkDone"
                          /\ ~timedOut
                          /\ ~WaitIsSatisfied(k, DOMAIN k.task \ {p}, t, now)
                          /\ EndsTheCall(t, Acts(k, p))
<1>1. Mate(t, woken)
  <2>1. PICK u \in Tasks : u = t
    OBVIOUS
  <2>2. PICK r \in {"ret", "ETIMEDOUT", "EINTR"} : r = IF timedOut THEN "ETIMEDOUT" ELSE u.cpu.rax
    BY <2>1 DEF Tasks, Contexts
  <2>3. Mate(u, [u EXCEPT !.state = Ready, !.cpu.rax = r])
    BY <2>2, ParkStateFacts DEF Mate, Tasks, Contexts
  <2> QED BY <2>1, <2>2, <2>3
<1> HIDE DEF woken
<1>2. Mate(t, EndWaitWith(woken))
  BY <1>1, EndWaitWithMate DEF Mate
<1>3. \A u \in Tasks : Mate(u, DeliverSignal(u, Acts(k, p)))
  BY DeliverSignalMate
<1> QED BY <1>1, <1>2, <1>3 DEF Mate, Resumed, woken

\* A set of numbers below a bound has a size.
LEMMA CountingFacts ==
    ASSUME NEW a \in Int, NEW b \in Int, NEW S, S \subseteq a..b
    PROVE  Cardinality(S) \in Nat
<1>1. IsFiniteSet(a..b)
  BY FS_Interval
<1>2. IsFiniteSet(S)
  BY <1>1, FS_Subset
<1> QED BY <1>2, FS_CardinalityType
=============================================================================
