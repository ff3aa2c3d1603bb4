------------------------------ MODULE Streams ------------------------------
(***************************************************************************)
(* Processes that exchange data and wait for one another through pipes,    *)
(* socketpairs, eventfds, timers, terminals and watched files. A program   *)
(* is the calls that set it up and the calls its processes then issue, in  *)
(* any order. Between two calls any other process may run: sched_yield can *)
(* stand anywhere, and which of several runnable tasks runs is the         *)
(* scheduler's affair.                                                     *)
(***************************************************************************)
EXTENDS StreamWaits

CONSTANTS
    Programs,      \* a set of [setup: a sequence of calls, calls: a set of calls,
                   \*           clock: a bound on the clock, activity: a bound on what
                   \*           happens to any one object]
    MaxObjects     \* bound on the objects made

VARIABLES
    prog,    \* the program that runs
    obj,     \* the kernel's objects, in the order they were made
    desc,    \* the open file descriptions
    fds,     \* the descriptor table of each process
    task,    \* what each process is doing
    now      \* the deterministic clock

streamsVars == <<prog, obj, desc, fds, task, now>>
S == [obj |-> obj, desc |-> desc, fds |-> fds, task |-> task, now |-> now]

ActivityOf(x) == IF x.kind \in {"file", "timer", "epoll"} THEN 0 ELSE x.activity
Commit(s) ==
    /\ obj' = s.obj /\ desc' = s.desc /\ fds' = s.fds /\ task' = s.task
    /\ UNCHANGED <<prog, now>>
\* Calls are issued until a bound is reached; one that was issued is finished.
Become(s) ==
    /\ Len(s.obj) <= MaxObjects
    /\ \A o \in DOMAIN s.obj : ActivityOf(s.obj[o]) <= prog.activity
    /\ Commit(s)

Init ==
    \E g \in Programs :
        LET s == FoldLeft(SetUp, Boot, g.setup)
        IN prog = g /\ obj = s.obj /\ desc = s.desc /\ fds = s.fds /\ task = s.task /\ now = s.now

\* The calls with name `op` that process p can issue.
Issued(p, op) == {c \in prog.calls : c.op = op /\ task[p].pc = "user"}

Pipes(p) == \E c \in Issued(p, "pipe") : Become(SysPipe(S, p, c))
Socketpairs(p) == \E c \in Issued(p, "socketpair") : Become(SysSocketpair(S, p, c))
Opens(p) ==
    \/ \E c \in Issued(p, "pts") : Become(OpenPts(S, p, c))
    \/ \E c \in Issued(p, "eventfd") : Become(SysEventfd(S, p, c))
Closes(p) == \E c \in Issued(p, "close") : Become(SysClose(S, p, c))
ClosesRange(p) == \E c \in Issued(p, "close_range") : Become(SysCloseRange(S, p, c))
Dups(p) == \E c \in Issued(p, "dup") : Become(SysDup(S, p, c))
Dups2(p) == \E c \in Issued(p, "dup2") : Become(SysDup2(S, p, c))
SetsFlags(p) == \E c \in Issued(p, "setfl") : Become(SetNonblock(S, p, c))
SetsCloexec(p) == \E c \in Issued(p, "setfd") : Become(SetCloexec(S, p, c))
Forks(p) == \E c \in Issued(p, "fork") : Become(Fork(S, p, c))
Execs(p) == \E c \in Issued(p, "execve") : Become(CloseCloexec(S, p, c))
Exits(p) == \E c \in Issued(p, "exit") : Become(Exit(S, p, c))
Reading(p) == \E c \in Issued(p, "read") : Become(OutcomeRead(S, p, c))
Writing(p) == \E c \in Issued(p, "write") : Become(OutcomeWrite(S, p, c))
Vectored(p) == \E c \in Issued(p, "vectored") : Become(OutcomeVectored(S, p, c))
Sendfile(p) == \E c \in Issued(p, "sendfile") : Become(SysSendfile(S, p, c))
Flushes(p) == \E c \in Issued(p, "flush") : Become(FlushPty(S, p, c))
SetsTimer(p) == \E c \in Issued(p, "settime") : Become(SysTimerfdSettime(S, p, c))
AddsWatch(p) == \E c \in Issued(p, "add_watch") : Become(SysInotifyAddWatch(S, p, c))
RmsWatch(p) == \E c \in Issued(p, "rm_watch") : Become(SysInotifyRmWatch(S, p, c))
Polls(p) == \E c \in Issued(p, "poll") : Become(OutcomePoll(S, p, c))
Selects(p) == \E c \in Issued(p, "select") : Become(SysSelect(S, p, c))
EpollCtl(p) == \E c \in Issued(p, "epoll_ctl") : Become(SysEpollCtl(S, p, c))
EpollWaits(p) == \E c \in Issued(p, "epoll_wait") : Become(SysEpollWait(S, p, c))

\* The scheduler picks a parked task whose wait is over.
Woken(p) == IF task[p].deadline = Never THEN Reissue(S, p, task[p].call) ELSE Ret(S, p)
Wake(p) == Wakeable(S, p) /\ Commit(Woken(p))

\* Time passes as instructions run; when every task is parked it jumps to the
\* first deadline.
Tick ==
    /\ now < prog.clock
    /\ \E p \in Procs : task[p].pc = "user"
    /\ now' = now + 1
    /\ UNCHANGED <<prog, obj, desc, fds, task>>
Warp ==
    /\ \A p \in Procs : task[p].pc # "user" /\ ~Wakeable(S, p)
    /\ Deadlines(S) # {} /\ Min(Deadlines(S)) <= prog.clock
    /\ now' = Max({now, Min(Deadlines(S))})
    /\ UNCHANGED <<prog, obj, desc, fds, task>>

Next ==
    \/ Tick
    \/ Warp
    \/ \E p \in Procs :
        \/ Wake(p)
        \/ Pipes(p) \/ Socketpairs(p) \/ Opens(p)
        \/ Closes(p) \/ ClosesRange(p) \/ Dups(p) \/ Dups2(p) \/ SetsFlags(p) \/ SetsCloexec(p)
        \/ Forks(p) \/ Execs(p) \/ Exits(p)
        \/ Reading(p) \/ Writing(p) \/ Vectored(p) \/ Sendfile(p) \/ Flushes(p)
        \/ SetsTimer(p) \/ AddsWatch(p) \/ RmsWatch(p)
        \/ Polls(p) \/ Selects(p) \/ EpollCtl(p) \/ EpollWaits(p)

Spec == Init /\ [][Next]_streamsVars
\* A task whose wait is over stays at its place in the queue, and find_ready
\* takes the first: it runs. (This is WF_streamsVars(Wake(p)), with ENABLED
\* written out.)
CanWake(p) == Wakeable(S, p) /\ Woken(p) # S
FairSpec ==
    Spec /\ \A p \in Procs : []<>(~CanWake(p)) \/ []<><<Wake(p)>>_streamsVars

-----------------------------------------------------------------------------
Parked == {p \in Procs : task[p].pc = "parked"}
\* A wait that the watches cover: a read or a write, a poll that asks the pipes
\* it is to read from for input, a select for reading, a sendfile with something
\* left to send; an epoll that asks every
\* descriptor for input, edge-triggered only on pipes, eventfds and terminals,
\* while its interests are those it was parked with. The other waits are not
\* covered: see the departures in the README.
IsCovered(p, events, fd) ==
    /\ "in" \in events /\ "out" \notin events
    /\ "et" \in events => DescOf(S, p, fd).kind \notin {"pair", "inotify", "timer"}
Covered(p) ==
    LET c == task[p].call
    IN CASE c.op = "select" -> c.writes = {}
         [] c.op = "poll" ->
              \A fd \in DOMAIN c.want :
                  IsOpen(S, p, fd) => DescOf(S, p, fd).kind # "pipe_read" \/ "in" \in c.want[fd]
         [] c.op = "sendfile" -> DescOf(S, p, c.in).offset < obj[DescOf(S, p, c.in).rx].len
         [] c.op = "epoll_wait" ->
              LET x == obj[DescOf(S, p, c.ep).rx].interests
              IN x = c.known /\ \A fd \in DOMAIN x : IsOpen(S, p, fd) => IsCovered(p, x[fd], fd)
         [] OTHER -> TRUE
\* The tables with O_NONBLOCK clear: set while a task waits, it is no reason
\* for the task to wake.
Blocking(s) == [s EXCEPT !.desc = [d \in DOMAIN @ |-> [@[d] EXCEPT !.nonblock = FALSE]]]
\* No wakeup is lost: a parked task whose call would now complete is one that
\* the scheduler finds ready. What makes a call complete and what wakes its
\* caller are computed by different code (outcome_read, sys_poll,
\* sys_epoll_wait against Watch::ready), before and after other tasks ran.
NoLostWakeup ==
    \A p \in Parked :
        (Covered(p) /\ Reissue(Blocking(S), p, task[p].call).task[p].pc # "parked")
        => Wakeable(S, p)

\* An edge that sys_epoll_wait suppresses has been reported: the condition,
\* at this activity of this object, was in the result of an earlier wait
\* ("Each ready condition ... is delivered once and then suppressed while it
\* stays ready with no new activity").
EdgeWasReported ==
    \A e \in DOMAIN obj, p \in Procs :
        obj[e].kind = "epoll" =>
            \A fd \in DOMAIN obj[e].edge_fired : \A b \in obj[e].edge_fired[fd].mask :
                (IsOpen(S, p, fd) /\ obj[e].edge_fired[fd].act = BackingActivity(S, DescOf(S, p, fd)))
                => [fd |-> fd, obj |-> DescOf(S, p, fd).rx, bit |-> b,
                    act |-> obj[e].edge_fired[fd].act] \in obj[e].seen

\* The file's bytes arrive in the order and the number that the shared offset
\* says were sent, when several processes send from one description and some
\* of their calls blocked on the full pipe and were issued again.
FileIsSentOnce ==
    \A o \in DOMAIN obj :
        obj[o].kind = "pipe" =>
            LET FromFile(b) == "at" \in DOMAIN b
                places == SelectSeq(obj[o].sent, FromFile)
            IN /\ \A i \in DOMAIN places : places[i].at = i
               /\ places # <<>> =>
                    \E d \in DOMAIN desc : desc[d].kind = "file" /\ desc[d].offset = Len(places)

IsPipe(o) == o \in DOMAIN obj /\ obj[o].kind = "pipe"
Bytes == INSTANCE ByteStreams WITH
    Streams <- 1..MaxObjects,
    Limit <- Capacity,
    born <- [o \in 1..MaxObjects |-> o \in DOMAIN obj /\ obj[o].kind = "pipe"],
    ends <- [o \in 1..MaxObjects |->
                IF ~IsPipe(o) THEN {}
                ELSE {e \in {"send", "receive"} :
                        \E d \in Referenced(S) : IF e = "send" THEN Writes(desc[d], o)
                                                 ELSE Reads(desc[d], o)}],
    sent <- [o \in 1..MaxObjects |-> IF IsPipe(o) THEN obj[o].sent ELSE <<>>],
    got <- [o \in 1..MaxObjects |-> IF IsPipe(o) THEN obj[o].got ELSE <<>>],
    lost <- [o \in 1..MaxObjects |-> IF IsPipe(o) THEN obj[o].lost ELSE {}],
    reckless <- \E c \in prog.calls : c.op \in {"read", "vectored"} /\ c.bad,
    ended <- [o \in 1..MaxObjects |-> IsPipe(o) /\ obj[o].eof]
\* Pipes and socketpairs are byte streams (ByteStreams): what is read is what
\* was written, in order and within the capacity, and the end is reported only
\* when no description of the writing end is left. A byte is lost only to a read
\* whose buffer cannot be written: outcome_read takes the bytes first.
PipesAreStreams == Bytes!StreamsSpec

\* Whoever reads a stream that no description can write to any more is told:
\* a task blocked on it does not stay parked. The code knows it from `writers`,
\* which pipe, dup, fork, close, close-on-exec and exit keep by hand.
HangupIsSeen ==
    \A p \in Procs :
        (/\ task[p].pc = "parked" /\ task[p].call.op = "read"
         /\ \E o \in DOMAIN obj : /\ Watch("pipe_read", o) \in task[p].watches
                               /\ \A d \in Referenced(S) : ~Writes(desc[d], o))
        ~> task[p].pc # "parked"
=============================================================================
