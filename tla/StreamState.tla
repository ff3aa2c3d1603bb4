---------------------------- MODULE StreamState ----------------------------
(***************************************************************************)
(* The objects behind descriptors that a process can wait on: pipes and    *)
(* socketpairs, eventfds, timerfds, inotify instances, pseudoterminals and *)
(* epoll instances (fd.rs), the descriptor tables that refer to them, and  *)
(* the watches of parked tasks (proc.rs).                                  *)
(*                                                                         *)
(* The kernel's tables are one record `s`, so that a call is an operator   *)
(* from tables to tables, and the tables a program starts from are the     *)
(* result of the calls that set it up.                                     *)
(***************************************************************************)
EXTENDS Integers, Sequences, FiniteSets, SequencesExt, FiniteSetsExt

CONSTANTS
    NumProcs,     \* processes that can come to exist; the first is 1
    FdLimit,      \* FD_LIMIT, the size of a descriptor table
    Capacity,     \* PIPE_CAPACITY
    QueueLimit,   \* INOTIFY_QUEUE_LIMIT
    TimeMax,      \* u64::MAX of the deterministic clock
    FileLen       \* length of the file that sendfile reads

ASSUME StreamConstants ==
    /\ {NumProcs, Capacity, QueueLimit, TimeMax} \subseteq Nat \ {0}
    /\ {FdLimit, FileLen} \subseteq Nat

Procs == 1..NumProcs
Fds == 0..(FdLimit - 1)
Never == -1       \* no timeout, no deadline, a disarmed timer
NoDesc == 0       \* a free slot of a descriptor table
None == 0         \* no object

Least(a, b) == IF a <= b THEN a ELSE b
\* u64 arithmetic: `+` wraps around, saturating_add and saturating_mul stop.
Wrapping(t) == t % (TimeMax + 1)
Saturating(t) == Least(t, TimeMax)

-----------------------------------------------------------------------------
\* Objects. The fields `sent`, `got` (what was taken out), `lost` (the places
\* in it that no reader received) and `eof` of a pipe and `seen` of an epoll
\* instance are history: no operation depends on them.
PipeInner == [kind |-> "pipe", data |-> <<>>, readers |-> 1, writers |-> 1,
              activity |-> 0, sent |-> <<>>, got |-> <<>>, lost |-> {}, eof |-> FALSE]
EventFdInner(n, sem) == [kind |-> "event", count |-> n, semaphore |-> sem, activity |-> 0]
TimerFdInner == [kind |-> "timer", next_expiry |-> Never, interval |-> 0]
InotifyInner == [kind |-> "inotify", watches |-> <<>>, next_descriptor |-> 1,
                 queue |-> <<>>, overflowed |-> FALSE, activity |-> 0]
EpollInner == [kind |-> "epoll", interests |-> <<>>, edge_fired |-> <<>>, seen |-> {}]
Pty == [kind |-> "pty", m2s |-> <<>>, s2m |-> <<>>, masters |-> 1, slaves |-> 0,
        slave_ever_opened |-> FALSE, activity |-> 0]
FileNode == [kind |-> "file", len |-> FileLen]

\* An open file description. A socketpair end reads from rx and writes to tx;
\* every other kind has one object, in both fields.
Description(kind, rx, tx, nonblock) ==
    [kind |-> kind, rx |-> rx, tx |-> tx, nonblock |-> nonblock, offset |-> 0, open |-> TRUE]

Readable(d) == d.kind # "pipe_write"
Writable(d) == d.kind \notin {"pipe_read", "timer", "inotify"}

-----------------------------------------------------------------------------
\* Descriptor tables. A description is dropped with the last entry that
\* refers to it, and its drop is what the other end of a stream notices.
Free == [desc |-> NoDesc, cloexec |-> FALSE]
Referenced(s) == {s.fds[p][f].desc : p \in Procs, f \in Fds} \ {NoDesc}

Reads(d, o) == d.rx = o /\ d.kind \in {"pipe_read", "pair"}
Writes(d, o) == d.tx = o /\ d.kind \in {"pipe_write", "pair"}
Masters(d, o) == d.rx = o /\ d.kind = "pty_master"
Slaves(d, o) == d.rx = o /\ d.kind = "pty_slave"

\* impl Drop for Description, for every description in `dead`.
Dropped(s, o, dead) ==
    LET Ends(End(_, _)) == Cardinality({d \in dead : End(s.desc[d], o)})
        x == s.obj[o]
    IN CASE x.kind = "pipe" ->
              [x EXCEPT !.readers = Max({0, @ - Ends(Reads)}),
                        !.writers = Max({0, @ - Ends(Writes)}),
                        !.activity = @ + Ends(Reads) + Ends(Writes)]
         [] x.kind = "pty" ->
              [x EXCEPT !.masters = Max({0, @ - Ends(Masters)}),
                        !.slaves = Max({0, @ - Ends(Slaves)}),
                        !.activity = @ + Ends(Masters) + Ends(Slaves)]
         [] OTHER -> x

\* What reference counting does by the end of a call.
Settle(s) ==
    LET dead == {d \in DOMAIN s.desc : s.desc[d].open} \ Referenced(s)
    IN [s EXCEPT !.desc = [d \in DOMAIN @ |-> IF d \in dead THEN [@[d] EXCEPT !.open = FALSE]
                                              ELSE @[d]],
                 !.obj = [o \in DOMAIN @ |-> Dropped(s, o, dead)]]

EntryOf(s, p, fd) == IF fd \in Fds THEN s.fds[p][fd] ELSE Free
IsOpen(s, p, fd) == EntryOf(s, p, fd).desc # NoDesc
DescOf(s, p, fd) == s.desc[EntryOf(s, p, fd).desc]

\* FdTable::insert_from: the lowest free slot at or above `min`, if there is
\* one; otherwise the entry is dropped and the tables are as they were.
FreeFrom(s, p, min) == {f \in Fds : f >= min /\ s.fds[p][f].desc = NoDesc}
InsertFrom(s, p, min, entry) ==
    IF FreeFrom(s, p, min) = {} THEN s
    ELSE [s EXCEPT !.fds[p][Min(FreeFrom(s, p, min))] = entry]

NewObject(s, x) == [s EXCEPT !.obj = Append(@, x)]
\* install_fd: a new description on the object, at the lowest free descriptor.
InstallFd(s, p, d, cloexec) ==
    LET t == [s EXCEPT !.desc = Append(@, d)]
    IN InsertFrom(t, p, 0, [desc |-> Len(t.desc), cloexec |-> cloexec])

-----------------------------------------------------------------------------
\* Readiness sources. PipeReadable and PipeWritable are also what the two
\* dedicated park states for pipes test.
Watch(w, o) == [on |-> w, obj |-> o, seen |-> 0]
ActivityWatch(s, o) == [on |-> "activity", obj |-> o, seen |-> s.obj[o].activity]

ReadyPipeReadData(x) == x.data # <<>>
ReadyPipeRead(x) == x.data # <<>> \/ x.writers = 0
ReadyPipeWrite(x) == Len(x.data) < Capacity \/ x.readers = 0
Ready(s, w) ==
    LET x == s.obj[w.obj]
    IN CASE w.on = "pipe_read" -> ReadyPipeRead(x)
         [] w.on = "pipe_write" -> ReadyPipeWrite(x)
         [] w.on = "event" -> x.count > 0
         [] w.on = "timer" -> x.next_expiry # Never /\ s.now >= x.next_expiry
         [] w.on = "pty_master" -> x.s2m # <<>> \/ (x.slave_ever_opened /\ x.slaves = 0)
         [] w.on = "pty_slave" -> x.m2s # <<>> \/ x.masters = 0
         [] w.on = "inotify" -> x.queue # <<>> \/ x.overflowed
         [] w.on = "activity" -> x.activity # w.seen

\* read_watch_of: what a blocked reader of the description waits for; empty
\* where a read never blocks.
ReadWatchOf(d) ==
    CASE d.kind \in {"pipe_read", "pair"} -> {Watch("pipe_read", d.rx)}
      [] d.kind \in {"event", "timer", "inotify", "pty_master", "pty_slave"}
           -> {Watch(d.kind, d.rx)}
      [] OTHER -> {}
WriteWatchOf(d) ==
    IF d.kind \in {"pipe_write", "pair"} THEN {Watch("pipe_write", d.tx)} ELSE {}
\* activity_watch_of: of a socketpair, the side that is received from.
ActivityWatchOf(s, d) ==
    IF d.kind \in {"pipe_read", "pipe_write", "pair", "event", "pty_master", "pty_slave"}
    THEN {ActivityWatch(s, d.rx)} ELSE {}

DescReadReady(s, d) == \A w \in ReadWatchOf(d) : Ready(s, w)
DescWriteReady(s, d) == \A w \in WriteWatchOf(d) : Ready(s, w)
BackingActivity(s, d) ==
    CASE d.kind = "pair" -> s.obj[d.rx].activity + s.obj[d.tx].activity
      [] d.kind \in {"timer", "epoll", "file"} -> 0
      [] OTHER -> s.obj[d.rx].activity

-----------------------------------------------------------------------------
\* Tasks. One parked without a deadline re-issues its call when it is woken;
\* one parked with a deadline returns 0 to its program.
Running == [pc |-> "user", call |-> <<>>, watches |-> {}, deadline |-> Never]
Ret(s, p) == [s EXCEPT !.task[p] = Running]
Park(s, p, c, watches, deadline) ==
    [s EXCEPT !.task[p] = [pc |-> "parked", call |-> c, watches |-> watches,
                           deadline |-> deadline]]
WouldBlock(s, p, c, d, watches) ==
    IF d.nonblock THEN Ret(s, p) ELSE Park(s, p, c, watches, Never)
\* The end of poll, select and epoll_wait when nothing is ready.
Await(s, p, c, watches) ==
    CASE c.timeout = 0 -> Ret(s, p)
      [] c.timeout = Never -> Park(s, p, c, watches, Never)
      [] OTHER -> Park(s, p, c, watches, Wrapping(s.now + c.timeout))

Expired(s, p) == s.task[p].deadline # Never /\ s.now >= s.task[p].deadline
Wakeable(s, p) ==
    /\ s.task[p].pc = "parked"
    /\ Expired(s, p) \/ \E w \in s.task[p].watches : Ready(s, w)
Deadlines(s) ==
    LET parked == {p \in Procs : s.task[p].pc = "parked"}
        timers(p) == {s.obj[w.obj].next_expiry : w \in {v \in s.task[p].watches : v.on = "timer"}}
    IN UNION {timers(p) \cup {s.task[p].deadline} : p \in parked} \ {Never}

\* The tables when the first process has started with nothing open. (Its
\* three standard streams never block, and are left out.)
Boot == [obj |-> <<FileNode>>, desc |-> <<>>,
         fds |-> [p \in Procs |-> [f \in Fds |-> Free]],
         task |-> [p \in Procs |-> [Running EXCEPT !.pc = IF p = 1 THEN "user" ELSE "unborn"]],
         now |-> 0]
=============================================================================
