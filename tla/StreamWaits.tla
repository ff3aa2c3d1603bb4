---------------------------- MODULE StreamWaits ----------------------------
(***************************************************************************)
(* Waiting for several descriptors: poll, select and epoll, and the table  *)
(* of all calls.                                                           *)
(***************************************************************************)
EXTENDS StreamCalls

HungUp(s, d) == d.kind = "pipe_read" /\ s.obj[d.rx].writers = 0
CanRead(s, d) == Readable(d) /\ DescReadReady(s, d)
CanWrite(s, d) == Writable(d) /\ DescWriteReady(s, d)

\* sys_poll and outcome_poll: `want` gives the events asked for of each
\* descriptor. A descriptor that is not open is reported, not waited for.
PollBits(s, p, c, fd) ==
    IF ~IsOpen(s, p, fd) THEN {"nval"}
    ELSE LET d == DescOf(s, p, fd)
         IN {b \in {"in", "out", "hup"} :
                \/ b = "in" /\ b \in c.want[fd] /\ CanRead(s, d)
                \/ b = "out" /\ b \in c.want[fd] /\ CanWrite(s, d)
                \/ b = "hup" /\ HungUp(s, d)}
PollWatches(s, p, c, fd) ==
    IF ~IsOpen(s, p, fd) THEN {}
    ELSE LET d == DescOf(s, p, fd)
         IN (IF "in" \in c.want[fd] THEN ReadWatchOf(d) ELSE {})
            \cup (IF "out" \in c.want[fd] THEN WriteWatchOf(d) ELSE {})
OutcomePoll(s, p, c) ==
    IF \E fd \in DOMAIN c.want : PollBits(s, p, c, fd) # {} THEN Ret(s, p)
    ELSE Await(s, p, c, UNION {PollWatches(s, p, c, fd) : fd \in DOMAIN c.want})

\* sys_select: only the descriptors to read from are watched.
SysSelect(s, p, c) ==
    LET asked == c.reads \cup c.writes
        ready == {fd \in asked : \/ fd \in c.reads /\ CanRead(s, DescOf(s, p, fd))
                                 \/ fd \in c.writes /\ CanWrite(s, DescOf(s, p, fd))}
    IN IF \E fd \in asked : ~IsOpen(s, p, fd) THEN Ret(s, p)
       ELSE IF ready # {} THEN Ret(s, p)
       ELSE Await(s, p, c, UNION {ReadWatchOf(DescOf(s, p, fd)) : fd \in c.reads})

-----------------------------------------------------------------------------
\* epoll. `interests` maps descriptors to the events asked for and "et";
\* `edge_fired` maps them to the conditions last found and the activity then.
Without(f, k) == [i \in DOMAIN f \ {k} |-> f[i]]
With(f, k, v) == [i \in DOMAIN f \cup {k} |-> IF i = k THEN v ELSE f[i]]

\* A descriptor that is added, changed or removed starts over.
Forget(x, fd) == [x EXCEPT !.edge_fired = Without(@, fd), !.seen = {r \in @ : r.fd # fd}]

SysEpollCtl(s, p, c) ==
    LET e == DescOf(s, p, c.ep).rx
        known == c.fd \in DOMAIN s.obj[e].interests
    IN IF ~IsOpen(s, p, c.ep) THEN s
       ELSE IF DescOf(s, p, c.ep).kind # "epoll" THEN s
       ELSE IF c.how = "del"
            THEN IF known THEN [s EXCEPT !.obj[e] = Forget([@ EXCEPT !.interests = Without(@, c.fd)], c.fd)]
                 ELSE s
       ELSE IF ~IsOpen(s, p, c.fd) \/ (c.how = "add" /\ known) THEN s
       ELSE [s EXCEPT !.obj[e] = Forget([@ EXCEPT !.interests = With(@, c.fd, c.events)], c.fd)]

\* sys_epoll_wait. Descriptors are visited in order, those that the caller has
\* closed are passed over. A condition of an edge-triggered descriptor is
\* reported unless the last wait found it too and nothing has happened since.
\* All that was found is recorded, also what `max` cut off and what was not
\* told because the caller's buffer cannot be written (c.bad), or has to be
\* paged in first and the call is issued again.
\* (`known` is history: the interests that a parked wait was parked with.)
EpollFired(s, d, events) ==
    {b \in {"in", "out", "hup"} :
        \/ b = "in" /\ b \in events /\ CanRead(s, d)
        \/ b = "out" /\ b \in events /\ CanWrite(s, d)
        \/ b = "hup" /\ HungUp(s, d)}
Suppressed(s, x, fd, d) ==
    IF "et" \in x.interests[fd] /\ fd \in DOMAIN x.edge_fired
    THEN IF x.edge_fired[fd].act = BackingActivity(s, d) THEN x.edge_fired[fd].mask ELSE {}
    ELSE {}
\* The edges that the scan leaves recorded, whether reported or not.
EdgesAfter(s, p, x, scanned) ==
    LET edge == {fd \in scanned : "et" \in x.interests[fd]}
        fired == [fd \in edge |-> EpollFired(s, DescOf(s, p, fd), x.interests[fd])]
        kept == (DOMAIN x.edge_fired \ edge) \cup {fd \in edge : fired[fd] # {}}
    IN [fd \in kept |-> IF fd \in edge
                        THEN [mask |-> fired[fd], act |-> BackingActivity(s, DescOf(s, p, fd))]
                        ELSE x.edge_fired[fd]]
\* A descriptor waited for in vain is watched for data; one whose edge is
\* suppressed, for activity.
EpollWatches(s, d, events) ==
    (IF "in" \in events /\ ~CanRead(s, d) THEN ReadWatchOf(d) ELSE {})
    \cup (IF "et" \in events /\ EpollFired(s, d, events) # {}
          THEN ActivityWatchOf(s, d) ELSE {})
SysEpollWait(s, p, c) ==
    LET e == DescOf(s, p, c.ep).rx
        x == s.obj[e]
        scanned == {fd \in DOMAIN x.interests : IsOpen(s, p, fd)}
        Of(fd) == DescOf(s, p, fd)
        report == [fd \in scanned |->
                     EpollFired(s, Of(fd), x.interests[fd]) \ Suppressed(s, x, fd, Of(fd))]
        due == {fd \in scanned : report[fd] # {}}
        told == {fd \in due : Cardinality({g \in due : g < fd}) < c.max}
        fresh == UNION {{[fd |-> fd, obj |-> Of(fd).rx, bit |-> b, act |-> BackingActivity(s, Of(fd))] :
                            b \in report[fd]} : fd \in IF c.bad THEN {} ELSE told}
        old == {r \in x.seen : \E n \in fresh : n.fd = r.fd /\ n.act # r.act}
        t == [s EXCEPT !.obj[e].edge_fired = EdgesAfter(s, p, x, scanned),
                       !.obj[e].seen = (@ \ old) \cup fresh]
    IN IF ~IsOpen(s, p, c.ep) THEN Ret(s, p)
       ELSE IF DescOf(s, p, c.ep).kind # "epoll" THEN Ret(s, p)
       ELSE IF told # {} THEN Ret(t, p)
       ELSE Await(t, p, [c EXCEPT !.known = x.interests],
                  UNION {EpollWatches(s, Of(fd), x.interests[fd]) : fd \in scanned})

-----------------------------------------------------------------------------
\* What a task woken with its call still to do does first: issue it again.
Reissue(s, p, c) ==
    CASE c.op = "read" -> OutcomeRead(s, p, c)
      [] c.op = "write" -> OutcomeWrite(s, p, c)
      [] c.op = "sendfile" -> SysSendfile(s, p, c)
      [] c.op = "poll" -> OutcomePoll(s, p, c)
      [] c.op = "select" -> SysSelect(s, p, c)
      [] c.op = "epoll_wait" -> SysEpollWait(s, p, c)

\* The calls that set a program up, issued by process 1.
SetUp(s, c) ==
    CASE c.op = "pipe" -> SysPipe(s, 1, c)
      [] c.op = "socketpair" -> SysSocketpair(s, 1, c)
      [] c.op = "eventfd" -> SysEventfd(s, 1, c)
      [] c.op = "timerfd" -> SysTimerfdCreate(s, 1, c)
      [] c.op = "inotify" -> SysInotifyInit(s, 1, c)
      [] c.op = "add_watch" -> SysInotifyAddWatch(s, 1, c)
      [] c.op = "epoll" -> SysEpollCreate(s, 1, c)
      [] c.op = "epoll_ctl" -> SysEpollCtl(s, 1, c)
      [] c.op = "ptmx" -> OpenPtmx(s, 1, c)
      [] c.op = "pts" -> OpenPts(s, 1, c)
      [] c.op = "open" -> OpenFile(s, 1, c)
      [] c.op = "write" -> OutcomeWrite(s, 1, c)
      [] c.op = "fork" -> Fork(s, 1, c)
=============================================================================
