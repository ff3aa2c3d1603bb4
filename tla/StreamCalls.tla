---------------------------- MODULE StreamCalls ----------------------------
(***************************************************************************)
(* The system calls on streams (syscall.rs). Each operator gives the       *)
(* tables after process p's call c on tables s: the call has returned, or  *)
(* p is parked and will issue it again. A call that fails returns with the *)
(* tables as they were, unless something was done before it failed.        *)
(***************************************************************************)
EXTENDS StreamState

\* Creating objects. A table with no room for both descriptors of a pair
\* keeps the first: its other end is dropped at once.
SysPipe(s, p, c) ==
    LET t == NewObject(s, PipeInner)
        o == Len(t.obj)
        r == InstallFd(t, p, Description("pipe_read", o, o, c.nonblock), c.cloexec)
    IN IF FreeFrom(s, p, 0) = {} THEN s
       ELSE Settle(InstallFd(r, p, Description("pipe_write", o, o, c.nonblock), c.cloexec))

SysSocketpair(s, p, c) ==
    LET t == NewObject(NewObject(s, PipeInner), PipeInner)
        ab == Len(t.obj) - 1
        ba == Len(t.obj)
        a == InstallFd(t, p, Description("pair", ba, ab, FALSE), c.cloexec)
    IN IF FreeFrom(s, p, 0) = {} THEN s
       ELSE Settle(InstallFd(a, p, Description("pair", ab, ba, FALSE), c.cloexec))

Simple(s, p, kind, x, c) ==
    LET t == NewObject(s, x)
    IN Settle(InstallFd(t, p, Description(kind, Len(t.obj), Len(t.obj), c.nonblock), c.cloexec))
SysEventfd(s, p, c) == Simple(s, p, "event", EventFdInner(c.count, c.semaphore), c)
SysTimerfdCreate(s, p, c) == Simple(s, p, "timer", TimerFdInner, c)
SysInotifyInit(s, p, c) == Simple(s, p, "inotify", InotifyInner, c)
SysEpollCreate(s, p, c) == Simple(s, p, "epoll", EpollInner, c)
OpenPtmx(s, p, c) == Simple(s, p, "pty_master", Pty, c)

\* Opening /dev/pts/N of the pty at object o.
OpenPts(s, p, c) ==
    LET t == [s EXCEPT !.obj[c.obj].slaves = @ + 1, !.obj[c.obj].slave_ever_opened = TRUE,
                       !.obj[c.obj].activity = @ + 1]
    IN Settle(InstallFd(t, p, Description("pty_slave", c.obj, c.obj, c.nonblock), c.cloexec))
OpenFile(s, p, c) ==
    Settle(InstallFd(s, p, Description("file", 1, 1, FALSE), c.cloexec))

-----------------------------------------------------------------------------
\* Descriptors.
SysClose(s, p, c) ==
    IF IsOpen(s, p, c.fd) THEN Settle([s EXCEPT !.fds[p][c.fd] = Free]) ELSE s
SysCloseRange(s, p, c) ==
    LET inside == {f \in Fds : f \in c.first..c.last /\ IsOpen(s, p, f)}
        t == [f \in Fds |-> IF f \notin inside THEN s.fds[p][f]
                            ELSE IF c.mark THEN [s.fds[p][f] EXCEPT !.cloexec = TRUE] ELSE Free]
    IN IF c.first > c.last THEN s ELSE Settle([s EXCEPT !.fds[p] = t])
SysDup(s, p, c) ==
    IF IsOpen(s, p, c.fd)
    THEN InsertFrom(s, p, c.min, [EntryOf(s, p, c.fd) EXCEPT !.cloexec = c.cloexec]) ELSE s
SysDup2(s, p, c) ==
    IF IsOpen(s, p, c.fd) /\ c.fd # c.to /\ c.to \in Fds
    THEN Settle([s EXCEPT !.fds[p][c.to] = [EntryOf(s, p, c.fd) EXCEPT !.cloexec = FALSE]]) ELSE s
\* F_SETFL and FIONBIO: the flag belongs to the description.
SetNonblock(s, p, c) ==
    IF IsOpen(s, p, c.fd) THEN [s EXCEPT !.desc[EntryOf(s, p, c.fd).desc].nonblock = c.nonblock]
    ELSE s
SetCloexec(s, p, c) ==
    IF IsOpen(s, p, c.fd) THEN [s EXCEPT !.fds[p][c.fd].cloexec = c.cloexec] ELSE s

\* fork shares the descriptions, execve drops the marked entries, exit all.
Unborn(s) == {q \in Procs : s.task[q].pc = "unborn"}
Fork(s, p, c) ==
    IF Unborn(s) = {} THEN s
    ELSE [s EXCEPT !.fds[Min(Unborn(s))] = s.fds[p], !.task[Min(Unborn(s))] = Running]
CloseCloexec(s, p, c) ==
    Settle([s EXCEPT !.fds[p] = [f \in Fds |-> IF @[f].cloexec THEN Free ELSE @[f]]])
Exit(s, p, c) ==
    Settle([s EXCEPT !.fds[p] = [f \in Fds |-> Free], !.task[p].pc = "gone"])

-----------------------------------------------------------------------------
\* inotify. A watch is on a node; its events carry the watch's descriptor.
Marker == [descriptor |-> -1, mask |-> "overflow"]

SysInotifyAddWatch(s, p, c) ==
    LET d == DescOf(s, p, c.fd)
        ws == s.obj[d.rx].watches
        old == {i \in DOMAIN ws : ws[i].node = c.node}
        new == [descriptor |-> s.obj[d.rx].next_descriptor, node |-> c.node, mask |-> c.mask]
    IN IF ~IsOpen(s, p, c.fd) \/ c.mask = {} THEN s
       ELSE IF d.kind # "inotify" THEN s
       ELSE IF old # {} THEN [s EXCEPT !.obj[d.rx].watches[Min(old)].mask = c.mask]
       ELSE [s EXCEPT !.obj[d.rx].watches = Append(@, new), !.obj[d.rx].next_descriptor = @ + 1]

SysInotifyRmWatch(s, p, c) ==
    LET d == DescOf(s, p, c.fd)
        Other(x) == x.descriptor # c.descriptor
        kept == SelectSeq(s.obj[d.rx].watches, Other)
    IN IF ~IsOpen(s, p, c.fd) THEN s
       ELSE IF d.kind # "inotify" THEN s
       ELSE IF kept = s.obj[d.rx].watches THEN s
       ELSE [s EXCEPT !.obj[d.rx].watches = kept, !.obj[d.rx].queue = SelectSeq(@, Other)]

\* notify_inotify on every live instance: events past the limit are dropped.
Notified(x, node, mask) ==
    LET Hit(w) == w.node = node /\ mask \in w.mask
        hits == SelectSeq(x.watches, Hit)
        fit == SubSeq(hits, 1, Least(Len(hits), Max({0, QueueLimit - Len(x.queue)})))
        lost == Len(fit) < Len(hits)
    IN [x EXCEPT !.queue = @ \o [i \in DOMAIN fit |-> [descriptor |-> fit[i].descriptor,
                                                       mask |-> mask]],
                 !.overflowed = @ \/ lost, !.activity = @ + 1]
NotifyInotify(s, node, mask) ==
    LET live == {s.desc[d].rx : d \in {e \in Referenced(s) : s.desc[e].kind = "inotify"}}
    IN [s EXCEPT !.obj = [o \in DOMAIN @ |-> IF o \in live THEN Notified(@[o], node, mask) ELSE @[o]]]

\* read_inotify with room for n records.
ReadInotify(s, o, n) ==
    LET x == s.obj[o]
        queue == (IF x.overflowed THEN <<Marker>> ELSE <<>>) \o x.queue
    IN IF queue = <<>> THEN s
       ELSE IF n = 0 THEN [s EXCEPT !.obj[o].queue = queue, !.obj[o].overflowed = FALSE]
       ELSE [s EXCEPT !.obj[o].queue = SubSeq(queue, n + 1, Len(queue)),
                      !.obj[o].overflowed = FALSE, !.obj[o].activity = @ + 1]

-----------------------------------------------------------------------------
\* timerfd. An interval of 0 is a single shot.
SysTimerfdSettime(s, p, c) ==
    LET d == DescOf(s, p, c.fd)
        at == IF c.value = 0 THEN Never
              ELSE IF c.absolute THEN c.value ELSE Wrapping(s.now + c.value)
    IN IF ~IsOpen(s, p, c.fd) THEN s
       ELSE IF d.kind # "timer" THEN s
       ELSE [s EXCEPT !.obj[d.rx].next_expiry = at, !.obj[d.rx].interval = c.interval]

ReadTimer(s, o) ==
    LET x == s.obj[o]
        n == ((s.now - x.next_expiry) \div x.interval) + 1
    IN IF x.interval = 0 THEN [s EXCEPT !.obj[o].next_expiry = Never]
       ELSE [s EXCEPT !.obj[o].next_expiry = Saturating(@ + Saturating(n * x.interval))]

ReadEvent(s, o) ==
    [s EXCEPT !.obj[o].activity = @ + 1,
              !.obj[o].count = IF s.obj[o].semaphore THEN @ - 1 ELSE 0]

-----------------------------------------------------------------------------
\* Bytes. A written byte is tagged with its writer, a byte sent from the file
\* with its place in it. What a read takes is gone also when its buffer turns
\* out to be one that cannot be written (c.bad) and the read fails.
TakeFront(s, o, queue, c) ==
    LET take == Least(c.n, Len(s.obj[o][queue]))
        t == [s EXCEPT !.obj[o].activity = @ + 1,
                       !.obj[o][queue] = SubSeq(@, take + 1, Len(@))]
        taken == (Len(s.obj[o].got) + 1)..(Len(s.obj[o].got) + take)
    IN IF queue # "data" THEN t
       ELSE [t EXCEPT !.obj[o].got = @ \o SubSeq(s.obj[o].data, 1, take),
                      !.obj[o].lost = IF c.bad THEN @ \cup taken ELSE @]
PutBack(s, o, bytes) ==
    [s EXCEPT !.obj[o].data = @ \o bytes, !.obj[o].sent = @ \o bytes]

\* Reading from a pipe or a socketpair: what is there, the end of the stream
\* when no one is left to write, or a wait.
ReadPipeEager(s, p, c, d) ==
    LET x == s.obj[d.rx]
    IN CASE x.writers = 0 -> Ret([s EXCEPT !.obj[d.rx].eof = TRUE], p)
         [] x.writers > 0 /\ x.data # <<>> -> Ret(TakeFront(s, d.rx, "data", c), p)
         [] OTHER -> WouldBlock(s, p, c, d, ReadWatchOf(d))
ReadPipeEndless(s, p, c, d) ==
    IF s.obj[d.rx].data # <<>> THEN Ret(TakeFront(s, d.rx, "data", c), p)
    ELSE WouldBlock(s, p, c, d, ReadWatchOf(d))
ReadPipe(s, p, c, d) ==
    LET x == s.obj[d.rx]
    IN CASE x.data # <<>> -> Ret(TakeFront(s, d.rx, "data", c), p)
         [] x.data = <<>> /\ x.writers = 0 -> Ret([s EXCEPT !.obj[d.rx].eof = TRUE], p)
         [] OTHER -> WouldBlock(s, p, c, d, ReadWatchOf(d))

\* A terminal: the master reads what slaves wrote, a slave what the master
\* wrote; each is told when the other side is gone.
ReadPty(s, p, c, d) ==
    LET x == s.obj[d.rx]
        master == d.kind = "pty_master"
        queue == IF master THEN "s2m" ELSE "m2s"
        hungUp == IF master THEN x.slave_ever_opened /\ x.slaves = 0 ELSE x.masters = 0
    IN CASE x[queue] # <<>> -> Ret(TakeFront(s, d.rx, queue, c), p)
         [] x[queue] = <<>> /\ hungUp -> Ret(s, p)
         [] OTHER -> WouldBlock(s, p, c, d, ReadWatchOf(d))

\* outcome_read. A count, an expiry, an event or a byte that is there is taken
\* before the buffer is written: a buffer that cannot be written loses it.
OutcomeRead(s, p, c) ==
    LET d == DescOf(s, p, c.fd)
        x == s.obj[d.rx]
        Block == WouldBlock(s, p, c, d, ReadWatchOf(d))
    IN IF ~IsOpen(s, p, c.fd) THEN Ret(s, p)
       ELSE CASE ~Readable(d) \/ d.kind = "epoll" -> Ret(s, p)
              [] d.kind \in {"pipe_read", "pair"} -> ReadPipe(s, p, c, d)
              [] d.kind \in {"pty_master", "pty_slave"} -> ReadPty(s, p, c, d)
              [] d.kind \in {"event", "timer"} /\ c.n < 8 -> Ret(s, p)
              [] d.kind = "event" /\ c.n >= 8 ->
                   IF x.count = 0 THEN Block ELSE Ret(ReadEvent(s, d.rx), p)
              [] d.kind = "timer" /\ c.n >= 8 ->
                   IF x.next_expiry # Never /\ s.now >= x.next_expiry
                   THEN Ret(ReadTimer(s, d.rx), p) ELSE Block
              [] d.kind = "inotify" -> Ret(ReadInotify(s, d.rx, c.n), p)
              [] d.kind = "file" ->
                   Ret([s EXCEPT !.desc[EntryOf(s, p, c.fd).desc].offset =
                            @ + Least(c.n, Max({0, x.len - @}))], p)

\* outcome_write. A write to a pipe whose readers are gone fails, without a
\* signal; the terminal's output turns a newline into two characters.
OutcomeWrite(s, p, c) ==
    LET d == DescOf(s, p, c.fd)
        x == s.obj[d.tx]
        room == Max({0, Capacity - Len(x.data)})
        bytes(n) == [i \in 1..n |-> [from |-> p]]
        echoed == IF c.newline THEN c.n + 1 ELSE c.n
        end == d.offset + c.n
    IN IF ~IsOpen(s, p, c.fd) THEN Ret(s, p)
       ELSE IF ~Writable(d) \/ d.kind = "epoll" THEN Ret(s, p)
       ELSE CASE d.kind \in {"pipe_write", "pair"} ->
                   IF x.readers = 0 THEN Ret(s, p)
                   ELSE IF room = 0 THEN WouldBlock(s, p, c, d, WriteWatchOf(d))
                   ELSE Ret([PutBack(s, d.tx, bytes(Least(c.n, room)))
                                EXCEPT !.obj[d.tx].activity = @ + 1], p)
              [] d.kind = "event" ->
                   IF c.n < 8 THEN Ret(s, p)
                   ELSE Ret([s EXCEPT !.obj[d.tx].count = Saturating(@ + c.value),
                                      !.obj[d.tx].activity = @ + 1], p)
              [] d.kind = "pty_master" ->
                   Ret([s EXCEPT !.obj[d.tx].m2s = @ \o bytes(c.n), !.obj[d.tx].activity = @ + 1], p)
              [] d.kind = "pty_slave" ->
                   Ret([s EXCEPT !.obj[d.tx].s2m = @ \o bytes(echoed), !.obj[d.tx].activity = @ + 1], p)
              [] d.kind = "file" ->
                   Ret(NotifyInotify([s EXCEPT !.desc[EntryOf(s, p, c.fd).desc].offset = end,
                                               !.obj[d.tx].len = Max({@, end})], d.tx, "modify"), p)

\* outcome_vectored: the first segment that is not empty.
OutcomeVectored(s, p, c) ==
    LET some == {i \in DOMAIN c.segs : c.segs[i] # 0}
        one == [c EXCEPT !.op = IF c.write THEN "write" ELSE "read", !.n = c.segs[Min(some)]]
    IN IF some = {} THEN Ret(s, p)
       ELSE IF c.write THEN OutcomeWrite(s, p, one) ELSE OutcomeRead(s, p, one)

\* flush_pty, for TCFLSH and TCSETSF: the bytes the caller has yet to read
\* (input) or has written (output).
FlushPty(s, p, c) ==
    LET d == DescOf(s, p, c.fd)
        incoming == IF d.kind = "pty_master" THEN "s2m" ELSE "m2s"
        outgoing == IF d.kind = "pty_master" THEN "m2s" ELSE "s2m"
    IN IF ~IsOpen(s, p, c.fd) THEN s
       ELSE IF d.kind \notin {"pty_master", "pty_slave"} THEN s
       ELSE [s EXCEPT !.obj[d.rx][incoming] = IF c.input THEN <<>> ELSE @,
                      !.obj[d.rx][outgoing] = IF c.output THEN <<>> ELSE @,
                      !.obj[d.rx].activity = @ + 1]

\* The part of sys_sendfile that fills a pipe, `chunk` bytes at most.
SendToPipeWhole(s, p, c, chunk) ==
    LET f == EntryOf(s, p, c.in).desc
        d == DescOf(s, p, c.out)
        take == Least(chunk, Capacity - Len(s.obj[d.tx].data))
    IN CASE s.obj[d.tx].readers = 0 -> Ret(s, p)
         [] s.obj[d.tx].readers > 0 /\ take = 0 -> Park(s, p, c, WriteWatchOf(d), Never)
         [] OTHER -> Ret([PutBack(s, d.tx, [i \in 1..take |-> [at |-> s.desc[f].offset + i]])
                            EXCEPT !.desc[f].offset = @ + chunk], p)
SendToPipe(s, p, c, chunk) ==
    LET f == EntryOf(s, p, c.in).desc
        d == DescOf(s, p, c.out)
        take == Least(chunk, Capacity - Len(s.obj[d.tx].data))
    IN CASE s.obj[d.tx].readers = 0 -> Ret(s, p)
         [] s.obj[d.tx].readers > 0 /\ take = 0 -> Park(s, p, c, WriteWatchOf(d), Never)
         [] OTHER -> Ret([PutBack(s, d.tx, [i \in 1..take |-> [at |-> s.desc[f].offset + i]])
                            EXCEPT !.desc[f].offset = @ + take], p)
\* sys_sendfile from the file's own offset. It fills a pipe without moving
\* the pipe's activity counter, and blocks on a full one whatever the flags of
\* the description say. Of the other kinds only a file takes the bytes.
SysSendfile(s, p, c) ==
    LET f == EntryOf(s, p, c.in).desc
        g == EntryOf(s, p, c.out).desc
        from == s.desc[f].offset
        chunk == Least(c.n, Max({0, s.obj[s.desc[f].rx].len - from}))
        d == s.desc[g]
        end == d.offset + chunk
    IN IF ~IsOpen(s, p, c.in) THEN Ret(s, p)
       ELSE IF s.desc[f].kind # "file" \/ ~IsOpen(s, p, c.out) THEN Ret(s, p)
       ELSE IF chunk = 0 \/ d.kind \notin {"pipe_write", "file"} THEN Ret(s, p)
       ELSE IF d.kind = "file"
            THEN Ret(NotifyInotify([s EXCEPT !.desc[g].offset = end,
                                             !.obj[d.tx].len = Max({@, end}),
                                             !.desc[f].offset = from + chunk], d.tx, "modify"), p)
       ELSE SendToPipe(s, p, c, chunk)
=============================================================================
