----------------------------- MODULE MCStreams -----------------------------
(***************************************************************************)
(* Programs for model checking the streams. Descriptors are given out from *)
(* 0 in the order of the setup.                                            *)
(***************************************************************************)
EXTENDS Streams

Make(name) == [op |-> name, nonblock |-> FALSE, cloexec |-> FALSE]
PipeCloexec == [op |-> "pipe", nonblock |-> FALSE, cloexec |-> TRUE]
Eventfd(n, sem) == [op |-> "eventfd", count |-> n, semaphore |-> sem, nonblock |-> FALSE, cloexec |-> FALSE]
Pts(o) == [op |-> "pts", obj |-> o, nonblock |-> FALSE, cloexec |-> FALSE]
ForkCall == [op |-> "fork"]
ExecCall == [op |-> "execve"]
ExitCall == [op |-> "exit"]
Close(f) == [op |-> "close", fd |-> f]
CloseRange(a, b, m) == [op |-> "close_range", first |-> a, last |-> b, mark |-> m]
Dup(f, m) == [op |-> "dup", fd |-> f, min |-> m, cloexec |-> FALSE]
Dup2(f, g) == [op |-> "dup2", fd |-> f, to |-> g]
Setfl(f, b) == [op |-> "setfl", fd |-> f, nonblock |-> b]
Setfd(f, b) == [op |-> "setfd", fd |-> f, cloexec |-> b]
Read(f, k) == [op |-> "read", fd |-> f, n |-> k, bad |-> FALSE]
ReadBad(f, k) == [Read(f, k) EXCEPT !.bad = TRUE]
Write(f, k) == [op |-> "write", fd |-> f, n |-> k, value |-> 1, newline |-> FALSE]
WriteLine(f, k) == [op |-> "write", fd |-> f, n |-> k, value |-> 1, newline |-> TRUE]
Writev(f, ks) == [op |-> "vectored", fd |-> f, segs |-> ks, write |-> TRUE, n |-> 0, value |-> 1,
                  newline |-> FALSE, bad |-> FALSE]
Readv(f, ks) == [Writev(f, ks) EXCEPT !.write = FALSE]
SendFile(o, i, k) == [op |-> "sendfile", out |-> o, in |-> i, n |-> k]
Flush(f, i, o) == [op |-> "flush", fd |-> f, input |-> i, output |-> o]
Settime(f, v, i) == [op |-> "settime", fd |-> f, value |-> v, interval |-> i, absolute |-> FALSE]
AddWatch(f, m) == [op |-> "add_watch", fd |-> f, node |-> 1, mask |-> m]
RmWatch(f, wd) == [op |-> "rm_watch", fd |-> f, descriptor |-> wd]
Poll(w, t) == [op |-> "poll", want |-> w, timeout |-> t]
Select(r, w, t) == [op |-> "select", reads |-> r, writes |-> w, timeout |-> t]
Ctl(e, h, f, ev) == [op |-> "epoll_ctl", ep |-> e, how |-> h, fd |-> f, events |-> ev]
EpollWait(e, m, t) == [op |-> "epoll_wait", ep |-> e, max |-> m, timeout |-> t, known |-> <<>>,
                       bad |-> FALSE]

-----------------------------------------------------------------------------
\* A pipe between a parent and its child: blocking on both sides, dup, exec
\* and exit, with O_CLOEXEC ends.
PipeProgram ==
    [setup |-> <<PipeCloexec, ForkCall>>, clock |-> 0, activity |-> 4,
     calls |-> {Read(0, 2), Write(1, 2), Close(1), Dup(1, 2), ExecCall, ExitCall, Setfd(1, FALSE)}]

\* A reader that once in a while gives a buffer that cannot be written.
RecklessProgram ==
    [setup |-> <<Make("pipe"), Make("epoll"), Ctl(2, "add", 0, {"in", "et"}), ForkCall>>,
     clock |-> 0, activity |-> 4,
     calls |-> {Read(0, 1), ReadBad(0, 1), Write(1, 2), Close(1),
                [EpollWait(2, 1, Never) EXCEPT !.bad = TRUE]}]

\* Both ends polled, and read and written in pieces.
PollProgram ==
    [setup |-> <<Make("pipe"), ForkCall>>, clock |-> 1, activity |-> 4,
     calls |-> {Readv(0, <<0, 1>>), Writev(1, <<2, 1>>), CloseRange(1, 2, FALSE), Close(0), ExitCall,
                Poll(0 :> {"in"} @@ 1 :> {"out"}, Never), Poll(0 :> {"in"}, 1), Poll(0 :> {}, Never)}]

\* A descriptor table without room for both ends of a pipe or a socketpair.
TableProgram ==
    [setup |-> <<Make("pipe")>>, clock |-> 0, activity |-> 4,
     calls |-> {Make("pipe"), Make("socketpair"), Eventfd(0, FALSE), Dup2(0, 3),
                Close(0), CloseRange(1, 2, FALSE), CloseRange(2, 3, TRUE), ExecCall}]

\* A socketpair, waited on with select.
SelectProgram ==
    [setup |-> <<Make("socketpair"), ForkCall>>, clock |-> 1, activity |-> 4,
     calls |-> {Read(0, 1), Write(1, 2), Write(0, 1), Select({0}, {}, Never), Select({0}, {1}, 1),
                Close(1), ExitCall}]

\* Two senders of one file, and a reader.
SendProgram ==
    [setup |-> <<Make("pipe"), Make("open"), ForkCall>>, clock |-> 0, activity |-> 4,
     calls |-> {SendFile(1, 2, 2), Write(1, 1), Read(0, 1), Setfl(1, TRUE), Close(0), ExitCall}]

\* An event loop that takes one event at a time: an edge-triggered pipe, and an
\* eventfd that joins it.
EdgeProgram ==
    [setup |-> <<Make("pipe"), Eventfd(0, TRUE), Make("epoll"), Ctl(3, "add", 0, {"in", "et"}),
                 ForkCall>>, clock |-> 0, activity |-> 3,
     calls |-> {Write(1, 1), Read(0, 1), Write(2, 8), Read(2, 8), EpollWait(3, 1, Never),
                Ctl(3, "add", 2, {"in", "et"}), Ctl(3, "mod", 0, {"in"})}]

\* Timers, with deadlines and at the end of time.
TimerProgram ==
    [setup |-> <<Make("timerfd"), Make("epoll"), Ctl(1, "add", 0, {"in"}), ForkCall>>, clock |-> 6, activity |-> 4,
     calls |-> {Settime(0, 1, 2), Settime(0, 2, 7), Settime(0, 3, 0), Read(0, 8),
                EpollWait(1, 1, Never), EpollWait(1, 1, 2), Ctl(1, "del", 0, {})}]

\* A watched file whose watcher is slow.
InotifyProgram ==
    [setup |-> <<Make("inotify"), Make("open"), AddWatch(0, {"modify"})>>, clock |-> 0, activity |-> 4,
     calls |-> {ForkCall, Write(1, 1), Read(0, 1), Read(0, 2), AddWatch(0, {}), AddWatch(0, {"attrib"}),
                RmWatch(0, 1), Poll(0 :> {"in"}, Never)}]

\* A terminal with a program behind it.
PtyProgram ==
    [setup |-> <<Make("ptmx"), ForkCall>>, clock |-> 0, activity |-> 4,
     calls |-> {Pts(2), Read(0, 2), Write(0, 1), Read(1, 1), WriteLine(1, 1), Flush(1, TRUE, FALSE),
                Close(0), Close(1), Poll(0 :> {"in"}, Never)}]

EdgePrograms == {EdgeProgram}
MCPrograms == {PipeProgram, RecklessProgram, PollProgram, TableProgram, SelectProgram, SendProgram, EdgeProgram,
               TimerProgram, InotifyProgram, PtyProgram}
=============================================================================
