--------------------------------- MODULE Net ---------------------------------
(***************************************************************************)
(* The guest's sockets over the brokers: in the browser, with the worker,  *)
(* the relay and the peers of NetHost; natively, over the operating        *)
(* system, with a recording that is then replayed to the same guest.       *)
(***************************************************************************)
EXTENDS NetHost

CONSTANTS
    MaxCalls,       \* calls of a recorded session
    Scenarios

VARIABLES
    sock,           \* sock[s]: the guest's socket (NetSocket and its description)
    meter,          \* NetMeter
    hist            \* [calls, pos, agree]: calls of a recorded session, and of its replay

vars == <<sc, sock, net, meter, task, hist, ws, link, relay, openSockets, conn>>

NoSock == [open |-> FALSE, handle |-> 0, peer |-> None, nonblock |-> FALSE]

Running == [mode |-> "runs", call |-> <<>>, deadline |-> None, woken |-> FALSE]

Init ==
    /\ sc \in Scenarios
    /\ sock = [s \in Socks |-> NoSock]
    /\ net = NewBroker(sc.inner, <<>>, sc.space)
    /\ meter \in {NewMeter(b) : b \in sc.budgets}
    /\ task = Running
    /\ hist = [calls |-> <<>>, pos |-> 0, agree |-> TRUE]
    /\ HostInit
    /\ conn = [h \in Handles |-> NoConn]

K == [net |-> net, meter |-> meter]

Live == net.inner # "replay"

-----------------------------------------------------------------------------
(* The guest issues a call.  A recorded guest is deterministic: in the     *)
(* replay it issues the calls of the session, as long as their answers are *)
(* those of the session.                                                   *)

MayIssue(c) ==
    /\ task.mode = "runs"
    /\ CASE net.inner = "host" -> TRUE
         [] net.inner = "native" -> Len(hist.calls) < MaxCalls
         [] net.inner = "replay" -> hist.pos < Len(hist.calls) /\ hist.calls[hist.pos + 1][1] = c

Answered(c, a) ==
    hist' = CASE net.inner = "host" -> hist
              [] net.inner = "native" -> [hist EXCEPT !.calls = Append(@, <<c, a>>)]
              [] net.inner = "replay" ->
                    [hist EXCEPT !.pos = @ + 1, !.agree = @ /\ a = hist.calls[hist.pos + 1][2]]

\* The guest sees its descriptor, not the broker's handle.
Visible(a) == IF a[1] = "handle" THEN Done ELSE a

Commit(k) == net' = k.net /\ meter' = k.meter

\* The n-th byte or datagram that the guest, or the peer, sends on h.
GuestUnit(h, n) == 10 * h + n
PeerUnit(h, n) == 10 * h + 5 + n

NextBytes(h, n) == [i \in 1 .. n |-> GuestUnit(h, Len(conn[h].wrote) + i)]
NextGram(h, n) == <<GuestUnit(h, Len(conn[h].wrote) + 1), n>>

Opened(h, kind) == IF Live THEN [conn EXCEPT ![h].kind = kind] ELSE conn

WroteOn(h, units) == IF Live THEN [conn EXCEPT ![h].wrote = @ \o units] ELSE conn

\* What a receive took for the guest, and what of it never reached its memory.
ReadUnits(c, units, into) ==
    [c EXCEPT !.read = @ \o units,
              !.lost = IF into = "bad" THEN @ \cup {Len(c.read) + i : i \in DOMAIN units} ELSE @]

ReadBy(c, a, into) ==
    CASE a[1] = "data" -> ReadUnits(c, a[2], into)
      [] a[1] = "gram" -> ReadUnits(c, <<a[2]>>, into)
      [] a = Closed -> [c EXCEPT !.told = "eof"]
      [] a[1] = "error" /\ a[2] \notin {"EPERM", "EAGAIN"} -> [c EXCEPT !.told = "error"]
      [] OTHER -> c

-----------------------------------------------------------------------------
(* System calls.                                                           *)

SysSocket(s, nonblock) ==
    /\ MayIssue(<<"socket", s, nonblock>>)
    /\ ~sock[s].open
    /\ sock' = [sock EXCEPT ![s] = [NoSock EXCEPT !.open = TRUE, !.nonblock = nonblock]]
    /\ Answered(<<"socket", s, nonblock>>, Done)
    /\ UNCHANGED <<net, meter, task, conn>>

Attach(s, d, r) ==
    sock' = IF Succeeded(r) THEN [sock EXCEPT ![s].handle = r.ans[2], ![s].peer = d] ELSE sock

\* A handle the scenario's bound allows to be given out.
HandleFree == net.next <= sc.handles

ConnectTcp(s, d) ==
    LET r == TcpConnect(K, d) IN
    /\ HandleFree
    /\ Attach(s, d, r)
    /\ Commit(r.k)
    /\ conn' = IF Succeeded(r) THEN Opened(r.ans[2], "tcp") ELSE conn
    /\ Answered(<<"connect", s, d>>, Visible(r.ans))

ConnectUdp(s, d) ==
    LET r == UdpOpen(K) IN
    \/ /\ sock[s].handle = 0 /\ HandleFree
       /\ Attach(s, d, r)
       /\ Commit(r.k)
       /\ conn' = IF Succeeded(r) THEN Opened(r.ans[2], "udp") ELSE conn
       /\ Answered(<<"connect", s, d>>, Visible(r.ans))
    \/ /\ sock[s].handle # 0
       /\ sock' = [sock EXCEPT ![s].peer = d]
       /\ Answered(<<"connect", s, d>>, Done)
       /\ UNCHANGED <<net, meter, conn>>

SysConnect(s, d) ==
    /\ MayIssue(<<"connect", s, d>>)
    /\ sock[s].open /\ d \in sc.dests
    /\ IF sc.kind[s] = "tcp" THEN ConnectTcp(s, d) ELSE ConnectUdp(s, d)
    /\ UNCHANGED task

\* A write to a socket, and sendto without an address.
WriteResult(s, n) ==
    LET h == sock[s].handle IN
    CASE h = 0 -> Answer(K, Fails("ENOTCONN"))
      [] h # 0 /\ sc.kind[s] = "tcp" -> MeteredTcpSend(K, h, NextBytes(h, n))
      [] h # 0 /\ sc.kind[s] = "udp" /\ sock[s].peer # None ->
            MeteredUdpSendTo(K, h, sock[s].peer, NextGram(h, n))
      [] h # 0 /\ sc.kind[s] = "udp" /\ sock[s].peer = None -> Answer(K, Fails("EDESTADDRREQ"))

WroteUnits(s, h, r) ==
    IF sc.kind[s] = "tcp" THEN NextBytes(h, r.ans[2]) ELSE <<NextGram(h, r.ans[2])>>

\* The bound on what the guest sends.
Room(s, h, n) ==
    h # 0 /\ Live => Len(conn[h].wrote) + (IF sc.kind[s] = "tcp" THEN n ELSE 1) <= sc.units

OutcomeWrite(s, n) ==
    LET r == WriteResult(s, n) IN
    /\ MayIssue(<<"write", s, n>>)
    /\ sock[s].open /\ Room(s, sock[s].handle, n)
    /\ Commit(r.k)
    /\ conn' = IF Succeeded(r) THEN WroteOn(sock[s].handle, WroteUnits(s, sock[s].handle, r)) ELSE conn
    /\ Answered(<<"write", s, n>>, r.ans)
    /\ UNCHANGED <<sock, task>>

\* sendto with an address: a datagram socket is opened at its first use.
SendtoResult(s, d, n, opened) ==
    IF ~Succeeded(opened) THEN opened
    ELSE MeteredUdpSendTo(opened.k, opened.ans[2], d, NextGram(opened.ans[2], n))

OpenedUdp(s) ==
    IF sock[s].handle = 0 THEN UdpOpen(K) ELSE Answer(K, HandleOf(sock[s].handle))

SendtoUdp(s, d, n, opened, r) ==
    /\ Succeeded(opened) => Room(s, opened.ans[2], n)
    /\ Commit(r.k)
    /\ sock' = [sock EXCEPT ![s].handle = IF Succeeded(opened) THEN opened.ans[2] ELSE @]
    /\ conn' = CASE Live /\ Succeeded(opened) /\ Succeeded(r) ->
                       [conn EXCEPT ![opened.ans[2]].kind = "udp",
                                    ![opened.ans[2]].wrote = Append(@, NextGram(opened.ans[2], n))]
                 [] Live /\ Succeeded(opened) /\ ~Succeeded(r) -> Opened(opened.ans[2], "udp")
                 [] OTHER -> conn
    /\ Answered(<<"sendto", s, d, n>>, r.ans)

SysSendto(s, d, n) ==
    /\ MayIssue(<<"sendto", s, d, n>>)
    /\ sock[s].open /\ d \in sc.dests
    /\ \/ /\ sc.kind[s] = "tcp"
          /\ Answered(<<"sendto", s, d, n>>, Fails("EOPNOTSUPP"))
          /\ UNCHANGED <<sock, net, meter, conn>>
       \/ /\ sc.kind[s] = "udp"
          /\ sock[s].handle = 0 => HandleFree
          /\ SendtoUdp(s, d, n, OpenedUdp(s), SendtoResult(s, d, n, OpenedUdp(s)))
    /\ UNCHANGED task

\* A read of a socket, and recvfrom.
RecvResult(s, max) ==
    LET h == sock[s].handle IN
    CASE h = 0 -> Answer(K, Fails("ENOTCONN"))
      [] h # 0 /\ sc.kind[s] = "tcp" -> MeteredTcpRecv(K, h, max)
      [] h # 0 /\ sc.kind[s] = "udp" -> MeteredUdpRecvFrom(K, h, max)

\* The answer to a read is written to the guest's buffer last: when that
\* fails, the broker has taken and the meter has charged what is now lost.
Written(a, into) == IF a[1] \in {"data", "gram"} /\ into = "bad" THEN Fails("EFAULT") ELSE a

Completes(c, k, a) ==
    /\ Commit(k)
    /\ task' = Running
    /\ conn' = IF Live /\ sock[c[2]].handle # 0
               THEN [conn EXCEPT ![sock[c[2]].handle] = ReadBy(@, a, c[4])] ELSE conn
    /\ Answered(c, Written(a, c[4]))

\* The task is parked; with nothing else to run the machine asks the host to
\* wait, or waits in the broker.
Parks(c, deadline) ==
    task' = [task EXCEPT !.mode = IF net.inner = "host" THEN "paused" ELSE "blocked",
                         !.call = c, !.deadline = deadline]

Attempt(c, r) ==
    \/ /\ r.ans # WouldBlock
       /\ Completes(c, r.k, r.ans)
    \/ /\ r.ans = WouldBlock /\ sock[c[2]].nonblock
       /\ Completes(c, r.k, Fails("EAGAIN"))
    \/ /\ r.ans = WouldBlock /\ ~sock[c[2]].nonblock
       /\ Parks(c, None)
       /\ Commit(r.k)
       /\ UNCHANGED <<conn, hist>>

\* A read into a buffer that can be written ("ok") or not ("bad").
OutcomeRead(s, max, into) ==
    /\ MayIssue(<<"read", s, max, into>>)
    /\ sock[s].open
    /\ Attempt(<<"read", s, max, into>>, RecvResult(s, max))
    /\ UNCHANGED sock

\* poll of a socket for reading, with a timeout of milliseconds ("ms") or less
\* ("sub").
OutcomePoll(s, timeout) ==
    /\ MayIssue(<<"poll", s, timeout>>)
    /\ sock[s].open /\ sock[s].handle # 0
    /\ ~Readable(net, sock[s].handle)
    /\ Parks(<<"poll", s, timeout>>, timeout)
    /\ UNCHANGED <<sock, net, meter, conn, hist>>

SysShutdown(s) ==
    LET r == TcpShutdownWrite(K, sock[s].handle) IN
    /\ MayIssue(<<"shutdown", s>>)
    /\ sock[s].open /\ sc.kind[s] = "tcp" /\ sock[s].handle # 0
    /\ Commit(r.k)
    /\ conn' = IF Live /\ Succeeded(r) /\ conn[sock[s].handle].stop = <<>>
               THEN [conn EXCEPT ![sock[s].handle].stop = <<Len(conn[sock[s].handle].wrote)>>] ELSE conn
    /\ Answered(<<"shutdown", s>>, r.ans)
    /\ UNCHANGED <<sock, task>>

\* The last descriptor goes: Drop for Description.
Dropped(k, s) == IF sock[s].handle = 0 THEN k ELSE CloseHandle(k, sock[s].handle)

SysClose(s) ==
    /\ MayIssue(<<"close", s>>)
    /\ sock[s].open
    /\ Commit(Dropped(K, s))
    /\ sock' = [sock EXCEPT ![s] = NoSock]
    /\ Answered(<<"close", s>>, Done)
    /\ UNCHANGED <<task, conn>>

\* The guest ends; its descriptors are dropped.
Exit ==
    /\ task.mode = "runs" /\ Live /\ "exit" \in sc.calls
    /\ Commit(FoldSet(LAMBDA s, k : Dropped(k, s), K, Socks))
    /\ sock' = [s \in Socks |-> NoSock]
    /\ task' = [Running EXCEPT !.mode = "done"]
    /\ UNCHANGED <<conn, hist>>

-----------------------------------------------------------------------------
(* The machine and its host.                                               *)

\* wtw_run returns at the end of a slice, the worker yields to its queue and
\* runs the next one.
SliceEnds ==
    /\ net.inner = "host" /\ task.mode = "runs"
    /\ task' = [task EXCEPT !.mode = "yields"]
    /\ UNCHANGED <<sock, net, meter, conn, hist>>

SliceBegins ==
    /\ task.mode = "yields"
    /\ task' = [task EXCEPT !.mode = "runs"]
    /\ UNCHANGED <<sock, net, meter, conn, hist>>

WaitsOn == sock[task.call[2]].handle

Retry ==
    IF task.call[1] = "read" THEN Attempt(task.call, RecvResult(task.call[2], task.call[3]))
    ELSE task' = Running /\ UNCHANGED <<net, meter, conn, hist>>

\* The wait of pumpNetwork is over, by an event or by its timeout, and the
\* machine runs: a task whose socket is readable takes its call up again; if
\* no event came, expire_network_wait lets the clock move to its deadline.
Rerun ==
    /\ task.mode \in {"waits", "spins"}
    /\ \/ /\ Readable(net, WaitsOn)
          /\ Retry
       \/ /\ ~Readable(net, WaitsOn) /\ (task.woken \/ task.deadline = None)
          /\ task' = [task EXCEPT !.mode = "paused"]
          /\ UNCHANGED <<net, meter, conn, hist>>
       \/ /\ ~Readable(net, WaitsOn) /\ ~task.woken /\ task.deadline # None
          /\ task' = Running
          /\ UNCHANGED <<net, meter, conn, hist>>
    /\ UNCHANGED sock

\* resolve_stall with a broker of its own transport: wait_ready returns when
\* the socket is readable, or after its cap, which ends the machine.
WaitReady ==
    /\ task.mode = "blocked"
    /\ \/ /\ Readable(net, WaitsOn)
          /\ Retry
       \/ /\ ~Readable(net, WaitsOn)
          /\ task' = [task EXCEPT !.mode = "done"]
          /\ UNCHANGED <<net, meter, conn, hist>>
    /\ UNCHANGED sock

\* The same guest is run again, on a new machine, from the recording.
StartReplay ==
    /\ net.inner = "native" /\ task.mode = "done"
    /\ net' = NewBroker("replay", net.log, sc.space)
    /\ meter' = NewMeter(meter.budget)
    /\ sock' = [s \in Socks |-> NoSock]
    /\ task' = Running
    /\ UNCHANGED <<conn, hist>>

\* wtw_set_network_budget_kib, from the worker's event loop.
SetNetworkBudget(b) ==
    /\ AtEventLoop /\ task.mode # "done" /\ net.inner = "host"
    /\ b # meter.budget
    /\ meter' = [meter EXCEPT !.budget = b]
    /\ UNCHANGED <<sock, net, task, conn, hist>>

-----------------------------------------------------------------------------
(* The peers.                                                              *)

Connected(h) ==
    IF net.inner = "host" THEN relay[h].st = "relaying"
    ELSE net.inner = "native" /\ net.ep[h].live /\ net.ep[h].error = None

\* A peer's frame reaches the worker's WebSocket or the operating system's socket.
Arrives(h, f, n) ==
    IF net.inner = "host" THEN link' = ToWorker(h, f) /\ UNCHANGED net
    ELSE net' = n /\ UNCHANGED link

PeerSends(h) ==
    /\ Connected(h) /\ conn[h].kind = "tcp" /\ ~conn[h].ended
    /\ Len(conn[h].sent) < sc.units
    /\ LET bytes == <<PeerUnit(h, Len(conn[h].sent) + 1)>> IN
       /\ conn' = [conn EXCEPT ![h].sent = @ \o bytes]
       /\ Arrives(h, <<"bytes", bytes>>, [net EXCEPT !.ep[h].rx = @ \o bytes])
    /\ UNCHANGED <<task, ws, relay, openSockets>>

PeerSendsGram(h) ==
    /\ Connected(h) /\ conn[h].kind = "udp"
    /\ Len(conn[h].sent) < sc.units
    /\ LET g == <<PeerUnit(h, Len(conn[h].sent) + 1), 2>> IN
       /\ conn' = [conn EXCEPT ![h].sent = Append(@, g)]
       /\ Arrives(h, <<"gram", g>>, [net EXCEPT !.ep[h].grams = Append(@, g)])
    /\ UNCHANGED <<task, ws, relay, openSockets>>

PeerEnds(h) ==
    /\ Connected(h) /\ conn[h].kind = "tcp" /\ ~conn[h].ended
    /\ conn' = [conn EXCEPT ![h].ended = TRUE]
    /\ Arrives(h, <<"eof">>, [net EXCEPT !.ep[h].closed = TRUE])
    /\ relay' = IF net.inner = "host" THEN [relay EXCEPT ![h].st = "ended"] ELSE relay
    /\ UNCHANGED <<task, ws, openSockets>>

PeerResets(h) ==
    /\ "reset" \in sc.faults
    /\ Connected(h) /\ conn[h].kind = "tcp" /\ ~conn[h].ended
    /\ \/ /\ net.inner = "host"
          /\ link' = Hangup(h, "unreachable")
          /\ Shut(h)
          /\ UNCHANGED net
       \/ /\ net.inner = "native"
          /\ net' = [net EXCEPT !.ep[h].error = "ECONNRESET"]
          /\ UNCHANGED <<link, relay, openSockets>>
    /\ UNCHANGED <<task, ws, conn>>

-----------------------------------------------------------------------------
\* A guest shuts a connection down once, and, unless the scenario says "early",
\* when the peer has answered.
MayShut(h) == conn[h].stop = <<>> /\ (sc.early \/ conn[h].read # <<>>)

GuestCall(s) ==
    \/ \E nonblock \in sc.nonblock : SysSocket(s, nonblock)
    \/ \E d \in sc.dests : SysConnect(s, d)
    \/ "write" \in sc.calls /\ \E n \in sc.sizes : OutcomeWrite(s, n)
    \/ "sendto" \in sc.calls /\ \E d \in sc.dests, n \in sc.sizes : SysSendto(s, d, n)
    \/ \E max \in sc.sizes, into \in sc.buffers : OutcomeRead(s, max, into)
    \/ \E t \in sc.timeouts : OutcomePoll(s, t)
    \/ /\ "shutdown" \in sc.calls
       /\ sock[s].handle # 0 /\ (Live => MayShut(sock[s].handle))
       /\ SysShutdown(s)
    \/ "close" \in sc.calls /\ SysClose(s)

\* The guest, the machine and the host's other calls.
GuestStep ==
    /\ \/ \E s \in sc.socks : GuestCall(s)
       \/ Exit \/ SliceEnds \/ SliceBegins \/ Rerun \/ WaitReady \/ StartReplay
       \/ \E b \in sc.budgets : SetNetworkBudget(b)
    /\ UNCHANGED <<sc, ws, link, relay, openSockets>>

\* The worker, the relay and the peers.
HostStep ==
    /\ \/ PumpNetwork
       \/ \E h \in Handles :
             \/ Deliver(h) \/ Upgrade(h) \/ Permit(h) \/ Dial(h) \/ RelayGets(h)
             \/ RelayShuts(h) \/ RelayFails(h)
             \/ PeerSends(h) \/ PeerSendsGram(h) \/ PeerEnds(h) \/ PeerResets(h)
    /\ UNCHANGED <<sc, sock, meter, hist>>

Next == GuestStep \/ HostStep

Spec == Init /\ [][Next]_vars

\* The worker's loop goes on as long as the guest can; JavaScript's event loop
\* comes to every event in time, if it is reached again and again; the relay
\* does its steps, and a peer ends its stream at last.
CanLoop == net.inner = "host" /\ task.mode \in {"runs", "yields", "paused", "waits", "spins"}

Loop == (GuestStep /\ task' # task) \/ PumpNetwork

CanRelay(h) ==
    \/ link[h].st = "connecting" \/ HasFrame(h) \/ relay[h].st \in {"asking", "dialing", "ended"}
    \/ (net.inner = "host" /\ Connected(h) /\ conn[h].kind = "tcp" /\ ~conn[h].ended)

Relays(h) == Upgrade(h) \/ Permit(h) \/ Dial(h) \/ RelayGets(h) \/ RelayShuts(h) \/ PeerEnds(h)

FairSpec ==
    /\ Spec
    /\ []<>(~CanLoop) \/ []<><<Loop>>_vars
    /\ []<>(\A h \in Handles : ~CanRelay(h)) \/ []<><<\E h \in Handles : Relays(h)>>_vars
    /\ <>[](\A h \in Handles : ~CanDeliver(h)) \/ []<><<\E h \in Handles : Deliver(h)>>_vars

(***************************************************************************)
(* Properties.                                                             *)
(***************************************************************************)

Of(field) == [h \in Handles |-> conn[h][field]]

Promise == INSTANCE Sockets WITH
    Conns <- Handles, None <- None,
    kind <- Of("kind"), wrote <- Of("wrote"), stop <- Of("stop"), skipped <- Of("skipped"),
    got <- Of("got"), fin <- Of("fin"), sent <- Of("sent"), read <- Of("read"), lost <- Of("lost"),
    ended <- Of("ended"), told <- Of("told"),
    asking <- [h \in Handles |-> relay[h].st = "asking"],
    reckless <- "bad" \in sc.buffers

\* Through command queue, worker, WebSocket and relay, and through the operating
\* system, connections keep what sockets promise: order, no duplicate, an end
\* only after the last byte, an error only after the bytes before it, and no gap,
\* with two exceptions: what a guest sends while the relay still asks a resolver
\* about the destination never gets to the peer, which then sees a stream that
\* begins in its middle (webtos_gateway.mjs:230, 275); and what a guest reads
\* into a buffer that cannot be written is gone (syscall.rs:4625, 5487).
ImplementsSockets == Promise!Spec

Lengths(units, kind) ==
    IF kind = "udp" THEN SumFunction([i \in DOMAIN units |-> units[i][2]]) ELSE Len(units)

Carried(field) == SumFunction([h \in Handles |-> Lengths(conn[h][field], conn[h].kind)])

\* The meter counts what the guest sent and what it took off its connections,
\* no more and no less: a send that failed, a datagram refused and bytes clipped
\* are not charged; bytes lost in a buffer that cannot be written are.
MeterIsExact ==
    Live => meter.sent = Carried("wrote") /\ meter.received = Carried("read")

\* A guest run again from the recording gets the answers it got in the session
\* (ReplayBroker: "the guest issues the same calls and gets the same results
\* back, in order, and cannot tell it is not talking to the network").
ReplayAgrees == hist.agree

Reading == task.mode \in {"paused", "waits"} /\ task.call[1] = "read" /\ conn[WaitsOn].kind = "tcp"


=============================================================================
