------------------------------- MODULE NetHost -------------------------------
(***************************************************************************)
(* The browser's side of the guest's network: the worker, which carries    *)
(* out the broker's commands on one WebSocket per endpoint (worker.js),    *)
(* the relay at the other end of the WebSockets (webtos_gateway.mjs) and   *)
(* the peers it connects to.  Peers and the WebSocket itself, a pair of    *)
(* ordered queues, are external.                                           *)
(***************************************************************************)
EXTENDS NetBroker

CONSTANT Socks      \* the guest's sockets

VARIABLES
    sc,             \* the scenario
    net,            \* the attached broker
    task,           \* [mode, on, call, deadline, woken]: the guest's task and wtw_run's status
    ws,             \* ws[h]: the worker's entry for a handle (the map `sockets`)
    link,           \* link[h]: the WebSocket
    relay,          \* relay[h]: the relay's closure for that WebSocket
    openSockets,    \* the relay's count
    conn            \* conn[h]: what was sent and received, and what the guest was told

hostVars == <<ws, link, relay, openSockets>>

NoEntry == [live |-> FALSE, open |-> FALSE, eof |-> FALSE, queue |-> <<>>]
NoLink == [st |-> "none", kind |-> "tcp", dest |-> "up", up |-> <<>>, down |-> <<>>]
NoRelay == [st |-> "none", buf |-> <<>>]
NoConn == [kind |-> None, wrote |-> <<>>, stop |-> <<>>, got |-> <<>>, fin |-> FALSE,
           skipped |-> 0, sent |-> <<>>, read |-> <<>>, lost |-> {}, ended |-> FALSE, told |-> None]

HostInit ==
    /\ ws = [h \in Handles |-> NoEntry]
    /\ link = [h \in Handles |-> NoLink]
    /\ relay = [h \in Handles |-> NoRelay]
    /\ openSockets = 0

-----------------------------------------------------------------------------
(* The worker.                                                             *)

\* Without the address of a relay the endpoint fails at once.
Open(w, h, kind, dest) ==
    IF sc.gateway
    THEN [w EXCEPT !.ws[h] = [NoEntry EXCEPT !.live = TRUE],
                   !.link[h] = [NoLink EXCEPT !.st = "connecting", !.kind = kind, !.dest = dest]]
    ELSE [w EXCEPT !.net = DeliverError(@, h, "ENETUNREACH")]

\* WebSocket.send: nothing is heard of a frame sent after the other side closed.
SendFrame(w, h, f) ==
    IF w.link[h].st = "open" THEN [w EXCEPT !.link[h].up = Append(@, f)] ELSE w

SendOn(w, h, f) ==
    CASE ~w.ws[h].live -> w
      [] w.ws[h].live /\ w.ws[h].open -> SendFrame(w, h, f)
      [] w.ws[h].live /\ ~w.ws[h].open -> [w EXCEPT !.ws[h].queue = Append(@, f)]

\* send() throws while the WebSocket is connecting, which ends performNetwork.
SendShutdown(w, h) ==
    CASE ~w.ws[h].live -> w
      [] w.ws[h].live /\ w.ws[h].open -> SendFrame(w, h, <<"shutdown">>)
      [] w.ws[h].live /\ ~w.ws[h].open -> [w EXCEPT !.threw = TRUE]

CloseSocket(w, h) ==
    IF ~w.ws[h].live THEN w
    ELSE LET sent == SendFrame(w, h, <<"close">>) IN
         [sent EXCEPT !.ws[h] = NoEntry, !.link[h].st = "closing", !.link[h].down = <<>>]

Perform(w, c) ==
    CASE w.threw -> w
      [] ~w.threw /\ c[1] = "connect" -> Open(w, c[2], "tcp", c[3])
      [] ~w.threw /\ c[1] = "udp" -> Open(w, c[2], "udp", "up")
      [] ~w.threw /\ c[1] = "send" -> SendOn(w, c[2], <<"bytes", c[3]>>)
      [] ~w.threw /\ c[1] = "sendto" -> SendOn(w, c[2], <<"gram", c[4], c[3]>>)
      [] ~w.threw /\ c[1] = "shutdown" -> SendShutdown(w, c[2])
      [] ~w.threw /\ c[1] = "close" -> CloseSocket(w, c[2])

PerformNetwork(cmds) ==
    FoldLeft(Perform, [ws |-> ws, link |-> link, net |-> [net EXCEPT !.cmds = <<>>], threw |-> FALSE],
             cmds)

\* network_wait_budget_ms rounds a deadline less than a millisecond away to 0.
WaitIsEmpty(deadline) == deadline = "sub"

\* pumpNetwork up to its wait.
PumpNetwork ==
    /\ task.mode = "paused"
    /\ LET w == PerformNetwork(net.cmds) IN
       /\ ws' = w.ws
       /\ link' = w.link
       /\ net' = w.net
       /\ task' = [task EXCEPT !.woken = FALSE,
                               !.mode = CASE w.threw -> "dead"
                                          [] ~w.threw /\ WaitIsEmpty(task.deadline) -> "spins"
                                          [] ~w.threw /\ ~WaitIsEmpty(task.deadline) -> "waits"]
    /\ UNCHANGED <<relay, openSockets, conn>>


TcpCloseErrno(entry, code) ==
    CASE code \in {"refused", "badrequest"} -> "ENETUNREACH"
      [] code = "unreachable" -> "ECONNREFUSED"
      [] code \notin {"refused", "badrequest", "unreachable"} ->
            IF ~entry.open THEN "ENETUNREACH" ELSE IF entry.eof THEN None ELSE "ECONNRESET"

UdpCloseErrno(entry) == IF entry.open THEN "ECONNRESET" ELSE "ENETUNREACH"

CloseErrno(h, code) ==
    IF link[h].kind = "tcp" THEN TcpCloseErrno(ws[h], code) ELSE UdpCloseErrno(ws[h])

\* The broker after a frame, and after a close.
NetAfter(h, f) ==
    CASE f[1] = "connected" -> DeliverConnected(net, h)
      [] f[1] = "bytes" -> DeliverData(net, h, f[2])
      [] f[1] = "gram" -> DeliverDatagram(net, h, f[2])
      [] f[1] = "eof" -> DeliverClosed(net, h)
      [] f[1] = "close" /\ CloseErrno(h, f[2]) # None -> DeliverError(net, h, CloseErrno(h, f[2]))
      [] OTHER -> net

WsAfter(h, f) ==
    CASE f[1] = "onopen" -> [ws EXCEPT ![h].open = TRUE, ![h].queue = <<>>]
      [] f[1] = "eof" -> [ws EXCEPT ![h].eof = TRUE]
      [] f[1] = "close" -> [ws EXCEPT ![h] = NoEntry]
      [] OTHER -> ws

LinkAfter(h, f) ==
    [link EXCEPT ![h].down = Tail(@),
                 ![h].up = IF f[1] = "onopen" /\ link[h].st = "open" THEN @ \o ws[h].queue ELSE @]

\* noteNetEvent.
Notes(h, f) ==
    \/ f[1] \in {"connected", "bytes", "gram", "eof"}
    \/ f[1] = "close" /\ CloseErrno(h, f[2]) # None

\* The worker reaches its event loop: between two slices of the guest, while
\* it waits for the network, and when the guest has ended.
AtEventLoop == task.mode \in {"yields", "waits", "done"}

CanDeliver(h) == AtEventLoop /\ link[h].down # <<>>

\* One WebSocket event.
Deliver(h) ==
    /\ CanDeliver(h)
    /\ LET f == Head(link[h].down) IN
       /\ net' = NetAfter(h, f)
       /\ ws' = WsAfter(h, f)
       /\ link' = LinkAfter(h, f)
       /\ task' = [task EXCEPT !.woken = @ \/ Notes(h, f)]
    /\ UNCHANGED <<relay, openSockets, conn>>

-----------------------------------------------------------------------------
(* The relay.                                                              *)

\* ws.close(code) by the relay: frames already sent arrive, then the close.
Hangup(h, code) ==
    IF link[h].st = "open"
    THEN [link EXCEPT ![h].st = "closed", ![h].up = <<>>, ![h].down = Append(@, <<"close", code>>)]
    ELSE [link EXCEPT ![h].up = <<>>]

ToWorker(h, f) == IF link[h].st = "open" THEN [link EXCEPT ![h].down = Append(@, f)] ELSE link

Counted == {"dialing", "relaying", "ended"}

\* shut(): both ends report a close, and the pair counts as one.
Shut(h) ==
    /\ relay' = [relay EXCEPT ![h] = [NoRelay EXCEPT !.st = "shut"]]
    /\ openSockets' = openSockets - (IF relay[h].st \in Counted THEN 1 ELSE 0)

Permitted(dest) == dest # "denied"

Relaying(h, st) ==
    /\ relay' = [relay EXCEPT ![h] = [NoRelay EXCEPT !.st = st]]
    /\ openSockets' = openSockets + 1

Refuse(h, l) ==
    /\ link' = [l EXCEPT ![h].st = "closed", ![h].down = Append(@, <<"close", "refused">>)]
    /\ relay' = [relay EXCEPT ![h].st = "shut"]
    /\ UNCHANGED openSockets

\* What follows permit() in relayTcp, with the WebSockets as they are in l.
AfterPermit(h, l) ==
    \/ /\ l[h].st = "open" /\ Permitted(l[h].dest)
       /\ Relaying(h, "dialing")
       /\ link' = l
    \/ /\ l[h].st = "open" /\ ~Permitted(l[h].dest)
       /\ Refuse(h, l)
    \/ /\ l[h].st # "open"
       /\ relay' = [relay EXCEPT ![h].st = "shut"]
       /\ link' = l
       /\ UNCHANGED openSockets

Upgraded(h) == [link EXCEPT ![h].st = "open", ![h].down = <<<<"onopen">>>>]

Full == openSockets >= sc.maxSockets

\* The upgrade, and relayTcp up to `await permit`, or relayUdp.  A rule that
\* names an address is decided before any other event; one that names a host
\* waits for the resolver.
Upgrade(h) ==
    /\ link[h].st = "connecting"
    /\ \/ /\ Full
          /\ link' = [link EXCEPT ![h].st = "closed", ![h].down = <<<<"close", "abnormal">>>>]
          /\ UNCHANGED <<relay, openSockets>>
       \/ /\ ~Full /\ link[h].kind = "udp"
          /\ link' = Upgraded(h)
          /\ Relaying(h, "relaying")
       \/ /\ ~Full /\ link[h].kind = "tcp" /\ sc.rules = "literal"
          /\ AfterPermit(h, Upgraded(h))
       \/ /\ ~Full /\ link[h].kind = "tcp" /\ sc.rules = "name"
          /\ link' = Upgraded(h)
          /\ relay' = [relay EXCEPT ![h].st = "asking"]
          /\ UNCHANGED openSockets
    /\ UNCHANGED <<net, task, ws, conn>>

Permit(h) ==
    /\ relay[h].st = "asking"
    /\ AfterPermit(h, link)
    /\ UNCHANGED <<net, task, ws, conn>>

\* What the socket to the peer does with frames of the worker: bytes and the
\* end of the stream.
Wrote(c, f) == IF f[1] = "shutdown" THEN [c EXCEPT !.fin = TRUE] ELSE [c EXCEPT !.got = @ \o f[2]]

\* The socket's "connect" event, or its "error"; what was written before is
\* kept by the socket until then.
Dial(h) ==
    /\ relay[h].st = "dialing"
    /\ \/ /\ link[h].dest = "up"
          /\ relay' = [relay EXCEPT ![h] = [NoRelay EXCEPT !.st = "relaying"]]
          /\ conn' = [conn EXCEPT ![h] = FoldLeft(Wrote, @, relay[h].buf)]
          /\ link' = ToWorker(h, <<"connected">>)
          /\ UNCHANGED openSockets
       \/ /\ link[h].dest = "down"
          /\ link' = Hangup(h, "unreachable")
          /\ Shut(h)
          /\ UNCHANGED conn
    /\ UNCHANGED <<net, task, ws>>

\* socket.end() was called: by a shutdown of the guest, or after the peer's end.
Finished(h) == conn[h].fin \/ <<"shutdown">> \in Range(relay[h].buf) \/ relay[h].st = "ended"

HasFrame(h) == link[h].st \in {"open", "closing"} /\ link[h].up # <<>>

\* A frame that came before permit() has answered: nobody listens yet.
Missed(c, f) == IF f[1] = "bytes" THEN [c EXCEPT !.skipped = @ + Len(f[2])] ELSE c

\* ws.on("message") and ws.on("close") of a TCP relay; a write after end() is
\* an error.
RelayTcpGets(h) ==
    LET f == Head(link[h].up)
        rest == [link EXCEPT ![h].up = Tail(@)]
    IN
    \/ /\ f[1] = "close"
       /\ Shut(h)
       /\ link' = rest
       /\ UNCHANGED conn
    \/ /\ f[1] # "close" /\ relay[h].st = "dialing" /\ ~Finished(h)
       /\ relay' = [relay EXCEPT ![h].buf = Append(@, f)]
       /\ link' = rest
       /\ UNCHANGED <<openSockets, conn>>
    \/ /\ f[1] # "close" /\ relay[h].st = "relaying" /\ ~Finished(h)
       /\ conn' = [conn EXCEPT ![h] = Wrote(@, f)]
       /\ link' = rest
       /\ UNCHANGED <<relay, openSockets>>
    \/ /\ f[1] = "bytes" /\ Finished(h)
       /\ link' = Hangup(h, "unreachable")
       /\ Shut(h)
       /\ UNCHANGED conn
    \/ /\ f[1] # "close" /\ relay[h].st = "asking"
       /\ conn' = [conn EXCEPT ![h] = Missed(@, f)]
       /\ link' = rest
       /\ UNCHANGED <<relay, openSockets>>
    \/ /\ f[1] = "shutdown" /\ Finished(h)
       /\ link' = rest
       /\ UNCHANGED <<relay, openSockets, conn>>

\* The same of a UDP relay: a datagram to a destination no rule names is dropped.
RelayUdpGets(h) ==
    LET f == Head(link[h].up) IN
    /\ link' = [link EXCEPT ![h].up = Tail(@)]
    /\ \/ /\ f[1] = "close"
          /\ Shut(h)
          /\ UNCHANGED conn
       \/ /\ f[1] = "gram"
          /\ conn' = IF Permitted(f[3]) THEN [conn EXCEPT ![h].got = Append(@, f[2])] ELSE conn
          /\ UNCHANGED <<relay, openSockets>>

RelayGets(h) ==
    /\ HasFrame(h)
    /\ IF link[h].kind = "tcp" THEN RelayTcpGets(h) ELSE RelayUdpGets(h)
    /\ UNCHANGED <<net, task, ws>>

\* The socket's "close" event after the peer's end.
RelayShuts(h) ==
    /\ relay[h].st = "ended"
    /\ link' = Hangup(h, "normal")
    /\ Shut(h)
    /\ UNCHANGED <<net, task, ws, conn>>

\* The relay, or a proxy before it, goes away under the WebSocket.
RelayFails(h) ==
    /\ "relay" \in sc.faults
    /\ link[h].st = "open"
    /\ link' = Hangup(h, "abnormal")
    /\ Shut(h)
    /\ UNCHANGED <<net, task, ws, conn>>
=============================================================================
