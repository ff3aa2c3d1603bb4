------------------------------ MODULE NetBroker ------------------------------
(***************************************************************************)
(* The brokers between the guest's sockets and a transport (net.rs,        *)
(* netrecord.rs): HostBroker, whose transport is the browser's worker;     *)
(* NativeBroker under a RecordingBroker; ReplayBroker, which answers from a *)
(* recording; and the MeteredBroker around whichever is attached.          *)
(*                                                                         *)
(* A broker call is an operator from the state k = [net, meter] to         *)
(* [k, ans], the new state and the answer.                                 *)
(***************************************************************************)
EXTENDS Integers, Sequences, SequencesExt, FiniteSetsExt, Folds, TLC

CONSTANTS
    MaxHandle,      \* handles a session may give out
    NoLimit         \* a meter without a budget

ASSUME HandleBound == MaxHandle \in Nat \ {0}

Handles == 1 .. MaxHandle

Data(s) == <<"data", s>>
Gram(g) == <<"gram", g>>
Closed == <<"closed">>
WouldBlock == <<"block">>
Fails(e) == <<"error", e>>
SentBytes(n) == <<"sent", n>>
HandleOf(h) == <<"handle", h>>
Done == <<"done">>

Answer(k, a) == [k |-> k, ans |-> a]

FirstOf(s, n) == SubSeq(s, 1, n)
AfterFirst(s, n) == SubSeq(s, n + 1, Len(s))

-----------------------------------------------------------------------------
(* Endpoints.  For NativeBroker an endpoint stands for the operating       *)
(* system's socket, with fin set once its sending side is shut down.       *)

None == "none"

NoEndpoint ==
    [live |-> FALSE, rx |-> <<>>, grams |-> <<>>, closed |-> FALSE, error |-> None, fin |-> FALSE]
Endpoint == [NoEndpoint EXCEPT !.live = TRUE]

EndpointReadable(e) == e.rx # <<>> \/ e.grams # <<>> \/ e.closed \/ e.error # None

\* space: how many bytes one write to the operating system's socket takes.
NewBroker(inner, log, space) ==
    [inner |-> inner, ep |-> [h \in Handles |-> NoEndpoint], cmds |-> <<>>, next |-> 1,
     log |-> log, cursor |-> 0, space |-> space]

NewMeter(budget) == [sent |-> 0, received |-> 0, budget |-> budget]

-----------------------------------------------------------------------------
(* HostBroker: what the guest asks is a command for the host.              *)

Command(n, c) == [n EXCEPT !.cmds = Append(@, c)]

NewEndpoint(n) == [n EXCEPT !.ep[n.next] = Endpoint, !.next = @ + 1]

HostOpen(k, c) ==
    Answer([k EXCEPT !.net = Command(NewEndpoint(@), c)], HandleOf(k.net.next))

HostTcpConnect(k, d) == HostOpen(k, <<"connect", k.net.next, d>>)

HostUdpOpen(k) == HostOpen(k, <<"udp", k.net.next>>)

HostSend(k, h, c, n) ==
    IF ~k.net.ep[h].live THEN Answer(k, Fails("EBADF"))
    ELSE IF k.net.ep[h].error # None THEN Answer(k, Fails(k.net.ep[h].error))
    ELSE Answer([k EXCEPT !.net = Command(@, c)], SentBytes(n))

HostTcpSend(k, h, bytes) == HostSend(k, h, <<"send", h, bytes>>, Len(bytes))

HostUdpSendTo(k, h, d, g) == HostSend(k, h, <<"sendto", h, d, g>>, g[2])

Idle(k, e) ==
    Answer(k, IF e.error # None THEN Fails(e.error) ELSE IF e.closed THEN Closed ELSE WouldBlock)

TakeBytes(k, h, n) ==
    Answer([k EXCEPT !.net.ep[h].rx = AfterFirst(@, n)], Data(FirstOf(k.net.ep[h].rx, n)))

\* Mutant: an error or the end of the stream is told before buffered bytes.
IdleFirst(k, h, max) ==
    IF ~k.net.ep[h].live THEN Answer(k, Fails("EBADF"))
    ELSE IF k.net.ep[h].rx = <<>> \/ Idle(k, k.net.ep[h]).ans # WouldBlock THEN Idle(k, k.net.ep[h])
    ELSE TakeBytes(k, h, Min({max, Len(k.net.ep[h].rx)}))

\* Buffered bytes first, then the error, then the end of the stream.
HostTcpRecv(k, h, max) ==
    IF ~k.net.ep[h].live THEN Answer(k, Fails("EBADF"))
    ELSE IF k.net.ep[h].rx # <<>> THEN TakeBytes(k, h, Min({max, Len(k.net.ep[h].rx)}))
    ELSE Idle(k, k.net.ep[h])

\* The next datagram, cut to the size asked for; its end is lost.
TakeGram(k, h, max) ==
    Answer([k EXCEPT !.net.ep[h].grams = Tail(@)],
           Gram([Head(k.net.ep[h].grams) EXCEPT ![2] = Min({@, max})]))

HostUdpRecvFrom(k, h, max) ==
    IF ~k.net.ep[h].live THEN Answer(k, Fails("EBADF"))
    ELSE IF k.net.ep[h].grams # <<>> THEN TakeGram(k, h, max)
    ELSE Answer(k, IF k.net.ep[h].error # None THEN Fails(k.net.ep[h].error) ELSE WouldBlock)

HostTcpShutdownWrite(k, h) ==
    IF ~k.net.ep[h].live THEN Answer(k, Fails("EBADF"))
    ELSE Answer([k EXCEPT !.net = Command(@, <<"shutdown", h>>)], Done)

HostClose(k, h) ==
    IF ~k.net.ep[h].live THEN k
    ELSE [k EXCEPT !.net = Command([@ EXCEPT !.ep[h] = NoEndpoint], <<"close", h>>)]

\* endpoint(): entry(handle).or_default().
Delivered(n, h) == IF n.ep[h].live THEN n ELSE [n EXCEPT !.ep[h] = Endpoint]

DeliverConnected(n, h) == Delivered(n, h)
DeliverData(n, h, bytes) == [Delivered(n, h) EXCEPT !.ep[h].rx = @ \o bytes]
DeliverDatagram(n, h, g) == [Delivered(n, h) EXCEPT !.ep[h].grams = Append(@, g)]
DeliverClosed(n, h) == [Delivered(n, h) EXCEPT !.ep[h].closed = TRUE]
DeliverError(n, h, e) ==
    [Delivered(n, h) EXCEPT !.ep[h].error = IF @ = None THEN e ELSE @]

-----------------------------------------------------------------------------
(* NativeBroker.  A destination is "up", "down" (nothing listens) or       *)
(* "denied" (not in the redirect table).                                   *)

Resolves(d) == d # "denied"

NativeOpen(k) == Answer([k EXCEPT !.net = NewEndpoint(@)], HandleOf(k.net.next))

NativeTcpConnect(k, d) ==
    IF ~Resolves(d) THEN Answer(k, Fails("ENETUNREACH"))
    ELSE IF d = "down" THEN Answer(k, Fails("ECONNREFUSED"))
    ELSE NativeOpen(k)

NativeTcpSend(k, h, bytes) ==
    IF ~k.net.ep[h].live THEN Answer(k, Fails("EBADF"))
    ELSE IF k.net.ep[h].error # None \/ k.net.ep[h].fin THEN Answer(k, Fails("ECONNRESET"))
    ELSE Answer(k, SentBytes(Min({Len(bytes), k.net.space})))

NativeTcpRecv(k, h, max) == HostTcpRecv(k, h, max)

NativeUdpSendTo(k, h, d, g) ==
    IF ~Resolves(d) THEN Answer(k, Fails("ENETUNREACH"))
    ELSE IF ~k.net.ep[h].live THEN Answer(k, Fails("EBADF"))
    ELSE Answer(k, SentBytes(g[2]))

NativeUdpRecvFrom(k, h, max) == HostUdpRecvFrom(k, h, max)

NativeTcpShutdownWrite(k, h) ==
    IF ~k.net.ep[h].live THEN Answer(k, Fails("EBADF"))
    ELSE Answer([k EXCEPT !.net.ep[h].fin = TRUE], Done)

NativeClose(k, h) == [k EXCEPT !.net.ep[h] = NoEndpoint]

-----------------------------------------------------------------------------
(* RecordingBroker: every connect, open, receive and close is recorded;    *)
(* a send and a datagram received only when they succeeded.                *)

Record(k, event) == [k EXCEPT !.net.log = Append(@, event)]

Recorded(r, event) == [r EXCEPT !.k = Record(@, event)]

RecordedIf(ok, r, event) == IF ok THEN Recorded(r, event) ELSE r

Succeeded(r) == r.ans[1] # "error"

RecordTcpConnect(r, d) == Recorded(r, <<"connect", d, r.ans>>)
RecordTcpSend(r, h) == RecordedIf(Succeeded(r), r, <<"sent", h, r.ans>>)

RecordTcpRecv(r, h) == Recorded(r, <<"received", h, r.ans>>)
RecordUdpOpen(r) == Recorded(r, <<"opened", r.ans>>)
RecordUdpSendTo(r, h) == RecordedIf(Succeeded(r), r, <<"sentto", h, r.ans>>)
RecordUdpRecvFrom(r, h) == RecordedIf(Succeeded(r), r, <<"receivedfrom", h, r.ans>>)
RecordClose(k, h) == Record(k, <<"closed", h>>)

-----------------------------------------------------------------------------
(* ReplayBroker: the next recorded event answers, if it is of the kind     *)
(* asked for.                                                              *)

NextIs(n, kind) == n.cursor < Len(n.log) /\ n.log[n.cursor + 1][1] = kind

Advance(k) == [k EXCEPT !.net.cursor = Min({@ + 1, Len(k.net.log)})]

NextEvent(k, kind, otherwise) ==
    Answer(Advance(k), IF NextIs(k.net, kind) THEN Last(k.net.log[k.net.cursor + 1]) ELSE otherwise)

Skip(k, kind) == IF NextIs(k.net, kind) THEN Advance(k) ELSE k

ReplayTcpConnect(k) == NextEvent(k, "connect", Fails("ECONNREFUSED"))
ReplayTcpSend(k, bytes) == Answer(Skip(k, "sent"), SentBytes(Len(bytes)))
ReplayTcpRecv(k) == NextEvent(k, "received", Closed)
ReplayUdpOpen(k) == NextEvent(k, "opened", Fails("EAFNOSUPPORT"))
ReplayUdpSendTo(k, g) == Answer(Skip(k, "sentto"), SentBytes(g[2]))
ReplayUdpRecvFrom(k) == NextEvent(k, "receivedfrom", WouldBlock)
ReplayClose(k) == Skip(k, "closed")

-----------------------------------------------------------------------------
(* The attached broker.                                                    *)

TcpConnect(k, d) ==
    CASE k.net.inner = "host" -> HostTcpConnect(k, d)
      [] k.net.inner = "native" -> RecordTcpConnect(NativeTcpConnect(k, d), d)
      [] k.net.inner = "replay" -> ReplayTcpConnect(k)

TcpSend(k, h, bytes) ==
    CASE k.net.inner = "host" -> HostTcpSend(k, h, bytes)
      [] k.net.inner = "native" -> RecordTcpSend(NativeTcpSend(k, h, bytes), h)
      [] k.net.inner = "replay" -> ReplayTcpSend(k, bytes)

TcpRecv(k, h, max) ==
    CASE k.net.inner = "host" -> HostTcpRecv(k, h, max)
      [] k.net.inner = "native" -> RecordTcpRecv(NativeTcpRecv(k, h, max), h)
      [] k.net.inner = "replay" -> ReplayTcpRecv(k)

TcpShutdownWrite(k, h) ==
    CASE k.net.inner = "host" -> HostTcpShutdownWrite(k, h)
      [] k.net.inner = "native" -> NativeTcpShutdownWrite(k, h)
      [] k.net.inner = "replay" -> Answer(k, Done)

UdpOpen(k) ==
    CASE k.net.inner = "host" -> HostUdpOpen(k)
      [] k.net.inner = "native" -> RecordUdpOpen(NativeOpen(k))
      [] k.net.inner = "replay" -> ReplayUdpOpen(k)

UdpSendTo(k, h, d, g) ==
    CASE k.net.inner = "host" -> HostUdpSendTo(k, h, d, g)
      [] k.net.inner = "native" -> RecordUdpSendTo(NativeUdpSendTo(k, h, d, g), h)
      [] k.net.inner = "replay" -> ReplayUdpSendTo(k, g)

UdpRecvFrom(k, h, max) ==
    CASE k.net.inner = "host" -> HostUdpRecvFrom(k, h, max)
      [] k.net.inner = "native" -> RecordUdpRecvFrom(NativeUdpRecvFrom(k, h, max), h)
      [] k.net.inner = "replay" -> ReplayUdpRecvFrom(k)

Readable(n, h) == n.inner = "replay" \/ (n.ep[h].live /\ EndpointReadable(n.ep[h]))

CloseHandle(k, h) ==
    CASE k.net.inner = "host" -> HostClose(k, h)
      [] k.net.inner = "native" -> NativeClose(RecordClose(k, h), h)
      [] k.net.inner = "replay" -> ReplayClose(k)

-----------------------------------------------------------------------------
(* MeteredBroker.                                                          *)

Usage(m) == m.sent + m.received

Headroom(m) == Max({0, m.budget - Usage(m)})

Allowance(m, want) == IF m.budget = NoLimit THEN want ELSE Min({want, Headroom(m)})

ChargeSent(r) ==
    IF Succeeded(r) THEN [r EXCEPT !.k.meter.sent = @ + r.ans[2]] ELSE r

ReceivedBytes(a) == CASE a[1] = "data" -> Len(a[2]) [] a[1] = "gram" -> a[2][2] [] OTHER -> 0

ChargeReceived(r) == [r EXCEPT !.k.meter.received = @ + ReceivedBytes(r.ans)]

OverBudget(k) == Answer(k, Fails("EPERM"))

\* A stream is clipped to what is left of the budget.
MeteredTcpSend(k, h, bytes) ==
    LET n == Allowance(k.meter, Len(bytes)) IN
    IF n = 0 THEN OverBudget(k) ELSE ChargeSent(TcpSend(k, h, FirstOf(bytes, n)))

MeteredTcpRecv(k, h, max) ==
    LET n == Allowance(k.meter, max) IN
    IF n = 0 THEN OverBudget(k) ELSE ChargeReceived(TcpRecv(k, h, n))

\* Mutant: a datagram is charged before the broker has taken it.
ChargeFirst(k, h, d, g) ==
    IF Allowance(k.meter, g[2]) < g[2] THEN OverBudget(k)
    ELSE UdpSendTo([k EXCEPT !.meter.sent = @ + g[2]], h, d, g)

\* A datagram goes whole or not at all.
MeteredUdpSendTo(k, h, d, g) ==
    IF Allowance(k.meter, g[2]) < g[2] THEN OverBudget(k)
    ELSE ChargeSent(UdpSendTo(k, h, d, g))

MeteredUdpRecvFrom(k, h, max) ==
    LET n == Allowance(k.meter, max) IN
    IF n = 0 THEN OverBudget(k) ELSE ChargeReceived(UdpRecvFrom(k, h, n))
=============================================================================
