-------------------------------- MODULE MCNet --------------------------------
(***************************************************************************)
(* Instances of Net.                                                       *)
(***************************************************************************)
EXTENDS Net

CONSTANTS s1, s2

Browser ==
    [inner |-> "host", socks |-> {s1}, kind |-> (s1 :> "tcp" @@ s2 :> "tcp"), handles |-> 1, maxSockets |-> 1, units |-> 2, sizes |-> {2},
     dests |-> {"up"}, rules |-> "literal", budgets |-> {NoLimit}, faults |-> {},
     calls |-> {"write", "exit"}, nonblock |-> {FALSE}, timeouts |-> {}, early |-> FALSE,
     buffers |-> {"ok"}, gateway |-> TRUE, space |-> 2]

\* One connection, written, read and shut down, with every way to end.
OneStream ==
    [Browser EXCEPT !.sizes = {1, 2}, !.faults = {"reset", "relay"}, !.calls = {"write", "shutdown"}]

\* Connections opened, closed and opened again, to peers that are there and not.
Endings ==
    [Browser EXCEPT !.handles = 2, !.dests = {"up", "down", "denied"}, !.calls = {"close"}, !.units = 1]

\* Two sockets at a relay that carries one.
TwoStreams ==
    [Browser EXCEPT !.socks = {s1, s2}, !.handles = 2, !.units = 1, !.sizes = {1}, !.calls = {"exit"}]

\* Waiting with timeouts, and without waiting at all.
Waits ==
    [Browser EXCEPT !.timeouts = {"ms"}, !.nonblock = {TRUE, FALSE}, !.calls = {"sendto", "exit"}]

\* A relay that waits for the resolver, and a guest that sends before and after
\* the answer.
NamedRules ==
    [Browser EXCEPT !.rules = "name", !.dests = {"up", "denied"}, !.calls = {"write", "shutdown"},
                    !.sizes = {1}, !.early = TRUE, !.timeouts = {"ms"}]

\* The same, with connections closed while the resolver is asked.
NamedClosed ==
    [NamedRules EXCEPT !.dests = {"down"}, !.calls = {"close"}, !.handles = 2, !.units = 1,
                       !.maxSockets = 2]

\* A worker that was given no relay.
NoRelayGiven == [Browser EXCEPT !.gateway = FALSE, !.handles = 2, !.calls = {"write", "close"}]

\* Reads into buffers that cannot be written.
BadBuffers ==
    [Browser EXCEPT !.buffers = {"ok", "bad"}, !.sizes = {1, 2}, !.calls = {"exit"}, !.budgets = {NoLimit, 3}]

BadBufferGrams ==
    [BadBuffers EXCEPT !.kind = (s1 :> "udp" @@ s2 :> "udp"), !.calls = {"sendto"}]

Budgets == [Browser EXCEPT !.sizes = {1, 2}, !.budgets = {1, 3}]

Datagrams ==
    [Browser EXCEPT !.kind = (s1 :> "udp" @@ s2 :> "udp"), !.sizes = {1, 2}, !.dests = {"up", "denied"},
                    !.calls = {"write", "sendto"}, !.faults = {"relay"}, !.budgets = {3}]

\* Datagram sockets closed and opened again.
Reopened ==
    [Browser EXCEPT !.kind = (s1 :> "udp" @@ s2 :> "udp"), !.handles = 2, !.units = 1, !.sizes = {1},
                    !.calls = {"sendto", "close"}, !.timeouts = {"ms"}]

\* A session over the operating system, recorded and replayed.
Session ==
    [Browser EXCEPT !.inner = "native", !.dests = {"up", "down"},
                    !.calls = {"write", "close", "exit"}, !.faults = {"reset"}]

SessionShut == [Session EXCEPT !.dests = {"up", "denied"}, !.calls = {"shutdown", "exit"}]

\* Writes that the operating system takes in part.
SessionShort == [Session EXCEPT !.space = 1, !.faults = {}]

SessionGrams ==
    [Session EXCEPT !.kind = (s1 :> "udp" @@ s2 :> "udp"), !.calls = {"write", "sendto", "exit"},
                    !.dests = {"up"}, !.handles = 1, !.budgets = {3}]

MCScenarios ==
    {OneStream, Endings, TwoStreams, Waits, NamedRules, NamedClosed, Budgets,
     NoRelayGiven, BadBuffers, BadBufferGrams, Datagrams, Reopened, Session, SessionShort,
     SessionShut, SessionGrams}

ReplayScenarios == {Session, SessionShort, SessionShut, SessionGrams}
=============================================================================
