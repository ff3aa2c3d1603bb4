------------------------------- MODULE Sockets -------------------------------
(***************************************************************************)
(* What a program may rely on, whatever carries its connections.  A stream *)
(* arrives in order and without gaps at both ends, as far as it arrives,   *)
(* except that the peer misses what is sent while the connection is still  *)
(* being asked for, and that a reckless guest, which passes buffers that   *)
(* cannot be written, may lose what it reads.  The end of a stream is told *)
(* only after all of it; nothing is read after the guest was told of the   *)
(* end or of an error.  A datagram arrives at most once, whole at the      *)
(* peer, perhaps cut short at the guest.                                   *)
(***************************************************************************)
EXTENDS Integers, Sequences, SequencesExt

CONSTANTS Conns, None

VARIABLES
    kind,
    wrote,          \* what the guest has written,
    stop,           \* where it ended its stream,
    skipped,        \* how much of the beginning the peer will never see,
    got, fin,       \* and what the peer has seen
    sent, ended,    \* what the peer has written,
    read, told,     \* what was taken for the guest, and how its stream ended
    lost,           \* the positions in read that did not reach its memory
    asking,         \* set by the environment: the connection is being asked for,
    reckless        \* and the guest passes buffers that cannot be written

vars == <<kind, wrote, stop, skipped, got, fin, sent, read, lost, ended, told>>

Init ==
    /\ kind = [c \in Conns |-> None]
    /\ wrote = [c \in Conns |-> <<>>]
    /\ stop = [c \in Conns |-> <<>>]
    /\ skipped = [c \in Conns |-> 0]
    /\ got = [c \in Conns |-> <<>>]
    /\ fin = [c \in Conns |-> FALSE]
    /\ sent = [c \in Conns |-> <<>>]
    /\ read = [c \in Conns |-> <<>>]
    /\ lost = [c \in Conns |-> {}]
    /\ ended = [c \in Conns |-> FALSE]
    /\ told = [c \in Conns |-> None]

\* f grows at c and nowhere else.
Grows(f, c) ==
    /\ f' = [f EXCEPT ![c] = f'[c]]
    /\ IsStrictPrefix(f[c], f'[c])

\* A datagram socket may be opened by the first datagram.
Opens(c) ==
    /\ kind[c] = None
    /\ kind' = [kind EXCEPT ![c] = kind'[c]]
    /\ UNCHANGED wrote \/ (kind'[c] = "udp" /\ Grows(wrote, c))
    /\ UNCHANGED <<stop, skipped, got, fin, sent, read, lost, ended, told>>

GuestWrites(c) ==
    /\ kind[c] # None
    /\ Grows(wrote, c)
    /\ UNCHANGED <<kind, stop, skipped, got, fin, sent, read, lost, ended, told>>

\* The guest ends its stream; what it writes after that goes nowhere.
GuestStops(c) ==
    /\ kind[c] = "tcp" /\ stop[c] = <<>>
    /\ stop' = [stop EXCEPT ![c] = <<Len(wrote[c])>>]
    /\ UNCHANGED <<kind, wrote, skipped, got, fin, sent, read, lost, ended, told>>

\* What reaches the relay before it has permitted the destination is dropped.
PeerMisses(c) ==
    /\ kind[c] = "tcp" /\ asking[c] /\ got[c] = <<>>
    /\ \E n \in skipped[c] + 1 .. Len(wrote[c]) : skipped' = [skipped EXCEPT ![c] = n]
    /\ UNCHANGED <<kind, wrote, stop, got, fin, sent, read, lost, ended, told>>

\* The peer is told of the end of the guest's stream with, or after, its last byte.
PeerReads(c) ==
    /\ kind[c] = "tcp" /\ ~fin[c]
    /\ got[c] = got'[c] \/ Grows(got, c)
    /\ got' = [got EXCEPT ![c] = got'[c]]
    /\ fin' = [fin EXCEPT ![c] = fin'[c]]
    /\ IsPrefix(got'[c], SubSeq(wrote[c], skipped[c] + 1, Len(wrote[c])))
    /\ fin'[c] => stop[c] = <<skipped[c] + Len(got'[c])>>
    /\ UNCHANGED <<kind, wrote, stop, skipped, sent, read, lost, ended, told>>

PeerWrites(c) ==
    /\ ~ended[c]
    /\ Grows(sent, c)
    /\ UNCHANGED <<kind, wrote, stop, skipped, got, fin, read, lost, ended, told>>

PeerEnds(c) ==
    /\ kind[c] = "tcp"
    /\ ended' = [ended EXCEPT ![c] = TRUE]
    /\ UNCHANGED <<kind, wrote, stop, skipped, got, fin, sent, read, lost, told>>

\* What was just read gets to the guest, or is lost to a reckless one.
Arrives(c) ==
    \/ UNCHANGED lost
    \/ reckless /\ lost' = [lost EXCEPT ![c] = @ \cup (Len(read[c]) + 1 .. Len(read'[c]))]

GuestReads(c) ==
    /\ kind[c] = "tcp" /\ told[c] = None
    /\ Grows(read, c)
    /\ IsPrefix(read'[c], sent[c])
    /\ Arrives(c)
    /\ UNCHANGED <<kind, wrote, stop, skipped, got, fin, sent, ended, told>>

GuestIsTold(c) ==
    /\ \/ told' = [told EXCEPT ![c] = "error"]
       \/ told' = [told EXCEPT ![c] = "eof"] /\ told[c] = None /\ ended[c] /\ read[c] = sent[c]
    /\ UNCHANGED <<kind, wrote, stop, skipped, got, fin, sent, read, lost, ended>>

Ids(grams) == {g[1] : g \in Range(grams)}

PeerReceives(c) ==
    /\ kind[c] = "udp"
    /\ \E g \in Range(wrote[c]) : g[1] \notin Ids(got[c]) /\ got' = [got EXCEPT ![c] = Append(@, g)]
    /\ UNCHANGED <<kind, wrote, stop, skipped, fin, sent, read, lost, ended, told>>

GuestReceives(c) ==
    /\ kind[c] = "udp"
    /\ \E g \in Range(sent[c]) : \E n \in 1 .. g[2] :
          /\ g[1] \notin Ids(read[c])
          /\ read' = [read EXCEPT ![c] = Append(@, <<g[1], n>>)]
    /\ Arrives(c)
    /\ UNCHANGED <<kind, wrote, stop, skipped, got, fin, sent, ended, told>>

Next ==
    \E c \in Conns :
        \/ Opens(c) \/ GuestWrites(c) \/ GuestStops(c) \/ PeerMisses(c) \/ PeerReads(c)
        \/ PeerWrites(c) \/ PeerEnds(c) \/ GuestReads(c) \/ GuestIsTold(c) \/ PeerReceives(c) \/ GuestReceives(c)

Spec == Init /\ [][Next]_vars
=============================================================================
