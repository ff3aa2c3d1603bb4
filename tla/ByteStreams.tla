---------------------------- MODULE ByteStreams ----------------------------
(***************************************************************************)
(* What a pipe, or either direction of a socketpair, promises to the       *)
(* processes at its ends: bytes are taken in the order they were sent,     *)
(* none passed over and none twice; a byte that is taken is received,      *)
(* unless a process reads with a buffer that cannot be written; nothing    *)
(* can be sent once an end is closed; a closed end stays closed; the end   *)
(* of the stream is reported only when every byte has been taken and no    *)
(* one is left to send.                                                    *)
(***************************************************************************)
EXTENDS Integers, Sequences, SequencesExt

CONSTANTS Streams, Limit

VARIABLES
    born,    \* the stream has been made
    ends,    \* which of its ends, "send" and "receive", someone holds
    sent,    \* the bytes sent on it
    got,     \* the bytes taken from it
    lost,    \* the places in got of bytes that no one received
    reckless,\* someone reads with buffers that cannot be written
    ended    \* its end has been reported to a receiver

streamVars == <<born, ends, sent, got, lost, reckless, ended>>

StreamsInit ==
    \A o \in Streams :
        /\ ~born[o] => ends[o] = {} /\ sent[o] = <<>>
        /\ got[o] = <<>> /\ lost[o] = {} /\ ~ended[o]

Same(f, o) == f'[o] = f[o]

Create(o) ==
    /\ ~born[o] /\ born'[o]
    /\ ends'[o] \subseteq {"send", "receive"}
    /\ Same(sent, o) /\ Same(got, o) /\ Same(lost, o) /\ Same(ended, o)

Send(o) ==
    /\ ends[o] = {"send", "receive"}
    /\ IsStrictPrefix(sent[o], sent'[o])
    /\ Len(sent'[o]) - Len(got[o]) <= Limit
    /\ Same(born, o) /\ Same(ends, o) /\ Same(got, o) /\ Same(lost, o) /\ Same(ended, o)

Receive(o) ==
    /\ "receive" \in ends[o]
    /\ IsStrictPrefix(got[o], got'[o])
    /\ IsPrefix(got'[o], sent[o])
    /\ Same(born, o) /\ Same(ends, o) /\ Same(sent, o) /\ Same(ended, o)
    /\ \/ Same(lost, o)
       \/ reckless /\ lost'[o] = lost[o] \cup (Len(got[o]) + 1)..Len(got'[o])

Close(o) ==
    /\ ends'[o] # ends[o] /\ ends'[o] \subseteq ends[o]
    /\ Same(born, o) /\ Same(sent, o) /\ Same(got, o) /\ Same(lost, o) /\ Same(ended, o)

End(o) ==
    /\ "receive" \in ends[o] /\ "send" \notin ends[o]
    /\ got[o] = sent[o]
    /\ ended'[o]
    /\ Same(born, o) /\ Same(ends, o) /\ Same(sent, o) /\ Same(got, o) /\ Same(lost, o)

Rest(o) ==
    /\ Same(born, o) /\ Same(ends, o) /\ Same(sent, o)
    /\ Same(got, o) /\ Same(lost, o) /\ Same(ended, o)

\* A process that exits closes ends of several streams in one step.
StreamsNext ==
    /\ reckless' = reckless
    /\ \A o \in Streams :
        Create(o) \/ Send(o) \/ Receive(o) \/ Close(o) \/ End(o) \/ Rest(o)

StreamsSpec == StreamsInit /\ [][StreamsNext]_streamVars
=============================================================================
