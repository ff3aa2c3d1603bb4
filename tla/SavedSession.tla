---------------------------- MODULE SavedSession ----------------------------
(***************************************************************************)
(* What saving a session promises: the saves are numbered, a boot restores *)
(* one of them whole, and a save that was reported is not lost or replaced *)
(* by an older one, whatever happens to the worker.  The promise is made   *)
(* for a save that was alone from its beginning to its report; of saves    *)
(* that overlapped any may be the one that is restored.                    *)
(***************************************************************************)
EXTENDS Integers

VARIABLES
    exported,       \* saves begun
    underway,       \* those that have not ended
    alone,          \* the one of them, if any, that nothing overlapped
    forgetting,     \* the saves are being deleted
    restores,       \* the save that a boot would restore; -1 for none
    promised        \* the last save that was promised and not given up; -1 for none

vars == <<exported, underway, alone, forgetting, restores, promised>>

Init ==
    /\ exported = 0 /\ underway = {} /\ alone = {} /\ ~ forgetting
    /\ restores \in {-1, 0} /\ promised = restores

Begin ==
    /\ exported' = exported + 1
    /\ underway' = underway \cup {exported'}
    /\ alone' = IF underway = {} /\ ~ forgetting THEN {exported'} ELSE {}
    /\ UNCHANGED <<forgetting, restores, promised>>

Land ==
    /\ underway # {}
    /\ IF alone # {} THEN {restores'} = alone ELSE restores' \in promised .. exported
    /\ UNCHANGED <<exported, underway, alone, forgetting, promised>>

Leave(n) ==
    /\ n \in underway
    /\ underway' = underway \ {n}
    /\ alone' = alone \ {n}
    /\ UNCHANGED <<exported, forgetting>>

Deleted == restores' = restores \/ (forgetting /\ restores' \in -1 .. exported)

\* The save is reported, or it failed.
Report(n) == Leave(n) /\ n \in alone /\ restores = n /\ promised' = n /\ UNCHANGED restores

ReportOverlapped(n) == Leave(n) /\ n \notin alone /\ Deleted /\ UNCHANGED promised

Fail(n) == Leave(n) /\ UNCHANGED <<restores, promised>>

\* The worker dies.
Stop ==
    /\ underway' = {} /\ alone' = {} /\ ~ forgetting'
    /\ UNCHANGED <<exported, restores, promised>>

\* The user asks for it: saves go, the promise first.
GiveUp ==
    /\ promised' = -1 /\ alone' = {} /\ forgetting'
    /\ UNCHANGED <<exported, underway, restores>>

Forget ==
    /\ forgetting /\ promised = -1
    /\ forgetting' \in BOOLEAN
    /\ Deleted
    /\ UNCHANGED <<exported, underway, alone, promised>>

Next ==
    \/ Begin \/ Land \/ Stop \/ GiveUp \/ Forget
    \/ \E n \in underway : Report(n) \/ ReportOverlapped(n) \/ Fail(n)

Spec == Init /\ [][Next]_vars
=============================================================================
