------------------------------ MODULE MCSession ------------------------------
(* Instances of Session for TLC.                                           *)
EXTENDS Session, TLC

Program == <<Code("a"), Code("b")>>
Release == <<Code("a"), Code("c")>>
Altered == <<Code("a"), Code("x")>>
Config == <<Text("c"), Mark("n1")>>

MCPaths == {"prog", "conf", "log"}
MCNameOrder == <<"n1", "n2">>
MCBytesOf == <<Program, Config, Release>>
MCLayoutOf == <<("prog" :> 1) @@ ("conf" :> 2), ("prog" :> 3) @@ ("conf" :> 2)>>
MCNamedBytes == <<("prog" :> Program)>>
MCImages == {Program, Release, Altered, Append(Program, Code("x"))}

Quiet ==
    [seeds |-> <<>>, legacy |-> Empty, deaths |-> 0, saves |-> 0, forgets |-> FALSE,
     inPlace |-> TRUE, faults |-> FALSE, memory |-> {}, manifests |-> {}, roots |-> {},
     preload |-> {}, streams |-> {}, secrets |-> {}, loads |-> {}, budgets |-> {},
     writes |-> {}, copies |-> {}, execs |-> {}, hasty |-> FALSE]

Secret(n, paths) == [name |-> n, paths |-> paths]
Stream(p, pieces) == [path |-> p, pieces |-> pieces]

OldFiles == [p \in MCPaths |-> IF p = "log" THEN Whole(<<Text("a")>>) ELSE Absent]

\* Saves, deaths at every await, and the migration of the old single file.
Storage ==
    {[Quiet EXCEPT !.seeds = <<<<"conf", <<Text("c")>>>>>>, !.saves = 4, !.deaths = 3, !.faults = TRUE,
                   !.forgets = f, !.inPlace = i, !.legacy = l]
        : f \in BOOLEAN, i \in BOOLEAN, l \in {Empty, Torn, Serialize(OldFiles, None)}}

\* A page that asks for the next save, or to forget them, before the last one is
\* done.  Each createWritable has a file of its own until it is closed.
Hasty ==
    {[Quiet EXCEPT !.saves = 4, !.deaths = 1, !.forgets = f, !.inPlace = FALSE, !.hasty = TRUE]
        : f \in BOOLEAN}

\* Secrets in every file and in scopes, copied about by the guest.
Secrets ==
    {[Quiet EXCEPT !.seeds = <<<<"prog", Program>>, <<"conf", <<Mark("n1"), Mark("n2")>>>>>>,
                   !.secrets = s, !.loads = {<<"prog", <<>>>>}, !.saves = 2, !.deaths = 1,
                   !.copies = {<<"conf", "log">>}, !.writes = {<<"log", Text("d")>>}]
        : s \in {{{Secret("n1", {})}}, {{Secret("n1", {"conf"}), Secret("n2", {"conf", "log"})}}}}

\* A file with a secret that the host keeps out of the image.
HeldBack ==
    [Quiet EXCEPT !.streams = {Stream("conf", <<<<Mark("n1")>>, <<Mark("n2")>>>>)},
                  !.secrets = {{Secret("n1", {})}, {Secret("n2", {"conf"})}},
                  !.saves = 2, !.deaths = 1]

\* Secrets for files of which chunks may be missing.
LazySecrets ==
    {[Quiet EXCEPT !.seeds = <<<<"log", <<Mark("n1")>>>>>>, !.roots = {1}, !.preload = {1, 2},
                   !.secrets = s, !.saves = 2, !.deaths = 1]
        : s \in {{{Secret("n1", {})}}, {{Secret("n1", {"log", "conf"})}}}}

\* Images streamed under a flat manifest, genuine, altered, cut short, and
\* changed by the guest afterwards.
Flat ==
    [Quiet EXCEPT !.manifests = {1}, !.faults = TRUE, !.saves = 2, !.deaths = 1,
                  !.streams = {Stream("prog", <<<<Code("a")>>, <<Code(x)>>>>) : x \in {"b", "x"}},
                  !.loads = {<<"prog", <<"x">>>>}, !.writes = {<<"prog", Code("x")>>},
                  !.execs = {"prog"}]

FlatExec == [Flat EXCEPT !.writes = {<<"log", Text("d")>>}, !.execs = {"prog", "log"}]

\* Chunked images of two releases, loaded and changed over several sessions.
Lazy ==
    [Quiet EXCEPT !.roots = {1, 2}, !.preload = {1, 2}, !.faults = TRUE, !.saves = 2, !.deaths = 2,
                  !.loads = {<<"prog", <<"x">>>>, <<"prog", <<"y", "z">>>>},
                  !.writes = {<<"prog", Code("x")>>, <<"conf", Text("d")>>}, !.execs = {"prog", "conf"}]

Memory ==
    [Quiet EXCEPT !.memory = {3, 4, 6}, !.roots = {1}, !.preload = {1, 2},
                  !.streams = {Stream("log", <<<<Text("a")>>, <<Text("b")>>>>)},
                  !.loads = {<<"prog", <<"x">>>>}, !.faults = TRUE]

Allowance ==
    [Quiet EXCEPT !.seeds = <<<<"prog", Program>>>>, !.loads = {<<"prog", <<"x">>>>},
                  !.budgets = {2, 3, 5}]

MCScenarios ==
    Storage \cup Hasty \cup Secrets \cup LazySecrets \cup {HeldBack, Flat, FlatExec, Lazy, Memory, Allowance}
=============================================================================
