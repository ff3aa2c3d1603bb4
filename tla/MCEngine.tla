------------------------------ MODULE MCEngine ------------------------------
(***************************************************************************)
(* Instances of Engine for TLC.  Each program is one scenario.             *)
(***************************************************************************)
EXTENDS Engine

I(op, a, v) == [op |-> op, a |-> a, v |-> v]
Set(v) == I("set", 0, v)
Dec == I("dec", 0, 0)
X87(v) == I("x87", 0, v)
Load(a) == I("load", a, 0)
StoreTo(a, v) == I("store", a, v)
Jmp(a) == I("jmp", a, 0)
Jnz(a) == I("jnz", a, 0)
Sys == I("sys", 0, 0)
Data(v) == I("data", 0, v)

\* A space: the cells in order, then data.
Image(cells) == [a \in Addrs |-> IF a < Len(cells) THEN cells[a + 1] ELSE Data(1)]

Resident == [p \in Pages |-> "resident"]

Scenario(images, colds, patch, tune) ==
    [image |-> images, cold |-> colds, patch |-> patch,
     slices |-> tune.slices, tick |-> tune.tick, after |-> tune.after,
     retier |-> tune.retier, promote |-> tune.promote, budget |-> tune.budget,
     compiles |-> tune.compiles]

Tune(slices, tick, after, promote, budget) ==
    [slices |-> slices, tick |-> tick, after |-> after, promote |-> promote,
     budget |-> budget, retier |-> {}, compiles |-> {"yes", "declined"}]

\* One length for every slice.
Slices == {{5}, {7}}

\* A counted loop (a region), and a block that does not translate.
LoopImage == Image(<<Set(2), Dec, Jnz(1), X87(1), Jmp(0)>>)

\* A loop of two blocks (a trace) with a side exit.
TraceImage == Image(<<Dec, Jnz(3), Set(2), Jmp(0)>>)

LoopPrograms ==
    {Scenario(<<LoopImage>>, <<Resident>>, <<>>,
              Tune(slices, tick, after, promote, budget)) :
        slices \in Slices, tick \in {4, 9}, after \in {0, 1, 2}, promote \in {0, 2},
        budget \in {0, 4}}

TracePrograms ==
    {Scenario(<<TraceImage>>, <<Resident>>, <<>>,
              Tune(slices, 9, after, promote, budget)) :
        slices \in Slices, after \in {1, 2}, promote \in {0, 2}, budget \in {0, 4}}

\* Code that rewrites itself: the first instruction, ahead of the store, and
\* the instruction behind the store, in its own block.
RewriteImages ==
    {Image(<<Dec, Jnz(3), StoreTo(0, 1), Jmp(0)>>),
     Image(<<StoreTo(1, 1), Dec, Jnz(0), Jmp(0)>>)}

RewritePrograms ==
    {Scenario(<<image>>, <<Resident>>, <<Set(2)>>, Tune(slices, 9, after, promote, 0)) :
        image \in RewriteImages, slices \in Slices, after \in {0, 1}, promote \in {0, 2}}

\* A load and a store of data that is not resident, and code that is not: it is
\* jumped to, or straight-line code runs into it.
JumpIntoCold == Image(<<Dec, Jnz(4), Load(6), Jmp(0), StoreTo(6, 1), Jmp(0)>>)
RunIntoCold == Image(<<Dec, Jnz(0), Load(6), Set(1), StoreTo(6, 1), Jmp(0)>>)
LoadInLoop == Image(<<Load(6), Dec, Jnz(0), Jmp(0)>>)

Cold(how) == [p \in Pages |-> IF p \in DOMAIN how THEN how[p] ELSE "resident"]

PagedPrograms ==
    {Scenario(<<image>>, <<Cold((2 :> code) @@ (3 :> data))>>, <<Data(2)>>,
              Tune(slices, 9, after, 0, 0)) :
        image \in {JumpIntoCold, RunIntoCold, LoadInLoop},
        code \in {"resident", "present", "absent"}, data \in {"present", "absent"},
        slices \in Slices, after \in {0, 1, 2}}

\* Two tasks that run the same image, images without a block in common, images
\* with one in common which closes a loop in each, or which is a loop of its own
\* that only one of them can extend to a trace; and two tasks that rewrite
\* themselves.
CallImage == Image(<<Dec, Jnz(3), Sys, Jmp(0)>>)
OtherImage == Image(<<Set(1), Sys, Jmp(0)>>)
CommonImage == Image(<<Set(0), Jnz(3), Sys, Jmp(0)>>)
LoopThenCall == Image(<<Dec, Jnz(0), Sys, Jmp(0)>>)
LoopThenX87 == Image(<<Dec, Jnz(0), X87(1), Sys, Jmp(0)>>)
CallThenRewrite == Image(<<Dec, Sys, StoreTo(0, 1), Jmp(0)>>)

SharedImages ==
    {<<CallImage, CallImage>>, <<CallImage, OtherImage>>, <<CallImage, CommonImage>>,
     <<LoopThenCall, LoopThenX87>>, <<CallThenRewrite, CallThenRewrite>>}

SharedPrograms ==
    {[Scenario(images, <<Resident, Resident>>, <<Set(2)>>,
               Tune({7}, 9, after, promote, 0)) EXCEPT !.compiles = {"yes"}] :
        images \in SharedImages, after \in {0, 1, 2}, promote \in {0, 2}}

\* Slices of different lengths, and traces that cannot be translated.
VariedPrograms ==
    {[Scenario(<<image>>, <<Resident>>, <<>>, Tune({4, 6}, 9, 1, 0, 0))
        EXCEPT !.compiles = {"yes", "untranslated"}] : image \in {LoopImage, TraceImage}}
    \cup {[Scenario(<<image>>, <<Cold((2 :> code) @@ (3 :> "absent"))>>, <<Data(2)>>,
                    Tune({3, 6}, 9, 2, 0, 0)) EXCEPT !.compiles = {"yes"}] :
            image \in {JumpIntoCold, RunIntoCold, LoadInLoop}, code \in {"present", "absent"}}

\* The host changes the tiering between slices.
RetierPrograms ==
    {[Scenario(<<LoopImage>>, <<Resident>>, <<>>, Tune(slices, 9, 1, 0, 4))
        EXCEPT !.retier = {0, 1}] : slices \in Slices}

MCPrograms ==
    UNION {LoopPrograms, TracePrograms, RewritePrograms, PagedPrograms,
           SharedPrograms, VariedPrograms, RetierPrograms}

\* Two programs with one block in common, which closes a loop in each.
CommonBlockPrograms ==
    {[Scenario(<<CallImage, CommonImage>>,
               <<Resident, Resident>>, <<>>, Tune({7}, 9, 1, 0, 0))
        EXCEPT !.compiles = {"yes"}]}
=============================================================================
