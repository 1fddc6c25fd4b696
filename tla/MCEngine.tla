------------------------------ MODULE MCEngine ------------------------------
(***************************************************************************)
(* Block trees, fork-choice states and import files for model checking     *)
(* module Engine.                                                          *)
(***************************************************************************)
EXTENDS EngineSequential, TLC

\* A fork:   g --- a1 --- a2       a1 and b1 are siblings; x2 executes to a
\*             \-- b1  \-- x2      state root that is not the one it names.
ForkNumber == "g" :> 0 @@ "a1" :> 1 @@ "b1" :> 1 @@ "a2" :> 2 @@ "x2" :> 2

ForkParent ==
    "g" :> None @@ "a1" :> "g" @@ "b1" :> "g" @@ "a2" :> "a1" @@ "x2" :> "a1"

ForkVerdict == "g" :> "ok" @@ "a1" :> "ok" @@ "b1" :> "ok" @@ "a2" :> "ok"
               @@ "x2" :> "root"

ForkBlocks == DOMAIN ForkNumber

\* One of everything: the fork, and on a1 a block of each kind that fails.
FullNumber == ForkNumber @@ "h2" :> 2 @@ "e2" :> 2

FullParent == ForkParent @@ "h2" :> "a1" @@ "e2" :> "a1"

FullVerdict == ForkVerdict @@ "h2" :> "header" @@ "e2" :> "evm"

FullBlocks == DOMAIN FullNumber

\* One line, and a bad block on it.
LineNumber == "g" :> 0 @@ "a1" :> 1 @@ "a2" :> 2 @@ "x2" :> 2

LineParent == "g" :> None @@ "a1" :> "g" @@ "a2" :> "a1" @@ "x2" :> "a1"

LineVerdict == "g" :> "ok" @@ "a1" :> "ok" @@ "a2" :> "ok" @@ "x2" :> "root"

LineBlocks == DOMAIN LineNumber

Choice(h, s, f, b) == [head |-> h, safe |-> s, finalized |-> f, build |-> b]

\* Adopt one sibling and build on it, with the safe and finalized blocks on the
\* other branch.
ForkAdoptions == {Choice("b1", "a2", "a1", TRUE)}

\* Every head, with the safe and finalized blocks on the chain, off it, not
\* stored, or in the wrong order.
FullAdoptions ==
    {Choice(h, m[1], m[2], h = "a2") :
        h \in {None, "g", "a1", "b1", "a2"},
        m \in {<<None, None>>, <<"a1", "g">>, <<"g", "a1">>, <<"a2", "b1">>,
               <<"b1", "a2">>}}

LineAdoptions == {Choice("a1", "g", "g", FALSE), Choice("a2", "a1", "a1", FALSE)}

NoImport == <<>>

\* Blocks whose parent is not in the file: they fail, until a restart finds it.
Orphans == <<"x2", "a2">>

NoFaults == {}

AllFaults == {"decode", "fork", "mismatch"}

Interchangeable == Permutations(Handler)

=============================================================================
