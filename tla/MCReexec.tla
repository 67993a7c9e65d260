------------------------------ MODULE MCReexec ------------------------------
(* Paths, arguments and environments for model-checking Reexec: the path of *)
(* one program starts like that of the other and is as long as the linker's. *)
EXTENDS Reexec, TLC

McPrograms == <<"/", "a", "b">> :> "ab" @@ <<"/", "a">> :> "a" @@ <<"c">> :> "c"
McArgvs == {<<<<"x">>>>, <<<<"x">>, <<"--">>, <<"y">>>>}
McEnvs == {[core |-> <<>>, nvidia |-> <<>>, user |-> <<>>],
           [core |-> <<"/", "k">>, nvidia |-> <<"/", "n">>, user |-> <<"u">>],
           [core |-> <<>>, nvidia |-> <<"n">>, user |-> <<"u">>]}
ThreadSymmetry == Permutations(Threads)
McCore == <<"/", "m">>
McLinkerPath == <<"/", "l">>
McLinkerReal == <<"/", "r">>
McLoaderPath == <<"/", "d">>
=============================================================================
