------------------------------ MODULE MCDedup -------------------------------
(***************************************************************************)
(* A tree shaped like the spec's scenario: lib/ and lib/sub/, three      *)
(* matching names and one that does not match.  Contents A and B have   *)
(* the same size (a size collision the hash must separate); E is empty.  *)
(***************************************************************************)
EXTENDS Dedup, TLC

CONSTANTS A, B, E

MCDirs == {<<>>, <<"lib">>, <<"lib", "sub">>}
MCSlots == {<<"lib", "a.jar">>, <<"lib", "x.jar">>, <<"lib", "sub", "c.jar">>,
            <<"lib", "y.bin">>}
MCMatching == MCSlots \ {<<"lib", "y.bin">>}
MCContents == {A, B, E}
MCSize == [c \in MCContents |-> IF c = E THEN 0 ELSE 1]
MCNameOrder == <<"a.jar", "c.jar", "lib", "sub", "x.jar", "y.bin">>

\* The smaller tree of the liveness run and of the runs with other
\* writers active throughout: the three matching slots alone.
MCLiveSlots == MCMatching

\* A and B are told apart only by equality.
Symmetry == Permutations({A, B})
=============================================================================
