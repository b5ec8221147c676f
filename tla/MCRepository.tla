---------------------------- MODULE MCRepository ----------------------------
(* Two commands at a time on one package, with two contents to tell apart. *)
EXTENDS Repository, TLC

CONSTANTS bptA, bptB, v1, old, new

MCProcs == {bptA, bptB}
MCVersions == {v1}
MCContents == {old, new}

(* Processes and contents are compared with each other and nothing else. *)
Symmetry == Permutations(MCProcs) \cup Permutations(MCContents)
=============================================================================
