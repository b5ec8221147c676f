------------------------------- MODULE MCBuild -------------------------------
(* A library of one object and a test that links it. Both objects read one *)
(* header; the library's source is its own.                                *)
EXTENDS Build, TLC

CONSTANTS lib_o, main_o, lib_c, shared_h, lib_a, test_exe, flagsA, flagsB

MCOutputs == {lib_o, main_o}
MCInputs == {lib_c, shared_h}
MCReads == lib_o :> {lib_c, shared_h} @@ main_o :> {shared_h}
MCCommands == {flagsA, flagsB}
MCLibraries == {lib_a}
MCObjects == lib_a :> {lib_o}
MCExecutables == {test_exe}
MCEntry == test_exe :> main_o
MCLinks == test_exe :> {lib_a}
MCTests == {test_exe}

(* The commands are compared with each other and nothing else. *)
Symmetry == Permutations(MCCommands)
=============================================================================
