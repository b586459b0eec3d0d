------------------------------- MODULE MCIpc -------------------------------
(* JbpfIoIpc for model checking. *)
EXTENDS JbpfIoIpc, TLC

CONSTANTS s1, s2, t1
SecondarySymmetry == Permutations(Secondaries)
=============================================================================
