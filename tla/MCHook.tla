------------------------------- MODULE MCHook -------------------------------
(* Small instances of JbpfHook for TLC. *)
EXTENDS JbpfHook, TLC
CONSTANTS t1, t2, w1, w2, c1, c2, c3, a1, a2, a3

Sym == Permutations({t1, t2}) \cup Permutations({w1, w2}) \cup Permutations({a1, a2, a3})
         \cup Permutations({c1, c2, c3})
=============================================================================
