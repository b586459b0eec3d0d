------------------------------- MODULE MCIo -------------------------------
(* JbpfIoChannel for model checking. *)
EXTENDS JbpfIoChannel

CONSTANTS h1, h2, s1
AllThreads == {h1, h2, s1, Lcm, App}
FewThreads == {h1, s1, Lcm, App}
=============================================================================
