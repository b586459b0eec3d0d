---------------------------- MODULE MCHookKinds ----------------------------
(***************************************************************************)
(* The hooks from which a remove never fails: a monitoring hook            *)
(* (IsCtrl = FALSE) whose allocations succeed, or a control hook whose     *)
(* allocations may fail.  `kind` says which hook the behaviour is of.      *)
(***************************************************************************)
EXTENDS MCHook

VARIABLE kind

Control == INSTANCE JbpfHook WITH IsCtrl <- TRUE, CallocMayFail <- TRUE

KindsInit == kind \in {"monitor", "control"} /\ Init
KindsNext ==
  /\ \/ kind = "monitor" /\ Next
     \/ kind = "control" /\ Control!Next
  /\ UNCHANGED kind

KindsSpec == KindsInit /\ [][KindsNext]_<<vars, kind>>

\* Both hooks implement the atomic list of HookList, the control hook with at
\* most one codelet: an invocation (jbpf_hook.h:131) runs the codelets of one
\* list that was published during the call, in order; registering and removing
\* take effect at one point; and unmapping a codelet never pulls it from under
\* a list or an invocation.
ImplementsHookList ==
  /\ HL!LInit
  /\ [][IF kind = "monitor" THEN HL!LNext ELSE Control!HL!LNext]_(HL!listVars)
=============================================================================
