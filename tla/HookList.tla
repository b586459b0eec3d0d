----------------------------- MODULE HookList -----------------------------
(***************************************************************************)
(* What a hook promises its users, with the list of codelets as an atomic  *)
(* object: an invocation runs, in order, the codelets of the list as it    *)
(* was at one instant of the call, and the code of a codelet is destroyed  *)
(* only when no list and no running invocation can reach it any more.      *)
(***************************************************************************)
EXTENDS Naturals, Sequences

CONSTANTS Readers,   \* threads that invoke the hook
          Codelets,  \* codelet entry points (jbpf_jit_fn)
          Prios,     \* codelet priorities
          IsCtrl     \* TRUE for a control hook: at most one codelet, run once

VARIABLES list,      \* the registered codelets, in execution order
          jit,       \* codelets whose machine code is mapped
          snap,      \* snap[t]: the list an invocation by t is running, or <<>>
          next       \* next[t]: the index in snap[t] of the running codelet

listVars == <<list, jit, snap, next>>

Entry == [jbpf_codelet : Codelets, prio : Prios]

Codes(s) == {s[i].jbpf_codelet : i \in DOMAIN s}

\* s with e put in front of the k-th entry.
InsertBefore(s, k, e) ==
  [i \in 1..Len(s) + 1 |-> IF i < k THEN s[i] ELSE IF i = k THEN e ELSE s[i - 1]]

\* s without its k-th entry.
Delete(s, k) == [i \in 1..Len(s) - 1 |-> IF i < k THEN s[i] ELSE s[i + 1]]

LInit ==
  /\ list = <<>>
  /\ jit = {}
  /\ snap = [t \in Readers |-> <<>>]
  /\ next = [t \in Readers |-> 1]

LCreate(c) ==
  /\ c \notin jit
  /\ jit' = jit \cup {c}
  /\ UNCHANGED <<list, snap, next>>

\* A new codelet runs after every codelet of the same or a higher priority
\* and before every codelet of a lower one.
LRegister(c, p) ==
  /\ c \notin Codes(list)
  /\ IsCtrl => list = <<>>
  /\ \E k \in 1..Len(list) + 1 :
       /\ \A i \in 1..k - 1 : list[i].prio >= p
       /\ \A i \in k..Len(list) : list[i].prio < p
       /\ list' = InsertBefore(list, k, [jbpf_codelet |-> c, prio |-> p])
  /\ UNCHANGED <<jit, snap, next>>

LRemove(c) ==
  /\ \E k \in 1..Len(list) :
       /\ list[k].jbpf_codelet = c
       /\ list' = Delete(list, k)
  /\ UNCHANGED <<jit, snap, next>>

\* Neither the list nor the rest of a running invocation may need c's code.
LDestroy(c) ==
  /\ c \in jit \ Codes(list)
  /\ \A t \in Readers : \A i \in next[t]..Len(snap[t]) : snap[t][i].jbpf_codelet # c
  /\ jit' = jit \ {c}
  /\ UNCHANGED <<list, snap, next>>

LStart(t) ==
  /\ snap[t] = <<>>
  /\ list # <<>>
  /\ snap' = [snap EXCEPT ![t] = list]
  /\ UNCHANGED <<list, jit, next>>

\* The running codelet returns; the next one, if any, is called.
LRun(t) ==
  /\ snap[t] # <<>>
  /\ IF ~IsCtrl /\ next[t] < Len(snap[t])
       THEN next' = [next EXCEPT ![t] = @ + 1] /\ UNCHANGED snap
       ELSE /\ snap' = [snap EXCEPT ![t] = <<>>]
            /\ next' = [next EXCEPT ![t] = 1]
  /\ UNCHANGED <<list, jit>>

LNext ==
  \/ \E c \in Codelets : LCreate(c) \/ LRemove(c) \/ LDestroy(c)
  \/ \E c \in Codelets, p \in Prios : LRegister(c, p)
  \/ \E t \in Readers : LStart(t) \/ LRun(t)

LSpec == LInit /\ [][LNext]_listVars
=============================================================================
