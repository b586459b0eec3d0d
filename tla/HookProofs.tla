---------------------------- MODULE HookProofs ----------------------------
(***************************************************************************)
(* The inductive invariant of JbpfHook, and the proof that the steps of    *)
(* readers, callers and the maintenance thread preserve it, for any number *)
(* of threads, codelets and addresses.  The two steps that build a list    *)
(* are in HookTheorems, with the theorems.                                 *)
(***************************************************************************)
EXTENDS JbpfHook, TLAPS

\* A list has no codelet twice and is in descending order of priority.
Ordered(s) ==
  \A i, j \in DOMAIN s :
    i < j => s[i].jbpf_codelet # s[j].jbpf_codelet /\ s[i].prio >= s[j].prio

-----------------------------------------------------------------------------
(* The inductive invariant.                                                *)

InRegister == {"register", "registerScan", "registered", "defer", "barrier", "barrierWait"}
Critical == {"registerScan", "registered", "defer", "barrier", "barrierWait",
             "removeScan", "removed", "sync", "syncWait"}
\* The new list is published, the old array not yet freed by this caller.
Retiring == {"defer", "barrier", "barrierWait", "removed", "sync", "syncWait"}

\* hook_mutex is held exactly between the entry and the return.
MutexInv == \A w \in Callers : hookMutex = w <=> cpc[w] \in Critical

\* A caller has an operation while it is busy, and two have no codelet in common.
OpInv ==
  /\ \A w \in Callers : op[w] = NULL <=> cpc[w] = "idle"
  /\ \A w \in Callers : cpc[w] \in InRegister => op[w] \in [kind : {"load", "register"}, fn : Codelets, prio : Prios]
  /\ \A v, w \in Callers : v # w /\ op[v] # NULL /\ op[w] # NULL => op[v].fn # op[w].fn

\* old_codelets is the published array until the caller replaces it; then it
\* stays allocated until this caller's grace period, or a poll, frees it.
OldInv ==
  \A w \in Callers :
    /\ cpc[w] \notin Critical => old[w] = NULL
    /\ cpc[w] \in {"registerScan", "removeScan"} => old[w] = codelets
    /\ cpc[w] \in Retiring => old[w] # NULL
    /\ cpc[w] \in Retiring \cup {"registered"} => old[w] # codelets
    /\ cpc[w] \in {"registered", "defer", "removed", "sync", "syncWait"} /\ old[w] # NULL => old[w] \in alloc
    /\ cpc[w] \notin {"barrier", "barrierWait"} => deferred[w] = {}
    /\ cpc[w] \in {"barrier", "barrierWait"} => deferred[w] = {old[w]} \cap alloc

\* What is allocated is published or is the array a caller retires.
HeapInv ==
  /\ codelets # NULL => codelets \in alloc
  /\ \A a \in alloc : a = codelets \/ \E w \in Callers : hookMutex = w /\ old[w] = a

\* Every allocated list is well formed, not only the published one.
ListInv ==
  \A a \in alloc : Len(mem[a]) > 0 /\ Ordered(mem[a]) /\ (IsCtrl => Len(mem[a]) = 1)

\* A thread that walks a list is in a section, and the list is allocated.
ReaderInv ==
  \A t \in Readers :
    /\ rpc[t] \in {"reload", "run"} => t \in section
    /\ rpc[t] = "run" => rptr[t] \in alloc /\ ridx[t] \in 1..Len(mem[rptr[t]])
    /\ rpc[t] # "run" => ridx[t] = 1

\* A caller that waits, waits for every thread that walks the array it retires.
GraceInv ==
  \A t \in Readers, w \in Callers :
    rpc[t] = "run" /\ rptr[t] = old[w] =>
      /\ cpc[w] \in {"barrierWait", "syncWait"} => t \in waitFor[w]
      /\ cpc[w] \in {"barrier", "barrierWait"} => t \in waitFor[old[w]]

IInv == TypeOK /\ MutexInv /\ OpInv /\ OldInv /\ HeapInv /\ ListInv /\ ReaderInv /\ GraceInv

\* Where code must be mapped, if no allocation fails.
CodeInv ==
  /\ \A a \in alloc : Codes(mem[a]) \subseteq jit
  /\ \A w \in Callers : op[w] # NULL => op[w].fn \in jit
  /\ \A w \in Callers :
       cpc[w] = "destroy" \/ (cpc[w] \in {"register", "registerScan"} /\ op[w].kind = "load")
         => \A a \in alloc : op[w].fn \notin Codes(mem[a])
  /\ \A w \in Callers :
       cpc[w] \in {"removed", "sync", "syncWait"} /\ codelets # NULL
         => op[w].fn \notin Codes(mem[codelets])

-----------------------------------------------------------------------------
(* Every step preserves it.                                                *)

\* The unprotected test of hook->codelets (jbpf_hook.h:127-128) preserves IInv.
LEMMA HookCallStep ==
  ASSUME IInv, NEW t \in Readers, HookCall(t)
  PROVE  IInv'
<1>1. MutexInv' /\ OpInv' /\ OldInv' /\ HeapInv' /\ ListInv'
  BY DEF IInv, HookCall, heapVars, callerVars, MutexInv, OpInv, OldInv, HeapInv, ListInv
<1>2. TypeOK'
  BY NullIsNoObject DEF IInv, TypeOK, HookCall, heapVars, callerVars, HeapTypeOK,
      ReaderTypeOK, CallerTypeOK, EBR!EbrTypeOK
<1>3. ReaderInv'
  BY NullIsNoObject DEF IInv, TypeOK, HookCall, heapVars, callerVars, HeapTypeOK,
      ReaderTypeOK, ReaderInv, HeapInv, ListInv
<1>4. GraceInv'
  BY NullIsNoObject DEF IInv, TypeOK, HookCall, heapVars, callerVars, HeapTypeOK,
      ReaderTypeOK, CallerTypeOK, EBR!EbrTypeOK, GraceInv, OldInv, ReaderInv, HeapInv,
      MutexInv, Critical, Retiring
<1> QED
  BY <1>1, <1>2, <1>3, <1>4 DEF IInv

\* Entering the epoch section in a hook function (jbpf_hook.h:130) preserves IInv.
LEMMA HookEpochBeginStep ==
  ASSUME IInv, NEW t \in Readers, HookEpochBegin(t)
  PROVE  IInv'
<1>1. MutexInv' /\ OpInv' /\ OldInv' /\ HeapInv' /\ ListInv'
  BY DEF IInv, HookEpochBegin, heapVars, callerVars, EBR!EpochBegin, MutexInv, OpInv,
      OldInv, HeapInv, ListInv
<1>2. TypeOK'
  BY NullIsNoObject DEF IInv, TypeOK, HookEpochBegin, heapVars, callerVars,
      EBR!EpochBegin, HeapTypeOK, ReaderTypeOK, CallerTypeOK, EBR!EbrTypeOK
<1>3. ReaderInv'
  BY NullIsNoObject DEF IInv, TypeOK, HookEpochBegin, heapVars, callerVars,
      EBR!EpochBegin, HeapTypeOK, ReaderTypeOK, ReaderInv, HeapInv, ListInv
<1>4. GraceInv'
  BY NullIsNoObject DEF IInv, TypeOK, HookEpochBegin, heapVars, callerVars,
      EBR!EpochBegin, HeapTypeOK, ReaderTypeOK, CallerTypeOK, EBR!EbrTypeOK, GraceInv,
      OldInv, ReaderInv, HeapInv, MutexInv, Critical, Retiring
<1> QED
  BY <1>1, <1>2, <1>3, <1>4 DEF IInv

\* Loading hook->codelets inside the section (jbpf_hook.h:131-132) preserves IInv:
\* no grace period that has started could free what was just loaded.
LEMMA HookReloadStep ==
  ASSUME IInv, NEW t \in Readers, HookReload(t)
  PROVE  IInv'
<1>1. MutexInv' /\ OpInv' /\ OldInv' /\ HeapInv' /\ ListInv'
  BY DEF IInv, HookReload, heapVars, callerVars, MutexInv, OpInv, OldInv, HeapInv,
      ListInv
<1>2. TypeOK'
  <2>1. HeapTypeOK' /\ CallerTypeOK' /\ EBR!EbrTypeOK'
    BY DEF IInv, TypeOK, HookReload, heapVars, callerVars, HeapTypeOK, CallerTypeOK, EBR!EbrTypeOK
  <2>2. CASE codelets = NULL
    BY <2>1, <2>2 DEF IInv, TypeOK, HookReload, ReaderTypeOK
  <2>3. CASE codelets # NULL
    BY <2>1, <2>3 DEF IInv, TypeOK, HookReload, ReaderTypeOK, HeapTypeOK
  <2> QED BY <2>2, <2>3
<1>3. ReaderInv'
  BY NullIsNoObject DEF IInv, TypeOK, HookReload, heapVars, callerVars, HeapTypeOK,
      ReaderTypeOK, ReaderInv, HeapInv, ListInv
<1>4. GraceInv'
  BY NullIsNoObject DEF IInv, TypeOK, HookReload, heapVars, callerVars, HeapTypeOK,
      ReaderTypeOK, CallerTypeOK, EBR!EbrTypeOK, GraceInv, OldInv, ReaderInv, HeapInv,
      MutexInv, Critical, Retiring
<1> QED
  BY <1>1, <1>2, <1>3, <1>4 DEF IInv

\* Running one codelet and going to the next (jbpf_hook.h:72-78) preserves IInv.
LEMMA HookRunCodeletStep ==
  ASSUME IInv, NEW t \in Readers, HookRunCodelet(t)
  PROVE  IInv'
<1>1. MutexInv' /\ OpInv' /\ OldInv' /\ HeapInv' /\ ListInv'
  BY DEF IInv, HookRunCodelet, heapVars, callerVars, MutexInv, OpInv, OldInv, HeapInv,
      ListInv
<1>2. TypeOK'
  <2>1. HeapTypeOK' /\ CallerTypeOK' /\ EBR!EbrTypeOK'
    BY DEF IInv, TypeOK, HookRunCodelet, heapVars, callerVars, HeapTypeOK, CallerTypeOK, EBR!EbrTypeOK
  <2>2. CASE ~IsCtrl /\ ridx[t] < Len(mem[rptr[t]])
    BY <2>1, <2>2 DEF IInv, TypeOK, HookRunCodelet, ReaderTypeOK
  <2>3. CASE ~(~IsCtrl /\ ridx[t] < Len(mem[rptr[t]]))
    <3>1. /\ ridx' = [ridx EXCEPT ![t] = 1]
          /\ rptr' = [rptr EXCEPT ![t] = NULL]
          /\ rpc' = [rpc EXCEPT ![t] = "end"]
      BY <2>3, Zenon DEF HookRunCodelet
    <3> QED BY <2>1, <3>1 DEF IInv, TypeOK, ReaderTypeOK
  <2> QED BY <2>2, <2>3
<1>3. ReaderInv'
  BY NullIsNoObject DEF IInv, TypeOK, HookRunCodelet, heapVars, callerVars, HeapTypeOK,
      ReaderTypeOK, ReaderInv, HeapInv, ListInv
<1>4. GraceInv'
  BY NullIsNoObject DEF IInv, TypeOK, HookRunCodelet, heapVars, callerVars, HeapTypeOK,
      ReaderTypeOK, CallerTypeOK, EBR!EbrTypeOK, GraceInv, OldInv, ReaderInv, HeapInv,
      MutexInv, Critical, Retiring
<1> QED
  BY <1>1, <1>2, <1>3, <1>4 DEF IInv

\* Leaving the epoch section in a hook function (jbpf_hook.h:137) preserves IInv:
\* the thread holds no array any more when grace periods stop waiting for it.
LEMMA HookEpochEndStep ==
  ASSUME IInv, NEW t \in Readers, HookEpochEnd(t)
  PROVE  IInv'
<1>1. MutexInv' /\ OpInv' /\ OldInv' /\ HeapInv' /\ ListInv'
  BY DEF IInv, HookEpochEnd, heapVars, callerVars, EBR!EpochEnd, MutexInv, OpInv,
      OldInv, HeapInv, ListInv
<1>2. TypeOK'
  BY NullIsNoObject DEF IInv, TypeOK, HookEpochEnd, heapVars, callerVars, EBR!EpochEnd,
      HeapTypeOK, ReaderTypeOK, CallerTypeOK, EBR!EbrTypeOK
<1>3. ReaderInv'
  BY NullIsNoObject DEF IInv, TypeOK, HookEpochEnd, heapVars, callerVars, EBR!EpochEnd,
      HeapTypeOK, ReaderTypeOK, ReaderInv, HeapInv, ListInv
<1>4. GraceInv'
  BY NullIsNoObject DEF IInv, TypeOK, HookEpochEnd, heapVars, callerVars, EBR!EpochEnd,
      HeapTypeOK, ReaderTypeOK, CallerTypeOK, EBR!EbrTypeOK, GraceInv, OldInv,
      ReaderInv, HeapInv, MutexInv, Critical, Retiring
<1> QED
  BY <1>1, <1>2, <1>3, <1>4 DEF IInv

\* Starting to load a codelet (jbpf.c:915-993) preserves IInv.
LEMMA LoadCodeletStep ==
  ASSUME IInv, NEW w \in Callers, NEW c \in Codelets, NEW p \in Prios, LoadCodelet(w, c, p)
  PROVE  IInv'
<1>1. HeapInv' /\ ListInv' /\ ReaderInv'
  BY DEF IInv, LoadCodelet, heapVars, readerVars, HeapInv, ListInv, ReaderInv
<1>2. TypeOK'
  BY NullIsNoObject DEF IInv, TypeOK, LoadCodelet, heapVars, readerVars, HeapTypeOK,
      ReaderTypeOK, CallerTypeOK, EBR!EbrTypeOK, Ops
<1>3. MutexInv'
  BY NullIsNoObject DEF IInv, TypeOK, LoadCodelet, heapVars, readerVars, CallerTypeOK,
      MutexInv, Critical
<1>4. OpInv'
  BY NullIsNoObject, NullIsNoOp DEF IInv, TypeOK, LoadCodelet, heapVars, readerVars,
      CallerTypeOK, OpInv, InRegister, Busy, Ops
<1>5. OldInv'
  BY NullIsNoObject DEF IInv, TypeOK, LoadCodelet, heapVars, readerVars, CallerTypeOK,
      OldInv, MutexInv, HeapInv, Critical, Retiring
<1>6. GraceInv'
  BY NullIsNoObject DEF IInv, TypeOK, LoadCodelet, heapVars, readerVars, HeapTypeOK,
      ReaderTypeOK, CallerTypeOK, EBR!EbrTypeOK, GraceInv, OldInv, ReaderInv, HeapInv,
      MutexInv, Critical, Retiring
<1> QED
  BY <1>1, <1>2, <1>3, <1>4, <1>5, <1>6 DEF IInv

\* A direct call of jbpf_register_codelet_<name> (jbpf_hook.h:87-91) preserves IInv.
LEMMA RegisterCodeletStep ==
  ASSUME IInv, NEW w \in Callers, NEW c \in Codelets, NEW p \in Prios, RegisterCodelet(w, c, p)
  PROVE  IInv'
<1>1. HeapInv' /\ ListInv' /\ ReaderInv'
  BY DEF IInv, RegisterCodelet, heapVars, readerVars, HeapInv, ListInv, ReaderInv
<1>2. TypeOK'
  BY NullIsNoObject DEF IInv, TypeOK, RegisterCodelet, heapVars, readerVars, HeapTypeOK,
      ReaderTypeOK, CallerTypeOK, EBR!EbrTypeOK, Ops
<1>3. MutexInv'
  BY NullIsNoObject DEF IInv, TypeOK, RegisterCodelet, heapVars, readerVars,
      CallerTypeOK, MutexInv, Critical
<1>4. OpInv'
  BY NullIsNoObject, NullIsNoOp DEF IInv, TypeOK, RegisterCodelet, heapVars, readerVars,
      CallerTypeOK, OpInv, InRegister, Busy, Ops
<1>5. OldInv'
  BY NullIsNoObject DEF IInv, TypeOK, RegisterCodelet, heapVars, readerVars,
      CallerTypeOK, OldInv, MutexInv, HeapInv, Critical, Retiring
<1>6. GraceInv'
  BY NullIsNoObject DEF IInv, TypeOK, RegisterCodelet, heapVars, readerVars, HeapTypeOK,
      ReaderTypeOK, CallerTypeOK, EBR!EbrTypeOK, GraceInv, OldInv, ReaderInv, HeapInv,
      MutexInv, Critical, Retiring
<1> QED
  BY <1>1, <1>2, <1>3, <1>4, <1>5, <1>6 DEF IInv

\* Starting to unload or remove a codelet (jbpf.c:1041-1065) preserves IInv.
LEMMA RemoveCodeletStep ==
  ASSUME IInv, NEW w \in Callers, NEW c \in Codelets, NEW k \in {"unload", "remove"}, RemoveCodelet(w, c, k)
  PROVE  IInv'
<1>1. HeapInv' /\ ListInv' /\ ReaderInv'
  BY DEF IInv, RemoveCodelet, heapVars, readerVars, HeapInv, ListInv, ReaderInv
<1>2. TypeOK'
  BY NullIsNoObject DEF IInv, TypeOK, RemoveCodelet, heapVars, readerVars, HeapTypeOK,
      ReaderTypeOK, CallerTypeOK, EBR!EbrTypeOK, Ops
<1>3. MutexInv'
  BY NullIsNoObject DEF IInv, TypeOK, RemoveCodelet, heapVars, readerVars, CallerTypeOK,
      MutexInv, Critical
<1>4. OpInv'
  BY NullIsNoObject, NullIsNoOp DEF IInv, TypeOK, RemoveCodelet, heapVars, readerVars,
      CallerTypeOK, OpInv, InRegister, Busy, Ops
<1>5. OldInv'
  BY NullIsNoObject DEF IInv, TypeOK, RemoveCodelet, heapVars, readerVars, CallerTypeOK,
      OldInv, MutexInv, HeapInv, Critical, Retiring
<1>6. GraceInv'
  BY NullIsNoObject DEF IInv, TypeOK, RemoveCodelet, heapVars, readerVars, HeapTypeOK,
      ReaderTypeOK, CallerTypeOK, EBR!EbrTypeOK, GraceInv, OldInv, ReaderInv, HeapInv,
      MutexInv, Critical, Retiring
<1> QED
  BY <1>1, <1>2, <1>3, <1>4, <1>5, <1>6 DEF IInv

\* Destroying a codelet (jbpf.c:995-1007) preserves IInv.
LEMMA DestroyCodeletStep ==
  ASSUME IInv, NEW w \in Callers, DestroyCodelet(w)
  PROVE  IInv'
<1>1. HeapInv' /\ ListInv' /\ ReaderInv'
  BY DEF IInv, DestroyCodelet, heapVars, readerVars, HeapInv, ListInv, ReaderInv
<1>2. TypeOK'
  BY NullIsNoObject DEF IInv, TypeOK, DestroyCodelet, heapVars, readerVars, HeapTypeOK,
      ReaderTypeOK, CallerTypeOK, EBR!EbrTypeOK
<1>3. MutexInv'
  BY NullIsNoObject DEF IInv, TypeOK, DestroyCodelet, heapVars, readerVars,
      CallerTypeOK, MutexInv, Critical
<1>4. OpInv'
  BY NullIsNoObject DEF IInv, TypeOK, DestroyCodelet, heapVars, readerVars,
      CallerTypeOK, OpInv, InRegister
<1>5. OldInv'
  BY NullIsNoObject DEF IInv, TypeOK, DestroyCodelet, heapVars, readerVars,
      CallerTypeOK, OldInv, MutexInv, HeapInv, Critical, Retiring
<1>6. GraceInv'
  BY NullIsNoObject DEF IInv, TypeOK, DestroyCodelet, heapVars, readerVars, HeapTypeOK,
      ReaderTypeOK, CallerTypeOK, EBR!EbrTypeOK, GraceInv, OldInv, ReaderInv, HeapInv,
      MutexInv, Critical, Retiring
<1> QED
  BY <1>1, <1>2, <1>3, <1>4, <1>5, <1>6 DEF IInv

\* Taking hook_mutex to register (jbpf_hook.c:42-49) preserves IInv.
LEMMA RegisterEnterStep ==
  ASSUME IInv, NEW w \in Callers, RegisterEnter(w)
  PROVE  IInv'
<1>1. ListInv'
  BY DEF IInv, RegisterEnter, heapVars, readerVars, Enter, EBR!EpochBegin, ListInv
<1>2. TypeOK'
  BY NullIsNoObject DEF IInv, TypeOK, RegisterEnter, heapVars, readerVars, Enter,
      EBR!EpochBegin, HeapTypeOK, ReaderTypeOK, CallerTypeOK, EBR!EbrTypeOK
<1>3. MutexInv'
  BY NullIsNoObject DEF IInv, TypeOK, RegisterEnter, heapVars, readerVars, Enter,
      EBR!EpochBegin, CallerTypeOK, MutexInv, Critical
<1>4. OpInv'
  BY NullIsNoObject DEF IInv, TypeOK, RegisterEnter, heapVars, readerVars, Enter,
      EBR!EpochBegin, CallerTypeOK, OpInv, InRegister
<1>5. OldInv'
  BY NullIsNoObject DEF IInv, TypeOK, RegisterEnter, heapVars, readerVars, Enter,
      EBR!EpochBegin, CallerTypeOK, OldInv, MutexInv, HeapInv, Critical, Retiring
<1>6. HeapInv'
  BY NullIsNoObject DEF IInv, TypeOK, RegisterEnter, heapVars, readerVars, Enter,
      EBR!EpochBegin, HeapTypeOK, CallerTypeOK, HeapInv, OldInv, MutexInv, Critical,
      Retiring
<1>7. ReaderInv'
  BY NullIsNoObject, ReadersCallersDisjoint DEF IInv, TypeOK, RegisterEnter, heapVars,
      readerVars, Enter, EBR!EpochBegin, HeapTypeOK, ReaderTypeOK, ReaderInv, HeapInv,
      ListInv
<1>8. GraceInv'
  BY NullIsNoObject, ReadersCallersDisjoint DEF IInv, TypeOK, RegisterEnter, heapVars,
      readerVars, Enter, EBR!EpochBegin, HeapTypeOK, ReaderTypeOK, CallerTypeOK,
      EBR!EbrTypeOK, GraceInv, OldInv, ReaderInv, HeapInv, MutexInv, Critical, Retiring
<1> QED
  BY <1>1, <1>2, <1>3, <1>4, <1>5, <1>6, <1>7, <1>8 DEF IInv

\* Taking hook_mutex to remove (jbpf_hook.c:125-128) preserves IInv.
LEMMA RemoveEnterStep ==
  ASSUME IInv, NEW w \in Callers, RemoveEnter(w)
  PROVE  IInv'
<1>1. ListInv'
  BY DEF IInv, RemoveEnter, heapVars, readerVars, Enter, EBR!EpochBegin, ListInv
<1>2. TypeOK'
  BY NullIsNoObject DEF IInv, TypeOK, RemoveEnter, heapVars, readerVars, Enter,
      EBR!EpochBegin, HeapTypeOK, ReaderTypeOK, CallerTypeOK, EBR!EbrTypeOK
<1>3. MutexInv'
  BY NullIsNoObject DEF IInv, TypeOK, RemoveEnter, heapVars, readerVars, Enter,
      EBR!EpochBegin, CallerTypeOK, MutexInv, Critical
<1>4. OpInv'
  BY NullIsNoObject DEF IInv, TypeOK, RemoveEnter, heapVars, readerVars, Enter,
      EBR!EpochBegin, CallerTypeOK, OpInv, InRegister
<1>5. OldInv'
  BY NullIsNoObject DEF IInv, TypeOK, RemoveEnter, heapVars, readerVars, Enter,
      EBR!EpochBegin, CallerTypeOK, OldInv, MutexInv, HeapInv, Critical, Retiring
<1>6. HeapInv'
  BY NullIsNoObject DEF IInv, TypeOK, RemoveEnter, heapVars, readerVars, Enter,
      EBR!EpochBegin, HeapTypeOK, CallerTypeOK, HeapInv, OldInv, MutexInv, Critical,
      Retiring
<1>7. ReaderInv'
  BY NullIsNoObject, ReadersCallersDisjoint DEF IInv, TypeOK, RemoveEnter, heapVars,
      readerVars, Enter, EBR!EpochBegin, HeapTypeOK, ReaderTypeOK, ReaderInv, HeapInv,
      ListInv
<1>8. GraceInv'
  BY NullIsNoObject, ReadersCallersDisjoint DEF IInv, TypeOK, RemoveEnter, heapVars,
      readerVars, Enter, EBR!EpochBegin, HeapTypeOK, ReaderTypeOK, CallerTypeOK,
      EBR!EbrTypeOK, GraceInv, OldInv, ReaderInv, HeapInv, MutexInv, Critical, Retiring
<1> QED
  BY <1>1, <1>2, <1>3, <1>4, <1>5, <1>6, <1>7, <1>8 DEF IInv

\* The error paths of register (jbpf_hook.c:60-81) preserve IInv.
LEMMA RegisterRejectStep ==
  ASSUME IInv, NEW w \in Callers, RegisterReject(w)
  PROVE  IInv'
<1>1. ListInv'
  BY DEF IInv, RegisterReject, heapVars, readerVars, EBR!EpochEnd, Return,
      AfterFailedRegister, ListInv
<1>2. TypeOK'
  BY NullIsNoObject DEF IInv, TypeOK, RegisterReject, heapVars, readerVars,
      EBR!EpochEnd, Return, AfterFailedRegister, HeapTypeOK, ReaderTypeOK, CallerTypeOK,
      EBR!EbrTypeOK
<1>3. MutexInv'
  BY NullIsNoObject DEF IInv, TypeOK, RegisterReject, heapVars, readerVars,
      EBR!EpochEnd, Return, AfterFailedRegister, CallerTypeOK, MutexInv, Critical
<1>4. OpInv'
  BY NullIsNoObject DEF IInv, TypeOK, RegisterReject, heapVars, readerVars,
      EBR!EpochEnd, Return, AfterFailedRegister, CallerTypeOK, OpInv, InRegister
<1>5. OldInv'
  BY NullIsNoObject DEF IInv, TypeOK, RegisterReject, heapVars, readerVars,
      EBR!EpochEnd, Return, AfterFailedRegister, CallerTypeOK, OldInv, MutexInv,
      HeapInv, Critical, Retiring
<1>6. HeapInv'
  BY NullIsNoObject DEF IInv, TypeOK, RegisterReject, heapVars, readerVars,
      EBR!EpochEnd, Return, AfterFailedRegister, HeapTypeOK, CallerTypeOK, HeapInv,
      OldInv, MutexInv, Critical, Retiring
<1>7. ReaderInv'
  BY NullIsNoObject, ReadersCallersDisjoint DEF IInv, TypeOK, RegisterReject, heapVars,
      readerVars, EBR!EpochEnd, Return, AfterFailedRegister, HeapTypeOK, ReaderTypeOK,
      ReaderInv, HeapInv, ListInv
<1>8. GraceInv'
  BY NullIsNoObject, ReadersCallersDisjoint DEF IInv, TypeOK, RegisterReject, heapVars,
      readerVars, EBR!EpochEnd, Return, AfterFailedRegister, HeapTypeOK, ReaderTypeOK,
      CallerTypeOK, EBR!EbrTypeOK, GraceInv, OldInv, ReaderInv, HeapInv, MutexInv,
      Critical, Retiring
<1> QED
  BY <1>1, <1>2, <1>3, <1>4, <1>5, <1>6, <1>7, <1>8 DEF IInv

\* Removing what is not registered (jbpf_hook.c:137-146) preserves IInv.
LEMMA RemoveRejectStep ==
  ASSUME IInv, NEW w \in Callers, RemoveReject(w)
  PROVE  IInv'
<1>1. ListInv'
  BY DEF IInv, RemoveReject, heapVars, readerVars, EBR!EpochEnd, Return, AfterRemove,
      ListInv
<1>2. TypeOK'
  BY NullIsNoObject DEF IInv, TypeOK, RemoveReject, heapVars, readerVars, EBR!EpochEnd,
      Return, AfterRemove, HeapTypeOK, ReaderTypeOK, CallerTypeOK, EBR!EbrTypeOK
<1>3. MutexInv'
  BY NullIsNoObject DEF IInv, TypeOK, RemoveReject, heapVars, readerVars, EBR!EpochEnd,
      Return, AfterRemove, CallerTypeOK, MutexInv, Critical
<1>4. OpInv'
  BY NullIsNoObject DEF IInv, TypeOK, RemoveReject, heapVars, readerVars, EBR!EpochEnd,
      Return, AfterRemove, CallerTypeOK, OpInv, InRegister
<1>5. OldInv'
  BY NullIsNoObject DEF IInv, TypeOK, RemoveReject, heapVars, readerVars, EBR!EpochEnd,
      Return, AfterRemove, CallerTypeOK, OldInv, MutexInv, HeapInv, Critical, Retiring
<1>6. HeapInv'
  BY NullIsNoObject DEF IInv, TypeOK, RemoveReject, heapVars, readerVars, EBR!EpochEnd,
      Return, AfterRemove, HeapTypeOK, CallerTypeOK, HeapInv, OldInv, MutexInv,
      Critical, Retiring
<1>7. ReaderInv'
  BY NullIsNoObject, ReadersCallersDisjoint DEF IInv, TypeOK, RemoveReject, heapVars,
      readerVars, EBR!EpochEnd, Return, AfterRemove, HeapTypeOK, ReaderTypeOK,
      ReaderInv, HeapInv, ListInv
<1>8. GraceInv'
  BY NullIsNoObject, ReadersCallersDisjoint DEF IInv, TypeOK, RemoveReject, heapVars,
      readerVars, EBR!EpochEnd, Return, AfterRemove, HeapTypeOK, ReaderTypeOK,
      CallerTypeOK, EBR!EbrTypeOK, GraceInv, OldInv, ReaderInv, HeapInv, MutexInv,
      Critical, Retiring
<1> QED
  BY <1>1, <1>2, <1>3, <1>4, <1>5, <1>6, <1>7, <1>8 DEF IInv

\* Running out of memory in remove (jbpf_hook.c:156-159) preserves IInv.
LEMMA RemoveCallocFailsStep ==
  ASSUME IInv, NEW w \in Callers, RemoveCallocFails(w)
  PROVE  IInv'
<1>1. ListInv'
  BY DEF IInv, RemoveCallocFails, heapVars, readerVars, EBR!EpochEnd, Return,
      AfterRemove, ListInv
<1>2. TypeOK'
  BY NullIsNoObject DEF IInv, TypeOK, RemoveCallocFails, heapVars, readerVars,
      EBR!EpochEnd, Return, AfterRemove, HeapTypeOK, ReaderTypeOK, CallerTypeOK,
      EBR!EbrTypeOK
<1>3. MutexInv'
  BY NullIsNoObject DEF IInv, TypeOK, RemoveCallocFails, heapVars, readerVars,
      EBR!EpochEnd, Return, AfterRemove, CallerTypeOK, MutexInv, Critical
<1>4. OpInv'
  BY NullIsNoObject DEF IInv, TypeOK, RemoveCallocFails, heapVars, readerVars,
      EBR!EpochEnd, Return, AfterRemove, CallerTypeOK, OpInv, InRegister
<1>5. OldInv'
  BY NullIsNoObject DEF IInv, TypeOK, RemoveCallocFails, heapVars, readerVars,
      EBR!EpochEnd, Return, AfterRemove, CallerTypeOK, OldInv, MutexInv, HeapInv,
      Critical, Retiring
<1>6. HeapInv'
  BY NullIsNoObject DEF IInv, TypeOK, RemoveCallocFails, heapVars, readerVars,
      EBR!EpochEnd, Return, AfterRemove, HeapTypeOK, CallerTypeOK, HeapInv, OldInv,
      MutexInv, Critical, Retiring
<1>7. ReaderInv'
  BY NullIsNoObject, ReadersCallersDisjoint DEF IInv, TypeOK, RemoveCallocFails,
      heapVars, readerVars, EBR!EpochEnd, Return, AfterRemove, HeapTypeOK, ReaderTypeOK,
      ReaderInv, HeapInv, ListInv
<1>8. GraceInv'
  BY NullIsNoObject, ReadersCallersDisjoint DEF IInv, TypeOK, RemoveCallocFails,
      heapVars, readerVars, EBR!EpochEnd, Return, AfterRemove, HeapTypeOK, ReaderTypeOK,
      CallerTypeOK, EBR!EbrTypeOK, GraceInv, OldInv, ReaderInv, HeapInv, MutexInv,
      Critical, Retiring
<1> QED
  BY <1>1, <1>2, <1>3, <1>4, <1>5, <1>6, <1>7, <1>8 DEF IInv

\* Leaving the section after publishing (jbpf_hook.c:102-103) preserves IInv.
LEMMA RegisterEpochEndStep ==
  ASSUME IInv, NEW w \in Callers, RegisterEpochEnd(w)
  PROVE  IInv'
<1>1. ListInv'
  BY DEF IInv, RegisterEpochEnd, heapVars, readerVars, EBR!EpochEnd, Return, ListInv
<1>2. TypeOK'
  BY NullIsNoObject DEF IInv, TypeOK, RegisterEpochEnd, heapVars, readerVars,
      EBR!EpochEnd, Return, HeapTypeOK, ReaderTypeOK, CallerTypeOK, EBR!EbrTypeOK
<1>3. MutexInv'
  BY NullIsNoObject DEF IInv, TypeOK, RegisterEpochEnd, heapVars, readerVars,
      EBR!EpochEnd, Return, CallerTypeOK, MutexInv, Critical
<1>4. OpInv'
  BY NullIsNoObject DEF IInv, TypeOK, RegisterEpochEnd, heapVars, readerVars,
      EBR!EpochEnd, Return, CallerTypeOK, OpInv, InRegister
<1>5. OldInv'
  BY NullIsNoObject DEF IInv, TypeOK, RegisterEpochEnd, heapVars, readerVars,
      EBR!EpochEnd, Return, CallerTypeOK, OldInv, MutexInv, HeapInv, Critical, Retiring
<1>6. HeapInv'
  BY NullIsNoObject DEF IInv, TypeOK, RegisterEpochEnd, heapVars, readerVars,
      EBR!EpochEnd, Return, HeapTypeOK, CallerTypeOK, HeapInv, OldInv, MutexInv,
      Critical, Retiring
<1>7. ReaderInv'
  BY NullIsNoObject, ReadersCallersDisjoint DEF IInv, TypeOK, RegisterEpochEnd,
      heapVars, readerVars, EBR!EpochEnd, Return, HeapTypeOK, ReaderTypeOK, ReaderInv,
      HeapInv, ListInv
<1>8. GraceInv'
  BY NullIsNoObject, ReadersCallersDisjoint DEF IInv, TypeOK, RegisterEpochEnd,
      heapVars, readerVars, EBR!EpochEnd, Return, HeapTypeOK, ReaderTypeOK,
      CallerTypeOK, EBR!EbrTypeOK, GraceInv, OldInv, ReaderInv, HeapInv, MutexInv,
      Critical, Retiring
<1> QED
  BY <1>1, <1>2, <1>3, <1>4, <1>5, <1>6, <1>7, <1>8 DEF IInv

\* Leaving the section after removing (jbpf_hook.c:171) preserves IInv.
LEMMA RemoveEpochEndStep ==
  ASSUME IInv, NEW w \in Callers, RemoveEpochEnd(w)
  PROVE  IInv'
<1>1. HeapInv' /\ ListInv'
  BY DEF IInv, RemoveEpochEnd, heapVars, readerVars, EBR!EpochEnd, HeapInv, ListInv
<1>2. TypeOK'
  BY NullIsNoObject DEF IInv, TypeOK, RemoveEpochEnd, heapVars, readerVars,
      EBR!EpochEnd, HeapTypeOK, ReaderTypeOK, CallerTypeOK, EBR!EbrTypeOK
<1>3. MutexInv'
  BY NullIsNoObject DEF IInv, TypeOK, RemoveEpochEnd, heapVars, readerVars,
      EBR!EpochEnd, CallerTypeOK, MutexInv, Critical
<1>4. OpInv'
  BY NullIsNoObject DEF IInv, TypeOK, RemoveEpochEnd, heapVars, readerVars,
      EBR!EpochEnd, CallerTypeOK, OpInv, InRegister
<1>5. OldInv'
  BY NullIsNoObject DEF IInv, TypeOK, RemoveEpochEnd, heapVars, readerVars,
      EBR!EpochEnd, CallerTypeOK, OldInv, MutexInv, HeapInv, Critical, Retiring
<1>6. ReaderInv'
  BY NullIsNoObject, ReadersCallersDisjoint DEF IInv, TypeOK, RemoveEpochEnd, heapVars,
      readerVars, EBR!EpochEnd, HeapTypeOK, ReaderTypeOK, ReaderInv, HeapInv, ListInv
<1>7. GraceInv'
  BY NullIsNoObject, ReadersCallersDisjoint DEF IInv, TypeOK, RemoveEpochEnd, heapVars,
      readerVars, EBR!EpochEnd, HeapTypeOK, ReaderTypeOK, CallerTypeOK, EBR!EbrTypeOK,
      GraceInv, OldInv, ReaderInv, HeapInv, MutexInv, Critical, Retiring
<1> QED
  BY <1>1, <1>2, <1>3, <1>4, <1>5, <1>6, <1>7 DEF IInv

\* Deferring the free of the old array (jbpf_hook.c:104) preserves IInv: the grace
\* period waits for every thread that walks it, and no other can load it.
LEMMA RegisterDeferStep ==
  ASSUME IInv, NEW w \in Callers, RegisterDefer(w)
  PROVE  IInv'
<1>1. HeapInv' /\ ListInv'
  BY DEF IInv, RegisterDefer, heapVars, readerVars, EBR!StartGrace, HeapInv, ListInv
<1>2. TypeOK'
  BY NullIsNoObject DEF IInv, TypeOK, RegisterDefer, heapVars, readerVars,
      EBR!StartGrace, HeapTypeOK, ReaderTypeOK, CallerTypeOK, EBR!EbrTypeOK, OldInv,
      Retiring
<1>3. MutexInv'
  BY NullIsNoObject DEF IInv, TypeOK, RegisterDefer, heapVars, readerVars,
      EBR!StartGrace, CallerTypeOK, MutexInv, Critical
<1>4. OpInv'
  BY NullIsNoObject DEF IInv, TypeOK, RegisterDefer, heapVars, readerVars,
      EBR!StartGrace, CallerTypeOK, OpInv, InRegister
<1>5. OldInv'
  BY NullIsNoObject DEF IInv, TypeOK, RegisterDefer, heapVars, readerVars,
      EBR!StartGrace, CallerTypeOK, OldInv, MutexInv, HeapInv, Critical, Retiring
<1>6. ReaderInv'
  BY NullIsNoObject DEF IInv, TypeOK, RegisterDefer, heapVars, readerVars,
      EBR!StartGrace, HeapTypeOK, ReaderTypeOK, ReaderInv, HeapInv, ListInv
<1>7. GraceInv'
  BY NullIsNoObject, ArraysCallersDisjoint DEF IInv, TypeOK, RegisterDefer, heapVars,
      readerVars, EBR!StartGrace, HeapTypeOK, ReaderTypeOK, CallerTypeOK, EBR!EbrTypeOK,
      GraceInv, OldInv, ReaderInv, HeapInv, MutexInv, Critical, Retiring
<1> QED
  BY <1>1, <1>2, <1>3, <1>4, <1>5, <1>6, <1>7 DEF IInv

\* Entering ck_epoch_barrier (jbpf_hook.c:105) preserves IInv.
LEMMA RegisterBarrierStep ==
  ASSUME IInv, NEW w \in Callers, RegisterBarrier(w)
  PROVE  IInv'
<1>1. HeapInv' /\ ListInv'
  BY DEF IInv, RegisterBarrier, heapVars, readerVars, EBR!StartGrace, HeapInv, ListInv
<1>2. TypeOK'
  BY NullIsNoObject DEF IInv, TypeOK, RegisterBarrier, heapVars, readerVars,
      EBR!StartGrace, HeapTypeOK, ReaderTypeOK, CallerTypeOK, EBR!EbrTypeOK
<1>3. MutexInv'
  BY NullIsNoObject DEF IInv, TypeOK, RegisterBarrier, heapVars, readerVars,
      EBR!StartGrace, CallerTypeOK, MutexInv, Critical
<1>4. OpInv'
  BY NullIsNoObject DEF IInv, TypeOK, RegisterBarrier, heapVars, readerVars,
      EBR!StartGrace, CallerTypeOK, OpInv, InRegister
<1>5. OldInv'
  BY NullIsNoObject DEF IInv, TypeOK, RegisterBarrier, heapVars, readerVars,
      EBR!StartGrace, CallerTypeOK, OldInv, MutexInv, HeapInv, Critical, Retiring
<1>6. ReaderInv'
  BY NullIsNoObject DEF IInv, TypeOK, RegisterBarrier, heapVars, readerVars,
      EBR!StartGrace, HeapTypeOK, ReaderTypeOK, ReaderInv, HeapInv, ListInv
<1>7. GraceInv'
  BY NullIsNoObject, ArraysCallersDisjoint DEF IInv, TypeOK, RegisterBarrier, heapVars,
      readerVars, EBR!StartGrace, HeapTypeOK, ReaderTypeOK, CallerTypeOK, EBR!EbrTypeOK,
      GraceInv, OldInv, ReaderInv, HeapInv, MutexInv, Critical, Retiring
<1> QED
  BY <1>1, <1>2, <1>3, <1>4, <1>5, <1>6, <1>7 DEF IInv

\* Entering ck_epoch_synchronize (jbpf_hook.c:172) preserves IInv.
LEMMA RemoveSyncStep ==
  ASSUME IInv, NEW w \in Callers, RemoveSync(w)
  PROVE  IInv'
<1>1. HeapInv' /\ ListInv'
  BY DEF IInv, RemoveSync, heapVars, readerVars, EBR!StartGrace, HeapInv, ListInv
<1>2. TypeOK'
  BY NullIsNoObject DEF IInv, TypeOK, RemoveSync, heapVars, readerVars, EBR!StartGrace,
      HeapTypeOK, ReaderTypeOK, CallerTypeOK, EBR!EbrTypeOK
<1>3. MutexInv'
  BY NullIsNoObject DEF IInv, TypeOK, RemoveSync, heapVars, readerVars, EBR!StartGrace,
      CallerTypeOK, MutexInv, Critical
<1>4. OpInv'
  BY NullIsNoObject DEF IInv, TypeOK, RemoveSync, heapVars, readerVars, EBR!StartGrace,
      CallerTypeOK, OpInv, InRegister
<1>5. OldInv'
  BY NullIsNoObject DEF IInv, TypeOK, RemoveSync, heapVars, readerVars, EBR!StartGrace,
      CallerTypeOK, OldInv, MutexInv, HeapInv, Critical, Retiring
<1>6. ReaderInv'
  BY NullIsNoObject DEF IInv, TypeOK, RemoveSync, heapVars, readerVars, EBR!StartGrace,
      HeapTypeOK, ReaderTypeOK, ReaderInv, HeapInv, ListInv
<1>7. GraceInv'
  BY NullIsNoObject, ArraysCallersDisjoint DEF IInv, TypeOK, RemoveSync, heapVars,
      readerVars, EBR!StartGrace, HeapTypeOK, ReaderTypeOK, CallerTypeOK, EBR!EbrTypeOK,
      GraceInv, OldInv, ReaderInv, HeapInv, MutexInv, Critical, Retiring
<1> QED
  BY <1>1, <1>2, <1>3, <1>4, <1>5, <1>6, <1>7 DEF IInv

\* Disabling the hook (jbpf_hook.c:148-151) preserves IInv.
LEMMA RemoveLastStep ==
  ASSUME IInv, NEW w \in Callers, RemoveLast(w)
  PROVE  IInv'
<1>1. ListInv'
  BY DEF IInv, RemoveLast, heapVars, readerVars, ListInv
<1>2. TypeOK'
  BY NullIsNoObject DEF IInv, TypeOK, RemoveLast, heapVars, readerVars, HeapTypeOK,
      ReaderTypeOK, CallerTypeOK, EBR!EbrTypeOK
<1>3. MutexInv'
  BY NullIsNoObject DEF IInv, TypeOK, RemoveLast, heapVars, readerVars, CallerTypeOK,
      MutexInv, Critical
<1>4. OpInv'
  BY NullIsNoObject DEF IInv, TypeOK, RemoveLast, heapVars, readerVars, CallerTypeOK,
      OpInv, InRegister
<1>5. OldInv'
  BY NullIsNoObject DEF IInv, TypeOK, RemoveLast, heapVars, readerVars, CallerTypeOK,
      OldInv, MutexInv, HeapInv, Critical, Retiring, OldList, Codes
<1>6. HeapInv'
  BY NullIsNoObject DEF IInv, TypeOK, RemoveLast, heapVars, readerVars, HeapTypeOK,
      CallerTypeOK, HeapInv, OldInv, MutexInv, Critical, Retiring, OldList, Codes
<1>7. ReaderInv'
  BY NullIsNoObject DEF IInv, TypeOK, RemoveLast, heapVars, readerVars, HeapTypeOK,
      ReaderTypeOK, ReaderInv, HeapInv, ListInv
<1>8. GraceInv'
  BY NullIsNoObject DEF IInv, TypeOK, RemoveLast, heapVars, readerVars, HeapTypeOK,
      ReaderTypeOK, CallerTypeOK, EBR!EbrTypeOK, GraceInv, OldInv, ReaderInv, HeapInv,
      MutexInv, Critical, Retiring
<1> QED
  BY <1>1, <1>2, <1>3, <1>4, <1>5, <1>6, <1>7, <1>8 DEF IInv

\* The end of the barrier, with the deferred free (jbpf_hook.c:105-110), preserves
\* IInv: nobody walks the array that is freed.
LEMMA RegisterReturnStep ==
  ASSUME IInv, NEW w \in Callers, RegisterReturn(w)
  PROVE  IInv'
<1>1. TypeOK'
  BY NullIsNoObject DEF IInv, TypeOK, RegisterReturn, heapVars, readerVars, Return,
      FreeArrays, HeapTypeOK, ReaderTypeOK, CallerTypeOK, EBR!EbrTypeOK
<1>2. MutexInv'
  BY NullIsNoObject DEF IInv, TypeOK, RegisterReturn, heapVars, readerVars, Return,
      FreeArrays, CallerTypeOK, MutexInv, Critical
<1>3. OpInv'
  BY NullIsNoObject DEF IInv, TypeOK, RegisterReturn, heapVars, readerVars, Return,
      FreeArrays, CallerTypeOK, OpInv, InRegister
<1>4. OldInv'
  BY NullIsNoObject DEF IInv, TypeOK, RegisterReturn, heapVars, readerVars, Return,
      FreeArrays, CallerTypeOK, OldInv, MutexInv, HeapInv, Critical, Retiring
<1>5. HeapInv'
  BY NullIsNoObject DEF IInv, TypeOK, RegisterReturn, heapVars, readerVars, Return,
      FreeArrays, HeapTypeOK, CallerTypeOK, HeapInv, OldInv, MutexInv, Critical,
      Retiring
<1>6. ListInv'
  BY NullIsNoObject DEF IInv, TypeOK, RegisterReturn, heapVars, readerVars, Return,
      FreeArrays, HeapTypeOK, ListInv
<1>7. ReaderInv'
  <2>1. SUFFICES ASSUME NEW t \in Readers, rpc[t] = "run"
                 PROVE  rptr[t] \in alloc' /\ mem'[rptr[t]] = mem[rptr[t]]
    BY DEF IInv, TypeOK, RegisterReturn, readerVars, ReaderInv
  <2>2. rptr[t] \in alloc
    BY <2>1 DEF IInv, ReaderInv
  <2>3. rptr[t] \notin deferred[w]
    BY <2>1 DEF IInv, RegisterReturn, EBR!GraceElapsed, GraceInv, OldInv
  <2> QED BY <2>2, <2>3 DEF IInv, TypeOK, RegisterReturn, FreeArrays, HeapTypeOK
<1>8. GraceInv'
  BY NullIsNoObject DEF IInv, TypeOK, RegisterReturn, heapVars, readerVars, Return,
      FreeArrays, HeapTypeOK, ReaderTypeOK, CallerTypeOK, EBR!EbrTypeOK, GraceInv,
      OldInv, ReaderInv, HeapInv, MutexInv, Critical, Retiring
<1> QED
  BY <1>1, <1>2, <1>3, <1>4, <1>5, <1>6, <1>7, <1>8 DEF IInv

\* The free of the old array (jbpf_hook.c:173-178) preserves IInv: nobody walks it.
LEMMA RemoveReturnStep ==
  ASSUME IInv, NEW w \in Callers, RemoveReturn(w)
  PROVE  IInv'
<1>1. TypeOK'
  BY NullIsNoObject DEF IInv, TypeOK, RemoveReturn, heapVars, readerVars, Return,
      AfterRemove, FreeArrays, HeapTypeOK, ReaderTypeOK, CallerTypeOK, EBR!EbrTypeOK
<1>2. MutexInv'
  BY NullIsNoObject DEF IInv, TypeOK, RemoveReturn, heapVars, readerVars, Return,
      AfterRemove, FreeArrays, CallerTypeOK, MutexInv, Critical
<1>3. OpInv'
  BY NullIsNoObject DEF IInv, TypeOK, RemoveReturn, heapVars, readerVars, Return,
      AfterRemove, FreeArrays, CallerTypeOK, OpInv, InRegister
<1>4. OldInv'
  BY NullIsNoObject DEF IInv, TypeOK, RemoveReturn, heapVars, readerVars, Return,
      AfterRemove, FreeArrays, CallerTypeOK, OldInv, MutexInv, HeapInv, Critical,
      Retiring
<1>5. HeapInv'
  BY NullIsNoObject DEF IInv, TypeOK, RemoveReturn, heapVars, readerVars, Return,
      AfterRemove, FreeArrays, HeapTypeOK, CallerTypeOK, HeapInv, OldInv, MutexInv,
      Critical, Retiring
<1>6. ListInv'
  BY NullIsNoObject DEF IInv, TypeOK, RemoveReturn, heapVars, readerVars, Return,
      AfterRemove, FreeArrays, HeapTypeOK, ListInv
<1>7. ReaderInv'
  <2>1. SUFFICES ASSUME NEW t \in Readers, rpc[t] = "run"
                 PROVE  rptr[t] \in alloc' /\ mem'[rptr[t]] = mem[rptr[t]]
    BY DEF IInv, TypeOK, RemoveReturn, readerVars, ReaderInv
  <2>2. rptr[t] \in alloc
    BY <2>1 DEF IInv, ReaderInv
  <2>3. rptr[t] # old[w]
    BY <2>1 DEF IInv, RemoveReturn, EBR!GraceElapsed, GraceInv
  <2> QED BY <2>2, <2>3 DEF IInv, TypeOK, RemoveReturn, FreeArrays, HeapTypeOK
<1>8. GraceInv'
  BY NullIsNoObject DEF IInv, TypeOK, RemoveReturn, heapVars, readerVars, Return,
      AfterRemove, FreeArrays, HeapTypeOK, ReaderTypeOK, CallerTypeOK, EBR!EbrTypeOK,
      GraceInv, OldInv, ReaderInv, HeapInv, MutexInv, Critical, Retiring
<1> QED
  BY <1>1, <1>2, <1>3, <1>4, <1>5, <1>6, <1>7, <1>8 DEF IInv

\* A poll of the maintenance thread (jbpf.c:1651-1685) that runs the deferred free
\* preserves IInv.
LEMMA MaintenancePollStep ==
  ASSUME IInv, NEW w \in Callers, MaintenancePoll(w)
  PROVE  IInv'
<1>1. PICK a \in deferred[w] : /\ EBR!GraceElapsed(a)
                               /\ FreeArrays({a})
                               /\ deferred' = [deferred EXCEPT ![w] = @ \ {a}]
  BY DEF MaintenancePoll
<1>2. /\ cpc[w] \in {"barrier", "barrierWait"}
      /\ a = old[w]
      /\ a # codelets
      /\ a \in Arrays
  BY <1>1 DEF IInv, TypeOK, CallerTypeOK, OldInv, Retiring
<1>3. MutexInv' /\ OpInv'
  BY DEF IInv, MaintenancePoll, MutexInv, OpInv
<1>4. TypeOK'
  BY <1>1 DEF IInv, TypeOK, MaintenancePoll, FreeArrays, readerVars, HeapTypeOK,
      ReaderTypeOK, CallerTypeOK, EBR!EbrTypeOK
<1>5. OldInv'
  BY <1>1, <1>2 DEF IInv, TypeOK, MaintenancePoll, FreeArrays, CallerTypeOK, MutexInv, OldInv,
      Critical, Retiring
<1>6. HeapInv'
  BY <1>1, <1>2 DEF IInv, MaintenancePoll, FreeArrays, HeapInv
<1>7. ListInv'
  BY <1>1 DEF IInv, TypeOK, FreeArrays, HeapTypeOK, ListInv
<1>8. ReaderInv'
  <2>1. SUFFICES ASSUME NEW t \in Readers, rpc[t] = "run"
                 PROVE  rptr[t] \in alloc' /\ mem'[rptr[t]] = mem[rptr[t]]
    BY DEF IInv, MaintenancePoll, readerVars, ReaderInv
  <2>2. rptr[t] \in alloc
    BY <2>1 DEF IInv, ReaderInv
  <2>3. rptr[t] # a
    BY <1>1, <1>2, <2>1 DEF IInv, EBR!GraceElapsed, GraceInv
  <2> QED BY <1>1, <2>2, <2>3 DEF IInv, TypeOK, FreeArrays, HeapTypeOK
<1>9. GraceInv'
  BY DEF IInv, MaintenancePoll, readerVars, GraceInv
<1> QED
  BY <1>3, <1>4, <1>5, <1>6, <1>7, <1>8, <1>9 DEF IInv

\* Publishing a well-formed list at a fresh address, as both functions do.
LEMMA PublishStep ==
  ASSUME IInv, NEW w \in Callers, NEW a \in Arrays, NEW s \in Seq(Entry), Publish(a, s),
         Len(s) > 0, Ordered(s), IsCtrl => Len(s) = 1,
         \/ cpc[w] = "registerScan" /\ cpc' = [cpc EXCEPT ![w] = "registered"]
         \/ cpc[w] = "removeScan" /\ old[w] # NULL /\ cpc' = [cpc EXCEPT ![w] = "removed"],
         UNCHANGED <<jit, readerVars, hookMutex, op, old, deferred, section, waitFor>>
  PROVE  IInv'
<1>1. a \notin alloc /\ alloc' = alloc \cup {a} /\ mem' = [mem EXCEPT ![a] = s] /\ codelets' = a
  BY DEF Publish
<1>2. a # NULL
  BY NullIsNoObject
<1>3. TypeOK'
  BY <1>1 DEF IInv, TypeOK, readerVars, HeapTypeOK, ReaderTypeOK, CallerTypeOK, EBR!EbrTypeOK
<1>4. MutexInv'
  BY DEF IInv, TypeOK, CallerTypeOK, MutexInv, Critical
<1>5. OpInv'
  BY DEF IInv, TypeOK, CallerTypeOK, OpInv, InRegister
<1>6. OldInv'
  <2>1. \A v \in Callers : old[v] # a
    BY <1>1, <1>2 DEF IInv, TypeOK, CallerTypeOK, OldInv, MutexInv, HeapInv, Critical, Retiring
  <2> QED
    BY <1>1, <1>2, <2>1 DEF IInv, TypeOK, CallerTypeOK, OldInv, MutexInv, HeapInv, Critical, Retiring
<1>7. HeapInv'
  BY <1>1 DEF IInv, TypeOK, HeapTypeOK, CallerTypeOK, HeapInv, OldInv, MutexInv, Critical
<1>8. ListInv'
  BY <1>1 DEF IInv, TypeOK, HeapTypeOK, ListInv
<1>9. ReaderInv'
  BY <1>1 DEF IInv, TypeOK, HeapTypeOK, ReaderTypeOK, readerVars, ReaderInv
<1>10. GraceInv'
  BY DEF IInv, TypeOK, CallerTypeOK, readerVars, GraceInv
<1> QED
  BY <1>3, <1>4, <1>5, <1>6, <1>7, <1>8, <1>9, <1>10 DEF IInv

=============================================================================
