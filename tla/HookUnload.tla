---------------------------- MODULE HookUnload ----------------------------
(***************************************************************************)
(* As long as no allocation fails, no invocation of a hook executes a      *)
(* codelet whose code has been unmapped.  CodeInv says where the code of a *)
(* codelet must still be mapped; it is inductive relative to IInv.         *)
(***************************************************************************)
EXTENDS HookTheorems

\* While a caller holds hook_mutex and has not published, the list it found is
\* the only one allocated (jbpf_hook.c:49, 128).
LEMMA OnlyList ==
  ASSUME IInv, NEW w \in Callers, cpc[w] \in {"registerScan", "removeScan"}, NEW a \in alloc
  PROVE  a = old[w] /\ OldList(w) = mem[a]
<1>1. hookMutex = w /\ old[w] = codelets
  BY DEF IInv, MutexInv, OldInv, Critical
<1>2. a = old[w]
  BY <1>1 DEF IInv, HeapInv
<1>3. a # NULL
  BY NullIsNoObject DEF IInv, TypeOK, HeapTypeOK
<1> QED BY <1>2, <1>3 DEF OldList

\* The steps of hook invocations, and those that only take or pass on a lock or
\* start to wait (jbpf_hook.h:97-140, jbpf_hook.c:42-49, 102-105, 171-172).
LEMMA QuietCode ==
  ASSUME IInv, CodeInv, UNCHANGED <<codelets, mem, alloc, jit, op>>,
         \/ UNCHANGED cpc
         \/ \E w \in Callers, pc \in {"registerScan", "removeScan", "defer", "barrier", "barrierWait"} :
              /\ cpc' = [cpc EXCEPT ![w] = pc]
              /\ pc = "registerScan" => cpc[w] = "register"
         \/ \E w \in Callers, pc \in {"sync", "syncWait"} :
              cpc' = [cpc EXCEPT ![w] = pc] /\ cpc[w] \in {"removed", "sync"}
  PROVE  CodeInv'
BY DEF CodeInv, IInv, TypeOK, CallerTypeOK, Codes

\* Creating the code of a codelet, which no list can hold yet (jbpf.c:915-993).
LEMMA LoadCode ==
  ASSUME IInv, CodeInv, NEW w \in Callers, NEW c \in Codelets, NEW p \in Prios, LoadCodelet(w, c, p)
  PROVE  CodeInv'
<1>1. \A a \in alloc : c \notin Codes(mem[a])
  BY DEF CodeInv, LoadCodelet
<1> QED
  BY <1>1, NullIsNoOp DEF CodeInv, IInv, TypeOK, CallerTypeOK, LoadCodelet, heapVars, Codes

\* A call that registers a codelet that exists (jbpf_hook.h:87-91).
LEMMA StartRegisterCode ==
  ASSUME IInv, CodeInv, NEW w \in Callers, NEW c \in Codelets, NEW p \in Prios,
         RegisterCodelet(w, c, p)
  PROVE  CodeInv'
BY DEF CodeInv, IInv, TypeOK, CallerTypeOK, RegisterCodelet, heapVars, Codes

\* A call that removes or unloads a codelet (jbpf_hook.h:92-95, jbpf.c:1041-1065).
LEMMA StartRemoveCode ==
  ASSUME IInv, CodeInv, NEW w \in Callers, NEW c \in Codelets, NEW k \in {"unload", "remove"},
         RemoveCodelet(w, c, k)
  PROVE  CodeInv'
BY DEF CodeInv, IInv, TypeOK, CallerTypeOK, RemoveCodelet, heapVars, Codes

\* Unmapping a codelet that no list holds (jbpf.c:995-1007).
LEMMA DestroyCode ==
  ASSUME IInv, CodeInv, NEW w \in Callers, DestroyCodelet(w)
  PROVE  CodeInv'
<1>1. op[w] # NULL /\ \A a \in alloc : op[w].fn \notin Codes(mem[a])
  BY DEF IInv, OpInv, CodeInv, DestroyCodelet
<1>2. \A v \in Callers : v # w /\ op[v] # NULL => op[v].fn # op[w].fn
  BY <1>1 DEF IInv, OpInv
<1> QED
  BY <1>1, <1>2 DEF CodeInv, IInv, TypeOK, CallerTypeOK, DestroyCodelet, heapVars, Codes

\* Giving the lock back without a change, or having freed arrays: what goes on
\* to destroy its codelet knows that no list that is left holds it
\* (jbpf_hook.c:60-81, 103-110, 137-146, 173-178).
LEMMA ReturnCode ==
  ASSUME IInv, CodeInv, NEW w \in Callers, NEW pc \in {"idle", "destroy"}, Return(w, pc),
         op[w] # NULL, cpc[w] # "idle",
         UNCHANGED <<codelets, jit>>, alloc' \subseteq alloc, \A a \in alloc' : mem'[a] = mem[a],
         pc = "destroy" => \A a \in alloc' : op[w].fn \notin Codes(mem[a]),
         codelets # NULL => codelets \in alloc'
  PROVE  CodeInv'
<1>1. \A v \in Callers : (v # w => op'[v] = op[v] /\ cpc'[v] = cpc[v])
  BY DEF Return, IInv, TypeOK, CallerTypeOK
<1>2. cpc'[w] = pc /\ op'[w] = (IF pc = "idle" THEN NULL ELSE op[w])
  BY DEF Return, IInv, TypeOK, CallerTypeOK
<1>4. \A a \in alloc' : Codes(mem'[a]) = Codes(mem[a])
  BY DEF Codes
<1>5. (\A a \in alloc : Codes(mem[a]) \subseteq jit)'
  BY <1>4 DEF CodeInv
<1>6. (\A v \in Callers : op[v] # NULL => op[v].fn \in jit)'
  BY <1>1, <1>2 DEF CodeInv
<1>7. (\A v \in Callers :
         cpc[v] = "destroy" \/ (cpc[v] \in {"register", "registerScan"} /\ op[v].kind = "load")
           => \A a \in alloc : op[v].fn \notin Codes(mem[a]))'
  BY <1>1, <1>2, <1>4 DEF CodeInv
<1>8. (\A v \in Callers :
         cpc[v] \in {"removed", "sync", "syncWait"} /\ codelets # NULL
           => op[v].fn \notin Codes(mem[codelets]))'
  BY <1>1, <1>2, <1>4 DEF CodeInv
<1> QED BY <1>5, <1>6, <1>7, <1>8 DEF CodeInv

\* Publishing a list of mapped codelets at a fresh address (jbpf_hook.c:101, 169).
LEMMA PublishCode ==
  ASSUME IInv, CodeInv, NEW w \in Callers, NEW a \in Arrays, NEW s \in Seq(Entry), Publish(a, s),
         cpc[w] \in {"registerScan", "removeScan"}, UNCHANGED <<jit, op>>,
         NEW pc \in {"registered", "removed"}, cpc' = [cpc EXCEPT ![w] = pc],
         Codes(s) \subseteq Codes(OldList(w)) \cup {op[w].fn},
         Codes(OldList(w)) \subseteq jit, pc = "removed" => op[w].fn \notin Codes(s),
         pc = "removed" => cpc[w] = "removeScan"
  PROVE  CodeInv'
<1>1. /\ a \notin alloc /\ alloc' = alloc \cup {a} /\ codelets' = a
      /\ mem'[a] = s /\ \A b \in alloc : mem'[b] = mem[b]
  BY DEF Publish, IInv, TypeOK, HeapTypeOK
<1>2. Codes(mem'[a]) = Codes(s) /\ \A b \in alloc : Codes(mem'[b]) = Codes(mem[b])
  BY <1>1 DEF Codes
<1>3. op[w] # NULL /\ op[w].fn \in jit
  BY DEF IInv, OpInv, CodeInv
<1>4. cpc'[w] = pc /\ \A v \in Callers : v # w => cpc'[v] = cpc[v]
  BY DEF IInv, TypeOK, CallerTypeOK
<1>5. ASSUME NEW v \in Callers, v # w
      PROVE  cpc[v] \notin {"removed", "sync", "syncWait"}
  BY <1>5 DEF IInv, MutexInv, Critical
<1>6. ASSUME NEW v \in Callers, v # w,
             cpc[v] = "destroy" \/ (cpc[v] \in {"register", "registerScan"} /\ op[v].kind = "load")
      PROVE  op[v].fn \notin Codes(s)
  <2>1. op[v] # NULL
    BY <1>6 DEF IInv, OpInv
  <2>2. op[v].fn # op[w].fn
    BY <1>3, <1>6, <2>1 DEF IInv, OpInv
  <2>3. \A b \in alloc : op[v].fn \notin Codes(mem[b])
    BY <1>6 DEF CodeInv
  <2>4. op[v].fn \notin Codes(OldList(w))
    <3>1. CASE old[w] = NULL
      BY <3>1 DEF OldList, Codes
    <3>2. CASE old[w] # NULL
      <4>1. old[w] \in alloc
        BY <3>2 DEF IInv, OldInv, HeapInv
      <4> QED BY <3>2, <4>1, <2>3 DEF OldList
    <3> QED BY <3>1, <3>2
  <2> QED BY <2>2, <2>4
<1>7. (\A b \in alloc : Codes(mem[b]) \subseteq jit)'
  BY <1>1, <1>2, <1>3 DEF CodeInv
<1>8. (\A v \in Callers : op[v] # NULL => op[v].fn \in jit)'
  BY DEF CodeInv
<1>9. (\A v \in Callers :
         cpc[v] = "destroy" \/ (cpc[v] \in {"register", "registerScan"} /\ op[v].kind = "load")
           => \A b \in alloc : op[v].fn \notin Codes(mem[b]))'
  BY <1>1, <1>2, <1>4, <1>6 DEF CodeInv
<1>10. (\A v \in Callers :
         cpc[v] \in {"removed", "sync", "syncWait"} /\ codelets # NULL
           => op[v].fn \notin Codes(mem[codelets]))'
  BY <1>1, <1>2, <1>4, <1>5
<1> QED BY <1>7, <1>8, <1>9, <1>10 DEF CodeInv

\* The code of every codelet on the list a caller found is mapped.
LEMMA OldListMapped ==
  ASSUME IInv, CodeInv, NEW w \in Callers, cpc[w] \in {"registerScan", "removeScan"}
  PROVE  Codes(OldList(w)) \subseteq jit
<1>1. CASE old[w] = NULL
  BY <1>1 DEF OldList, Codes
<1>2. CASE old[w] # NULL
  <2>1. old[w] \in alloc
    BY <1>2 DEF IInv, OldInv, HeapInv
  <2> QED BY <1>2, <2>1 DEF OldList, CodeInv
<1> QED BY <1>1, <1>2

\* Registering (jbpf_hook.c:83-101) adds the caller's own codelet only.
LEMMA RegisterPublishCode ==
  ASSUME IInv, CodeInv, NEW w \in Callers, RegisterPublish(w)
  PROVE  CodeInv'
<1> DEFINE s == OldList(w)
           e == [jbpf_codelet |-> op[w].fn, prio |-> op[w].prio]
<1>1. PICK a \in Arrays, pos \in InsertPos(s, op[w].prio) : Publish(a, Insert(s, pos, e))
  BY DEF RegisterPublish
<1>2. cpc[w] = "registerScan"
  BY DEF RegisterPublish
<1>3. e \in Entry /\ e.jbpf_codelet = op[w].fn
  BY <1>2 DEF IInv, OpInv, InRegister, Entry
<1>4. s \in Seq(Entry)
  BY <1>2, OldListFacts
<1>5. pos \in 1..Len(s) + 1
  BY <1>1 DEF InsertPos
<1> DEFINE r == Insert(s, pos, e)
<1>6. r \in Seq(Entry) /\ Codes(r) \subseteq Codes(s) \cup {op[w].fn}
  BY <1>3, <1>4, <1>5, InsertType
<1>7. cpc' = [cpc EXCEPT ![w] = "registered"] /\ UNCHANGED <<jit, op>>
  BY DEF RegisterPublish
<1>8. Codes(s) \subseteq jit
  BY <1>2, OldListMapped
<1> HIDE DEF r, e, s
<1> QED
  BY <1>1, <1>2, <1>6, <1>7, <1>8, PublishCode DEF r, s

\* Removing (jbpf_hook.c:161-169) leaves the codelet out of the new list.
LEMMA RemovePublishCode ==
  ASSUME IInv, CodeInv, NEW w \in Callers, RemovePublish(w)
  PROVE  CodeInv'
<1> DEFINE s == OldList(w)
           K == Kept(s, op[w].fn)
<1>1. PICK a \in Arrays, r \in Copies(s, K) : Publish(a, r)
  BY DEF RemovePublish
<1>2. cpc[w] = "removeScan" /\ K # {}
  BY DEF RemovePublish
<1>3. s \in Seq(Entry) /\ Ordered(s)
  BY <1>2, OldListFacts
<1>4. r \in Seq(Entry) /\ Codes(r) \subseteq Codes(s) \ {op[w].fn}
  BY <1>1, <1>2, <1>3, CopyProperties
<1>5. cpc' = [cpc EXCEPT ![w] = "removed"] /\ UNCHANGED <<jit, op>>
  BY DEF RemovePublish
<1>6. Codes(s) \subseteq jit
  BY <1>2, OldListMapped
<1> QED
  BY <1>1, <1>2, <1>4, <1>5, <1>6, PublishCode

\* Disabling the hook publishes no list at all (jbpf_hook.c:148-151).
LEMMA RemoveLastCode ==
  ASSUME IInv, CodeInv, NEW w \in Callers, RemoveLast(w)
  PROVE  CodeInv'
BY DEF CodeInv, IInv, TypeOK, CallerTypeOK, RemoveLast, Codes

\* A refused register: a load that goes on to destroy its codelet has it on no
\* list (jbpf_hook.c:60-81, jbpf.c:1446-1475).
LEMMA RegisterRejectCode ==
  ASSUME IInv, CodeInv, NEW w \in Callers, RegisterReject(w)
  PROVE  CodeInv'
<1>1. cpc[w] = "registerScan" /\ Return(w, AfterFailedRegister(w))
  BY DEF RegisterReject
<1>2. UNCHANGED <<codelets, mem, alloc, jit>>
  BY DEF RegisterReject, heapVars
<1>3. op[w] # NULL
  BY <1>1 DEF IInv, OpInv
<1>4. AfterFailedRegister(w) \in {"idle", "destroy"}
  BY DEF AfterFailedRegister
<1>5. AfterFailedRegister(w) = "destroy" => \A a \in alloc : op[w].fn \notin Codes(mem[a])
  BY <1>1 DEF AfterFailedRegister, CodeInv
<1>6. codelets # NULL => codelets \in alloc
  BY DEF IInv, HeapInv
<1> QED
  BY <1>1, <1>2, <1>3, <1>4, <1>5, <1>6, ReturnCode

\* A remove that finds nothing: the codelet is on no list (jbpf_hook.c:137-146).
LEMMA RemoveRejectCode ==
  ASSUME IInv, CodeInv, NEW w \in Callers, RemoveReject(w)
  PROVE  CodeInv'
<1>1. cpc[w] = "removeScan" /\ Return(w, AfterRemove(w)) /\ op[w].fn \notin Codes(OldList(w))
  BY DEF RemoveReject
<1>2. UNCHANGED <<codelets, mem, alloc, jit>>
  BY DEF RemoveReject, heapVars
<1>3. op[w] # NULL
  BY <1>1 DEF IInv, OpInv
<1>4. AfterRemove(w) \in {"idle", "destroy"}
  BY DEF AfterRemove
<1>5. \A a \in alloc : op[w].fn \notin Codes(mem[a])
  BY <1>1, OnlyList
<1>6. codelets # NULL => codelets \in alloc
  BY DEF IInv, HeapInv
<1> QED
  BY <1>1, <1>2, <1>3, <1>4, <1>5, <1>6, ReturnCode

\* After the grace period of a remove only the new list is left, and it does not
\* hold the codelet (jbpf_hook.c:171-178).
LEMMA RemoveReturnCode ==
  ASSUME IInv, CodeInv, NEW w \in Callers, RemoveReturn(w)
  PROVE  CodeInv'
<1>1. /\ cpc[w] = "syncWait" /\ Return(w, AfterRemove(w))
      /\ alloc' = alloc \ {old[w]} /\ UNCHANGED <<codelets, jit>>
  BY DEF RemoveReturn, FreeArrays
<1>2. \A a \in alloc' : mem'[a] = mem[a]
  BY <1>1 DEF RemoveReturn, FreeArrays, IInv, TypeOK, HeapTypeOK
<1>3. op[w] # NULL
  BY <1>1 DEF IInv, OpInv
<1>4. AfterRemove(w) \in {"idle", "destroy"}
  BY DEF AfterRemove
<1>5. hookMutex = w /\ old[w] # codelets
  BY <1>1 DEF IInv, MutexInv, OldInv, Critical, Retiring
<1>6. codelets # NULL => codelets \in alloc'
  BY <1>1, <1>5 DEF IInv, HeapInv
<1>7. ASSUME NEW a \in alloc'
      PROVE  op[w].fn \notin Codes(mem[a])
  <2>1. a \in alloc /\ a # NULL
    BY <1>1, NullIsNoObject DEF IInv, TypeOK, HeapTypeOK
  <2>2. a = codelets
    BY <1>1, <1>5, <2>1 DEF IInv, HeapInv
  <2> QED BY <1>1, <2>1, <2>2 DEF CodeInv
<1> QED
  BY <1>1, <1>2, <1>3, <1>4, <1>6, <1>7, ReturnCode

\* The end of a register, which frees at most the old list (jbpf_hook.c:102-110).
LEMMA RegisterReturnCode ==
  ASSUME IInv, CodeInv, NEW w \in Callers, RegisterReturn(w)
  PROVE  CodeInv'
<1>1. /\ cpc[w] = "barrierWait" /\ Return(w, "idle")
      /\ alloc' = alloc \ deferred[w] /\ UNCHANGED <<codelets, jit>>
  BY DEF RegisterReturn, FreeArrays
<1>2. \A a \in alloc' : mem'[a] = mem[a]
  BY <1>1 DEF RegisterReturn, FreeArrays, IInv, TypeOK, HeapTypeOK
<1>3. op[w] # NULL
  BY <1>1 DEF IInv, OpInv
<1>4. codelets \notin deferred[w]
  BY <1>1 DEF IInv, OldInv, Retiring
<1>5. codelets # NULL => codelets \in alloc'
  BY <1>1, <1>4 DEF IInv, HeapInv
<1> QED
  BY <1>1, <1>2, <1>3, <1>5, ReturnCode

\* A poll that frees a deferred array (jbpf.c:1651-1685).
LEMMA MaintenancePollCode ==
  ASSUME IInv, CodeInv, NEW w \in Callers, MaintenancePoll(w)
  PROVE  CodeInv'
<1>1. PICK a \in deferred[w] : FreeArrays({a})
  BY DEF MaintenancePoll
<1>2. UNCHANGED <<codelets, jit, cpc, op>> /\ alloc' = alloc \ {a}
  BY <1>1 DEF MaintenancePoll, FreeArrays
<1>3. \A b \in alloc' : b \in alloc /\ Codes(mem'[b]) = Codes(mem[b])
  BY <1>1, <1>2 DEF FreeArrays, IInv, TypeOK, HeapTypeOK, Codes
<1>4. a # codelets
  BY DEF IInv, OldInv, Retiring
<1>5. codelets # NULL => codelets \in alloc'
  BY <1>2, <1>4 DEF IInv, HeapInv
<1> QED
  BY <1>2, <1>3, <1>5 DEF CodeInv

\* Registering the first codelet returns at once (jbpf_hook.c:102-110).
LEMMA RegisterEpochEndCode ==
  ASSUME IInv, CodeInv, NEW w \in Callers, RegisterEpochEnd(w)
  PROVE  CodeInv'
<1>1. cpc[w] = "registered" /\ UNCHANGED <<codelets, mem, alloc, jit>>
  BY DEF RegisterEpochEnd, heapVars
<1>2. CASE old[w] = NULL
  <2>1. Return(w, "idle")
    BY <1>2 DEF RegisterEpochEnd
  <2>2. op[w] # NULL /\ (codelets # NULL => codelets \in alloc)
    BY <1>1 DEF IInv, OpInv, HeapInv
  <2> QED BY <1>1, <2>1, <2>2, ReturnCode
<1>3. CASE old[w] # NULL
  <2>1. cpc' = [cpc EXCEPT ![w] = "defer"] /\ UNCHANGED op
    BY <1>3 DEF RegisterEpochEnd
  <2> QED BY <1>1, <2>1, QuietCode
<1> QED BY <1>2, <1>3

-----------------------------------------------------------------------------
\* A hook invocation changes neither the lists nor the callers
\* (jbpf_hook.h:97-140).
LEMMA HookStepCode ==
  ASSUME IInv, CodeInv, NEW t \in Readers, HookStep(t)
  PROVE  CodeInv'
<1>1. UNCHANGED <<codelets, mem, alloc, jit, op, cpc>>
  BY DEF HookStep, HookCall, HookEpochBegin, HookReload, HookRunCodelet, HookEpochEnd,
      heapVars, callerVars
<1> QED BY <1>1, QuietCode

\* The waiting steps of register and remove (jbpf_hook.c:42-49, 104-105, 171-172).
LEMMA WaitingCode ==
  ASSUME IInv, CodeInv, NEW w \in Callers,
         \/ RegisterEnter(w) \/ RemoveEnter(w) \/ RegisterDefer(w) \/ RegisterBarrier(w)
         \/ RemoveEpochEnd(w) \/ RemoveSync(w)
  PROVE  CodeInv'
<1>1. UNCHANGED <<codelets, mem, alloc, jit, op>>
  BY DEF RegisterEnter, RemoveEnter, Enter, RegisterDefer, RegisterBarrier, RemoveEpochEnd,
      RemoveSync, heapVars
<1>2. \/ cpc' = [cpc EXCEPT ![w] = "registerScan"] /\ cpc[w] = "register"
      \/ \E pc \in {"removeScan", "barrier", "barrierWait"} : cpc' = [cpc EXCEPT ![w] = pc]
      \/ \E pc \in {"sync", "syncWait"} :
           cpc' = [cpc EXCEPT ![w] = pc] /\ cpc[w] \in {"removed", "sync"}
  BY DEF RegisterEnter, RemoveEnter, Enter, RegisterDefer, RegisterBarrier, RemoveEpochEnd,
      RemoveSync
<1> QED BY <1>1, <1>2, QuietCode

\* Every step preserves CodeInv, if no allocation fails: a remove that runs out
\* of memory (jbpf_hook.c:156-159) would not.
LEMMA NextCode ==
  ASSUME ~CallocMayFail, IInv, CodeInv, [Next]_vars
  PROVE  CodeInv'
<1>1. ASSUME NEW t \in Readers, HookStep(t) PROVE CodeInv'
  BY <1>1, HookStepCode
<1>2. ASSUME NEW w \in Callers, CallerStart(w) PROVE CodeInv'
  <2>1. ASSUME NEW c \in Codelets, NEW p \in Prios, LoadCodelet(w, c, p) PROVE CodeInv'
    BY <2>1, LoadCode
  <2>2. ASSUME NEW c \in Codelets, NEW p \in Prios, RegisterCodelet(w, c, p) PROVE CodeInv'
    BY <2>2, StartRegisterCode
  <2>3. ASSUME NEW c \in Codelets, NEW k \in {"unload", "remove"}, RemoveCodelet(w, c, k)
        PROVE  CodeInv'
    BY <2>3, StartRemoveCode
  <2> QED BY <1>2, <2>1, <2>2, <2>3 DEF CallerStart
<1>3. ASSUME NEW w \in Callers, CallerStep(w) PROVE CodeInv'
  <2>1. ~RemoveCallocFails(w)
    BY DEF RemoveCallocFails
  <2> QED
    BY <1>3, <2>1, WaitingCode, RegisterRejectCode, RegisterPublishCode, RegisterEpochEndCode,
        RegisterReturnCode, RemoveRejectCode, RemoveLastCode, RemovePublishCode,
        RemoveReturnCode, DestroyCode DEF CallerStep
<1>4. CASE UNCHANGED vars
  <2>1. UNCHANGED <<codelets, mem, alloc, jit, op, cpc>>
    BY <1>4 DEF vars
  <2> QED BY <2>1, QuietCode
<1> QED
  BY <1>1, <1>2, <1>3, <1>4, MaintenancePollCode DEF Next

\* If no allocation fails, an unload never pulls the code of a codelet from under
\* a hook invocation that is executing it (jbpf.c:1581-1588, jbpf_hook.c:171-173).
THEOREM NoDestroyedCodeletRunsHolds ==
  ASSUME ~CallocMayFail
  PROVE  Spec => []NoDestroyedCodeletRuns
<1>1. Init => CodeInv
  BY DEF Init, CodeInv
<1>2. IInv /\ CodeInv /\ [Next]_vars => CodeInv'
  BY NextCode
<1>3. IInv /\ CodeInv => NoDestroyedCodeletRuns
  <2> SUFFICES ASSUME IInv, CodeInv, NEW t \in Readers, rpc[t] = "run"
               PROVE  mem[rptr[t]][ridx[t]].jbpf_codelet \in jit
    BY DEF NoDestroyedCodeletRuns
  <2>1. rptr[t] \in alloc /\ ridx[t] \in 1..Len(mem[rptr[t]]) /\ mem[rptr[t]] \in Seq(Entry)
    BY DEF IInv, TypeOK, HeapTypeOK, ReaderInv
  <2>2. ridx[t] \in DOMAIN mem[rptr[t]]
    BY <2>1, LenProperties
  <2> QED BY <2>1, <2>2 DEF CodeInv, Codes
<1> QED BY <1>1, <1>2, <1>3, InvariantHolds, PTL DEF Spec
=============================================================================
