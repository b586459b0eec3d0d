--------------------------- MODULE HookTheorems ---------------------------
(***************************************************************************)
(* What JbpfHook guarantees for any number of threads, codelets and        *)
(* addresses.                                                              *)
(***************************************************************************)
EXTENDS HookProofs, SequenceTheorems, FiniteSetTheorems

-----------------------------------------------------------------------------
(* The lists that register and remove build.                               *)

\* A function on an initial segment of the naturals is a sequence.
LEMMA FcnIsSeq ==
  ASSUME NEW S, NEW n \in Nat, NEW f \in [1..n -> S]
  PROVE  f \in Seq(S) /\ Len(f) = n /\ DOMAIN f = 1..n
BY IsASeq, LenProperties

\* Inserting an entry at a valid position (jbpf_hook.c:83-99) gives a list that
\* is one longer and holds the new codelet and the old ones.
LEMMA InsertType ==
  ASSUME NEW s \in Seq(Entry), NEW e \in Entry, NEW pos \in 1..Len(s) + 1
  PROVE  /\ Insert(s, pos, e) \in Seq(Entry)
         /\ Len(Insert(s, pos, e)) = Len(s) + 1
         /\ Codes(Insert(s, pos, e)) \subseteq Codes(s) \cup {e.jbpf_codelet}
<1> DEFINE r == Insert(s, pos, e)
<1>1. Len(s) \in Nat /\ s \in [1..Len(s) -> Entry]
  BY LenProperties, ElementOfSeq
<1>2. r \in [1..Len(s) + 1 -> Entry]
  BY <1>1 DEF Insert
<1>3. Len(s) + 1 \in Nat
  BY <1>1
<1>4. r \in Seq(Entry) /\ Len(r) = Len(s) + 1 /\ DOMAIN r = 1..Len(s) + 1
  BY <1>2, <1>3, FcnIsSeq
<1>5. \A i \in DOMAIN r : r[i] = e \/ \E j \in DOMAIN s : r[i] = s[j]
  BY <1>1, <1>4 DEF Insert
<1> QED
  BY <1>4, <1>5 DEF Codes

\* Inserting a new codelet where the scan says keeps the list ordered.
LEMMA InsertOrdered ==
  ASSUME NEW s \in Seq(Entry), NEW e \in Entry, NEW pos \in InsertPos(s, e.prio),
         Ordered(s), e.jbpf_codelet \notin Codes(s)
  PROVE  Ordered(Insert(s, pos, e))
<1> DEFINE r == Insert(s, pos, e)
<1>1. Len(s) \in Nat /\ s \in [1..Len(s) -> Entry] /\ DOMAIN s = 1..Len(s)
  BY LenProperties, ElementOfSeq
<1>2. \A i \in 1..Len(s) : s[i].prio \in Nat /\ s[i].jbpf_codelet # e.jbpf_codelet
  BY <1>1, PriosAreIntegers DEF Entry, Codes
<1>3. e.prio \in Nat
  BY PriosAreIntegers DEF Entry
<1>4. /\ pos \in 1..Len(s) + 1
      /\ \A j \in 1..pos - 1 : s[j].prio >= e.prio
      /\ pos <= Len(s) => s[pos].prio < e.prio
  BY DEF InsertPos
<1>5. ASSUME NEW j \in pos..Len(s)
      PROVE  s[j].prio < e.prio
  <2>1. pos \in 1..Len(s) /\ j \in 1..Len(s) /\ s[pos].prio < e.prio
    BY <1>1, <1>4
  <2>2. CASE j = pos
    BY <2>1, <2>2
  <2>3. CASE pos < j
    <3>1. s[pos].prio >= s[j].prio
      BY <1>1, <2>1, <2>3 DEF Ordered
    <3> QED BY <3>1, <2>1, <1>2, <1>3
  <2> QED BY <1>1, <1>4, <2>2, <2>3
<1>6. SUFFICES ASSUME NEW i \in 1..Len(s) + 1, NEW j \in 1..Len(s) + 1, i < j
               PROVE  r[i].jbpf_codelet # r[j].jbpf_codelet /\ r[i].prio >= r[j].prio
  BY DEF Ordered, Insert
<1>7. CASE i = pos
  <2>1. r[i] = e /\ r[j] = s[j - 1] /\ j - 1 \in pos..Len(s)
    BY <1>1, <1>4, <1>6, <1>7 DEF Insert
  <2> QED BY <2>1, <1>1, <1>2, <1>3, <1>4, <1>5
<1>8. CASE j = pos
  <2>1. r[j] = e /\ r[i] = s[i] /\ i \in 1..pos - 1
    BY <1>1, <1>4, <1>6, <1>8 DEF Insert
  <2> QED BY <2>1, <1>1, <1>2, <1>3, <1>4
<1>9. CASE i # pos /\ j # pos
  <2>1. PICK k \in 1..Len(s), l \in 1..Len(s) : k < l /\ r[i] = s[k] /\ r[j] = s[l]
    BY <1>1, <1>4, <1>6, <1>9 DEF Insert
  <2> QED BY <2>1, <1>1 DEF Ordered
<1> QED
  BY <1>7, <1>8, <1>9

\* The copying loop of jbpf_remove_codelet_hook (jbpf_hook.c:161-168) keeps the
\* order, and copies only entries of other codelets.
LEMMA CopyProperties ==
  ASSUME NEW s \in Seq(Entry), NEW c, Kept(s, c) # {}, Ordered(s),
         NEW r \in Copies(s, Kept(s, c))
  PROVE  /\ r \in Seq(Entry)
         /\ Len(r) > 0
         /\ Len(r) <= Len(s)
         /\ Ordered(r)
         /\ Codes(r) \subseteq Codes(s) \ {c}
<1> DEFINE K == Kept(s, c)
           n == Cardinality(K)
<1>1. Len(s) \in Nat /\ s \in [1..Len(s) -> Entry] /\ DOMAIN s = 1..Len(s)
  BY LenProperties, ElementOfSeq
<1>2. K \subseteq 1..Len(s) /\ K # {}
  BY <1>1 DEF Kept
<1>3. IsFiniteSet(1..Len(s)) /\ Cardinality(1..Len(s)) = Len(s)
  BY <1>1, FS_Interval
<1>4. IsFiniteSet(K) /\ n \in Nat /\ n > 0 /\ n <= Len(s)
  <2>1. IsFiniteSet(K) /\ n <= Len(s)
    BY <1>2, <1>3, FS_Subset
  <2> QED BY <2>1, <1>2, FS_CardinalityType, FS_EmptySet
<1>5. PICK g \in [1..n -> K] : /\ r = [i \in DOMAIN g |-> s[g[i]]]
                               /\ \A i, j \in DOMAIN g : i < j => g[i] < g[j]
  BY DEF Copies
<1>6. r \in [1..n -> Entry]
  BY <1>1, <1>2, <1>5
<1>7. r \in Seq(Entry) /\ Len(r) = n /\ DOMAIN r = 1..n
  BY <1>4, <1>6, FcnIsSeq
<1>8. Ordered(r)
  <2>1. SUFFICES ASSUME NEW i \in 1..n, NEW j \in 1..n, i < j
                 PROVE  r[i].jbpf_codelet # r[j].jbpf_codelet /\ r[i].prio >= r[j].prio
    BY <1>7 DEF Ordered
  <2>2. g[i] \in 1..Len(s) /\ g[j] \in 1..Len(s) /\ g[i] < g[j]
    BY <1>2, <1>5, <2>1
  <2> QED BY <1>1, <1>5, <2>1, <2>2 DEF Ordered
<1>9. Codes(r) \subseteq Codes(s) \ {c}
  <2>1. \A i \in 1..n : g[i] \in 1..Len(s) /\ s[g[i]].jbpf_codelet # c /\ r[i] = s[g[i]]
    BY <1>2, <1>5 DEF Kept
  <2> QED BY <1>1, <1>7, <2>1 DEF Codes
<1> QED
  BY <1>4, <1>7, <1>8, <1>9

-----------------------------------------------------------------------------
(* The two steps that publish a list.                                      *)

\* What a caller that is about to publish knows of the list it found.
LEMMA OldListFacts ==
  ASSUME IInv, NEW w \in Callers, cpc[w] \in {"registerScan", "removeScan"}
  PROVE  /\ OldList(w) \in Seq(Entry)
         /\ Ordered(OldList(w))
         /\ old[w] = NULL => OldList(w) = <<>>
         /\ IsCtrl => Len(OldList(w)) <= 1
<1>1. CASE old[w] = NULL
  <2>1. OldList(w) = <<>>
    BY <1>1 DEF OldList
  <2>2. <<>> \in Seq(Entry) /\ Len(<<>>) = 0 /\ Ordered(<<>>)
    BY EmptySeq DEF Ordered
  <2> QED BY <2>1, <2>2
<1>2. CASE old[w] # NULL
  <2>1. old[w] \in alloc /\ old[w] \in Arrays
    BY <1>2 DEF IInv, TypeOK, CallerTypeOK, OldInv, HeapInv
  <2>2. OldList(w) = mem[old[w]] /\ mem[old[w]] \in Seq(Entry)
    BY <1>2, <2>1 DEF IInv, TypeOK, HeapTypeOK, OldList
  <2>3. Ordered(mem[old[w]]) /\ (IsCtrl => Len(mem[old[w]]) = 1)
    <3>1. ListInv
      BY DEF IInv
    <3> QED BY <2>1, <3>1, Zenon DEF ListInv
  <2>4. \A n : n = 1 => n <= 1
    OBVIOUS
  <2> QED BY <1>2, <2>2, <2>3, <2>4, Zenon
<1> QED BY <1>1, <1>2

\* Publishing the list with the new codelet (jbpf_hook.c:83-101) preserves IInv.
LEMMA RegisterPublishStep ==
  ASSUME IInv, NEW w \in Callers, RegisterPublish(w)
  PROVE  IInv'
<1> DEFINE s == OldList(w)
           e == [jbpf_codelet |-> op[w].fn, prio |-> op[w].prio]
<1>1. PICK a \in Arrays, pos \in InsertPos(s, op[w].prio) : Publish(a, Insert(s, pos, e))
  BY DEF RegisterPublish
<1>2. cpc[w] = "registerScan" /\ ~RegisterRefused(w)
  BY DEF RegisterPublish
<1>3. e \in Entry /\ e.prio = op[w].prio /\ e.jbpf_codelet = op[w].fn
  BY <1>2 DEF IInv, OpInv, InRegister, Entry
<1>4. s \in Seq(Entry) /\ Ordered(s) /\ Len(s) \in Nat
  BY <1>2, OldListFacts, LenProperties
<1>5. pos \in 1..Len(s) + 1 /\ pos \in InsertPos(s, e.prio)
  BY <1>1, <1>3 DEF InsertPos
<1>6. e.jbpf_codelet \notin Codes(s) /\ (IsCtrl => Len(s) = 0)
  BY <1>2, <1>3, <1>4 DEF RegisterRefused
<1> DEFINE r == Insert(s, pos, e)
<1>7. r \in Seq(Entry) /\ Len(r) = Len(s) + 1 /\ Ordered(r)
  BY <1>3, <1>4, <1>5, <1>6, InsertType, InsertOrdered
<1>8a. \A m, n \in Nat : m = n + 1 => m > 0 /\ (n = 0 => m = 1)
  OBVIOUS
<1>8b. Len(r) \in Nat
  BY <1>7, LenProperties
<1> HIDE DEF r
<1>8. Len(r) > 0 /\ (Len(s) = 0 => Len(r) = 1)
  BY <1>4, <1>7, <1>8a, <1>8b, Zenon
<1>10. IsCtrl => Len(r) = 1
  BY <1>6, <1>8, Zenon
<1>9. /\ cpc' = [cpc EXCEPT ![w] = "registered"]
      /\ UNCHANGED <<jit, readerVars, hookMutex, op, old, deferred, section, waitFor>>
  BY DEF RegisterPublish
<1> QED
  BY <1>1, <1>2, <1>7, <1>8, <1>9, <1>10, PublishStep DEF r

\* Publishing the list without the codelet (jbpf_hook.c:161-169) preserves IInv.
LEMMA RemovePublishStep ==
  ASSUME IInv, NEW w \in Callers, RemovePublish(w)
  PROVE  IInv'
<1> DEFINE s == OldList(w)
           K == Kept(s, op[w].fn)
<1>1. PICK a \in Arrays, r \in Copies(s, K) : Publish(a, r)
  BY DEF RemovePublish
<1>2. cpc[w] = "removeScan" /\ K # {}
  BY DEF RemovePublish
<1>3. /\ s \in Seq(Entry) /\ Ordered(s) /\ Len(s) \in Nat
      /\ old[w] = NULL => s = <<>>
      /\ IsCtrl => Len(s) <= 1
  BY <1>2, OldListFacts, LenProperties
<1>4. r \in Seq(Entry) /\ Len(r) \in Nat /\ Len(r) > 0 /\ Len(r) <= Len(s) /\ Ordered(r)
  BY <1>1, <1>2, <1>3, CopyProperties, LenProperties
<1>5. old[w] # NULL
  BY <1>3, <1>4, EmptySeq
<1>6a. \A m, n \in Nat : m > 0 /\ m <= n => (n <= 1 => m = 1)
  OBVIOUS
<1>6. Len(s) <= 1 => Len(r) = 1
  BY <1>3, <1>4, <1>6a, Zenon
<1>8. IsCtrl => Len(r) = 1
  BY <1>3, <1>6, Zenon
<1>7. /\ cpc' = [cpc EXCEPT ![w] = "removed"]
      /\ UNCHANGED <<jit, readerVars, hookMutex, op, old, deferred, section, waitFor>>
  BY DEF RemovePublish
<1> QED
  BY <1>1, <1>2, <1>4, <1>5, <1>7, <1>8, PublishStep

-----------------------------------------------------------------------------
(* The theorems.                                                           *)

\* A hook starts without codelets (jbpf_hook.h:97-140), where IInv holds.
LEMMA InitIInv == Init => IInv
<1> SUFFICES ASSUME Init PROVE IInv
  OBVIOUS
<1>1. <<>> \in Seq(Entry)
  BY EmptySeq
<1>2. TypeOK
  BY <1>1 DEF Init, TypeOK, HeapTypeOK, ReaderTypeOK, CallerTypeOK, EBR!EbrTypeOK, EBR!EbrInit
<1>3. MutexInv /\ OpInv /\ OldInv /\ HeapInv /\ ListInv /\ ReaderInv /\ GraceInv
  BY NullIsNoObject DEF Init, MutexInv, OpInv, OldInv, HeapInv, ListInv, ReaderInv, GraceInv,
      Critical, Retiring, InRegister
<1> QED BY <1>2, <1>3 DEF IInv

\* Every step of every thread preserves IInv.
LEMMA NextIInv == IInv /\ [Next]_vars => IInv'
<1> SUFFICES ASSUME IInv, [Next]_vars PROVE IInv'
  OBVIOUS
<1>1. ASSUME NEW t \in Readers, HookStep(t) PROVE IInv'
  BY <1>1, HookCallStep, HookEpochBeginStep, HookReloadStep, HookRunCodeletStep,
      HookEpochEndStep DEF HookStep
<1>2. ASSUME NEW w \in Callers, CallerStart(w) PROVE IInv'
  BY <1>2, LoadCodeletStep, RegisterCodeletStep, RemoveCodeletStep DEF CallerStart
<1>3. ASSUME NEW w \in Callers, CallerStep(w) PROVE IInv'
  BY <1>3, RegisterEnterStep, RegisterRejectStep, RegisterPublishStep, RegisterEpochEndStep,
      RegisterDeferStep, RegisterBarrierStep, RegisterReturnStep, RemoveEnterStep,
      RemoveRejectStep, RemoveCallocFailsStep, RemoveLastStep, RemovePublishStep,
      RemoveEpochEndStep, RemoveSyncStep, RemoveReturnStep, DestroyCodeletStep DEF CallerStep
<1>4. CASE UNCHANGED vars
  <2>1. TypeOK'
    BY <1>4 DEF vars, IInv, TypeOK, HeapTypeOK, ReaderTypeOK,
        CallerTypeOK, EBR!EbrTypeOK
  <2>2. MutexInv' /\ OpInv'
    BY <1>4 DEF vars, IInv, MutexInv, OpInv
  <2>3. OldInv' /\ HeapInv' /\ ListInv'
    BY <1>4 DEF vars, IInv, OldInv, HeapInv, ListInv
  <2>4. ReaderInv' /\ GraceInv'
    BY <1>4 DEF vars, IInv, ReaderInv, GraceInv
  <2> QED
    BY <2>1, <2>2, <2>3, <2>4 DEF IInv
<1> QED
  BY <1>1, <1>2, <1>3, <1>4, MaintenancePollStep DEF Next

\* The inductive invariant holds in every reachable state.
THEOREM InvariantHolds == Spec => []IInv
  BY InitIInv, NextIInv, PTL DEF Spec

\* The variables keep their types, whatever the interleaving.
THEOREM TypeCorrect == Spec => []TypeOK
<1>1. IInv => TypeOK
  BY DEF IInv
<1> QED BY <1>1, InvariantHolds, PTL

\* No thread ever walks an array that has been freed, or past its end, even
\* when allocations fail (jbpf_hook.h:131-137, jbpf_hook.c:101-105, 169-173).
THEOREM HookMemorySafe == Spec => []NoUseAfterFree
<1>1. IInv => NoUseAfterFree
  <2> SUFFICES ASSUME IInv, NEW t \in Readers, rpc[t] = "run"
               PROVE  rptr[t] \in alloc /\ ridx[t] \in DOMAIN mem[rptr[t]]
    BY DEF NoUseAfterFree
  <2>1. rptr[t] \in alloc /\ ridx[t] \in 1..Len(mem[rptr[t]]) /\ mem[rptr[t]] \in Seq(Entry)
    BY DEF IInv, TypeOK, HeapTypeOK, ReaderInv
  <2> QED BY <2>1, LenProperties
<1> QED BY <1>1, InvariantHolds, PTL

\* The published list is never empty, ordered by priority, without duplicates,
\* and a single codelet on a control hook (jbpf_hook.c:53-99, 161-168).
THEOREM HookListWellFormed == Spec => []ListWellFormed
<1>1. IInv => ListWellFormed
  BY DEF IInv, HeapInv, ListInv, Ordered, ListWellFormed
<1> QED BY <1>1, InvariantHolds, PTL

\* Between two updates the published array is the only one allocated: what an
\* update replaces is freed, exactly once (jbpf_hook.c:103-106, 173).
THEOREM HookFreesWhatItReplaces == Spec => []NoArrayLeaks
<1>1. IInv => NoArrayLeaks
  BY NullIsNoObject DEF IInv, TypeOK, HeapTypeOK, HeapInv, NoArrayLeaks
<1> QED BY <1>1, InvariantHolds, PTL
=============================================================================
