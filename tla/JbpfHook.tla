----------------------------- MODULE JbpfHook -----------------------------
(***************************************************************************)
(* One jbpf hook: the threads that invoke it (DECLARE_JBPF_HOOK and        *)
(* DECLARE_JBPF_CTRL_HOOK in jbpf_hook.h), the threads that register and   *)
(* remove codelets (jbpf_hook.c), the creation and destruction of the      *)
(* codelets they register (jbpf.c) and the maintenance thread, which polls *)
(* every epoch record.                                                     *)
(*                                                                         *)
(* The published list is an array on the heap.  Arrays are addresses: an   *)
(* address that was freed can be returned by a later allocation, so a      *)
(* thread that keeps a pointer too long would read another list.           *)
(***************************************************************************)
EXTENDS Naturals, Sequences, FiniteSets

CONSTANTS Readers,        \* threads that invoke the hook
          Callers,        \* threads that register and remove codelets
          Codelets,       \* codelet entry points (jbpf_jit_fn)
          Prios,          \* codelet priorities
          Arrays,         \* heap addresses for codelet arrays
          NULL,
          IsCtrl,         \* hook_type == JBPF_HOOK_TYPE_CTRL
          CallocMayFail   \* the heap may be exhausted

ASSUME ReadersCallersDisjoint == Readers \cap Callers = {}
ASSUME ArraysCallersDisjoint == Arrays \cap Callers = {}
ASSUME NullIsNoObject == NULL \notin Arrays \cup Callers
ASSUME PriosAreIntegers == Prios \subseteq Nat
ASSUME FlagsAreBoolean == IsCtrl \in BOOLEAN /\ CallocMayFail \in BOOLEAN

VARIABLES codelets,  \* hook->codelets: the published array, or NULL
          mem,       \* mem[a]: the entries of array a up to its terminator
          alloc,     \* allocated arrays
          jit,       \* codelets whose machine code is mapped
          rpc,       \* where a reader is in the hook function
          rptr,      \* hook_codelet_ptr: the array a reader runs
          ridx,      \* its position in that array
          hookMutex, \* the owner of hook_mutex, or NULL
          cpc,       \* where a caller is
          op,        \* the operation a caller performs, or NULL
          old,       \* old_codelets
          deferred,  \* arrays on the caller's record, by ck_epoch_call_strict
          section, waitFor

EBR == INSTANCE Ebr WITH Threads <- Readers \cup Callers,
                         Tickets <- Arrays \cup Callers

heapVars   == <<codelets, mem, alloc>>
readerVars == <<rpc, rptr, ridx>>
callerVars == <<hookMutex, cpc, op, old, deferred>>
vars == <<codelets, mem, alloc, jit, rpc, rptr, ridx, hookMutex, cpc, op,
          old, deferred, section, waitFor>>

\* struct jbpf_hook_codelet (the runtime threshold is carried, never read here)
Entry == [jbpf_codelet : Codelets, prio : Prios]

\* What a caller is doing: loading a codelet (create, register, destroy on
\* failure), unloading one (remove, then destroy), or calling the hook's own
\* jbpf_register_codelet_<name> / jbpf_remove_codelet_hook_<name>.
Ops == [kind : {"load", "register"}, fn : Codelets, prio : Prios]
         \cup [kind : {"unload", "remove"}, fn : Codelets]

ASSUME NullIsNoOp == NULL \notin Ops

Codes(s) == {s[i].jbpf_codelet : i \in DOMAIN s}

Init ==
  /\ codelets = NULL
  /\ mem = [a \in Arrays |-> <<>>]
  /\ alloc = {}
  /\ jit = {}
  /\ rpc = [t \in Readers |-> "idle"]
  /\ rptr = [t \in Readers |-> NULL]
  /\ ridx = [t \in Readers |-> 1]
  /\ hookMutex = NULL
  /\ cpc = [w \in Callers |-> "idle"]
  /\ op = [w \in Callers |-> NULL]
  /\ old = [w \in Callers |-> NULL]
  /\ deferred = [w \in Callers |-> {}]
  /\ EBR!EbrInit

-----------------------------------------------------------------------------
(* A thread invokes the hook.                                              *)

\* The unprotected check that skips an empty hook.
HookCall(t) ==
  /\ rpc[t] = "idle"
  /\ codelets # NULL
  /\ rpc' = [rpc EXCEPT ![t] = "begin"]
  /\ UNCHANGED <<rptr, ridx, heapVars, jit, callerVars, section, waitFor>>

HookEpochBegin(t) ==
  /\ rpc[t] = "begin"
  /\ EBR!EpochBegin(t)
  /\ rpc' = [rpc EXCEPT ![t] = "reload"]
  /\ UNCHANGED <<rptr, ridx, heapVars, jit, callerVars>>

\* The pointer is loaded again inside the section: the list may have become
\* empty, or be another one, since HookCall.
HookReload(t) ==
  /\ rpc[t] = "reload"
  /\ IF codelets # NULL
       THEN /\ rpc' = [rpc EXCEPT ![t] = "run"]
            /\ rptr' = [rptr EXCEPT ![t] = codelets]
       ELSE /\ rpc' = [rpc EXCEPT ![t] = "end"]
            /\ UNCHANGED rptr
  /\ UNCHANGED <<ridx, heapVars, jit, callerVars, section, waitFor>>

\* The codelet at ridx returns.  A monitoring hook goes on to the next entry
\* unless it is the terminator; a control hook runs the first entry only.
HookRunCodelet(t) ==
  /\ rpc[t] = "run"
  /\ IF ~IsCtrl /\ ridx[t] < Len(mem[rptr[t]])
       THEN ridx' = [ridx EXCEPT ![t] = @ + 1] /\ UNCHANGED <<rpc, rptr>>
       ELSE /\ ridx' = [ridx EXCEPT ![t] = 1]
            /\ rptr' = [rptr EXCEPT ![t] = NULL]
            /\ rpc' = [rpc EXCEPT ![t] = "end"]
  /\ UNCHANGED <<heapVars, jit, callerVars, section, waitFor>>

HookEpochEnd(t) ==
  /\ rpc[t] = "end"
  /\ EBR!EpochEnd(t)
  /\ rpc' = [rpc EXCEPT ![t] = "idle"]
  /\ UNCHANGED <<rptr, ridx, heapVars, jit, callerVars>>

HookStep(t) ==
  HookCall(t) \/ HookEpochBegin(t) \/ HookReload(t) \/ HookRunCodelet(t) \/ HookEpochEnd(t)

-----------------------------------------------------------------------------
(* What a caller does with the hook.                                       *)

Busy(c) == \E v \in Callers : op[v] # NULL /\ op[v].fn = c

\* jbpf_create_codelet maps the code, then jbpf_load_codelet registers it.
LoadCodelet(w, c, p) ==
  /\ cpc[w] = "idle"
  /\ c \notin jit
  /\ ~Busy(c)
  /\ jit' = jit \cup {c}
  /\ op' = [op EXCEPT ![w] = [kind |-> "load", fn |-> c, prio |-> p]]
  /\ cpc' = [cpc EXCEPT ![w] = "register"]
  /\ UNCHANGED <<heapVars, readerVars, hookMutex, old, deferred, section, waitFor>>

\* jbpf_register_codelet_<name> on a codelet that exists.
RegisterCodelet(w, c, p) ==
  /\ cpc[w] = "idle"
  /\ c \in jit
  /\ ~Busy(c)
  /\ op' = [op EXCEPT ![w] = [kind |-> "register", fn |-> c, prio |-> p]]
  /\ cpc' = [cpc EXCEPT ![w] = "register"]
  /\ UNCHANGED <<heapVars, jit, readerVars, hookMutex, old, deferred, section, waitFor>>

\* "unload": jbpf_unload_codelet, then jbpf_destroy_codelet;
\* "remove": jbpf_remove_codelet_hook_<name> only.
RemoveCodelet(w, c, k) ==
  /\ cpc[w] = "idle"
  /\ c \in jit
  /\ ~Busy(c)
  /\ op' = [op EXCEPT ![w] = [kind |-> k, fn |-> c]]
  /\ cpc' = [cpc EXCEPT ![w] = "remove"]
  /\ UNCHANGED <<heapVars, jit, readerVars, hookMutex, old, deferred, section, waitFor>>

\* hook_mutex is released and the function returns; pc says what comes next.
Return(w, pc) ==
  /\ hookMutex' = NULL
  /\ cpc' = [cpc EXCEPT ![w] = pc]
  /\ op' = [op EXCEPT ![w] = IF pc = "idle" THEN NULL ELSE @]
  /\ old' = [old EXCEPT ![w] = NULL]

\* A load that fails destroys the codelet; an unload always does.
AfterFailedRegister(w) == IF op[w].kind = "load" THEN "destroy" ELSE "idle"
AfterRemove(w) == IF op[w].kind = "unload" THEN "destroy" ELSE "idle"

\* jbpf_destroy_codelet: the machine code is unmapped (ubpf_destroy).
DestroyCodelet(w) ==
  /\ cpc[w] = "destroy"
  /\ jit' = jit \ {op[w].fn}
  /\ op' = [op EXCEPT ![w] = NULL]
  /\ cpc' = [cpc EXCEPT ![w] = "idle"]
  /\ UNCHANGED <<heapVars, readerVars, hookMutex, old, deferred, section, waitFor>>

-----------------------------------------------------------------------------
(* jbpf_register_codelet_hook.                                             *)

\* The list the caller found, which only the owner of hook_mutex replaces.
OldList(w) == IF old[w] = NULL THEN <<>> ELSE mem[old[w]]

\* pthread_mutex_lock, ck_epoch_begin, old_codelets = hook->codelets
Enter(w, from, to) ==
  /\ cpc[w] = from
  /\ hookMutex = NULL
  /\ hookMutex' = w
  /\ old' = [old EXCEPT ![w] = codelets]
  /\ cpc' = [cpc EXCEPT ![w] = to]
  /\ EBR!EpochBegin(w)
  /\ UNCHANGED <<heapVars, jit, readerVars, op, deferred>>

RegisterEnter(w) == Enter(w, "register", "registerScan")

\* Mutant: the scan does not look for the codelet.
RegisterRefusedDupOk(w) == IsCtrl /\ Len(OldList(w)) > 0

\* The scan meets the codelet itself, or the hook is a control hook and taken.
RegisterRefused(w) ==
  \/ op[w].fn \in Codes(OldList(w))
  \/ IsCtrl /\ Len(OldList(w)) > 0

\* Mutant: a codelet that is refused is tried again, under the mutex.
RegisterRejectRetries(w) ==
  /\ cpc[w] = "registerScan"
  /\ RegisterRefused(w) \/ CallocMayFail
  /\ UNCHANGED vars

RegisterReject(w) ==
  /\ cpc[w] = "registerScan"
  /\ RegisterRefused(w) \/ CallocMayFail
  /\ EBR!EpochEnd(w)
  /\ Return(w, AfterFailedRegister(w))
  /\ UNCHANGED <<heapVars, jit, readerVars, deferred>>

\* Mutant: <= in place of <, so a new codelet overtakes its equals.
InsertPosBeforeEquals(s, p) ==
  {i \in 1..Len(s) + 1 : /\ \A j \in 1..i - 1 : s[j].prio > p
                         /\ i <= Len(s) => s[i].prio <= p}

\* pos: in front of the first entry of a strictly lower priority, or last.
InsertPos(s, p) ==
  {i \in 1..Len(s) + 1 : /\ \A j \in 1..i - 1 : s[j].prio >= p
                         /\ i <= Len(s) => s[i].prio < p}

\* The two memcpy calls and the store at pos.
Insert(s, pos, e) ==
  [i \in 1..Len(s) + 1 |-> IF i < pos THEN s[i] ELSE IF i = pos THEN e ELSE s[i - 1]]

\* jbpf_calloc_mem returns a free address a, which is filled and published.
Publish(a, s) ==
  /\ a \in Arrays \ alloc
  /\ alloc' = alloc \cup {a}
  /\ mem' = [mem EXCEPT ![a] = s]
  /\ codelets' = a

RegisterPublish(w) ==
  /\ cpc[w] = "registerScan"
  /\ ~RegisterRefused(w)
  /\ \E a \in Arrays, pos \in InsertPos(OldList(w), op[w].prio) :
       Publish(a, Insert(OldList(w), pos, [jbpf_codelet |-> op[w].fn, prio |-> op[w].prio]))
  /\ cpc' = [cpc EXCEPT ![w] = "registered"]
  /\ UNCHANGED <<jit, readerVars, hookMutex, op, old, deferred, section, waitFor>>

\* Mutant: `if (old_codelets)` is missing.
RegisterEpochEndNoNullCheck(w) ==
  /\ cpc[w] = "registered"
  /\ EBR!EpochEnd(w)
  /\ cpc' = [cpc EXCEPT ![w] = "defer"]
  /\ UNCHANGED <<hookMutex, op, old, heapVars, jit, readerVars, deferred>>

RegisterEpochEnd(w) ==
  /\ cpc[w] = "registered"
  /\ EBR!EpochEnd(w)
  /\ IF old[w] = NULL
       THEN Return(w, "idle")
       ELSE cpc' = [cpc EXCEPT ![w] = "defer"] /\ UNCHANGED <<hookMutex, op, old>>
  /\ UNCHANGED <<heapVars, jit, readerVars, deferred>>

\* Mutant: the barrier is called, the free is not deferred to it.
RegisterDeferForgotten(w) ==
  /\ cpc[w] = "defer"
  /\ cpc' = [cpc EXCEPT ![w] = "barrier"]
  /\ UNCHANGED <<heapVars, jit, readerVars, hookMutex, op, old, deferred, section, waitFor>>

\* ck_epoch_call_strict(e_record, &old_codelets->epoch_entry, free_codelet_list)
RegisterDefer(w) ==
  /\ cpc[w] = "defer"
  /\ deferred' = [deferred EXCEPT ![w] = @ \cup {old[w]}]
  /\ EBR!StartGrace(old[w])
  /\ cpc' = [cpc EXCEPT ![w] = "barrier"]
  /\ UNCHANGED <<heapVars, jit, readerVars, hookMutex, op, old>>

\* ck_epoch_barrier(e_record) starts ...
RegisterBarrier(w) ==
  /\ cpc[w] = "barrier"
  /\ EBR!StartGrace(w)
  /\ cpc' = [cpc EXCEPT ![w] = "barrierWait"]
  /\ UNCHANGED <<heapVars, jit, readerVars, hookMutex, op, old, deferred>>

\* free_codelet_list on a set of arrays.
FreeArrays(A) ==
  /\ alloc' = alloc \ A
  /\ mem' = [a \in Arrays |-> IF a \in A THEN <<>> ELSE mem[a]]
  /\ UNCHANGED codelets

\* ... and ends by running what is deferred on the caller's record.
RegisterReturn(w) ==
  /\ cpc[w] = "barrierWait"
  /\ EBR!GraceElapsed(w)
  /\ FreeArrays(deferred[w])
  /\ deferred' = [deferred EXCEPT ![w] = {}]
  /\ Return(w, "idle")
  /\ UNCHANGED <<jit, readerVars, section, waitFor>>

\* The maintenance thread calls ck_epoch_poll on every record, so it may run
\* the deferred free first.
MaintenancePoll(w) ==
  /\ \E a \in deferred[w] :
       /\ EBR!GraceElapsed(a)
       /\ FreeArrays({a})
       /\ deferred' = [deferred EXCEPT ![w] = @ \ {a}]
  /\ UNCHANGED <<jit, readerVars, hookMutex, cpc, op, old, section, waitFor>>

-----------------------------------------------------------------------------
(* jbpf_remove_codelet_hook.                                               *)

RemoveEnter(w) == Enter(w, "remove", "removeScan")

\* The positions whose entry is copied to the new array.
Kept(s, c) == {i \in DOMAIN s : s[i].jbpf_codelet # c}

\* No list, or no entry of the codelet: -1.
RemoveReject(w) ==
  /\ cpc[w] = "removeScan"
  /\ op[w].fn \notin Codes(OldList(w))
  /\ EBR!EpochEnd(w)
  /\ Return(w, AfterRemove(w))
  /\ UNCHANGED <<heapVars, jit, readerVars, deferred>>

\* No memory for the shorter array: -1, and the codelet stays published.
RemoveCallocFails(w) ==
  /\ cpc[w] = "removeScan"
  /\ CallocMayFail
  /\ op[w].fn \in Codes(OldList(w))
  /\ Kept(OldList(w), op[w].fn) # {}
  /\ EBR!EpochEnd(w)
  /\ Return(w, AfterRemove(w))
  /\ UNCHANGED <<heapVars, jit, readerVars, deferred>>

\* The last codelet goes: the hook is disabled.
RemoveLast(w) ==
  /\ cpc[w] = "removeScan"
  /\ op[w].fn \in Codes(OldList(w))
  /\ Kept(OldList(w), op[w].fn) = {}
  /\ codelets' = NULL
  /\ cpc' = [cpc EXCEPT ![w] = "removed"]
  /\ UNCHANGED <<mem, alloc, jit, readerVars, hookMutex, op, old, deferred, section, waitFor>>

\* The copying loop, as the increasing enumeration of the kept positions.
Copies(s, K) ==
  {[i \in DOMAIN g |-> s[g[i]]] : g \in {f \in [1..Cardinality(K) -> K] :
     \A i, j \in DOMAIN f : i < j => f[i] < f[j]}}

RemovePublish(w) ==
  /\ cpc[w] = "removeScan"
  /\ op[w].fn \in Codes(OldList(w))
  /\ Kept(OldList(w), op[w].fn) # {}
  /\ \E a \in Arrays, s \in Copies(OldList(w), Kept(OldList(w), op[w].fn)) : Publish(a, s)
  /\ cpc' = [cpc EXCEPT ![w] = "removed"]
  /\ UNCHANGED <<jit, readerVars, hookMutex, op, old, deferred, section, waitFor>>

\* Mutant: the machine code is unmapped before the grace period.
RemoveEpochEndUnmaps(w) ==
  /\ cpc[w] = "removed"
  /\ EBR!EpochEnd(w)
  /\ jit' = IF op[w].kind = "unload" THEN jit \ {op[w].fn} ELSE jit
  /\ cpc' = [cpc EXCEPT ![w] = "sync"]
  /\ UNCHANGED <<heapVars, readerVars, hookMutex, op, old, deferred>>

RemoveEpochEnd(w) ==
  /\ cpc[w] = "removed"
  /\ EBR!EpochEnd(w)
  /\ cpc' = [cpc EXCEPT ![w] = "sync"]
  /\ UNCHANGED <<heapVars, jit, readerVars, hookMutex, op, old, deferred>>

\* Mutant: ck_epoch_synchronize is missing.
RemoveSyncMissing(w) ==
  /\ cpc[w] = "sync"
  /\ cpc' = [cpc EXCEPT ![w] = "syncWait"]
  /\ UNCHANGED <<heapVars, jit, readerVars, hookMutex, op, old, deferred, section, waitFor>>

\* ck_epoch_synchronize(e_record) starts ...
RemoveSync(w) ==
  /\ cpc[w] = "sync"
  /\ EBR!StartGrace(w)
  /\ cpc' = [cpc EXCEPT ![w] = "syncWait"]
  /\ UNCHANGED <<heapVars, jit, readerVars, hookMutex, op, old, deferred>>

\* ... and returns; the old array is freed.
RemoveReturn(w) ==
  /\ cpc[w] = "syncWait"
  /\ EBR!GraceElapsed(w)
  /\ FreeArrays({old[w]})
  /\ Return(w, AfterRemove(w))
  /\ UNCHANGED <<jit, readerVars, deferred, section, waitFor>>

-----------------------------------------------------------------------------
\* The steps a caller takes once it has started an operation.
CallerStep(w) ==
  \/ RegisterEnter(w) \/ RegisterReject(w) \/ RegisterPublish(w) \/ RegisterEpochEnd(w)
  \/ RegisterDefer(w) \/ RegisterBarrier(w) \/ RegisterReturn(w)
  \/ RemoveEnter(w) \/ RemoveReject(w) \/ RemoveCallocFails(w) \/ RemoveLast(w)
  \/ RemovePublish(w) \/ RemoveEpochEnd(w) \/ RemoveSync(w) \/ RemoveReturn(w)
  \/ DestroyCodelet(w)

CallerStart(w) ==
  \/ \E c \in Codelets, p \in Prios : LoadCodelet(w, c, p) \/ RegisterCodelet(w, c, p)
  \/ \E c \in Codelets, k \in {"unload", "remove"} : RemoveCodelet(w, c, k)

Next ==
  \/ \E t \in Readers : HookStep(t)
  \/ \E w \in Callers : CallerStart(w) \/ CallerStep(w) \/ MaintenancePoll(w)

Spec == Init /\ [][Next]_vars

\* A thread inside a hook keeps running (verified codelets terminate), and so
\* does a caller; a new invocation or a new operation need never come.
Fairness ==
  /\ \A t \in Readers : WF_vars(HookStep(t) /\ rpc[t] # "idle")
  /\ \A w \in Callers : WF_vars(CallerStep(w))

FairSpec == Spec /\ Fairness

-----------------------------------------------------------------------------
(* Properties.                                                             *)

HeapTypeOK ==
  /\ codelets \in Arrays \cup {NULL}
  /\ mem \in [Arrays -> Seq(Entry)]
  /\ alloc \subseteq Arrays
  /\ jit \subseteq Codelets

ReaderTypeOK ==
  /\ rpc \in [Readers -> {"idle", "begin", "reload", "run", "end"}]
  /\ rptr \in [Readers -> Arrays \cup {NULL}]
  /\ ridx \in [Readers -> Nat \ {0}]

CallerTypeOK ==
  /\ hookMutex \in Callers \cup {NULL}
  /\ cpc \in [Callers -> {"idle", "register", "registerScan", "registered", "defer",
                          "barrier", "barrierWait", "remove", "removeScan", "removed",
                          "sync", "syncWait", "destroy"}]
  /\ op \in [Callers -> Ops \cup {NULL}]
  /\ old \in [Callers -> Arrays \cup {NULL}]
  /\ deferred \in [Callers -> SUBSET Arrays]

\* Every variable has the type its declaration says; in particular a caller
\* defers the free of an array, never of the NULL it may have found.
TypeOK == HeapTypeOK /\ ReaderTypeOK /\ CallerTypeOK /\ EBR!EbrTypeOK

\* The array a running hook function walks is allocated and has an entry at
\* its position: no register or remove frees it, and no allocation reuses its
\* address, before the thread has left its epoch section (jbpf_hook.h:131-137
\* against jbpf_hook.c:101-105 and 169-173).
NoUseAfterFree ==
  \A t \in Readers : rpc[t] = "run" => rptr[t] \in alloc /\ ridx[t] \in DOMAIN mem[rptr[t]]

\* The codelet a hook function is executing has not been destroyed: an unload
\* unmaps its code only after jbpf_remove_codelet_hook has waited for every
\* invocation that could still call it (jbpf.c:1581-1588).
NoDestroyedCodeletRuns ==
  \A t \in Readers : rpc[t] = "run" => mem[rptr[t]][ridx[t]].jbpf_codelet \in jit

\* The published list is allocated and not empty (a hook function runs its
\* first entry unconditionally), holds no codelet twice, is in descending
\* order of priority, and has one entry if the hook is a control hook
\* (jbpf_hook.c:53-99).
ListWellFormed ==
  codelets # NULL =>
    LET s == mem[codelets]
    IN  /\ codelets \in alloc
        /\ Len(s) > 0
        /\ \A i, j \in DOMAIN s :
             i < j => s[i].jbpf_codelet # s[j].jbpf_codelet /\ s[i].prio >= s[j].prio
        /\ IsCtrl => Len(s) = 1

\* When no caller holds hook_mutex, the only allocated array is the published
\* one: every replaced array has been freed, once (jbpf_hook.c:103-106, 173).
NoArrayLeaks ==
  hookMutex = NULL => alloc = {codelets} \ {NULL}

\* The holder of hook_mutex gives it up: register and remove wait for readers
\* but readers never wait for them (jbpf_hook.c:105, 172).
MutexReleased ==
  \A w \in Callers : hookMutex = w ~> hookMutex # w

\* An unload goes on to destroy a codelet only when the hook no longer lists
\* it: jbpf_unload_codelet reports a failed remove as "Codelet %s is not
\* registered for hook %s" (jbpf.c:1063) and jbpf_codeletset_unload destroys
\* the codelet in either case (jbpf.c:1581-1587).
UnloadedIsUnlisted ==
  \A w \in Callers :
    cpc[w] = "destroy" /\ codelets # NULL => op[w].fn \notin Codes(mem[codelets])

\* The list that a hook stands for: what is published, what each invocation
\* has loaded and how far it is.
HL == INSTANCE HookList WITH
        list <- IF codelets = NULL THEN <<>> ELSE mem[codelets],
        snap <- [t \in Readers |-> IF rpc[t] = "run" THEN mem[rptr[t]] ELSE <<>>],
        next <- ridx
=============================================================================
