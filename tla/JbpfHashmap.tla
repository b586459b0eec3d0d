----------------------------- MODULE JbpfHashmap -----------------------------
(***************************************************************************)
(* The shared hash map of codelets (core/jbpf_bpf_hashmap.[ch]).  Writers  *)
(* try a spin lock and give up when it is taken; lookups take no lock and  *)
(* hand the codelet a pointer into the node.  A node that is replaced or   *)
(* removed goes back to the map's memory pool after a grace period.  Every *)
(* operation runs in the epoch section of the hook call that runs the      *)
(* codelet.  The table itself is ck_ht (external): its operations are      *)
(* atomic for readers.                                                      *)
(***************************************************************************)
EXTENDS Ebr, Integers, FiniteSetsExt

CONSTANTS Keys,
          Nodes,          \* elements of the memory pool, numbers
          MaxEntries,     \* max_entries
          DumpSizes,      \* sizes of the buffers given to dump, in entries
          MaxHashCalls,   \* bound on the number of calls
          NoKey, NoNode, NoThread

VARIABLES ht,       \* the node of each key, or NoNode
          pool,     \* nodes free for allocation
          later,    \* nodes handed to ck_epoch_call_strict
          lost,     \* nodes that nobody will ever return
          lock,     \* the holder of the spin lock
          op,       \* the operation of each thread
          calls,    \* number of calls made
          hmap      \* "live", "destroyed", or "freed" with its pool

vars == <<section, waitFor, ht, pool, later, lost, lock, op, calls, hmap>>
epochVars == <<section, waitFor>>

Ops == {"update", "delete", "clear", "dump", "size", "lookup"}
Locking == Ops \ {"lookup"}
KeyOf(fn) == IF fn \in {"clear", "dump", "size"} THEN {NoKey} ELSE Keys
Idle == [pc |-> "idle", fn |-> "none", key |-> NoKey, node |-> NoNode, raced |-> FALSE, left |-> 0]
Used == {k \in Keys : ht[k] # NoNode}
Count == Cardinality(Used)          \* ck_ht_count

\* jbpf_bpf_hashmap_create
HashInit ==
  /\ EbrInit
  /\ ht = [k \in Keys |-> NoNode]
  /\ pool = Nodes /\ later = {} /\ lost = {}
  /\ lock = NoThread
  /\ op = [t \in Threads |-> Idle]
  /\ calls = 0 /\ hmap = "live"

At(t, fn, pc) == op[t].fn = fn /\ op[t].pc = pc
Goto(t, pc, n) == op' = [op EXCEPT ![t].pc = pc, ![t].node = n]
Return(t) == op' = [op EXCEPT ![t] = [Idle EXCEPT !.pc = "ret"]]
Unlock == lock' = NoThread
\* jbpf_mbuf_alloc: which node it is does not matter.
Allocated == Min(pool)

\* A codelet calls a map helper; it runs inside the hook's epoch section.
Call(t, fn, k) ==
  /\ op[t].pc = "idle" /\ hmap = "live" /\ calls < MaxHashCalls
  /\ calls' = calls + 1
  /\ EpochBegin(t)
  /\ op' = [op EXCEPT ![t] = [Idle EXCEPT !.pc = "try", !.fn = fn, !.key = k]]
  /\ UNCHANGED <<ht, pool, later, lost, lock, hmap>>

\* The codelet returns, and the section ends.
CodeletReturns(t) ==
  /\ op[t].pc \in {"ret", "held"}
  /\ EpochEnd(t)
  /\ op' = [op EXCEPT ![t] = Idle]
  /\ UNCHANGED <<ht, pool, later, lost, lock, hmap, calls>>

\* ck_spinlock_trylock fails: the map is busy.
Busy(t) ==
  /\ op[t].pc = "try" /\ op[t].fn \in Locking /\ lock # NoThread
  /\ Return(t)
  /\ UNCHANGED <<epochVars, ht, pool, later, lost, lock, hmap, calls>>

\* jbpf_bpf_hashmap_size
Size(t) ==
  /\ At(t, "size", "try") /\ lock = NoThread
  /\ Return(t)
  /\ UNCHANGED <<epochVars, ht, pool, later, lost, lock, hmap, calls>>

\* jbpf_bpf_hashmap_lookup_elem, and reset_elem, which also clears the value.
Lookup(t) ==
  /\ At(t, "lookup", "try")
  /\ LET n == ht[op[t].key] IN
       IF n = NoNode THEN Return(t)
       ELSE op' = [op EXCEPT ![t].pc = "held", ![t].node = n, ![t].raced = (n \in later)]
  /\ UNCHANGED <<epochVars, ht, pool, later, lost, lock, hmap, calls>>

(* ------------------- jbpf_bpf_hashmap_update_elem ----------------------- *)

\* A full map: the node that was allocated is not given back.
UpdateFull(t) ==
  /\ At(t, "update", "try") /\ lock = NoThread /\ pool # {}
  /\ ht[op[t].key] = NoNode /\ Count = MaxEntries
  /\ pool' = pool \ {Allocated} /\ lost' = lost \cup {Allocated}
  /\ Return(t)
  /\ UNCHANGED <<epochVars, ht, later, lock, hmap, calls>>

\* No node to be had: JBPF_MAP_ERROR.
UpdateNoMem(t) ==
  /\ At(t, "update", "try") /\ lock = NoThread /\ pool = {}
  /\ Return(t)
  /\ UNCHANGED <<epochVars, ht, pool, later, lost, lock, hmap, calls>>

\* The lock is taken and a node filled in.
UpdateAlloc(t) ==
  /\ At(t, "update", "try") /\ lock = NoThread
  /\ pool # {} /\ (ht[op[t].key] # NoNode \/ Count # MaxEntries)
  /\ lock' = t
  /\ pool' = pool \ {Allocated} /\ Goto(t, "set", Allocated)
  /\ UNCHANGED <<epochVars, ht, later, lost, hmap, calls>>

\* ck_ht_set_spmc; the replaced node is what it leaves in the entry.
UpdateSet(t) ==
  /\ At(t, "update", "set")
  /\ ht' = [ht EXCEPT ![op[t].key] = op[t].node]
  /\ Goto(t, "defer", ht[op[t].key])
  /\ UNCHANGED <<epochVars, pool, later, lost, lock, hmap, calls>>

\* The table cannot grow: the node goes back, and 0 is returned all the same.
UpdateSetFails(t) ==
  /\ At(t, "update", "set")
  /\ pool' = pool \cup {op[t].node}
  /\ Unlock /\ Return(t)
  /\ UNCHANGED <<epochVars, ht, later, lost, hmap, calls>>

\* Mutant: the replaced node is freed at once.
DeferAtOnce(t) ==
  /\ op[t].fn \in {"update", "delete"} /\ op[t].pc = "defer"
  /\ IF op[t].node = NoNode THEN UNCHANGED pool ELSE pool' = pool \cup {op[t].node}
  /\ Unlock /\ Return(t)
  /\ UNCHANGED <<epochVars, ht, later, lost, hmap, calls>>

\* Mutant: the node of a removed key is forgotten.
DeferForgotten(t) ==
  /\ op[t].fn \in {"update", "delete"} /\ op[t].pc = "defer"
  /\ Unlock /\ Return(t)
  /\ UNCHANGED <<epochVars, ht, pool, later, lost, hmap, calls>>

\* ck_epoch_call_strict for the replaced or removed node, then the unlock.
Defer(t) ==
  /\ op[t].fn \in {"update", "delete"} /\ op[t].pc = "defer"
  /\ IF op[t].node = NoNode THEN UNCHANGED <<epochVars, later>>
     ELSE StartGrace(op[t].node) /\ later' = later \cup {op[t].node}
  /\ Unlock /\ Return(t)
  /\ UNCHANGED <<ht, pool, lost, hmap, calls>>

(* ------------- jbpf_bpf_hashmap_delete_elem, _clear, _dump --------------- *)

Delete(t) ==
  /\ At(t, "delete", "try") /\ lock = NoThread
  /\ IF ht[op[t].key] = NoNode THEN Return(t) /\ UNCHANGED <<ht, lock>>
     ELSE /\ lock' = t
          /\ ht' = [ht EXCEPT ![op[t].key] = NoNode]
          /\ Goto(t, "defer", ht[op[t].key])
  /\ UNCHANGED <<epochVars, pool, later, lost, hmap, calls>>

ClearStarts(t) ==
  /\ At(t, "clear", "try") /\ lock = NoThread
  /\ lock' = t /\ Goto(t, "next", NoNode)
  /\ UNCHANGED <<epochVars, ht, pool, later, lost, hmap, calls>>

\* The next entry: its node is handed over while it is still in the table ...
ClearDefer(t, k) ==
  /\ At(t, "clear", "next") /\ k \in Used
  /\ StartGrace(ht[k])
  /\ later' = later \cup {ht[k]}
  /\ op' = [op EXCEPT ![t].pc = "remove", ![t].key = k]
  /\ UNCHANGED <<ht, pool, lost, lock, hmap, calls>>

\* ... and then the entry is removed.
ClearRemove(t) ==
  /\ At(t, "clear", "remove")
  /\ ht' = [ht EXCEPT ![op[t].key] = NoNode]
  /\ op' = [op EXCEPT ![t].pc = "next", ![t].key = NoKey]
  /\ UNCHANGED <<epochVars, pool, later, lost, lock, hmap, calls>>

ClearEnds(t) ==
  /\ At(t, "clear", "next") /\ Used = {}
  /\ Unlock /\ Return(t)
  /\ UNCHANGED <<epochVars, ht, pool, later, lost, hmap, calls>>

\* A dump: the entries fit into the buffer, or nothing is copied.
Dump(t, max) ==
  /\ At(t, "dump", "try") /\ lock = NoThread
  /\ IF Count > max THEN Return(t) /\ UNCHANGED lock
     ELSE lock' = t /\ op' = [op EXCEPT ![t].pc = "copy", ![t].left = max]
  /\ UNCHANGED <<epochVars, ht, pool, later, lost, hmap, calls>>

\* The entries are copied; `left` is the room left in the buffer.
DumpCopies(t) ==
  /\ At(t, "dump", "copy")
  /\ op' = [op EXCEPT ![t].pc = "copied", ![t].left = @ - Count]
  /\ UNCHANGED <<epochVars, ht, pool, later, lost, lock, hmap, calls>>

DumpEnds(t) ==
  /\ At(t, "dump", "copied")
  /\ lock' = (IF lock = t THEN NoThread ELSE lock)
  /\ Return(t)
  /\ UNCHANGED <<epochVars, ht, pool, later, lost, hmap, calls>>

(* --------------------- reclamation, destruction -------------------------- *)

PoolIs(P) == hmap' = IF hmap = "destroyed" /\ P = Nodes THEN "freed" ELSE hmap

\* ck_epoch_poll of the maintenance thread runs free_hnode; the last node that
\* comes back to the pool of a destroyed map frees that pool.
Poll(n) ==
  /\ n \in later /\ GraceElapsed(n)
  /\ later' = later \ {n} /\ pool' = pool \cup {n}
  /\ PoolIs(pool \cup {n})
  /\ UNCHANGED <<epochVars, ht, lost, lock, op, calls>>

\* jbpf_bpf_hashmap_destroy, after the codelets that use the map are gone, so
\* that its barrier has no section to wait for: the table is freed, and with it the only pointers to the nodes in it.  The pool
\* lives on until all of its nodes are back.
Destroy ==
  /\ hmap = "live" /\ \A t \in Threads : op[t].pc = "idle"
  /\ hmap' = IF pool = Nodes THEN "freed" ELSE "destroyed"
  /\ lost' = lost \cup {ht[k] : k \in Used}
  /\ ht' = [k \in Keys |-> NoNode]
  /\ UNCHANGED <<epochVars, pool, later, lock, op, calls>>

Step(t) ==
  \/ CodeletReturns(t) \/ Busy(t) \/ Size(t) \/ Lookup(t)
  \/ UpdateFull(t) \/ UpdateNoMem(t) \/ UpdateAlloc(t) \/ UpdateSet(t) \/ UpdateSetFails(t)
  \/ Defer(t) \/ Delete(t)
  \/ ClearStarts(t) \/ ClearRemove(t) \/ ClearEnds(t) \/ \E k \in Keys : ClearDefer(t, k)
  \/ DumpCopies(t) \/ DumpEnds(t) \/ \E max \in DumpSizes : Dump(t, max)

HashNext ==
  \/ \E t \in Threads : Step(t) \/ \E fn \in Ops : \E k \in KeyOf(fn) : Call(t, fn, k)
  \/ \E n \in Nodes : Poll(n)
  \/ Destroy

HashSpec == HashInit /\ [][HashNext]_vars

(* ------------------------------ properties ------------------------------ *)

\* A node a lookup has returned stays that key's node until the codelet
\* returns: it does not go back to the pool, from where an update could fill it
\* with another entry, while updates, deletes and the maintenance thread's
\* polls run.  The exception is a node that jbpf_bpf_hashmap_clear has handed
\* over before it takes it out of the table.
HeldNodesLive ==
  \A t \in Threads : op[t].pc = "held" /\ ~op[t].raced => op[t].node \notin pool

InOp == {op[t].node : t \in {u \in Threads : op[u].pc \in {"set", "defer"}}} \ {NoNode}

\* Every node is in exactly one place: the pool, the table, a pending
\* reclamation, or the hands of the update or delete that holds the lock.  The
\* only nodes that are lost are those of updates refused because the map is
\* full, and those in the table of a map that is destroyed.  (While a clear is
\* between its two steps, the entry's node is both in the table and handed
\* over.)
NodesConserved ==
  LET table == {ht[k] : k \in Used} IN
    /\ Nodes = pool \cup table \cup later \cup InOp \cup lost
    /\ Cardinality(Nodes) + Cardinality(table \cap later)
         = Cardinality(pool) + Cardinality(Used) + Cardinality(later) + Cardinality(InOp) + Cardinality(lost)
    /\ (\A t \in Threads : ~At(t, "clear", "remove")) => table \cap later = {}
=============================================================================
