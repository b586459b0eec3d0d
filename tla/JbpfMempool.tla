---------------------------- MODULE JbpfMempool ----------------------------
(***************************************************************************)
(* A memory pool (src/mem_mgmt/jbpf_mempool.c): reference-counted buffers  *)
(* kept in a ring.  Destruction redirects allocations to an empty ring and *)
(* puts one extra element, the marker, into the ring of free buffers.  Who *)
(* then finds that ring full returns the last buffer, and frees the pool.  *)
(*                                                                         *)
(* The functions are calls: a step begins one (the caller conjoins it with *)
(* its own state), further steps of the same thread finish it, and call[t] *)
(* then holds the result.  Ring operations are atomic (ck_ring, external). *)
(***************************************************************************)
EXTENDS Integers, Sequences, FiniteSetsExt

CONSTANTS Threads,     \* threads that use the pool
          NumElems,    \* num_elems: buffers in the pool, and places in the ring
          Marker,      \* ring_marker
          Null

VARIABLES pool,        \* "none", "live" or "freed"
          ring,        \* contents of the ring that buffers are returned to
          ring_alloc,  \* the ring to allocate from: "ring" or "ring_destroy"
          ref_cnt,     \* reference count of each buffer
          call         \* call[t]: t's call to a function of the pool

poolVars == <<pool, ring, ring_alloc, ref_cnt, call>>

Bufs == 1..NumElems
Mbufs == Bufs \cup {Marker}
Returns(r) == [fn |-> "none", arg |-> r]
Returned(t) == call[t].fn = "none"

PoolTypeOK ==
  /\ pool \in {"none", "live", "freed"}
  /\ ring \in Seq(Mbufs) /\ Len(ring) <= NumElems
  /\ ring_alloc \in {"ring", "ring_destroy"}
  /\ ref_cnt \in [Mbufs -> Nat]
  /\ \A t \in Threads : call[t].fn \in {"none", "alloc", "free", "destroy"}

PoolInit ==
  /\ pool = "none"
  /\ ring = <<>>
  /\ ring_alloc = "ring"
  /\ ref_cnt = [b \in Mbufs |-> 0]
  /\ call = [t \in Threads |-> Returns(Null)]

\* jbpf_init_mempool_ctx: every buffer is in the ring.
InitMempool ==
  /\ pool' = "live"
  /\ ring' = [i \in Bufs |-> i]
  /\ UNCHANGED <<ring_alloc, ref_cnt, call>>

\* jbpf_mbuf_alloc: ring_alloc is read, for the indices of the ring ...
MbufAlloc(t) ==
  /\ call' = [call EXCEPT ![t] = [fn |-> "alloc", arg |-> <<ring_alloc>>]]
  /\ UNCHANGED <<pool, ring, ring_alloc, ref_cnt>>

\* ... and again, for its places; ...
MbufAllocBuf(t) ==
  /\ call[t].fn = "alloc" /\ Len(call[t].arg) = 1
  /\ call' = [call EXCEPT ![t].arg = Append(@, ring_alloc)]
  /\ UNCHANGED <<pool, ring, ring_alloc, ref_cnt>>

\* The indices are those of one ring and the places those of the other.
TornAlloc(t) == call[t].fn = "alloc" /\ Len(call[t].arg) = 2 /\ call[t].arg[1] # call[t].arg[2]

\* ... then a buffer is taken from it, or there is none.  What a torn
\* allocation does is undefined; the properties exclude that one starts.
MbufAllocDequeue(t) ==
  /\ call[t].fn = "alloc" /\ Len(call[t].arg) = 2 /\ ~TornAlloc(t)
  /\ IF call[t].arg[1] = "ring" /\ ring # <<>>
       THEN /\ ring' = Tail(ring)
            /\ ref_cnt' = [ref_cnt EXCEPT ![Head(ring)] = 1]
            /\ call' = [call EXCEPT ![t] = Returns(Head(ring))]
       ELSE /\ call' = [call EXCEPT ![t] = Returns(Null)]
            /\ UNCHANGED <<ring, ref_cnt>>
  /\ UNCHANGED <<pool, ring_alloc>>

\* Mutant: the buffer goes back whoever else refers to it.
MbufFreeAlways(t, b) ==
  /\ ref_cnt' = [ref_cnt EXCEPT ![b] = @ - 1]
  /\ call' = [call EXCEPT ![t] = [fn |-> "free", arg |-> b]]
  /\ UNCHANGED <<pool, ring, ring_alloc>>

\* jbpf_mbuf_free: the count is lowered, and the last reference goes on to
\* return the buffer.
MbufFree(t, b) ==
  /\ ref_cnt' = [ref_cnt EXCEPT ![b] = @ - 1]
  /\ call' = [call EXCEPT ![t] = IF ref_cnt[b] = 1 THEN [fn |-> "free", arg |-> b] ELSE Returns(Null)]
  /\ UNCHANGED <<pool, ring, ring_alloc>>

\* An enqueue; when the ring is full, the pool is complete and is freed.
EnqueueOrFree(b) ==
  /\ IF Len(ring) < NumElems
       THEN ring' = Append(ring, b) /\ UNCHANGED pool
       ELSE pool' = "freed" /\ ring' = <<>>
  /\ UNCHANGED <<ring_alloc, ref_cnt>>

MbufFreeEnqueue(t) ==
  /\ call[t].fn = "free"
  /\ EnqueueOrFree(call[t].arg)
  /\ call' = [call EXCEPT ![t] = Returns(Null)]

\* jbpf_mbuf_share_data_ptr, for each buffer of a set.
MbufShare(S) ==
  /\ ref_cnt' = [b \in Mbufs |-> IF b \in S THEN ref_cnt[b] + 1 ELSE ref_cnt[b]]
  /\ UNCHANGED <<pool, ring, ring_alloc, call>>

\* jbpf_destroy_mempool: nobody allocates from here on ...
DestroyMempool(t) ==
  /\ ring_alloc' = "ring_destroy"
  /\ call' = [call EXCEPT ![t] = [fn |-> "destroy", arg |-> Null]]
  /\ UNCHANGED <<pool, ring, ref_cnt>>

\* Mutant: the marker is not put into the ring.
DestroyMempoolNoMarker(t) ==
  /\ call[t].fn = "destroy"
  /\ IF Len(ring) < NumElems
       THEN UNCHANGED <<pool, ring>>
       ELSE pool' = "freed" /\ ring' = <<>>
  /\ UNCHANGED <<ring_alloc, ref_cnt>>
  /\ call' = [call EXCEPT ![t] = Returns(Null)]

\* ... and the marker goes into the ring, or the pool is complete already.
DestroyMempoolMarker(t) ==
  /\ call[t].fn = "destroy"
  /\ EnqueueOrFree(Marker)
  /\ call' = [call EXCEPT ![t] = Returns(Null)]

PoolStep(t) ==
  \/ MbufAllocBuf(t)
  \/ MbufAllocDequeue(t)
  \/ MbufFreeEnqueue(t)
  \/ DestroyMempoolMarker(t)
=============================================================================
