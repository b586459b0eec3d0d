---------------------------- MODULE JbpfIoQueue ----------------------------
(***************************************************************************)
(* The queue of an I/O channel (src/io/jbpf_io_queue.c) over its memory    *)
(* pool, and the thread ids of src/io/jbpf_io_thread_mgmt.c that index the *)
(* buffers reserved: alloc_ptr[i] is the buffer that the thread with id i  *)
(* has reserved and not yet submitted.                                     *)
(***************************************************************************)
EXTENDS JbpfMempool

CONSTANTS MaxEntries,  \* max_entries of the queue
          NumIds       \* JBPF_IO_MAX_NUM_THREADS

VARIABLES thread_id,   \* jbpf_io_thread_id of each thread, 0 for none (-1 in the code)
          alloc_ptr,   \* buffers reserved, by thread id
          queue,       \* buffers submitted
          at,          \* at[t]: where t is in a function of the queue
          data,        \* data[t]: the buffer a reserve gave to t, to be filled
          relId        \* the index of the loop in jbpf_io_queue_release_all

queueVars == <<thread_id, alloc_ptr, queue, at, data, relId>>

Ids == 1..NumIds
QueueReturned(t) == at[t] = "none" /\ Returned(t)

RoundUpPow2(n) == Min({p \in {2 ^ k : k \in 0..n} : p >= n})

\* Mutant: no room for the buffers that threads hold reserved.
QueueElemsForEntries == RoundUpPow2(MaxEntries + 1) - 1

\* jbpf_io_queue_create: the entries asked for and one for each thread, rounded
\* up to what a ring can hold.
QueueElems == RoundUpPow2(MaxEntries + NumIds + 1) - 1

QueueTypeOK ==
  /\ thread_id \in [Threads -> {0} \cup Ids]
  /\ alloc_ptr \in [Ids -> Mbufs \cup {Null}]
  /\ queue \in Seq(Bufs) /\ Len(queue) <= NumElems
  /\ at \in [Threads -> {"none", "reserve", "submit", "submitted", "releaseAll", "released"}]
  /\ data \in [Threads -> Mbufs \cup {Null}]
  /\ relId \in 1..NumIds + 1

QueueInit ==
  /\ alloc_ptr = [i \in Ids |-> Null]
  /\ queue = <<>>
  /\ at = [t \in Threads |-> "none"]
  /\ data = [t \in Threads |-> Null]
  /\ relId = 1

FreeIds == Ids \ {thread_id[t] : t \in Threads}

\* Mutant: the bit is not tested.
IdForUntested(t) == IF thread_id[t] # 0 THEN thread_id[t] ELSE 1

\* jbpf_io_register_thread: the first id whose bit is clear.
IdFor(t) ==
  IF thread_id[t] # 0 THEN thread_id[t]
  ELSE IF FreeIds # {} THEN Min(FreeIds) ELSE 0

\* jbpf_io_remove_thread: the id is given back, and what is reserved under it
\* stays reserved.
RemoveThread(t) ==
  /\ thread_id' = [thread_id EXCEPT ![t] = 0]
  /\ UNCHANGED <<alloc_ptr, queue, at, data, relId, poolVars>>

\* jbpf_io_queue_reserve.  A thread without an id gets no buffer; one that has
\* a buffer gets the same again; otherwise one is allocated.
Reserve(t) ==
  LET i == IdFor(t)
  IN  /\ QueueReturned(t)
      /\ thread_id' = [thread_id EXCEPT ![t] = i]
      /\ \/ /\ i = 0
            /\ data' = [data EXCEPT ![t] = Null]
            /\ UNCHANGED <<poolVars, at>>
         \/ /\ i # 0 /\ alloc_ptr[i] # Null
            /\ data' = [data EXCEPT ![t] = alloc_ptr[i]]
            /\ UNCHANGED <<poolVars, at>>
         \/ /\ i # 0 /\ alloc_ptr[i] = Null
            /\ MbufAlloc(t)
            /\ at' = [at EXCEPT ![t] = "reserve"]
            /\ UNCHANGED data
      /\ UNCHANGED <<alloc_ptr, queue, relId>>

ReserveStore(t) ==
  /\ at[t] = "reserve" /\ Returned(t)
  /\ alloc_ptr' = [alloc_ptr EXCEPT ![thread_id[t]] = call[t].arg]
  /\ data' = [data EXCEPT ![t] = call[t].arg]
  /\ at' = [at EXCEPT ![t] = "none"]
  /\ call' = [call EXCEPT ![t] = Returns(Null)]
  /\ UNCHANGED <<pool, ring, ring_alloc, ref_cnt, thread_id, queue, relId>>

\* jbpf_io_queue_enqueue: fails for a thread that has nothing reserved ...
Submit(t) ==
  LET i == thread_id[t]
  IN  /\ QueueReturned(t)
      /\ at' = [at EXCEPT ![t] = IF i # 0 /\ alloc_ptr[i] # Null THEN "submit" ELSE "none"]
      /\ data' = [data EXCEPT ![t] = IF i # 0 THEN alloc_ptr[i] ELSE Null]
      /\ UNCHANGED <<poolVars, thread_id, alloc_ptr, queue, relId>>

\* ... or when the queue is full, in which case the buffer stays reserved ...
SubmitEnqueue(t) ==
  /\ at[t] = "submit"
  /\ IF Len(queue) < NumElems
       THEN queue' = Append(queue, data[t]) /\ at' = [at EXCEPT ![t] = "submitted"]
       ELSE at' = [at EXCEPT ![t] = "none"] /\ UNCHANGED queue
  /\ data' = [data EXCEPT ![t] = Null]
  /\ UNCHANGED <<poolVars, thread_id, alloc_ptr, relId>>

\* ... and otherwise it is no longer reserved.
Submitted(t) ==
  /\ at[t] = "submitted"
  /\ alloc_ptr' = [alloc_ptr EXCEPT ![thread_id[t]] = Null]
  /\ at' = [at EXCEPT ![t] = "none"]
  /\ UNCHANGED <<poolVars, thread_id, queue, data, relId>>

\* jbpf_io_queue_release_all: each reserved buffer is freed and forgotten.
ReleaseAll(t) ==
  /\ QueueReturned(t)
  /\ at' = [at EXCEPT ![t] = "releaseAll"]
  /\ relId' = 1
  /\ UNCHANGED <<poolVars, thread_id, alloc_ptr, queue, data>>

ReleaseNext(t) ==
  /\ at[t] = "releaseAll"
  /\ IF relId > NumIds
       THEN at' = [at EXCEPT ![t] = "none"] /\ UNCHANGED <<poolVars, relId>>
       ELSE IF alloc_ptr[relId] = Null
         THEN relId' = relId + 1 /\ UNCHANGED <<poolVars, at>>
         ELSE /\ MbufFree(t, alloc_ptr[relId])
              /\ at' = [at EXCEPT ![t] = "released"]
              /\ UNCHANGED relId
  /\ UNCHANGED <<thread_id, alloc_ptr, queue, data>>

ReleaseForget(t) ==
  /\ at[t] = "released" /\ Returned(t)
  /\ alloc_ptr' = [alloc_ptr EXCEPT ![relId] = Null]
  /\ relId' = relId + 1
  /\ at' = [at EXCEPT ![t] = "releaseAll"]
  /\ UNCHANGED <<poolVars, thread_id, queue, data>>

QueueStep(t) ==
  \/ ReserveStore(t)
  \/ SubmitEnqueue(t)
  \/ Submitted(t)
  \/ ReleaseNext(t)
  \/ ReleaseForget(t)
  \/ PoolStep(t) /\ UNCHANGED queueVars
=============================================================================
