--------------------------- MODULE JbpfIoChannel ---------------------------
(***************************************************************************)
(* One I/O channel of a process in local mode (src/io/jbpf_io_channel.c,   *)
(* src/io/jbpf_io.c): a map of a codelet is a channel.  An output channel  *)
(* is filled by codelets on hooks and emptied by the I/O thread; an input  *)
(* channel is filled by threads of the application and emptied by          *)
(* codelets.  The thread that loads codelets creates and destroys it.      *)
(*                                                                         *)
(* Threads that find the channel in the list of channels are in an epoch   *)
(* section of that list.  Codelets have a pointer to the channel instead:  *)
(* they may use it as long as they may run, and an unload waits for them   *)
(* (that is what HookList promises).                                       *)
(***************************************************************************)
EXTENDS JbpfIoQueue, SequencesExt

CONSTANTS HookThreads,  \* threads that run the codelet
          ListThreads,  \* the I/O thread, or the senders of the application
          Lcm,          \* the thread that loads and unloads
          App,          \* a thread of the application that keeps messages
          Dirs,         \* directions: a subset of {"out", "in"}
          BatchSize,    \* JBPF_IO_BUFS_BATCH_SIZE
          SendersStop   \* TRUE: the application sends nothing during an unload

VARIABLES dir,          \* direction of the channel
          chan,         \* "none", "live" or "freed"
          array,        \* the channel is in out_array (in_array)
          ht,           \* the channel is in out_ht (in_ht)
          loaded,       \* the codelet is on its hook
          pc,           \* where each thread is
          held,         \* held[t]: buffers t has dequeued, in order
          shared,       \* buffers the application holds a reference to
          section, waitFor  \* the epoch of the channel list

INSTANCE Ebr WITH Tickets <- {Lcm}

chanVars == <<chan, array, ht, loaded>>
epochVars == <<section, waitFor>>
vars == <<poolVars, queueVars, dir, chanVars, pc, held, shared, epochVars>>

ASSUME Roles ==
  /\ Threads = HookThreads \cup ListThreads \cup {Lcm, App}
  /\ Dirs \subseteq {"out", "in"}
  /\ BatchSize \in Nat \ {0}

Goto(t, l) == pc' = [pc EXCEPT ![t] = l]

\* The I/O thread and the senders are registered before they do anything.
Init ==
  /\ PoolInit /\ QueueInit /\ EbrInit
  /\ thread_id \in [Threads -> {0} \cup Ids]
  /\ \A t \in Threads : thread_id[t] # 0 <=> t \in ListThreads
  /\ \A t, u \in ListThreads : t # u => thread_id[t] # thread_id[u]
  /\ dir \in Dirs
  /\ chan = "none" /\ array = FALSE /\ ht = FALSE /\ loaded = FALSE
  /\ pc = [t \in Threads |-> "idle"]
  /\ held = [t \in Threads |-> <<>>]
  /\ shared = {}

----------------------------------------------------------------------------
\* Codelets on hooks.

HookEnter(t) ==
  /\ pc[t] = "idle" /\ loaded
  /\ Goto(t, "codelet")
  /\ UNCHANGED <<poolVars, queueVars, dir, chanVars, held, shared, epochVars>>

\* jbpf_get_output_buf
GetOutputBuf(t) ==
  /\ pc[t] = "codelet" /\ dir = "out"
  /\ Reserve(t)
  /\ UNCHANGED <<dir, chanVars, pc, held, shared, epochVars>>

\* jbpf_send_output
SendOutput(t) ==
  /\ pc[t] = "codelet" /\ dir = "out"
  /\ Submit(t)
  /\ UNCHANGED <<dir, chanVars, pc, held, shared, epochVars>>

\* jbpf_control_input_receive: one buffer is dequeued, copied ...
ControlInputReceive(t) ==
  /\ pc[t] = "codelet" /\ dir = "in" /\ Returned(t)
  /\ held[t] = <<>> /\ queue # <<>>
  /\ held' = [held EXCEPT ![t] = <<Head(queue)>>]
  /\ queue' = Tail(queue)
  /\ UNCHANGED <<poolVars, thread_id, alloc_ptr, at, data, relId, dir, chanVars, pc, shared, epochVars>>

\* ... and released.
ReleaseBuf(t) ==
  /\ held[t] # <<>> /\ Returned(t)
  /\ MbufFree(t, Head(held[t]))
  /\ held' = [held EXCEPT ![t] = Tail(@)]
  /\ UNCHANGED <<queueVars, dir, chanVars, pc, shared, epochVars>>

ControlInputRelease(t) == pc[t] = "codelet" /\ ReleaseBuf(t)

\* The codelet returns, with or without having sent what it reserved.
HookLeave(t) ==
  /\ pc[t] = "codelet" /\ QueueReturned(t) /\ held[t] = <<>>
  /\ Goto(t, "idle")
  /\ data' = [data EXCEPT ![t] = Null]
  /\ UNCHANGED <<poolVars, thread_id, alloc_ptr, queue, at, relId, dir, chanVars, held, shared, epochVars>>

\* jbpf_cleanup_thread
CleanupThread(t) ==
  /\ pc[t] = "idle"
  /\ Goto(t, "gone")
  /\ RemoveThread(t)
  /\ UNCHANGED <<dir, chanVars, held, shared, epochVars>>

----------------------------------------------------------------------------
\* The I/O thread, jbpf_io_channel_handle_out_bufs.

HandleOutBufs(t) ==
  /\ pc[t] = "idle" /\ dir = "out"
  /\ EpochBegin(t)
  /\ Goto(t, "scan")
  /\ UNCHANGED <<poolVars, queueVars, dir, chanVars, held, shared>>

\* The entry of the array is tested, and read again.
ScanArray(t) ==
  /\ \/ pc[t] = "scan" /\ Goto(t, IF array THEN "entry" ELSE "leave")
     \/ pc[t] = "entry" /\ Goto(t, IF array THEN "recv" ELSE "leave")
  /\ UNCHANGED <<poolVars, queueVars, dir, chanVars, held, shared, epochVars>>

\* Mutant: only whole batches are taken.
RecvDataWholeBatch(t) ==
  /\ pc[t] = "recv"
  /\ IF Len(held[t]) < BatchSize /\ Len(held[t]) + Len(queue) >= BatchSize
       THEN /\ held' = [held EXCEPT ![t] = Append(@, Head(queue))]
            /\ queue' = Tail(queue)
            /\ UNCHANGED pc
       ELSE /\ Goto(t, IF held[t] = <<>> THEN "leave" ELSE "callback")
            /\ UNCHANGED <<held, queue>>
  /\ UNCHANGED <<poolVars, thread_id, alloc_ptr, at, data, relId, dir, chanVars, shared, epochVars>>

\* jbpf_io_channel_recv_data: a batch, or what there is.
RecvData(t) ==
  /\ pc[t] = "recv"
  /\ IF Len(held[t]) < BatchSize /\ queue # <<>>
       THEN /\ held' = [held EXCEPT ![t] = Append(@, Head(queue))]
            /\ queue' = Tail(queue)
            /\ UNCHANGED pc
       ELSE /\ Goto(t, IF held[t] = <<>> THEN "leave" ELSE "callback")
            /\ UNCHANGED <<held, queue>>
  /\ UNCHANGED <<poolVars, thread_id, alloc_ptr, at, data, relId, dir, chanVars, shared, epochVars>>

\* _jbpf_process_output_data: the application's callback, which may keep
\* buffers by jbpf_io_channel_share_data_ptr ...
OutputCallback(t) ==
  /\ pc[t] = "callback"
  /\ \E S \in SUBSET ToSet(held[t]) : MbufShare(S) /\ shared' = shared \cup S
  /\ Goto(t, "release")
  /\ UNCHANGED <<queueVars, dir, chanVars, held, epochVars>>

\* ... after which the batch is released.
ReleaseBatch(t) == pc[t] = "release" /\ ReleaseBuf(t)

ReleasedBatch(t) ==
  /\ pc[t] = "release" /\ held[t] = <<>> /\ Returned(t)
  /\ Goto(t, "leave")
  /\ UNCHANGED <<poolVars, queueVars, dir, chanVars, held, shared, epochVars>>

ListLeave(t) ==
  /\ pc[t] = "leave" /\ QueueReturned(t)
  /\ EpochEnd(t)
  /\ Goto(t, "idle")
  /\ data' = [data EXCEPT ![t] = Null]
  /\ UNCHANGED <<poolVars, thread_id, alloc_ptr, queue, at, relId, dir, chanVars, held, shared>>

\* The application releases a buffer it kept.
AppRelease(b) ==
  /\ b \in shared /\ Returned(App)
  /\ MbufFree(App, b)
  /\ shared' = shared \ {b}
  /\ UNCHANGED <<queueVars, dir, chanVars, pc, held, epochVars>>

----------------------------------------------------------------------------
\* Senders, jbpf_io_channel_send_msg.

SendMsg(t) ==
  /\ pc[t] = "idle" /\ dir = "in"
  /\ SendersStop => pc[Lcm] \in {"idle", "list", "created", "barrier", "loaded", "done"}
  /\ EpochBegin(t)
  /\ Goto(t, "lookup")
  /\ UNCHANGED <<poolVars, queueVars, dir, chanVars, held, shared>>

LookupChannel(t) ==
  /\ pc[t] = "lookup"
  /\ Goto(t, IF ht THEN "send" ELSE "leave")
  /\ UNCHANGED <<poolVars, queueVars, dir, chanVars, held, shared, epochVars>>

\* jbpf_io_channel_send_data: reserve, copy, submit.
SendReserve(t) ==
  /\ pc[t] = "send"
  /\ Reserve(t)
  /\ Goto(t, "fill")
  /\ UNCHANGED <<dir, chanVars, held, shared, epochVars>>

SendSubmit(t) ==
  /\ pc[t] = "fill"
  /\ IF data[t] = Null
       THEN QueueReturned(t) /\ UNCHANGED <<poolVars, queueVars>>
       ELSE Submit(t)
  /\ Goto(t, "leave")
  /\ UNCHANGED <<dir, chanVars, held, shared, epochVars>>

----------------------------------------------------------------------------
\* Creation and destruction, by the thread that loads codelets.

\* _jbpf_io_create_channel: in a section, the queue is created and the channel
\* entered in the hash table ...
CreateChannel ==
  /\ pc[Lcm] = "idle" /\ chan = "none"
  /\ EpochBegin(Lcm)
  /\ InitMempool
  /\ chan' = "live" /\ ht' = TRUE
  /\ Goto(Lcm, "list")
  /\ UNCHANGED <<queueVars, dir, array, loaded, held, shared>>

\* ... then in the array.  A barrier follows the section.
CreateListed ==
  /\ pc[Lcm] = "list"
  /\ array' = TRUE
  /\ EpochEnd(Lcm)
  /\ Goto(Lcm, "created")
  /\ UNCHANGED <<poolVars, queueVars, dir, chan, ht, loaded, held, shared>>

Barrier ==
  /\ \/ pc[Lcm] = "created" /\ Goto(Lcm, "barrier")
     \/ pc[Lcm] = "unlisted" /\ Goto(Lcm, "grace")
  /\ StartGrace(Lcm)
  /\ UNCHANGED <<poolVars, queueVars, dir, chanVars, held, shared>>

\* The codelet goes on its hook.
LoadCodelet ==
  /\ pc[Lcm] = "barrier" /\ GraceElapsed(Lcm)
  /\ loaded' = TRUE
  /\ Goto(Lcm, "loaded")
  /\ UNCHANGED <<poolVars, queueVars, dir, chan, array, ht, held, shared, epochVars>>

\* An unload is asked for; the codelet is taken off its hook.
UnloadCodelet ==
  /\ pc[Lcm] = "loaded"
  /\ SendersStop /\ dir = "in" => \A t \in ListThreads : pc[t] = "idle"
  /\ loaded' = FALSE
  /\ Goto(Lcm, "unload")
  /\ UNCHANGED <<poolVars, queueVars, dir, chan, array, ht, held, shared, epochVars>>

\* jbpf_io_destroy_channel, once no codelet that uses it runs: what is
\* reserved is released ...
DestroyChannel ==
  /\ pc[Lcm] = "unload"
  /\ \A t \in HookThreads : pc[t] # "codelet"
  /\ ReleaseAll(Lcm)
  /\ Goto(Lcm, "destroy")
  /\ UNCHANGED <<dir, chanVars, held, shared, epochVars>>

\* ... then, in a section, the channel leaves the array and the hash table.
DestroyUnlist ==
  /\ pc[Lcm] = "destroy" /\ QueueReturned(Lcm)
  /\ EpochBegin(Lcm)
  /\ array' = FALSE
  /\ Goto(Lcm, "unlist")
  /\ UNCHANGED <<poolVars, queueVars, dir, chan, ht, loaded, held, shared>>

DestroyUnlisted ==
  /\ pc[Lcm] = "unlist"
  /\ ht' = FALSE
  /\ EpochEnd(Lcm)
  /\ Goto(Lcm, "unlisted")
  /\ UNCHANGED <<poolVars, queueVars, dir, chan, array, loaded, held, shared>>

\* Mutant: the destructor does not wait for a grace period.
DestructorNow ==
  /\ pc[Lcm] = "grace"
  /\ Goto(Lcm, "drain")
  /\ UNCHANGED <<poolVars, queueVars, dir, chanVars, held, shared, epochVars>>

\* After a grace period, io_channel_destructor runs jbpf_io_queue_free: ...
Destructor ==
  /\ pc[Lcm] = "grace" /\ GraceElapsed(Lcm)
  /\ Goto(Lcm, "drain")
  /\ UNCHANGED <<poolVars, queueVars, dir, chanVars, held, shared, epochVars>>

\* ... what is in the queue is released, ...
QueueFreeDequeue ==
  /\ pc[Lcm] = "drain" /\ queue # <<>> /\ held[Lcm] = <<>> /\ Returned(Lcm)
  /\ held' = [held EXCEPT ![Lcm] = <<Head(queue)>>]
  /\ queue' = Tail(queue)
  /\ UNCHANGED <<poolVars, thread_id, alloc_ptr, at, data, relId, dir, chanVars, pc, shared, epochVars>>

QueueFreeRelease == pc[Lcm] = "drain" /\ ReleaseBuf(Lcm)

\* ... the pool destroyed, ...
QueueFreePool ==
  /\ pc[Lcm] = "drain" /\ queue = <<>> /\ held[Lcm] = <<>> /\ Returned(Lcm)
  /\ DestroyMempool(Lcm)
  /\ Goto(Lcm, "free")
  /\ UNCHANGED <<queueVars, dir, chanVars, held, shared, epochVars>>

\* ... and the queue and the channel freed.
FreeChannel ==
  /\ pc[Lcm] = "free" /\ Returned(Lcm)
  /\ chan' = "freed"
  /\ Goto(Lcm, IF dir = "out" THEN "report" ELSE "done")
  /\ UNCHANGED <<poolVars, queueVars, dir, array, ht, loaded, held, shared, epochVars>>

\* After the barrier jbpf_io_destroy_out_channel reads io_channel->stream_id
\* for its last message.
ReportDestroyed ==
  /\ pc[Lcm] = "report"
  /\ Goto(Lcm, "done")
  /\ UNCHANGED <<poolVars, queueVars, dir, chanVars, held, shared, epochVars>>

----------------------------------------------------------------------------
Inside(t) == QueueStep(t) /\ UNCHANGED <<dir, chanVars, pc, held, shared, epochVars>>

CodeletStep(t) ==
  \/ HookEnter(t) \/ GetOutputBuf(t) \/ SendOutput(t)
  \/ ControlInputReceive(t) \/ ControlInputRelease(t)
  \/ HookLeave(t) \/ CleanupThread(t)

\* What a thread in an epoch section of the channel list does next.
ListStep(t) ==
  \/ ScanArray(t) \/ RecvData(t) \/ OutputCallback(t)
  \/ ReleaseBatch(t) \/ ReleasedBatch(t)
  \/ LookupChannel(t) \/ SendReserve(t) \/ SendSubmit(t)
  \/ ListLeave(t)

LcmCreates == CreateChannel \/ CreateListed \/ LoadCodelet \/ UnloadCodelet

LcmDestroys ==
  \/ Barrier \/ DestroyChannel \/ DestroyUnlist \/ DestroyUnlisted \/ Destructor
  \/ QueueFreeDequeue \/ QueueFreeRelease \/ QueueFreePool \/ FreeChannel \/ ReportDestroyed

Next ==
  \/ \E t \in Threads : Inside(t)
  \/ \E t \in HookThreads : CodeletStep(t)
  \/ \E t \in ListThreads : HandleOutBufs(t) \/ SendMsg(t) \/ ListStep(t)
  \/ \E b \in Bufs : AppRelease(b)
  \/ LcmCreates \/ LcmDestroys

Spec == Init /\ [][Next]_vars

\* Threads take the steps of the calls they are in; codelets return; the I/O
\* thread calls jbpf_io_channel_handle_out_bufs for ever; an unload that was
\* asked for goes on; the application releases what it kept.
Fairness ==
  /\ \A t \in Threads : WF_vars(Inside(t))
  /\ \A t \in HookThreads : SF_vars(HookLeave(t)) /\ WF_vars(ControlInputRelease(t))
  /\ \A t \in ListThreads : WF_vars(HandleOutBufs(t)) /\ WF_vars(ListStep(t))
  /\ \A b \in Bufs : SF_vars(AppRelease(b))
  /\ WF_vars(LcmDestroys)

FairSpec == Spec /\ Fairness

----------------------------------------------------------------------------
TypeOK ==
  /\ PoolTypeOK /\ QueueTypeOK /\ EbrTypeOK
  /\ chan \in {"none", "live", "freed"}
  /\ held \in [Threads -> Seq(Bufs)]
  /\ shared \subseteq Bufs

Count(b, s) == Cardinality({i \in DOMAIN s : s[i] = b})

\* A thread between the enqueue of a buffer and forgetting that it reserved it,
\* or between its release and forgetting, no longer counts as its owner.
StillReserved(b) ==
  {i \in Ids : /\ alloc_ptr[i] = b
               /\ ~ \E t \in Threads : at[t] = "submitted" /\ thread_id[t] = i
               /\ ~ (at[Lcm] = "released" /\ relId = i)}

Allocated(b) == {t \in Threads : at[t] = "reserve" /\ call[t] = Returns(b)}

\* The references to a buffer: being reserved, reserved, queued, dequeued, kept.
References(b) ==
  Cardinality(Allocated(b)) + Cardinality(StillReserved(b)) + Count(b, queue)
    + Cardinality({t \in Threads : b \in ToSet(held[t])})
    + Cardinality(shared \cap {b})

\* Places where a buffer without references is: in the ring, or on its way.
FreePlaces(b) == Count(b, ring) + Cardinality({t \in Threads : call[t] = [fn |-> "free", arg |-> b]})

\* While the pool exists every buffer has exactly as many references as its
\* count says, and it is in the ring once if it has none: no buffer is lost, in
\* two queues, or given out twice, by whatever interleaving of jbpf_mbuf_alloc,
\* jbpf_mbuf_free, reserve, enqueue, dequeue and share.
BuffersConserved ==
  pool = "live" => \A b \in Bufs :
    /\ References(b) = ref_cnt[b]
    /\ FreePlaces(b) = IF ref_cnt[b] = 0 THEN 1 ELSE 0

Writers == {t \in Threads : data[t] # Null /\ pc[t] \in {"codelet", "fill"}}

\* What a thread got from a reserve and has not submitted is its own: the
\* buffer is reserved under its id, no other thread was given it, and it is
\* neither queued nor free, so that nobody reads or overwrites what the thread
\* writes.
WriterOwnsBuffer ==
  /\ \A t \in Writers : /\ StillReserved(data[t]) = {thread_id[t]}
                        /\ References(data[t]) = 1 /\ FreePlaces(data[t]) = 0
  /\ \A t, u \in Writers : data[t] = data[u] => t = u

Uses(t) ==
  \/ t \in HookThreads /\ pc[t] = "codelet"
  \/ t \in ListThreads /\ pc[t] \notin {"idle", "scan", "lookup", "leave"}
  \/ t = Lcm /\ pc[t] = "report"

\* The pool is freed only when nobody holds a buffer or is in a call to it, and
\* the channel destroyed only when no codelet runs that points to it and no
\* thread has found it in the list: jbpf_destroy_mempool and jbpf_mbuf_free
\* leave the free to the last one, and the destructor waits for a grace period,
\* so that no allocation sees ring_alloc change either.  The exception is the
\* thread that destroys an output channel, which reads the channel once more
\* after it was freed (jbpf_io_channel.c:446).
NoUseAfterFree ==
  /\ pool = "freed" =>
       /\ \A t \in Threads : Returned(t)
       /\ \A b \in Bufs : References(b) = 0
  /\ chan = "freed" \/ pc[Lcm] \in {"drain", "free"} =>
       \A t \in Threads : Uses(t) => t = Lcm /\ dir = "out"
  /\ \A t \in Threads : call[t].fn = "alloc" => ring_alloc = "ring" /\ ~TornAlloc(t)

\* jbpf_io_queue_create makes room for max_entries messages besides the buffers
\* that threads hold reserved: an allocation can only fail when that many are
\* queued or with their readers.
EntriesUsable ==
  pool = "live" /\ ring = <<>> =>
    Cardinality({b \in Bufs : StillReserved(b) = {} /\ Allocated(b) = {}}) >= MaxEntries

\* Once an unload is asked for, the channel and its pool are freed, whatever
\* was reserved, queued or kept at the time.
PoolFreed == (pc[Lcm] = "unload") ~> (chan = "freed" /\ pool = "freed")

\* A message on an output channel leaves the queue: the I/O thread takes it,
\* or the channel is destroyed.
OutputTaken == \A b \in Bufs : (dir = "out" /\ b \in ToSet(queue)) ~> (b \notin ToSet(queue))
=============================================================================
