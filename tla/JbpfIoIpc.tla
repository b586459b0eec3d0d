----------------------------- MODULE JbpfIoIpc -----------------------------
(***************************************************************************)
(* I/O between processes (src/io/jbpf_io_ipc.c).  The control thread of    *)
(* the primary (dipc_ctrl_thread) serves its sockets and a ring of         *)
(* requests of the primary's own threads.  A secondary registers: it       *)
(* negotiates an address at which both map the shared memory, then asks    *)
(* for channels, which the primary creates in that memory.                 *)
(*                                                                         *)
(* A secondary runs the code of this library, and may die at any time; a   *)
(* secondary that starts again is another member of Secondaries.  A send   *)
(* to a socket whose other end is closed returns -1 (SIGPIPE is ignored).  *)
(***************************************************************************)
EXTENDS Integers, FiniteSetsExt, SequencesExt

CONSTANTS Secondaries, Locals,  \* processes; threads of the primary
          Streams, NULL,
          Dirs,                 \* directions of channels, a subset of {"in", "out"}
          MaxPeers,             \* MAX_NUM_JBPF_IO_IPC_PEERS
          MaxAttempts,          \* MAX_NUM_JBPF_IPC_TRY_ATTEMPTS
          MaxChannels,          \* JBPF_IO_MAX_NUM_CHANNELS, for each direction
          RingSize,             \* room in the ring of local requests
          MayFail               \* TRUE: allocations, mmap and the like may fail

ASSUME IpcConstants ==
  /\ MaxPeers \in Nat \ {0} /\ MaxAttempts \in Nat \ {0}
  /\ MaxChannels \in Nat \ {0} /\ RingSize \in Nat \ {0}
  /\ Dirs \subseteq {"in", "out"} /\ MayFail \in BOOLEAN

Listen == 0                             \* dipc_ctrl_fd
Fds == 1..Cardinality(Secondaries)      \* descriptors accept can return

VARIABLES
  sec,      \* sec[s]: pc, tries, addr, req, held of the secondary s
  open,     \* secondaries whose end of the socket is open
  up, down, \* messages to and from the primary, for each secondary
  backlog,  \* connections not yet accepted
  prim,     \* what the control thread works on, see PrimInit
  ctrl,     \* where the control thread is: pc, fd, left, conn
  ring,     \* local_queue
  loc,      \* loc[t]: pc, req, held of the local thread t
  init      \* what jbpf_io_ipc_init does: "waiting", "returned", "failed"

secVars == <<sec, open, up, down, backlog>>
primVars == <<prim, ctrl>>
locVars == <<ring, loc, init>>
vars == <<secVars, primVars, locVars>>

Channels == [stream : Streams, dir : Dirs, owner : Secondaries \cup Locals]

----------------------------------------------------------------------------
(* The state of the primary, and what its functions do to it.              *)

PrimInit ==
  [peers    |-> [f \in Fds |-> NULL],  \* dipc_peer_list, by descriptor
   sock     |-> [f \in Fds |-> NULL],  \* whose connection a descriptor is
   watched  |-> {},                    \* descriptors epoll watches
   mapped   |-> {},                    \* addresses of shared memory mapped
   linked   |-> {},                    \* names of shared memory, by descriptor
   channels |-> {},                    \* the channel list
   section  |-> 0,                     \* nesting of the list_epoch section
   stuck    |-> FALSE]                 \* waits for its own section to end

\* mmap gives the first address that is not mapped.
Addrs == 1..(MaxAttempts * Cardinality(Secondaries) + 1)
FreeAddr(w) == Min(Addrs \ w.mapped)

Close(w, f) == [w EXCEPT !.sock[f] = NULL, !.watched = @ \ {f}]

\* ck_epoch_barrier: never returns to a thread that is in a section itself.
Barrier(w) == [w EXCEPT !.stuck = w.section > 0]

\* peer_ctx_destructor: only a memory context is released, not what a
\* negotiation has mapped.
PeerCtxDestructor(w, f, c) ==
  IF c.mem THEN [w EXCEPT !.mapped = @ \ {Last(c.maps)}, !.linked = @ \ {f}] ELSE w

\* Mutant: every channel of the list is destroyed.
RemovePeerAllChannels(w, f) ==
  LET c == w.peers[f]
      u == [w EXCEPT !.watched = @ \ {f}, !.peers[f] = NULL, !.channels = {}]
  IN IF c = NULL THEN [w EXCEPT !.watched = @ \ {f}, !.section = @ + 1]
     ELSE IF Barrier(u).stuck THEN Barrier(u)
     ELSE Close(PeerCtxDestructor(u, f, c), f)

\* Mutant: only a peer with a context is taken out of epoll.
RemovePeerStaysWatched(w, f) ==
  LET c == w.peers[f]
      u == [w EXCEPT !.watched = @ \ {f}, !.peers[f] = NULL, !.channels = @ \ c.chans]
  IN IF c = NULL THEN [w EXCEPT !.section = @ + 1]
     ELSE IF Barrier(u).stuck THEN Barrier(u)
     ELSE Close(PeerCtxDestructor(u, f, c), f)

\* jbpf_io_ipc_remove_peer: without a context it returns inside its section.
\* With one, the channels of the peer go, and after a grace period its memory.
RemovePeer(w, f) ==
  LET c == w.peers[f]
      u == [w EXCEPT !.watched = @ \ {f}, !.peers[f] = NULL, !.channels = @ \ c.chans]
  IN IF c = NULL THEN [w EXCEPT !.watched = @ \ {f}, !.section = @ + 1]
     ELSE IF Barrier(u).stuck THEN Barrier(u)
     ELSE Close(PeerCtxDestructor(u, f, c), f)

\* _jbpf_io_create_channel: limit and stream id are tested for the direction.
CanCreate(w, c) ==
  LET same == {d \in w.channels : d.dir = c.dir}
  IN Cardinality(same) < MaxChannels /\ \A d \in same : d.stream # c.stream

----------------------------------------------------------------------------
(* Registration: the outcomes of jbpf_io_ipc_reg_init and                  *)
(* jbpf_io_ipc_reg_neg, each with the response and the result of the call. *)

Outcome(w, status, addr, res) ==
  [prim |-> w, msg |-> [type |-> "REG", status |-> status, addr |-> addr], res |-> res]

NumPeers(w) == Cardinality({f \in Fds : w.peers[f] # NULL})

\* A context for the descriptor, watched, with a first region.  A context that
\* an earlier connection left under the same descriptor is replaced.
NewPeer(w, f) ==
  [w EXCEPT !.peers[f] = [status |-> "NEG_MMAP", attempts |-> 1, maps |-> <<FreeAddr(w)>>,
                          mem |-> FALSE, chans |-> {}],
            !.watched = @ \cup {f},
            !.mapped = @ \cup {FreeAddr(w)},
            !.linked = @ \cup {f}]

\* Refused (no room for the peer, or for its context: the status of the
\* response stays 0, which is REG_INIT); failed, before or after epoll watches
\* the descriptor, or with the region mapped; or a first region.  Left out is a
\* channel table that cannot be made: the destructor then destroys a table that
\* ck_ht_init has not set up.
RegInit(w, f) ==
  LET refused == Outcome(w, "INIT", NULL, -1)
      failed == {w, [w EXCEPT !.watched = @ \cup {f}], [NewPeer(w, f) EXCEPT !.peers = w.peers]}
  IN IF NumPeers(w) >= MaxPeers THEN {refused}
     ELSE {Outcome(Barrier(NewPeer(w, f)), "NEG_MMAP", FreeAddr(w), 1)}
          \cup {o \in {refused} \cup {Outcome(Barrier(u), "FAIL", NULL, -1) : u \in failed} : MayFail}

\* jbpf_free_memory for every region of the peer, names included.
FreeRegions(w, f) ==
  [w EXCEPT !.mapped = @ \ ToSet(w.peers[f].maps), !.linked = @ \ {f}]

\* Mutant: nobody looks whether the heap could be made.
RegNegSuccNoHeap(w, f) ==
  LET c == w.peers[f]
  IN {Outcome([w EXCEPT !.peers[f].status = "SUCC"], "SUCC", Last(c.maps), 1)}

\* The secondary could map the region: the earlier ones are freed and a heap is
\* made in it.  If that fails everything is freed.
RegNegSucc(w, f) ==
  LET c == w.peers[f]
      ok == [w EXCEPT !.peers[f].status = "SUCC", !.peers[f].mem = TRUE,
                      !.mapped = @ \ ToSet(Front(c.maps))]
      noHeap == [FreeRegions(w, f) EXCEPT !.peers[f].status = "SUCC"]
  IN {Outcome(ok, "SUCC", Last(c.maps), 1)}
     \cup (IF MayFail THEN {Outcome(noHeap, "FAIL", Last(c.maps), -1)} ELSE {})

\* Mutant: the region that did not suit is unmapped before the next is mapped.
RegNegFailUnmapsFirst(w, f) ==
  LET c == w.peers[f]
      n == [w EXCEPT !.peers[f].attempts = @ + 1]
      u == [n EXCEPT !.mapped = @ \ {Last(c.maps)}]
      next == [u EXCEPT !.peers[f].maps = Append(@, FreeAddr(u)),
                        !.mapped = @ \cup {FreeAddr(u)}, !.linked = @ \cup {f}]
  IN IF c.attempts + 1 > MaxAttempts THEN {Outcome(FreeRegions(n, f), "FAIL", NULL, -1)}
     ELSE {Outcome(next, "NEG_MMAP", FreeAddr(u), 1)}
          \cup (IF MayFail THEN {Outcome(FreeRegions(n, f), "INIT", NULL, -1)} ELSE {})

\* It could not: another region, while attempts last, the earlier ones staying
\* mapped so that its address is a new one.
RegNegFail(w, f) ==
  LET c == w.peers[f]
      n == [w EXCEPT !.peers[f].attempts = @ + 1]
      next == [n EXCEPT !.peers[f].maps = Append(@, FreeAddr(n)),
                        !.mapped = @ \cup {FreeAddr(n)}, !.linked = @ \cup {f}]
  IN IF c.attempts + 1 > MaxAttempts THEN {Outcome(FreeRegions(n, f), "FAIL", NULL, -1)}
     ELSE {Outcome(next, "NEG_MMAP", FreeAddr(n), 1)}
          \cup (IF MayFail THEN {Outcome(FreeRegions(n, f), "INIT", NULL, -1)} ELSE {})

----------------------------------------------------------------------------
Init ==
  /\ sec = [s \in Secondaries |-> [pc |-> "idle", tries |-> 0, addr |-> NULL,
                                   req |-> NULL, held |-> {}]]
  /\ open = {} /\ backlog = <<>>
  /\ up = [s \in Secondaries |-> <<>>]
  /\ down = [s \in Secondaries |-> <<>>]
  /\ prim = PrimInit
  /\ ctrl = [pc |-> "start", fd |-> Listen, left |-> 0, conn |-> NULL]
  /\ ring = <<>>
  /\ loc = [t \in Locals |-> [pc |-> "idle", req |-> NULL, held |-> {}]]
  /\ init = "waiting"

(* The secondary. *)

\* The primary has closed its end of the connection.
Closed(s) == s \notin ToSet(backlog) /\ \A f \in Fds : prim.sock[f] # s

SecGoto(s, l) == sec' = [sec EXCEPT ![s].pc = l]

\* close and return -1 from jbpf_io_ipc_register.
GiveUp(s) == SecGoto(s, "failed") /\ open' = open \ {s}

\* jbpf_io_ipc_register: connects, possible once the primary listens, ...
Connect(s) ==
  /\ sec[s].pc = "idle" /\ init # "failed"
  /\ SecGoto(s, "connected")
  /\ open' = open \cup {s}
  /\ backlog' = Append(backlog, s)
  /\ UNCHANGED <<up, down, primVars, locVars>>

\* ... asks to be registered, ...
SendReg(s) ==
  /\ sec[s].pc = "connected"
  /\ SecGoto(s, "regWait")
  /\ up' = [up EXCEPT ![s] = Append(@, [type |-> "REG", status |-> "INIT"])]
  /\ UNCHANGED <<open, down, backlog, primVars, locVars>>

\* ... reads the response: a region to map, the end, or a refusal, ...
RecvReg(s) ==
  /\ sec[s].pc \in {"regWait", "negWait"}
  /\ \/ /\ down[s] # <<>>
        /\ down' = [down EXCEPT ![s] = Tail(@)]
        /\ LET m == Head(down[s])
           IN \/ /\ m.status = "NEG_MMAP" /\ sec[s].tries < MaxAttempts
                 /\ sec' = [sec EXCEPT ![s].pc = "attach", ![s].addr = m.addr]
                 /\ UNCHANGED open
              \/ /\ m.status = "SUCC" /\ sec[s].pc = "negWait"
                 /\ SecGoto(s, "registered")
                 /\ UNCHANGED open
              \/ /\ ~ (m.status = "NEG_MMAP" /\ sec[s].tries < MaxAttempts)
                 /\ ~ (m.status = "SUCC" /\ sec[s].pc = "negWait")
                 /\ GiveUp(s)
     \/ /\ down[s] = <<>> /\ Closed(s)
        /\ GiveUp(s)
        /\ UNCHANGED down
  /\ UNCHANGED <<up, backlog, primVars, locVars>>

\* ... and tells whether it could (jbpf_attach_memory), which may take the name
\* of the memory away if it could not.
Attach(s) ==
  /\ sec[s].pc = "attach"
  /\ \E ok \in BOOLEAN :
       /\ sec' = [sec EXCEPT ![s].pc = "negWait", ![s].tries = @ + 1,
                             ![s].addr = IF ok THEN @ ELSE NULL]
       /\ up' = [up EXCEPT ![s] =
                   Append(@, [type |-> "REG", status |-> IF ok THEN "MMAP_SUCC" ELSE "MMAP_FAIL"])]
       /\ \/ UNCHANGED prim
          \/ ~ok /\ prim' = [prim EXCEPT !.linked = @ \ {f \in Fds : prim.sock[f] = s}]
  /\ UNCHANGED <<open, down, backlog, ctrl, locVars>>

\* jbpf_io_ipc_req_create_channel and jbpf_io_ipc_req_find_channel: a request,
\* and the response is waited for.
Ask(s, kind, c) ==
  /\ sec[s].pc = "registered" /\ ~ Closed(s)
  /\ sec' = [sec EXCEPT ![s].pc = "wait", ![s].req = [type |-> kind, ch |-> c]]
  /\ up' = [up EXCEPT ![s] = Append(@, [type |-> kind, ch |-> c])]
  /\ UNCHANGED <<open, down, backlog, primVars, locVars>>

\* A channel is created for this secondary; a search may name any stream.
ReqCreateChannel(s) == \E st \in Streams, d \in Dirs :
  Ask(s, "CREATE", [stream |-> st, dir |-> d, owner |-> s])

ReqFindChannel(s) == \E st \in Streams, d \in Dirs :
  Ask(s, "FIND", [stream |-> st, dir |-> d, owner |-> s])

RecvAnswer(s) ==
  /\ sec[s].pc = "wait"
  /\ \/ /\ down[s] # <<>>
        /\ LET m == Head(down[s])
           IN sec' = [sec EXCEPT ![s].pc = "registered", ![s].req = NULL,
                 ![s].held = IF m.type = "CREATE" /\ m.ch # NULL THEN @ \cup {m.ch} ELSE @]
        /\ down' = [down EXCEPT ![s] = Tail(@)]
     \/ /\ down[s] = <<>> /\ Closed(s)
        /\ sec' = [sec EXCEPT ![s].pc = "registered", ![s].req = NULL]
        /\ UNCHANGED down
  /\ UNCHANGED <<open, up, backlog, primVars, locVars>>

\* jbpf_io_ipc_req_destroy_channel: nothing is waited for.
ReqDestroyChannel(s) ==
  /\ sec[s].pc = "registered" /\ ~ Closed(s)
  /\ \E c \in sec[s].held :
       /\ sec' = [sec EXCEPT ![s].held = @ \ {c}]
       /\ up' = [up EXCEPT ![s] = Append(@, [type |-> "DESTROY", ch |-> c])]
  /\ UNCHANGED <<open, down, backlog, primVars, locVars>>

\* jbpf_io_ipc_deregister: over once the connection breaks.
Deregister(s) ==
  /\ \/ /\ sec[s].pc = "registered" /\ ~ Closed(s)
        /\ SecGoto(s, "deregWait")
        /\ up' = [up EXCEPT ![s] = Append(@, [type |-> "DEREG"])]
     \/ /\ sec[s].pc = "deregWait" /\ Closed(s)
        /\ SecGoto(s, "done")
        /\ UNCHANGED up
  /\ UNCHANGED <<open, down, backlog, primVars, locVars>>

\* The process ends, whatever it was doing.
Die(s) ==
  /\ s \in open
  /\ SecGoto(s, "dead")
  /\ open' = open \ {s}
  /\ UNCHANGED <<up, down, backlog, primVars, locVars>>

----------------------------------------------------------------------------
(* The control thread of the primary. *)

\* jbpf_io_ipc_init: the socket listens, and it waits for the control thread.
InitFails == init = "waiting" /\ ctrl.pc = "start" /\ MayFail /\ open = {}
  /\ init' = "failed"
  /\ UNCHANGED <<secVars, primVars, ring, loc>>

InitReturns ==
  /\ init = "waiting" /\ ctrl.pc \notin {"start", "exited"}
  /\ init' = "returned"
  /\ UNCHANGED <<secVars, primVars, ring, loc>>

\* dipc_ctrl_thread: it needs a memory context for local channels.
CtrlThreadStarts ==
  /\ ctrl.pc = "start" /\ init = "waiting"
  /\ \/ ctrl' = [ctrl EXCEPT !.pc = "poll"]
     \/ MayFail /\ ctrl' = [ctrl EXCEPT !.pc = "exited"]
  /\ UNCHANGED <<secVars, prim, locVars>>

Ready ==
  (IF backlog # <<>> THEN {Listen} ELSE {})
    \cup {f \in prim.watched : up[prim.sock[f]] # <<>> \/ prim.sock[f] \notin open}

\* epoll_wait: the events are the ready descriptors, in any order.  The loop
\* goes round once for each event, with the descriptor of the first.
EpollWait ==
  /\ ctrl.pc = "poll"
  /\ \/ /\ Ready = {}
        /\ ctrl' = [ctrl EXCEPT !.pc = "local"]
     \/ \E f \in Ready :
          ctrl' = [pc |-> "event", fd |-> f, left |-> Cardinality(Ready),
                   conn |-> IF f = Listen THEN NULL ELSE f]
  /\ UNCHANGED <<secVars, prim, locVars>>

\* accept, which waits for a connection.
Accept ==
  /\ ctrl.pc = "event" /\ ctrl.fd = Listen /\ ctrl.conn = NULL /\ backlog # <<>>
  /\ LET f == Min({g \in Fds : prim.sock[g] = NULL})
     IN /\ prim' = [prim EXCEPT !.sock[f] = Head(backlog)]
        /\ ctrl' = [ctrl EXCEPT !.conn = f]
  /\ backlog' = Tail(backlog)
  /\ UNCHANGED <<sec, open, up, down, locVars>>

IsInit == ctrl.fd = Listen

\* The next round of the loop, or the local requests.
EventDone ==
  ctrl' = IF prim'.stuck THEN [ctrl EXCEPT !.pc = "stuck"]
          ELSE IF ctrl.left > 1
            THEN [ctrl EXCEPT !.left = @ - 1, !.conn = IF IsInit THEN NULL ELSE @]
          ELSE [pc |-> "local", fd |-> Listen, left |-> 0, conn |-> NULL]

\* recv_all fails: the other end is closed, or this one since the last round.
PeerDown ==
  /\ ctrl.pc = "event" /\ ctrl.conn # NULL
  /\ LET f == ctrl.conn
     IN /\ prim.sock[f] # NULL => up[prim.sock[f]] = <<>> /\ prim.sock[f] \notin open
        /\ prim' = IF IsInit THEN Close(prim, f)
                   ELSE LET w == RemovePeer(prim, f) IN IF w.stuck THEN w ELSE Close(w, f)
  /\ EventDone
  /\ UNCHANGED <<secVars, locVars>>

\* recv_all returns a message of the secondary s on the descriptor f.
Received(f, s, types) ==
  /\ ctrl.pc = "event" /\ ctrl.conn = f /\ prim.sock[f] = s
  /\ up[s] # <<>> /\ Head(up[s]).type \in types
  /\ up' = [up EXCEPT ![s] = Tail(@)]

Send(s, m) == down' = IF s \in open THEN [down EXCEPT ![s] = Append(@, m)] ELSE down

\* jbpf_io_ipc_handle_reg_req: the response is sent and a peer that failed, or
\* cannot be answered, is removed.
HandleRegReq(f, s) ==
  /\ Received(f, s, {"REG"})
  /\ \E o \in CASE Head(up[s]).status = "INIT"      -> RegInit(prim, f)
                [] Head(up[s]).status = "MMAP_SUCC" -> RegNegSucc(prim, f)
                [] Head(up[s]).status = "MMAP_FAIL" -> RegNegFail(prim, f) :
       IF o.prim.stuck THEN prim' = o.prim /\ UNCHANGED down
       ELSE LET w == IF s \in open THEN o.prim ELSE Close(o.prim, f)
            IN /\ prim' = IF o.res < 0 \/ s \notin open THEN RemovePeer(w, f) ELSE w
               /\ Send(s, o.msg)
  /\ EventDone
  /\ UNCHANGED <<sec, open, backlog, locVars>>

\* jbpf_io_ipc_handle_dereg_req: the response goes to a closed descriptor.
HandleDeregReq(f, s) ==
  /\ Received(f, s, {"DEREG"})
  /\ prim' = LET w == RemovePeer(prim, f) IN IF w.stuck THEN w ELSE Close(w, f)
  /\ EventDone
  /\ UNCHANGED <<sec, open, down, backlog, locVars>>

\* jbpf_io_ipc_handle_ch_create_req: if the response cannot be sent the socket
\* is closed, and the context stays.
HandleChCreateReq(f, s) ==
  /\ Received(f, s, {"CREATE"})
  /\ LET c == Head(up[s]).ch
         w == [prim EXCEPT !.channels = @ \cup {c}, !.peers[f].chans = @ \cup {c}]
         Sent(u) == IF s \in open THEN u ELSE Close(u, f)
     IN \/ /\ prim.peers[f] # NULL /\ CanCreate(prim, c)
           /\ prim' = Sent(w)
           /\ Send(s, [type |-> "CREATE", ch |-> c])
        \/ /\ prim.peers[f] # NULL /\ CanCreate(prim, c) => MayFail
           /\ prim' = Sent(prim)
           /\ Send(s, [type |-> "CREATE", ch |-> NULL])
  /\ EventDone
  /\ UNCHANGED <<sec, open, backlog, locVars>>

\* Mutant: the search is in the channel list of the primary.
HandleChFindReqAnywhere(f, s) ==
  /\ Received(f, s, {"FIND"})
  /\ LET c == Head(up[s]).ch
         found == {d \in prim.channels : d.stream = c.stream /\ d.dir = c.dir}
     IN /\ Send(s, [type |-> "FIND", ch |-> IF found = {} THEN NULL ELSE CHOOSE d \in found : TRUE])
        /\ prim' = IF s \in open THEN prim ELSE Close(prim, f)
  /\ EventDone
  /\ UNCHANGED <<sec, open, backlog, locVars>>

\* jbpf_io_ipc_handle_ch_find_req: only the peer's own channels are searched.
HandleChFindReq(f, s) ==
  /\ Received(f, s, {"FIND"})
  /\ LET c == Head(up[s]).ch
         found == {d \in prim.peers[f].chans : d.stream = c.stream /\ d.dir = c.dir}
     IN /\ Send(s, [type |-> "FIND", ch |-> IF found = {} THEN NULL ELSE CHOOSE d \in found : TRUE])
        /\ prim' = IF s \in open THEN prim ELSE Close(prim, f)
  /\ EventDone
  /\ UNCHANGED <<sec, open, backlog, locVars>>

\* jbpf_io_ipc_handle_ch_destroy
HandleChDestroy(f, s) ==
  /\ Received(f, s, {"DESTROY"})
  /\ prim' = IF prim.peers[f] = NULL THEN prim
             ELSE [prim EXCEPT !.channels = @ \ {Head(up[s]).ch},
                               !.peers[f].chans = @ \ {Head(up[s]).ch}]
  /\ EventDone
  /\ UNCHANGED <<sec, open, down, backlog, locVars>>

\* jbpf_io_ipc_handle_local_msg for the requests in the ring, until it is empty.
HandleLocalMsg ==
  /\ ctrl.pc = "local" /\ ring # <<>>
  /\ LET t == Head(ring)
         c == loc[t].req.ch
         Answer(held) == loc' = [loc EXCEPT ![t] = [pc |-> "idle", req |-> NULL, held |-> held]]
     IN \/ /\ loc[t].req.type = "CREATE" /\ CanCreate(prim, c)
           /\ prim' = [prim EXCEPT !.channels = @ \cup {c}]
           /\ Answer(loc[t].held \cup {c})
        \/ /\ loc[t].req.type = "CREATE" /\ (CanCreate(prim, c) => MayFail)
           /\ Answer(loc[t].held)
           /\ UNCHANGED prim
        \/ /\ loc[t].req.type = "DESTROY"
           /\ prim' = [prim EXCEPT !.channels = @ \ {c}]
           /\ Answer(loc[t].held \ {c})
  /\ ring' = Tail(ring)
  /\ UNCHANGED <<secVars, ctrl, init>>

LocalDone ==
  /\ ctrl.pc = "local" /\ ring = <<>>
  /\ ctrl' = [ctrl EXCEPT !.pc = "poll"]
  /\ UNCHANGED <<secVars, prim, locVars>>

----------------------------------------------------------------------------
(* Other threads of the primary: jbpf_io_ipc_local_req_create_channel and  *)
(* jbpf_io_ipc_local_req_destroy_channel.  A full ring is tried again.     *)

LocalReq(t) ==
  /\ init = "returned" /\ loc[t].pc = "idle" /\ Len(ring) < RingSize
  /\ \/ \E st \in Streams, d \in Dirs :
          loc' = [loc EXCEPT ![t].pc = "wait",
                    ![t].req = [type |-> "CREATE", ch |-> [stream |-> st, dir |-> d, owner |-> t]]]
     \/ \E c \in loc[t].held :
          loc' = [loc EXCEPT ![t].pc = "wait", ![t].req = [type |-> "DESTROY", ch |-> c]]
  /\ ring' = Append(ring, t)
  /\ UNCHANGED <<secVars, primVars, init>>

----------------------------------------------------------------------------
CtrlStep ==
  \/ CtrlThreadStarts \/ EpollWait \/ Accept \/ PeerDown \/ HandleLocalMsg \/ LocalDone
  \/ \E f \in Fds, s \in Secondaries :
       \/ HandleRegReq(f, s) \/ HandleDeregReq(f, s) \/ HandleChCreateReq(f, s)
       \/ HandleChFindReq(f, s) \/ HandleChDestroy(f, s)

\* What a secondary goes on with by itself.
SecStep(s) == SendReg(s) \/ RecvReg(s) \/ Attach(s) \/ RecvAnswer(s)

SecApp(s) ==
  \/ Connect(s) \/ ReqCreateChannel(s) \/ ReqFindChannel(s) \/ ReqDestroyChannel(s)
  \/ Deregister(s) \/ Die(s)

Next ==
  \/ CtrlStep \/ InitFails \/ InitReturns
  \/ \E s \in Secondaries : SecStep(s) \/ SecApp(s)
  \/ \E t \in Locals : LocalReq(t)

Spec == Init /\ [][Next]_vars

----------------------------------------------------------------------------
TypeOK ==
  /\ open \subseteq Secondaries
  /\ prim.sock \in [Fds -> Secondaries \cup {NULL}]
  /\ prim.watched \subseteq Fds /\ prim.linked \subseteq Fds
  /\ prim.mapped \subseteq Addrs /\ prim.channels \subseteq Channels
  /\ prim.section \in Nat
  /\ init \in {"waiting", "returned", "failed"}

\* A connection that epoll watches has a context, and each such connection is
\* open: assert(peer_ctx) in jbpf_io_ipc_reg_neg, and the use of peer_ctx in
\* jbpf_io_ipc_handle_ch_find_req, never meet a missing context.
WatchedHasContext == ~ prim.stuck =>
  \A f \in prim.watched : prim.peers[f] # NULL /\ prim.sock[f] # NULL

\* A secondary that was told that it is registered and is connected agrees with
\* the primary: the primary has its context, with a heap, in the memory that
\* the secondary has mapped, at the same address.
RegistrationAgreed == \A s \in open :
  sec[s].pc \in {"registered", "wait"} /\ ~ prim.stuck =>
    \E f \in Fds : /\ prim.sock[f] = s
                   /\ prim.peers[f].status = "SUCC" /\ prim.peers[f].mem
                   /\ Last(prim.peers[f].maps) = sec[s].addr
                   /\ sec[s].addr \in prim.mapped /\ f \in prim.linked

RegionsInUse(c) == IF c.mem THEN {Last(c.maps)} ELSE ToSet(c.maps)

\* The regions of a negotiation have different addresses, as the comment at
\* jbpf_io_ipc.c:1025 wants (an address the secondary could not map is not
\* offered to it again); no other peer has one of them, and each stays mapped
\* until the negotiation, or the use of the memory, is over.
RegionsOwned == ~ prim.stuck => \A f \in Fds :
  LET c == prim.peers[f]
  IN c # NULL => /\ IsInjective(c.maps)
                 /\ RegionsInUse(c) \subseteq prim.mapped
                 /\ \A g \in Fds \ {f} :
                      prim.peers[g] # NULL => RegionsInUse(c) \cap RegionsInUse(prim.peers[g]) = {}

\* A channel that a connected secondary, or a thread of the primary, has and has
\* not asked to destroy is in the channel list.
HeldChannelsExist ==
  /\ \A s \in open : sec[s].pc \in {"registered", "wait"} /\ ~prim.stuck =>
       sec[s].held \subseteq prim.channels
  /\ \A t \in Locals : loc[t].held \subseteq prim.channels

\* A search finds the channels that the secondary created and has not destroyed,
\* and no others (jbpf_io_ipc_test.c): neither those of other processes nor its
\* own after it asked for their destruction.
FindIsExact == \A s \in open :
  down[s] # <<>> /\ Head(down[s]).type = "FIND" =>
    LET c == sec[s].req.ch
    IN Head(down[s]).ch = IF c \in sec[s].held THEN c ELSE NULL
=============================================================================
