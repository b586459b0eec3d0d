-------------------------- MODULE JbpfLifecycle --------------------------
(***************************************************************************)
(* Start and stop of jbpf in a process (core/jbpf.c: jbpf_init, jbpf_stop, *)
(* the agent, I/O and maintenance threads and the semaphores and flags     *)
(* they meet at) with the server for load and unload requests              *)
(* (lcm/jbpf_lcm_ipc.c) and its clients.                                   *)
(*                                                                         *)
(* "main" is the application thread that calls jbpf_init and jbpf_stop;    *)
(* Workers are its other threads, which register, call hooks and clean up  *)
(* between the two calls.  A load or an unload is one step here; module    *)
(* JbpfLcm has their detail, JbpfHook that of the hooks.                   *)
(***************************************************************************)
EXTENDS ThreadIds, Sequences, FiniteSets

CONSTANTS Workers, Clients,
          Sets,        \* codeletset ids
          NULL,
          Asks,        \* the request of each client
          Configs,     \* configurations: io_type = JBPF_IO_THREAD_CONFIG, has_lcm_ipc_thread,
                       \* and the descriptors the server may have open
          MayFail      \* system calls and clients may fail

VARIABLES conf,        \* the configuration
          pc,          \* where each thread is
          ret,         \* ret of start_jbpf_interfaces is 0
          sem,         \* jio_thread_sem, jmaintenance_thread_sem, jagent_thread_sem
          flag,        \* jbpf_io_run, jbpf_maintenance_run, is_running of the server
          up,          \* what has been initialised and not destroyed
          loaded,      \* the codeletsets in the registry
          todo,        \* the ids jbpf_remove_all_codeletsets has collected
          client,      \* the clients of the server
          backlog,     \* connections that wait for accept
          serv         \* the server's client_fd, req_msg, and number of open descriptors

lifeVars == <<conf, pc, ret, sem, flag, up, loaded, todo, client, backlog, serv>>
vars == <<bits, th, conf, pc, ret, sem, flag, up, loaded, todo, client, backlog, serv>>

Internal == {"io", "maint", "agent"}
ASSUME LifeConstants ==
  /\ Procs = {"main"} \cup Internal \cup Workers
  /\ Configs \subseteq [ioThread : BOOLEAN, server : BOOLEAN, fds : Nat]
  /\ Asks \in [Clients -> {"load", "unload"} \X Sets]

Requests == {"load", "unload"} \X Sets
Resources == {"memory", "io", "perf", "ids", "server"}

Init ==
  /\ IdInit
  /\ conf \in Configs
  /\ pc = [t \in Procs |-> IF t = "main" THEN "off" ELSE "none"]
  /\ ret = TRUE
  /\ sem = [t \in Internal |-> 0]
  /\ flag = [t \in Internal |-> FALSE]
  /\ up = {} /\ loaded = {} /\ todo = {}
  /\ client = [c \in Clients |-> [pc |-> "idle", req |-> NULL, ans |-> NULL]]
  /\ backlog = <<>>
  /\ serv = [fd |-> NULL, req |-> NULL, fds |-> 0]

Goto(t, l) == pc' = [pc EXCEPT ![t] = l]

(* ------------------------------ threads --------------------------------- *)

\* A thread starts and calls jbpf_register_thread.  The maintenance thread
\* sets jbpf_maintenance_run before it does.
Register(t) ==
  /\ pc[t] = "start"
  /\ Goto(t, "registering")
  /\ RegisterThread(t)
  /\ flag' = IF t = "maint" THEN [flag EXCEPT !["maint"] = TRUE] ELSE flag
  /\ UNCHANGED <<conf, ret, sem, up, loaded, todo, client, backlog, serv>>

Scan(t) ==
  /\ ReadWord(t) \/ SwapWord(t)
  /\ UNCHANGED lifeVars

RegisterDone(t) == pc[t] = "registering" /\ th[t].pc = "idle"

\* init_maintenance_thread, called by t: a new semaphore, pthread_create; a
\* failure ends the process.  t then waits for the semaphore.
InitMaintenanceThread(t) ==
  \/ /\ sem' = [sem EXCEPT !["maint"] = 0]
     /\ pc' = [pc EXCEPT ![t] = "waitMaint", !["maint"] = "start"]
  \/ /\ MayFail
     /\ pc' = [u \in Procs |-> "exit"]
     /\ UNCHANGED sem

\* Mutant: the semaphore is posted without the thread being registered.
MaintStartsEarly ==
  /\ pc["maint"] = "registering"
  /\ sem' = [sem EXCEPT !["maint"] = @ + 1]
  /\ Goto("maint", "loop")
  /\ UNCHANGED <<conf, ret, bits, th, flag, up, loaded, todo, client, backlog, serv>>

\* jbpf_maintenance_thread_start up to its loop.
MaintStarts ==
  /\ RegisterDone("maint")
  /\ sem' = [sem EXCEPT !["maint"] = @ + 1]
  /\ Goto("maint", "loop")
  /\ UNCHANGED <<conf, ret, bits, th, flag, up, loaded, todo, client, backlog, serv>>

\* The loop is left when the flag is found clear: jbpf_cleanup_thread,
\* sem_destroy.  (A round of the loop reports the performance data, module
\* JbpfPerf, and polls the epoch records, module JbpfHook.)
MaintEnds ==
  /\ pc["maint"] = "loop" /\ ~ flag["maint"]
  /\ CleanupThread("maint")
  /\ Goto("maint", "gone")
  /\ UNCHANGED <<conf, ret, sem, flag, up, loaded, todo, client, backlog, serv>>

\* jbpf_io_thread_start: register, jbpf_io_run = true, start the maintenance
\* thread.
IoStarts ==
  /\ RegisterDone("io")
  /\ InitMaintenanceThread("io")
  /\ flag' = [flag EXCEPT !["io"] = TRUE]
  /\ UNCHANGED <<conf, ret, bits, th, up, loaded, todo, client, backlog, serv>>

\* Mutant: jio_thread_sem is not posted.
IoReadyNoPost ==
  /\ pc["io"] = "waitMaint" /\ sem["maint"] > 0
  /\ sem' = [sem EXCEPT !["maint"] = @ - 1]
  /\ Goto("io", "loop")
  /\ UNCHANGED <<conf, ret, bits, th, flag, up, loaded, todo, client, backlog, serv>>

\* The wait of init_maintenance_thread is over; sem_post(&jio_thread_sem).
IoReady ==
  /\ pc["io"] = "waitMaint" /\ sem["maint"] > 0
  /\ sem' = [sem EXCEPT !["maint"] = @ - 1, !["io"] = @ + 1]
  /\ Goto("io", "loop")
  /\ UNCHANGED <<conf, ret, bits, th, flag, up, loaded, todo, client, backlog, serv>>

\* Mutant: the maintenance thread is not joined.
IoEndsNoJoin ==
  /\ pc["io"] = "loop" /\ ~ flag["io"]
  /\ CleanupThread("io")
  /\ flag' = [flag EXCEPT !["maint"] = FALSE]
  /\ Goto("io", "gone")
  /\ UNCHANGED <<conf, ret, sem, up, loaded, todo, client, backlog, serv>>

\* Mutant: jbpf_maintenance_run stays set.
IoEndsMaintRuns ==
  /\ pc["io"] = "loop" /\ ~ flag["io"]
  /\ CleanupThread("io")
  /\ Goto("io", "joinMaint")
  /\ UNCHANGED <<conf, ret, sem, flag, up, loaded, todo, client, backlog, serv>>

\* The loop over the output buffers ends: jbpf_cleanup_thread, then
\* jbpf_maintenance_run = false.
IoEnds ==
  /\ pc["io"] = "loop" /\ ~ flag["io"]
  /\ CleanupThread("io")
  /\ flag' = [flag EXCEPT !["maint"] = FALSE]
  /\ Goto("io", "joinMaint")
  /\ UNCHANGED <<conf, ret, sem, up, loaded, todo, client, backlog, serv>>

IoJoins ==
  /\ pc["io"] = "joinMaint" /\ pc["maint"] = "gone"
  /\ Goto("io", "gone")
  /\ UNCHANGED <<conf, ret, bits, th, sem, flag, up, loaded, todo, client, backlog, serv>>

(* --------------------- the server and its clients ----------------------- *)

\* jbpf_agent_thread_start: register, jbpf_lcm_ipc_server_init.  On success the
\* semaphore is posted before the server is started; on failure the thread
\* leaves without posting it.
AgentStarts ==
  /\ RegisterDone("agent")
  /\ \/ /\ up' = up \cup {"server"}
        /\ sem' = [sem EXCEPT !["agent"] = @ + 1]
        /\ Goto("agent", "serverStart")
        /\ UNCHANGED <<bits, th>>
     \/ /\ MayFail
        /\ CleanupThread("agent")
        /\ Goto("agent", "gone")
        /\ UNCHANGED <<sem, up>>
  /\ UNCHANGED <<conf, ret, flag, loaded, todo, client, backlog, serv>>

\* jbpf_lcm_ipc_server_start sets is_running, whatever it was.
ServerStart ==
  /\ pc["agent"] = "serverStart"
  /\ flag' = [flag EXCEPT !["agent"] = TRUE]
  /\ Goto("agent", "loop")
  /\ UNCHANGED <<conf, ret, bits, th, sem, up, loaded, todo, client, backlog, serv>>

\* The loop is left, and the thread ends, when is_running is found clear.
ServerEnds ==
  /\ pc["agent"] = "loop" /\ ~ flag["agent"]
  /\ CleanupThread("agent")
  /\ Goto("agent", "gone")
  /\ UNCHANGED <<conf, ret, sem, flag, up, loaded, todo, client, backlog, serv>>

\* The same when select fails.
SelectFails ==
  /\ MayFail
  /\ pc["agent"] = "loop" /\ flag["agent"]
  /\ CleanupThread("agent")
  /\ Goto("agent", "gone")
  /\ UNCHANGED <<conf, ret, sem, flag, up, loaded, todo, client, backlog, serv>>

\* is_running is found set, select reports a connection, accept.  When no
\* descriptor is left accept fails, the connection stays in the backlog, and
\* the loop goes on with client_fd = -1 (NULL).
Accept ==
  /\ pc["agent"] = "loop" /\ flag["agent"] /\ backlog # <<>>
  /\ Goto("agent", "serve")
  /\ IF serv.fds < conf.fds
     THEN /\ serv' = [serv EXCEPT !.fd = Head(backlog), !.fds = @ + 1]
          /\ backlog' = Tail(backlog)
     ELSE serv' = [serv EXCEPT !.fd = NULL] /\ UNCHANGED backlog
  /\ UNCHANGED <<conf, ret, bits, th, sem, flag, up, loaded, todo, client>>

\* Whether the load or unload r succeeds, and the registry after it.  A set
\* that is loaded already is only confirmed.  The zeroed message of a server
\* that has received none asks to load a set without a name.
Outcomes(r) ==
  IF r = NULL THEN {<<FALSE, loaded>>}
  ELSE IF r[1] = "unload" THEN {<<r[2] \in loaded, loaded \ {r[2]}>>}
  ELSE {<<TRUE, loaded \cup {r[2]}>>}
       \cup IF MayFail /\ r[2] \notin loaded THEN {<<FALSE, loaded>>} ELSE {}

\* What has become of the client of client_fd.
Peer == IF serv.fd = NULL THEN "none" ELSE client[serv.fd].pc

\* Mutant: the descriptor is closed before the answer is sent.
ServeNoAnswer ==
  /\ pc["agent"] = "serve"
  /\ Peer # "connected"
  /\ LET received == Peer \in {"sent", "diedSent"}
         r == IF received THEN client[serv.fd].req ELSE serv.req
     IN \E o \in Outcomes(r) :
          /\ loaded' = o[2]
          /\ serv' = [fd |-> NULL, req |-> r, fds |-> serv.fds - 1]
          /\ UNCHANGED client
  /\ Goto("agent", "loop")
  /\ UNCHANGED <<conf, ret, bits, th, sem, flag, up, todo, backlog>>

\* The request is received, carried out and answered.  When it cannot be
\* received the loop only logs that, and req_msg still holds the request
\* before it.  The descriptor is closed only if the answer cannot be sent.
Serve ==
  /\ pc["agent"] = "serve"
  /\ Peer # "connected"
  /\ LET received == Peer \in {"sent", "diedSent"}
         r == IF received THEN client[serv.fd].req ELSE serv.req
     IN \E o \in Outcomes(r) :
          /\ loaded' = o[2]
          /\ serv' = [fd |-> NULL, req |-> r,
                      fds |-> IF Peer \in {"none", "sent"} THEN serv.fds ELSE serv.fds - 1]
          /\ client' = IF Peer = "sent"
                       THEN [client EXCEPT ![serv.fd].pc = "done", ![serv.fd].ans = o[1]]
                       ELSE client
  /\ Goto("agent", "loop")
  /\ UNCHANGED <<conf, ret, bits, th, sem, flag, up, todo, backlog>>

\* jbpf_lcm_ipc_send_req connects; without a listening socket it fails.
Connect(c) ==
  /\ client[c].pc = "idle"
  /\ IF "server" \in up
     THEN /\ client' = [client EXCEPT ![c].pc = "connected", ![c].req = Asks[c]]
          /\ backlog' = Append(backlog, c)
     ELSE /\ client' = [client EXCEPT ![c] = [pc |-> "done", req |-> Asks[c], ans |-> FALSE]]
          /\ UNCHANGED backlog
  /\ UNCHANGED <<conf, ret, bits, th, pc, sem, flag, up, loaded, todo, serv>>

\* It sends the request, and waits for the answer.
Send(c) ==
  /\ client[c].pc = "connected"
  /\ client' = [client EXCEPT ![c].pc = "sent"]
  /\ UNCHANGED <<conf, ret, bits, th, pc, sem, flag, up, loaded, todo, backlog, serv>>

\* A client dies before or after its request is sent.
Die(c) ==
  /\ MayFail
  /\ client[c].pc \in {"connected", "sent"}
  /\ client' = [client EXCEPT ![c].pc = IF @ = "sent" THEN "diedSent" ELSE "died"]
  /\ UNCHANGED <<conf, ret, bits, th, pc, sem, flag, up, loaded, todo, backlog, serv>>

(* ------------------------ jbpf_init, jbpf_stop -------------------------- *)

\* jbpf_init up to start_jbpf_interfaces.  When the run directory cannot be
\* made, there are too many hooks or the I/O library fails, what was set up
\* is destroyed again and an error returned.
InitBase ==
  /\ pc["main"] = "off"
  /\ \/ /\ up' = {"memory", "io", "perf", "ids"}
        /\ Goto("main", "startFirst")
     \/ MayFail /\ Goto("main", "failed") /\ UNCHANGED up
  /\ UNCHANGED <<conf, ret, bits, th, sem, flag, loaded, todo, client, backlog, serv>>

\* pthread_setname_np for a thread just created: a failure is logged as a
\* warning, and stays in ret.
SetName == ret' = TRUE \/ (MayFail /\ ret' = FALSE)

\* What jbpf_init does with ret: it returns 0, and the application's thread goes
\* on to register itself; or it destroys the I/O library and the memory.  It
\* stops none of the threads that were started.
InitEnds ==
  IF ret THEN Goto("main", "start") /\ UNCHANGED up
         ELSE Goto("main", "failed") /\ up' = up \ {"io", "memory"}

\* start_jbpf_interfaces, first part: the I/O thread, or the maintenance
\* thread of a process whose I/O thread is in another process (the result of
\* naming that one is not kept).  Without the I/O thread jbpf_init gives up.
StartFirst ==
  /\ pc["main"] = "startFirst"
  /\ \/ ~ conf.ioThread /\ InitMaintenanceThread("main") /\ UNCHANGED <<ret, up>>
     \/ /\ conf.ioThread
        /\ pc' = [pc EXCEPT !["main"] = "waitIo", !["io"] = "start"]
        /\ SetName
        /\ UNCHANGED <<sem, up>>
     \/ /\ conf.ioThread /\ MayFail
        /\ Goto("main", "failed")
        /\ ret' = FALSE /\ up' = up \ {"io", "memory"}
        /\ UNCHANGED sem
  /\ UNCHANGED <<conf, bits, th, flag, loaded, todo, client, backlog, serv>>

\* The first thread has posted its semaphore.  The agent thread is created,
\* if configured; when that fails its semaphore is waited for all the same.
StartAgent ==
  /\ \E u \in {"io", "maint"} :
       /\ pc["main"] = (IF u = "io" THEN "waitIo" ELSE "waitMaint")
       /\ sem[u] > 0
       /\ sem' = [sem EXCEPT ![u] = @ - 1, !["agent"] = 0]
  /\ \/ ~ conf.server /\ InitEnds /\ UNCHANGED ret
     \/ /\ conf.server
        /\ pc' = [pc EXCEPT !["main"] = "waitAgent", !["agent"] = "start"]
        /\ SetName
        /\ UNCHANGED up
     \/ /\ conf.server /\ MayFail
        /\ pc' = [pc EXCEPT !["main"] = "waitAgent", !["agent"] = "gone"]
        /\ ret' = FALSE
        /\ UNCHANGED up
  /\ UNCHANGED <<conf, bits, th, flag, loaded, todo, client, backlog, serv>>

\* The agent thread has posted its semaphore.
InitReturns ==
  /\ pc["main"] = "waitAgent" /\ sem["agent"] > 0
  /\ sem' = [sem EXCEPT !["agent"] = @ - 1]
  /\ InitEnds
  /\ UNCHANGED <<conf, bits, th, ret, flag, loaded, todo, client, backlog, serv>>

InitDone == pc["main"] \in {"start", "registering"}

\* Another thread of the application, from its registration to its clean-up,
\* which it may call twice.
WorkerStarts(t) ==
  /\ pc[t] = "none" /\ InitDone
  /\ Goto(t, "start")
  /\ UNCHANGED <<conf, ret, bits, th, sem, flag, up, loaded, todo, client, backlog, serv>>

\* Mutant: the clean-up also clears __jbpf_registered_thread.
WorkerEndsForgets(t) ==
  /\ RegisterDone(t) \/ pc[t] = "cleaned"
  /\ bits' = IF Unregistered(t) THEN bits ELSE bits \ {th[t].id}
  /\ th' = [th EXCEPT ![t].flags = {"unregistered"}]
  /\ Goto(t, IF pc[t] = "cleaned" THEN "gone" ELSE "cleaned")
  /\ UNCHANGED <<conf, ret, sem, flag, up, loaded, todo, client, backlog, serv>>

WorkerEnds(t) ==
  /\ RegisterDone(t) \/ pc[t] = "cleaned"
  /\ CleanupThread(t)
  /\ Goto(t, IF pc[t] = "cleaned" THEN "gone" ELSE "cleaned")
  /\ UNCHANGED <<conf, ret, sem, flag, up, loaded, todo, client, backlog, serv>>

\* jbpf_stop, called when the other threads of the application are done with
\* jbpf: jbpf_remove_all_codeletsets collects the ids without the mutex.
Stop ==
  /\ RegisterDone("main")
  /\ \A t \in Workers : pc[t] \in {"none", "gone"}
  /\ todo' = loaded
  /\ Goto("main", "unload")
  /\ UNCHANGED <<conf, ret, bits, th, sem, flag, up, loaded, client, backlog, serv>>

\* It unloads them one by one; the server goes on serving requests.
UnloadNext ==
  /\ pc["main"] = "unload"
  /\ \E s \in todo :
       /\ loaded' = loaded \ {s}
       /\ todo' = todo \ {s}
  /\ UNCHANGED <<conf, ret, bits, th, pc, sem, flag, up, client, backlog, serv>>

\* All unloaded: clear_all_jbpf_hooks (the arrays it frees belong to sets the
\* server has loaded since), then jbpf_lcm_ipc_server_stop.
StopServer ==
  /\ pc["main"] = "unload" /\ todo = {}
  /\ IF "server" \in up
     THEN flag' = [flag EXCEPT !["agent"] = FALSE] /\ Goto("main", "joinAgent")
     ELSE UNCHANGED flag /\ Goto("main", "stopIo")
  /\ UNCHANGED <<conf, ret, bits, th, sem, up, loaded, todo, client, backlog, serv>>

\* The agent thread has ended: jbpf_lcm_ipc_server_destroy closes the socket,
\* and the clients still in the backlog are refused.
JoinAgent ==
  /\ pc["main"] = "joinAgent" /\ pc["agent"] = "gone"
  /\ up' = up \ {"server"}
  /\ backlog' = <<>>
  /\ client' = [c \in Clients |->
                  IF \E i \in DOMAIN backlog : backlog[i] = c
                  THEN [client[c] EXCEPT !.pc = "done", !.ans = FALSE] ELSE client[c]]
  /\ Goto("main", "stopIo")
  /\ UNCHANGED <<conf, ret, bits, th, sem, flag, loaded, todo, serv>>

FirstThread == IF conf.ioThread THEN "io" ELSE "maint"

\* jbpf_io_run = false, or jbpf_maintenance_run = false.
StopIo ==
  /\ pc["main"] = "stopIo"
  /\ flag' = [flag EXCEPT ![FirstThread] = FALSE]
  /\ Goto("main", "joinIo")
  /\ UNCHANGED <<conf, ret, bits, th, sem, up, loaded, todo, client, backlog, serv>>

\* That thread has ended: jbpf_cleanup_thread, then the thread ids, the I/O
\* library, the performance data, the epochs and the memory are destroyed.
Teardown ==
  /\ pc["main"] = "joinIo" /\ pc[FirstThread] = "gone"
  /\ CleanupThread("main")
  /\ up' = {}
  /\ Goto("main", "stopped")
  /\ UNCHANGED <<conf, ret, sem, flag, loaded, todo, client, backlog, serv>>

(* ---------------------------- specification ------------------------------ *)

Main ==
  InitBase \/ StartFirst \/ StartAgent \/ InitReturns
  \/ UnloadNext \/ StopServer \/ JoinAgent \/ StopIo \/ Teardown
Io == IoStarts \/ IoReady \/ IoEnds \/ IoJoins
Maint == MaintStarts \/ MaintEnds
Agent == AgentStarts \/ ServerStart \/ ServerEnds \/ Accept \/ Serve
Thread(t) == Register(t) \/ Scan(t)

Next ==
  \/ Main \/ Stop \/ Io \/ Maint \/ Agent \/ SelectFails
  \/ \E t \in Procs : Thread(t)
  \/ \E t \in Workers : WorkerStarts(t) \/ WorkerEnds(t)
  \/ \E c \in Clients : Connect(c) \/ Send(c) \/ Die(c)

Spec == Init /\ [][Next]_vars

\* The threads run, and a client that has connected sends its request or dies.
FairSpec ==
  /\ Spec
  /\ WF_vars(Main) /\ WF_vars(Io) /\ WF_vars(Maint) /\ WF_vars(Agent)
  /\ \A t \in Procs : WF_vars(Thread(t))
  /\ \A c \in Clients : WF_vars(Send(c))

(* ----------------------------- properties -------------------------------- *)

TypeOK ==
  /\ IdTypeOK
  /\ pc \in [Procs -> {"off", "none", "start", "registering", "startFirst", "waitIo", "waitMaint",
                       "waitAgent", "unload", "joinAgent", "stopIo", "joinIo", "stopped", "failed",
                       "exit", "loop", "joinMaint", "gone", "serverStart", "serve", "cleaned"}]
  /\ ret \in BOOLEAN
  /\ sem \in [Internal -> 0 .. 1]
  /\ flag \in [Internal -> BOOLEAN]
  /\ up \subseteq Resources /\ loaded \subseteq Sets /\ todo \subseteq Sets
  /\ client \in [Clients -> [pc : {"idle", "connected", "sent", "died", "diedSent", "done"},
                             req : Requests \cup {NULL}, ans : BOOLEAN \cup {NULL}]]
  /\ backlog \in UNION {[1 .. n -> Clients] : n \in 0 .. Cardinality(Clients)}
  /\ serv \in [fd : Clients \cup {NULL}, req : Requests \cup {NULL}, fds : 0 .. conf.fds]

Active(t) == pc[t] \notin {"off", "none", "gone", "failed", "exit", "stopped"}

(* Nothing is used after it is destroyed: as long as the I/O, maintenance, *)
(* agent or an application thread runs, the memory, the thread ids and the *)
(* performance data exist, and the server's context exists as long as its  *)
(* thread uses it.  This is what the order of joins in jbpf_stop,          *)
(* jbpf_stop_interfaces and the I/O thread is for.  The exception is a     *)
(* jbpf_init that fails because a thread could not be given its name: it   *)
(* destroys the I/O library and the memory under the threads that run.     *)
NoUseAfterTeardown ==
  /\ \A t \in Procs \ {"main"} : Active(t) =>
       /\ {"ids", "perf"} \subseteq up
       /\ {"io", "memory"} \subseteq up \/ (pc["main"] = "failed" /\ ~ ret)
  /\ pc["agent"] \in {"serverStart", "loop", "serve"} => "server" \in up

(* When jbpf_init returns, every thread it started has its id and is       *)
(* past its semaphore, so that an application thread that registers next   *)
(* never gets id 0 (which the test functional/perf/jbpf_perf_time.c        *)
(* asserts) and no internal thread calls hooks without an epoch record.    *)
ReadyWhenInitReturns ==
  InitDone =>
    /\ \A t \in Internal : Active(t) => Holds(t)
    /\ \A t \in Procs \ Internal : Holds(t) => th[t].id > 0

(* The threads of the life cycle use the thread ids as module ThreadIds    *)
(* allows, so that its theorems hold here.                                  *)
ImplementsThreadIds == IdSpec

(* jbpf_init returns or ends the process, unless the agent thread could    *)
(* not be created or its server not be set up; then it waits for ever.     *)
InitTerminates ==
  pc["main"] = "startFirst" ~>
    \/ pc["main"] \in {"start", "registering", "failed", "exit"}
    \/ pc["agent"] = "gone" /\ "server" \notin up

(* jbpf_stop returns, unless jbpf_lcm_ipc_server_start has set is_running  *)
(* again after jbpf_lcm_ipc_server_stop cleared it.                         *)
StopTerminates ==
  pc["main"] = "unload" ~> pc["main"] = "stopped" \/ (pc["main"] = "joinAgent" /\ flag["agent"])

(* A request that a client has sent is answered, or refused when jbpf_stop *)
(* destroys the server, also if it arrives after is_running was cleared.   *)
(* The exceptions are an accept that fails for want of a descriptor, of    *)
(* which each answer keeps one (jbpf_lcm_ipc.c:205-211), and a loop that   *)
(* has ended on an error of select while the server should be running.     *)
RequestAnswered ==
  \A c \in Clients :
    client[c].pc = "sent" ~> \/ client[c].pc # "sent"
                             \/ pc["agent"] = "serve" /\ serv.fd = NULL
                             \/ pc["agent"] = "gone" /\ flag["agent"]
=============================================================================
