------------------------------- MODULE MCData -------------------------------
(***************************************************************************)
(* The data structures that codelets and the library share, for model      *)
(* checking: an I/O channel, a shared hash map, the per-thread and array   *)
(* maps, and the performance data.  They have no state in common, so every *)
(* behaviour is one of a single part; the others stay as they are.         *)
(***************************************************************************)
EXTENDS MCIo, MCMaps

CONSTANTS k1, k2, k3, w1, w2, NoKey, NoNode, NoThread, Maint, p1, p2

VARIABLES part,
          hSection, hWaitFor, table, nodes, later, lost, lock, op, calls, hmap,
          pSection, pWaitFor, perf, arr, hookCall, maint, logged

HashThreads == {w1, w2}
HashKeys == {k1, k2, k3}
HashNodes == 1 .. 4

Hashmap == INSTANCE JbpfHashmap WITH
  Threads <- HashThreads, Tickets <- HashNodes, Keys <- HashKeys, Nodes <- HashNodes,
  MaxEntries <- 2, DumpSizes <- {1, 2}, MaxHashCalls <- 5,
  section <- hSection, waitFor <- hWaitFor, ht <- table, pool <- nodes

Perf == INSTANCE JbpfPerf WITH
  Threads <- {Maint, p1, p2}, Tickets <- {Maint}, Hooks <- {"h", "report_stats"},
  Times <- {0, 1, 5}, NumBins <- 3, MaxArrays <- 3, MaxCalls <- 3,
  section <- pSection, waitFor <- pWaitFor, call <- hookCall

ioVars == vars
hashVars == <<hSection, hWaitFor, table, nodes, later, lost, lock, op, calls, hmap>>
perfVars == <<pSection, pWaitFor, perf, arr, hookCall, maint, logged>>

\* A part that does not run stays in one of its initial states.
DataInit ==
  /\ part \in {"io", "hash", "maps", "perf"}
  /\ Init /\ MapInit /\ Hashmap!HashInit /\ Perf!PerfInit
  /\ part # "io" => dir = "out" /\ \A t \in ListThreads : thread_id[t] = 1
  /\ part # "maps" => /\ mapScript = <<>> /\ map = Def("array", 2)
                      /\ hash = [k \in MapKeys |-> 0]

DataNext ==
  /\ UNCHANGED part
  /\ \/ part = "io" /\ Next /\ UNCHANGED <<hashVars, perfVars, mapVars>>
     \/ part = "hash" /\ Hashmap!HashNext /\ UNCHANGED <<ioVars, perfVars, mapVars>>
     \/ part = "maps" /\ MapNext /\ UNCHANGED <<ioVars, hashVars, perfVars>>
     \/ part = "perf" /\ Perf!PerfNext /\ UNCHANGED <<ioVars, hashVars, mapVars>>

DataSpec == DataInit /\ [][DataNext]_<<part, ioVars, hashVars, perfVars, mapVars>>

(* The properties of the two instances; JbpfHashmap and JbpfPerf state them. *)
(* Where the part does not run it is in an initial state.                   *)

\* A node that a lookup has handed to a codelet is not back in the pool while
\* the codelet runs (jbpf_bpf_hashmap_lookup_elem).
HeldNodesLive == part = "hash" => Hashmap!HeldNodesLive
\* Every node of a shared hash map is in one place (jbpf_bpf_hashmap_update_elem).
NodesConserved == part = "hash" => Hashmap!NodesConserved
\* Hooks log into arrays that are allocated (jbpf_report_perf_stats).
PerfArraysLive == part = "perf" => Perf!PerfArraysLive
\* No sample is lost or counted twice when the arrays are replaced.
SamplesCounted == part = "perf" => Perf!SamplesCounted
=============================================================================
