----------------------------- MODULE CodeletMaps -----------------------------
(***************************************************************************)
(* The array map, the per-thread array and the per-thread hash map behind  *)
(* the map helpers of codelets (core/jbpf_helper_impl.c, jbpf_bpf_array.h, *)
(* jbpf_bpf_spsc_hashmap.h).  A per-thread map has a copy for each thread  *)
(* id, and a helper works on the copy of the thread that calls it.  The    *)
(* hash map is a table of entries | used | key | value | with linear       *)
(* probing and no lock; its keys are numbers, so that a cleared entry      *)
(* holds the key 0, as its bytes do.                                        *)
(***************************************************************************)
EXTENDS Integers, Sequences, FiniteSetsExt, SequencesExt

CONSTANTS MapThreads,
          ThreadId,      \* get_jbpf_hook_thread_id of each thread, -1 if it has none
          MapKeys, MapVals,
          MapDefs,       \* the maps of the clients: [type, max]
          Hashes,        \* the hash functions considered, on MapKeys
          MapTests,      \* [map, calls] of the unit tests
          MaxMapCalls    \* bound on the calls of the clients

VARIABLES map,         \* map->type, map->max_entries
          hash,        \* jbpf_bpf_spsc_hashmap_hash
          copies,      \* the copy of each thread id: its entries and their count
          dict,        \* the dictionary each copy stands for (for the properties)
          answer,      \* what the last call returned and wrote, and what it should have
          mapCalls,    \* number of calls made
          mapScript,   \* the calls of a unit test still to be made
          mapAsserted  \* the unit test's assertions have held so far

mapVars == <<map, hash, copies, dict, answer, mapCalls, mapScript, mapAsserted>>

CopyIds == {ThreadId[t] : t \in MapThreads} \cup {0}
NoElem == -9          \* a NULL pointer
Success == 0
Error == -1
Full == -4
IsHash(m) == m.type = "per_thread_hashmap"
Cleared == [used |-> FALSE, key |-> 0, val |-> 0]

\* round_up_pow_of_two
Pow2Above(n) == Min({p \in {2 ^ i : i \in 0 .. 5} : p >= n})
Slots(m) == 0 .. (IF IsHash(m) THEN Pow2Above(m.max) ELSE m.max) - 1
HtSize == Cardinality(DOMAIN copies[0].slot)   \* hmap->ht_size

\* jbpf_create_map: the copies, zeroed.
NewCopy(m) == [slot |-> [i \in Slots(m) |-> Cleared], count |-> 0]
NewDict(m) == [of |-> IF IsHash(m) THEN [k \in {} |-> 0] ELSE [i \in Slots(m) |-> 0],
               gap |-> FALSE]

\* What a call that dumps nothing leaves in answer.
Replied(is, want) == [is |-> is, want |-> want, dumped |-> <<>>, holds |-> {}]

MapInit ==
  /\ hash \in Hashes
  /\ \E test \in MapTests \cup {[map |-> m, calls |-> <<>>] : m \in MapDefs} :
       map = test.map /\ mapScript = test.calls
  /\ copies = [i \in CopyIds \ {-1} |-> NewCopy(map)]
  /\ dict = [i \in CopyIds \ {-1} |-> NewDict(map)]
  /\ answer = Replied(Success, Success)
  /\ mapCalls = 0 /\ mapAsserted = TRUE

Result(c, r) == [copy |-> c, ret |-> r]

(* ------------------------------ array maps ------------------------------ *)

\* jbpf_bpf_array_lookup_elem, _reset_elem, _update_elem, _clear.  There is
\* no array delete and no array dump.
ArrayOp(fn, c, k, v) ==
  LET in == k \in DOMAIN c.slot IN
    CASE fn = "lookup" -> Result(c, IF in THEN c.slot[k].val ELSE NoElem)
      [] fn = "reset"  -> IF in THEN Result([c EXCEPT !.slot[k].val = 0], 0) ELSE Result(c, NoElem)
      [] fn = "update" -> IF in THEN Result([c EXCEPT !.slot[k].val = v], Success) ELSE Result(c, Error)
      [] fn = "clear"  -> Result(NewCopy(map), Success)
      [] OTHER         -> Result(c, -2)

(* -------------------------- per-thread hash map -------------------------- *)

Probe(k, d) == (hash[k] + d) % HtSize
Offsets == 0 .. HtSize - 1

\* Where the probing for k ends: an unused entry, or the one of k; -1 for neither.
Probed(c, k) ==
  LET stops == {d \in Offsets : ~c.slot[Probe(k, d)].used \/ c.slot[Probe(k, d)].key = k} IN
    IF stops = {} THEN -1 ELSE Probe(k, Min(stops))

SpscHas(c, k) == LET i == Probed(c, k) IN i # -1 /\ c.slot[i].used
SpscLookup(c, k) ==
  LET i == Probed(c, k) IN IF i # -1 /\ c.slot[i].used THEN c.slot[i].val ELSE NoElem
SpscReset(c, k) ==
  IF SpscHas(c, k) THEN Result([c EXCEPT !.slot[Probed(c, k)].val = 0], 0) ELSE Result(c, NoElem)

SpscUpdate(c, k, v) ==
  LET i == Probed(c, k)
      entry == [used |-> TRUE, key |-> k, val |-> v] IN
    IF i = -1 THEN Result(c, Full)
    ELSE IF c.slot[i].used THEN Result([c EXCEPT !.slot[i] = entry], Success)
    ELSE IF c.count = map.max THEN Result(c, Full)
    ELSE Result([c EXCEPT !.slot[i] = entry, !.count = @ + 1], Success)

\* jbpf_bpf_spsc_hashmap_restructure, until it returns -1: of the entries that
\* follow the root without a gap, the first whose hash, all bits of it, is at
\* most the root's index moves to the root.
RECURSIVE SpscRestructure(_, _)
SpscRestructure(slot, root) ==
  LET at(d) == (root + d) % HtSize
      movable == {d \in Offsets \ {0} : /\ \A e \in 1 .. d : slot[at(e)].used
                                        /\ hash[slot[at(d)].key] <= root} IN
    IF movable = {} THEN slot
    ELSE SpscRestructure([slot EXCEPT ![root] = slot[at(Min(movable))],
                                      ![at(Min(movable))] = Cleared], root)

\* Mutant: the count is not decremented.
SpscDeleteKeepsCount(c, k) ==
  LET matches == {d \in Offsets : c.slot[Probe(k, d)].key = k}
      i == Probe(k, Min(matches)) IN
    IF ~c.slot[Probe(k, 0)].used \/ matches = {} THEN Result(c, Error)
    ELSE Result([slot |-> SpscRestructure([c.slot EXCEPT ![i] = Cleared], i), count |-> c.count], Success)

\* jbpf_bpf_spsc_hashmap_delete_elem: past the first entry, it does not look
\* at whether an entry is used.
SpscDelete(c, k) ==
  LET matches == {d \in Offsets : c.slot[Probe(k, d)].key = k}
      i == Probe(k, Min(matches)) IN
    IF ~c.slot[Probe(k, 0)].used \/ matches = {} THEN Result(c, Error)
    ELSE Result([slot |-> SpscRestructure([c.slot EXCEPT ![i] = Cleared], i), count |-> c.count - 1], Success)

SpscOp(fn, c, k, v) ==
  CASE fn = "lookup" -> Result(c, SpscLookup(c, k))
    [] fn = "reset"  -> SpscReset(c, k)
    [] fn = "update" -> SpscUpdate(c, k, v)
    [] fn = "delete" -> SpscDelete(c, k)
    [] fn = "clear"  -> Result(NewCopy(map), Success)
    [] fn = "dump"   -> Result(c, c.count)

\* What jbpf_bpf_spsc_hashmap_dump writes: its loop never leaves the first
\* entry of the table, and does not look at the size of the buffer.
SpscDumped(c) ==
  IF c.slot[0].used THEN [i \in 1 .. Min({c.count, HtSize}) |-> <<c.slot[0].key, c.slot[0].val>>]
  ELSE <<>>

(* ------------------------------ the helpers ------------------------------ *)


\* The copy a helper works on; -1 if the thread has no id.
CopyOf(t) == IF map.type = "array" THEN 0 ELSE ThreadId[t]

\* What a helper returns to a thread that has no id.
NoIdError(fn) ==
  CASE fn \in {"lookup", "reset"} -> NoElem
    [] fn = "update" -> -5
    [] fn \in {"delete", "dump"} /\ ~IsHash(map) -> -2
    [] fn = "delete" -> -4
    [] OTHER -> -3

Helper(t, fn, k, v) ==
  IF IsHash(map) THEN SpscOp(fn, copies[CopyOf(t)], k, v) ELSE ArrayOp(fn, copies[CopyOf(t)], k, v)

\* What a dictionary with room for max entries does, and answers.
Removed(f, k) == [j \in DOMAIN f \ {k} |-> f[j]]
Stored(f, k, v) == [j \in DOMAIN f \cup {k} |-> IF j = k THEN v ELSE f[j]]
Answer(fn, f, k) ==
  LET in == k \in DOMAIN f IN
    CASE fn = "lookup" -> IF in THEN f[k] ELSE NoElem
      [] fn = "reset"  -> IF in THEN 0 ELSE NoElem
      [] fn = "update" -> IF in THEN Success
                          ELSE IF ~IsHash(map) THEN Error
                          ELSE IF Cardinality(DOMAIN f) < map.max THEN Success ELSE Full
      [] fn = "clear"  -> Success
      [] fn \in {"delete", "dump"} /\ ~IsHash(map) -> -2
      [] fn = "delete" -> IF in THEN Success ELSE Error
      [] OTHER -> Cardinality(DOMAIN f)

\* A delete of k leaves no gap: k is the last of its run of used entries, or
\* the only one behind it has a hash small enough to take its place.  For an
\* absent k, it does not take a cleared entry, which holds 0, for that of k.
LeavesNoGap(c, k) ==
  LET i == Probed(c, k)
      unused(d) == HtSize <= d \/ ~c.slot[(i + d) % HtSize].used IN
    IF SpscHas(c, k) THEN unused(1) \/ (i + 1 < HtSize /\ hash[c.slot[i + 1].key] <= i /\ unused(2))
    ELSE k # 0 \/ ~c.slot[Probe(k, 0)].used

\* The dictionary of copy c after the call; gap once a delete has left one.
After(fn, d, c, k, v) ==
  LET done == Answer(fn, d.of, k) >= 0 IN
    CASE fn = "clear" -> NewDict(map)
      [] fn = "update" /\ done -> [d EXCEPT !.of = Stored(@, k, v)]
      [] fn = "reset" /\ done -> [d EXCEPT !.of = Stored(@, k, 0)]
      [] fn = "delete" /\ IsHash(map) -> [of |-> Removed(d.of, k), gap |-> d.gap \/ ~LeavesNoGap(c, k)]
      [] OTHER -> d

Owner(t) == IF map.type = "array" THEN 0 ELSE ThreadId[t]

\* The dump of thread t's copy, beside the entries of its dictionary.
Dumped(t, ret) ==
  LET f == dict[Owner(t)].of IN
    [is |-> ret, want |-> Cardinality(DOMAIN f),
     dumped |-> SpscDumped(copies[CopyOf(t)]), holds |-> {<<k, f[k]>> : k \in DOMAIN f}]

\* A thread calls a map helper on its copy.
CallHelper(t, fn, k, v) ==
  /\ Owner(t) # -1
  /\ LET r == Helper(t, fn, k, v) IN
       /\ copies' = [copies EXCEPT ![CopyOf(t)] = r.copy]
       /\ answer' = IF fn = "dump" /\ IsHash(map) THEN Dumped(t, r.ret)
                    ELSE Replied(r.ret, Answer(fn, dict[Owner(t)].of, k))
       /\ dict' = [dict EXCEPT ![Owner(t)] = After(fn, @, copies[Owner(t)], k, v)]
  /\ UNCHANGED <<map, hash>>

\* A thread that has not registered calls a helper of a per-thread map.
CallWithoutId(t, fn) ==
  /\ Owner(t) = -1 /\ mapScript = <<>> /\ mapCalls < MaxMapCalls
  /\ answer' = Replied(NoIdError(fn), NoIdError(fn))
  /\ mapCalls' = mapCalls + 1
  /\ UNCHANGED <<map, hash, copies, dict, mapScript, mapAsserted>>

ClientCalls(t, fn, k, v) ==
  /\ mapScript = <<>> /\ mapCalls < MaxMapCalls
  /\ CallHelper(t, fn, k, v)
  /\ mapCalls' = mapCalls + 1
  /\ UNCHANGED <<mapScript, mapAsserted>>

\* The next call of a unit test, which asserts what it returns.
TestCalls(t) ==
  /\ mapScript # <<>> /\ ThreadId[t] = 0
  /\ LET c == Head(mapScript) IN
       /\ CallHelper(t, c.fn, c.key, c.val)
       /\ mapAsserted' = (mapAsserted /\ answer'.is = c.want)
  /\ mapScript' = Tail(mapScript)
  /\ mapCalls' = IF Len(mapScript) = 1 THEN MaxMapCalls ELSE mapCalls

MapFns == {"lookup", "reset", "update", "delete", "clear", "dump"}

MapNext ==
  \E t \in MapThreads :
    \/ \E fn \in MapFns \ {"clear", "dump"}, k \in MapKeys, v \in MapVals : ClientCalls(t, fn, k, v)
    \/ \E fn \in {"clear", "dump"} : ClientCalls(t, fn, 0, 0)
    \/ \E fn \in MapFns : CallWithoutId(t, fn)
    \/ TestCalls(t)

MapSpec == MapInit /\ [][MapNext]_mapVars

(* ------------------------------ properties ------------------------------ *)

Found(c, k) == IF IsHash(map) THEN SpscLookup(c, k)
               ELSE IF k \in DOMAIN c.slot THEN c.slot[k].val ELSE NoElem

\* A map is a dictionary: what the thread with this id finds under each key is
\* what it has stored there, whatever the keys' hashes and whatever other
\* threads store under the same keys.
IsDictionary(i) ==
  \A k \in MapKeys :
    Found(copies[i], k) = IF k \in DOMAIN dict[i].of THEN dict[i].of[k] ELSE NoElem

\* A dump wrote the entries of the dictionary, each once.
DumpsAll == Len(answer.dumped) = Cardinality(answer.holds) /\ ToSet(answer.dumped) = answer.holds


\* The unit tests of the array map and of the per-thread hash map pass,
\* whichever of the hash functions the table uses.
MapTestsPass == mapAsserted
=============================================================================
