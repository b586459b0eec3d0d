------------------------------ MODULE JbpfLcm ------------------------------
(***************************************************************************)
(* Loading and unloading codeletsets (jbpf.c): the checks on a request,    *)
(* the linked maps of its codelets, the creation of codelets and maps, the *)
(* registration on hooks, the undoing of a load that fails half-way, and   *)
(* the unload, while threads invoke the hooks.                             *)
(*                                                                         *)
(* lcm_mutex is held from the start of a request to its reply, so at most  *)
(* one request is in progress: pc says where it is.  A hook is the atomic  *)
(* list of module HookList, without the order: an invocation may call any  *)
(* codelet of the list it found, and removing a codelet waits until no     *)
(* invocation can call it.  A remove that finds no memory for the list     *)
(* that remains changes nothing; its callers go on and destroy the codelet *)
(* all the same, and what stays on the hook is Dangling, an entry of no    *)
(* codelet any more.  What calling it does is undefined, and left out.     *)
(*                                                                         *)
(* A name is a sequence of words: <<"a", "b">> stands for "a_b", and the   *)
(* empty sequence for a name that is not set.                              *)
(*                                                                         *)
(* The requests come from any client, and then memory may run out at any   *)
(* allocation; or from a test program (module LcmTests), which makes its   *)
(* calls in order, asserts what they return, and meets no such failure.    *)
(***************************************************************************)
EXTENDS Naturals, Sequences, FiniteSets

CONSTANTS Requests,          \* the load requests that may be made
          Threads,           \* threads that invoke hooks
          Hooks, CtrlHooks,  \* all hooks, and the control hooks among them
          NULL,
          MaxCodelets,       \* JBPF_MAX_LOADED_CODELETS
          MaxSets,           \* JBPF_MAX_LOADED_CODELETSETS
          MaxInSet,          \* JBPF_MAX_CODELETS_IN_CODELETSET
          MaxMaps,           \* MAX_NUM_MAPS
          MaxChannels,       \* JBPF_MAX_IO_CHANNEL
          NameLen,           \* the size of the buffer of a name, in words
          ExperimentalFeatures, \* JBPF_EXPERIMENTAL_FEATURES is defined
          Files,             \* the object files: does it load as ELF, and the maps it refers to
          HtMayFail,         \* jbpf_codelet_register_map may run out of memory
          Scripts            \* the test programs, and NULL for any other client

ASSUME CtrlHooksAreHooks == CtrlHooks \subseteq Hooks
ASSUME LimitsArePositive == {MaxCodelets, MaxSets, MaxInSet, MaxMaps, MaxChannels, NameLen} \subseteq Nat \ {0}

VARIABLES registry,  \* codeletset_registry: the request each loaded set came from
          total,     \* total_num_codelets
          nmap,      \* nmap_reg
          codelets,  \* the codelets that exist, by <<set, codelet name>>
          mapData,   \* the map contents that exist, by the codelet and map that created them
          table,     \* linked_map_entries.table of every set: alias -> linked map
          linked,    \* struct jbpf_linked_map: map, ref_count, total_refs
          hooks,     \* hooks[h]: the codelets on hook h, and Dangling
          running,   \* running[t]: the codelets that the invocation by t may call
          pc, req, cur, idx, victim, pending, outcome,
          script,    \* the calls the test program has still to make
          asserted   \* what it asserts of the last one

objVars  == <<codelets, mapData, nmap, table, linked>>
taskVars == <<pc, req, cur, idx, victim, pending, outcome>>
testVars == <<script, asserted>>
vars == <<registry, total, nmap, codelets, mapData, table, linked, hooks, running,
          pc, req, cur, idx, victim, pending, outcome, script, asserted>>

NoMaps == [m \in {} |-> NULL]
Without(f, k) == [x \in DOMAIN f \ {k} |-> f[x]]
With(f, k, v) == [x \in DOMAIN f \cup {k} |-> IF x = k THEN v ELSE f[x]]

Init ==
  /\ registry = [n \in {} |-> NULL]
  /\ total = 0 /\ nmap = 0
  /\ codelets = [c \in {} |-> NULL]
  /\ mapData = {}
  /\ table = [a \in {} |-> NULL]
  /\ linked = [g \in {} |-> NULL]
  /\ hooks = [h \in Hooks |-> {}]
  /\ running = [t \in Threads |-> {}]
  /\ pc = "idle" /\ req = NULL /\ cur = 1 /\ idx = 1
  /\ victim = NULL /\ pending = {} /\ outcome = "SUCCESS"
  /\ script \in Scripts /\ asserted = NULL

AnyClient == script = NULL

\* The calls that are made next, and the test program's next call.
Loads == IF AnyClient THEN Requests ELSE {script[i].load : i \in {1} \cap DOMAIN script} \ {NULL}
Unloads == IF AnyClient THEN {r.name : r \in Requests}
           ELSE {script[i].unload : i \in {1} \cap DOMAIN script} \ {NULL}
Called ==
  IF AnyClient THEN UNCHANGED testVars
               ELSE script' = Tail(script) /\ asserted' = Head(script).asserts

Desc == req.codelets[cur]
SetOf(n) == {c \in DOMAIN codelets : c[1] = n}

\* snprintf("%s_%s", codelet, map)
Alias(c, m) == c \o m

-----------------------------------------------------------------------------
(* Threads invoke hooks.                                                   *)

\* An entry of a hook whose codelet is destroyed.
Dangling == <<>>

HookInvoke(t, h) ==
  /\ running[t] = {}
  /\ hooks[h] \ {Dangling} # {}
  /\ running' = [running EXCEPT ![t] = hooks[h] \ {Dangling}]
  /\ UNCHANGED <<registry, total, objVars, hooks, taskVars, testVars>>

HookReturn(t) ==
  /\ running[t] # {}
  /\ running' = [running EXCEPT ![t] = {}]
  /\ UNCHANGED <<registry, total, objVars, hooks, taskVars, testVars>>

-----------------------------------------------------------------------------
(* jbpf_codeletset_load: the checks.                                       *)

\* Mutant: no room is left for the terminating 0.
validate_string_param_full(n) == n # <<>> /\ Len(n) <= NameLen

\* A name is set and leaves room for the terminating 0.
validate_string_param(n) == n # <<>> /\ Len(n) < NameLen

\* chan->serde is NULL for a channel without serializer.
ValidChannel(chan) ==
  /\ validate_string_param(chan.name)
  /\ ExperimentalFeatures /\ chan.serde # NULL =>
       validate_string_param(chan.serde) /\ chan.serde \in DOMAIN Files

ValidLinks(d) ==
  /\ \A j \in DOMAIN d.links :
       /\ validate_string_param(d.links[j].map)
       /\ validate_string_param(d.links[j].codelet)
       /\ validate_string_param(d.links[j].linked)
       /\ d.links[j].codelet # d.name
  /\ \A j, k \in DOMAIN d.links :
       j # k => /\ d.links[j].map # d.links[k].map
                /\ <<d.links[j].codelet, d.links[j].linked>> # <<d.links[k].codelet, d.links[k].linked>>

validate_codeletset(r) ==
  /\ validate_string_param(r.name)
  /\ Len(r.codelets) \in 1..MaxInSet
  /\ \A i \in DOMAIN r.codelets :
       LET d == r.codelets[i]
       IN  /\ \A n \in {d.name, d.hook, d.path} : validate_string_param(n)
           /\ \A ch \in DOMAIN d.ins : ValidChannel(d.ins[ch])
           /\ \A ch \in DOMAIN d.outs : ValidChannel(d.outs[ch])
           /\ ValidLinks(d)
  /\ \A i, j \in DOMAIN r.codelets : i # j => r.codelets[i].name # r.codelets[j].name

\* Mutant: the codelets of the request itself are not counted.
VerdictOffByRequest(r) ==
  IF ~validate_codeletset(r) THEN "PARAM_INVALID"
  ELSE IF \E i \in DOMAIN r.codelets : r.codelets[i].hook \notin Hooks THEN "HOOK_NOT_EXIST"
  ELSE IF Cardinality(DOMAIN registry) >= MaxSets THEN "CREATION_FAIL"
  ELSE IF r.name \in DOMAIN registry THEN "SUCCESS"
  ELSE IF total >= MaxCodelets THEN "CREATION_FAIL"
  ELSE "PROCEED"

\* What the early returns answer, in the order of the code.
Verdict(r) ==
  IF ~validate_codeletset(r) THEN "PARAM_INVALID"
  ELSE IF \E i \in DOMAIN r.codelets : r.codelets[i].hook \notin Hooks THEN "HOOK_NOT_EXIST"
  ELSE IF Cardinality(DOMAIN registry) >= MaxSets THEN "CREATION_FAIL"
  ELSE IF r.name \in DOMAIN registry THEN "SUCCESS"
  ELSE IF total + Len(r.codelets) > MaxCodelets THEN "CREATION_FAIL"
  ELSE "PROCEED"

LoadRefused(r) ==
  /\ pc = "idle"
  /\ Verdict(r) # "PROCEED"
  /\ outcome' = Verdict(r)
  /\ Called
  /\ UNCHANGED <<registry, total, objVars, hooks, running, pc, req, cur, idx, victim, pending>>

LoadOutOfMemory(r) ==
  /\ pc = "idle"
  /\ AnyClient
  /\ Verdict(r) = "PROCEED"
  /\ outcome' = "LOAD_FAIL"
  /\ UNCHANGED <<registry, total, objVars, hooks, running, testVars, pc, req, cur, idx, victim, pending>>

LoadBegin(r) ==
  /\ pc = "idle"
  /\ Verdict(r) = "PROCEED"
  /\ pc' = "link" /\ req' = r /\ cur' = 1 /\ idx' = 1 /\ outcome' = "SUCCESS"
  /\ Called
  /\ UNCHANGED <<registry, total, objVars, hooks, running, victim, pending>>

-----------------------------------------------------------------------------
(* jbpf_populate_linked_map_entries.                                       *)

\* Mutant: a link to an end that is there already starts a group of its own.
AddLinkOwnGroup ==
  /\ pc = "link"
  /\ cur <= Len(req.codelets)
  /\ idx <= Len(Desc.links)
  /\ LET l       == Desc.links[idx]
         alias1  == <<req.name, Alias(Desc.name, l.map)>>
         alias2  == <<req.name, Alias(l.codelet, l.linked)>>
         new     == {alias1, alias2} \ DOMAIN table
         g       == IF alias1 \in DOMAIN table THEN table[alias1] ELSE alias1
     IN  /\ table' = [a \in DOMAIN table \cup new |-> IF a \in new THEN g ELSE table[a]]
         /\ linked' = IF g \in DOMAIN linked
                        THEN [linked EXCEPT ![g].total_refs = @ + Cardinality(new)]
                        ELSE With(linked, g, [map |-> NULL, ref_count |-> 0, total_refs |-> Cardinality(new)])
  /\ idx' = idx + 1
  /\ UNCHANGED <<registry, total, codelets, mapData, nmap, hooks, running, testVars, pc, req, cur,
                 victim, pending, outcome>>

\* One link: both ends are entered, in the group of the end that is there
\* already, if one is.  A put of an alias that is there has no effect.
AddLink ==
  /\ pc = "link"
  /\ cur <= Len(req.codelets)
  /\ idx <= Len(Desc.links)
  /\ LET l       == Desc.links[idx]
         alias1  == <<req.name, Alias(Desc.name, l.map)>>
         alias2  == <<req.name, Alias(l.codelet, l.linked)>>
         in1     == alias1 \in DOMAIN table
         in2     == alias2 \in DOMAIN table
         g       == IF in1 THEN table[alias1] ELSE IF in2 THEN table[alias2] ELSE alias1
         missing == (IF in1 THEN 0 ELSE 1) + (IF in2 THEN 0 ELSE 1)
     IN  /\ table' = [a \in DOMAIN table \cup {alias1, alias2} |->
                        IF a \in DOMAIN table THEN table[a] ELSE g]
         /\ linked' = IF g \in DOMAIN linked
                        THEN [linked EXCEPT ![g].total_refs = @ + missing]
                        ELSE With(linked, g, [map |-> NULL, ref_count |-> 0, total_refs |-> missing])
  /\ idx' = idx + 1
  /\ UNCHANGED <<registry, total, codelets, mapData, nmap, hooks, running, testVars, pc, req, cur,
                 victim, pending, outcome>>

\* The next codelet's links; after the last, codelets are created.
LinksOfNext ==
  /\ pc = "link"
  /\ cur <= Len(req.codelets)
  /\ idx > Len(Desc.links)
  /\ IF cur < Len(req.codelets)
       THEN cur' = cur + 1 /\ UNCHANGED pc
       ELSE cur' = 1 /\ pc' = "create"
  /\ idx' = 1
  /\ UNCHANGED <<registry, total, objVars, hooks, running, testVars, req, victim, pending, outcome>>

-----------------------------------------------------------------------------
(* jbpf_create_codelet: the relocations, then the compilation.             *)

Creating == <<req.name, Desc.name>>

CreateCodelet ==
  /\ pc = "create"
  /\ codelets' = With(codelets, Creating, [hook |-> Desc.hook, maps |-> NoMaps, loaded |-> FALSE,
                                          relocation_error |-> FALSE])
  /\ pc' = "relocate"
  /\ idx' = 1
  /\ UNCHANGED <<registry, total, nmap, mapData, table, linked, hooks, running, testVars, req, cur,
                 victim, pending, outcome>>

\* The maps the object file of d refers to, and whether it can be read and has
\* the form of an object file; more channels than fit are refused as well.
MapsIn(d) == IF d.path \in DOMAIN Files THEN Files[d.path].maps ELSE <<>>
Readable(d) ==
  /\ Len(d.ins) <= MaxChannels /\ Len(d.outs) <= MaxChannels
  /\ d.path \in DOMAIN Files
  /\ Files[d.path].elf

Symbol == MapsIn(Desc)[idx]
SymbolAlias == <<req.name, Alias(Desc.name, Symbol.name)>>
Relocating == pc = "relocate" /\ Readable(Desc) /\ idx <= Len(MapsIn(Desc)) /\ Symbol.type # "short"

\* A symbol smaller than struct jbpf_load_map_def is given no map, and that is
\* not a relocation error.
RelocateShort ==
  /\ pc = "relocate"
  /\ Readable(Desc) /\ idx <= Len(MapsIn(Desc))
  /\ Symbol.type = "short"
  /\ idx' = idx + 1
  /\ UNCHANGED <<registry, total, objVars, hooks, running, testVars, pc, req, cur, victim, pending, outcome>>

\* jbpf_codelet_lookup_map: a symbol that is used twice is registered once.
RelocateKnown ==
  /\ Relocating
  /\ Symbol.name \in DOMAIN codelets[Creating].maps
  /\ idx' = idx + 1
  /\ UNCHANGED <<registry, total, objVars, hooks, running, testVars, pc, req, cur, victim, pending, outcome>>

\* jbpf_codelet_register_map: the codelet's map has the contents d.
RegisterMap(d) ==
  codelets' = [codelets EXCEPT ![Creating].maps = With(@, Symbol.name, d)]

\* jbpf_create_map succeeds.
CreateMap(d) ==
  /\ nmap # MaxMaps
  /\ nmap' = nmap + 1
  /\ mapData' = mapData \cup {d}

\* An I/O map is the channel of its name and direction in the descriptor, of
\* which the first counts.
IsIo == Symbol.type \in {"in", "out"}
Channels == {i \in DOMAIN (IF Symbol.type = "in" THEN Desc.ins ELSE Desc.outs) :
               (IF Symbol.type = "in" THEN Desc.ins ELSE Desc.outs)[i].name = Symbol.name}
Stream ==
  (IF Symbol.type = "in" THEN Desc.ins ELSE Desc.outs)[CHOOSE i \in Channels : \A j \in Channels : i <= j].stream

\* What jbpf_create_map creates: the contents of a map of this codelet, or the
\* channel of a direction and a stream, which must not be there already.
NewData == [type   |-> Symbol.type,
            of     |-> IF IsIo THEN <<>> ELSE Append(Creating, Symbol.name),
            stream |-> IF IsIo THEN Stream ELSE 0]
CanCreate == IsIo => Channels # {} /\ NewData \notin mapData

\* A map of the codelet's own.
RelocateOwn ==
  /\ Relocating
  /\ Symbol.name \notin DOMAIN codelets[Creating].maps
  /\ SymbolAlias \notin DOMAIN table
  /\ CanCreate
  /\ CreateMap(NewData)
  /\ RegisterMap(NewData)
  /\ idx' = idx + 1
  /\ UNCHANGED <<registry, total, table, linked, hooks, running, testVars, pc, req, cur, victim, pending, outcome>>

\* The first reference to a linked map creates it.
RelocateFirst ==
  /\ Relocating
  /\ Symbol.name \notin DOMAIN codelets[Creating].maps
  /\ SymbolAlias \in DOMAIN table
  /\ ~IsIo
  /\ linked[table[SymbolAlias]].ref_count = 0
  /\ CreateMap(NewData)
  /\ RegisterMap(NewData)
  /\ linked' = [linked EXCEPT ![table[SymbolAlias]] =
                  [@ EXCEPT !.map = [def |-> Symbol.type, data |-> NewData], !.ref_count = 1]]
  /\ idx' = idx + 1
  /\ UNCHANGED <<registry, total, table, hooks, running, testVars, pc, req, cur, victim, pending, outcome>>

\* A later reference shares the contents, if the definitions agree.
RelocateShared ==
  /\ Relocating
  /\ Symbol.name \notin DOMAIN codelets[Creating].maps
  /\ SymbolAlias \in DOMAIN table
  /\ linked[table[SymbolAlias]].ref_count > 0
  /\ linked[table[SymbolAlias]].map.def = Symbol.type
  /\ RegisterMap(linked[table[SymbolAlias]].map.data)
  /\ linked' = [linked EXCEPT ![table[SymbolAlias]].ref_count = @ + 1]
  /\ idx' = idx + 1
  /\ UNCHANGED <<registry, total, nmap, mapData, table, hooks, running, testVars, pc, req, cur, victim,
                 pending, outcome>>

\* No channel of its name, a stream that has a channel, MAX_NUM_MAPS reached, an
\* I/O map that is linked, or a definition that differs.
CannotRelocate ==
  IF SymbolAlias \in DOMAIN table
    THEN \/ IsIo
         \/ linked[table[SymbolAlias]].ref_count = 0 /\ nmap = MaxMaps
         \/ linked[table[SymbolAlias]].ref_count > 0 /\ linked[table[SymbolAlias]].map.def # Symbol.type
    ELSE ~CanCreate \/ nmap = MaxMaps

\* Any of those, or no memory for the map or for its entry: relocation_error.
RelocateError ==
  /\ Relocating
  /\ Symbol.name \notin DOMAIN codelets[Creating].maps
  /\ \/ CannotRelocate
     \/ AnyClient /\ (SymbolAlias \in DOMAIN table => linked[table[SymbolAlias]].ref_count = 0 \/ HtMayFail)
  /\ codelets' = [codelets EXCEPT ![Creating].relocation_error = TRUE]
  /\ idx' = idx + 1
  /\ UNCHANGED <<registry, total, nmap, mapData, table, linked, hooks, running, testVars, pc, req, cur,
                 victim, pending, outcome>>

\* ck_ht_put_spmc fails for a map that was just created.  A map of the
\* codelet's own is destroyed without being taken off nmap_reg, a linked one
\* with; linked_map->map keeps pointing to it, with ref_count 0.
RegisterMapFails ==
  /\ AnyClient /\ HtMayFail
  /\ Relocating
  /\ Symbol.name \notin DOMAIN codelets[Creating].maps
  /\ CanCreate
  /\ nmap # MaxMaps
  /\ IF SymbolAlias \in DOMAIN table
       THEN /\ ~IsIo
            /\ linked[table[SymbolAlias]].ref_count = 0
            /\ linked' = [linked EXCEPT ![table[SymbolAlias]].map =
                            [def |-> Symbol.type, data |-> NewData]]
            /\ UNCHANGED nmap
       ELSE nmap' = nmap + 1 /\ UNCHANGED linked
  /\ codelets' = [codelets EXCEPT ![Creating].relocation_error = TRUE]
  /\ idx' = idx + 1
  /\ UNCHANGED <<registry, total, mapData, table, hooks, running, testVars, pc, req, cur, victim, pending,
                 outcome>>

\* A missing file, an ELF that does not load (at any of its relocations), a
\* relocation error or a compilation that fails: the maps the codelet has got
\* so far are destroyed, and so is the codelet.
CreateFails ==
  /\ pc = "relocate"
  /\ \/ ~Readable(Desc)
     \/ idx > Len(MapsIn(Desc)) /\ codelets[Creating].relocation_error
     \/ AnyClient
  /\ victim' = Creating
  /\ pc' = "destroyMaps"
  /\ outcome' = "CREATION_FAIL"
  /\ UNCHANGED <<registry, total, objVars, hooks, running, testVars, req, cur, idx, pending>>

CreateDone ==
  /\ pc = "relocate"
  /\ Readable(Desc) /\ idx > Len(MapsIn(Desc))
  /\ ~codelets[Creating].relocation_error
  /\ total' = total + 1
  /\ IF cur < Len(req.codelets)
       THEN cur' = cur + 1 /\ pc' = "create"
       ELSE pc' = "linkCheck" /\ UNCHANGED cur
  /\ UNCHANGED <<registry, objVars, hooks, running, testVars, req, idx, victim, pending, outcome>>

-----------------------------------------------------------------------------
(* The link check and the registration on the hooks.                       *)

Unlinked ==
  {a \in DOMAIN table : /\ a[1] = req.name
                        /\ linked[table[a]].ref_count # linked[table[a]].total_refs}

LinkCheckOk ==
  /\ pc = "linkCheck"
  /\ Unlinked = {}
  /\ pc' = "load"
  /\ pending' = SetOf(req.name)
  /\ UNCHANGED <<registry, total, objVars, hooks, running, testVars, req, cur, idx, victim, outcome>>

\* The message names linked_map->map: the program goes on only if there is one.
LinkCheckFails ==
  /\ pc = "linkCheck"
  /\ \E a \in Unlinked : linked[table[a]].map # NULL
  /\ pc' = "undo"
  /\ pending' = {}
  /\ outcome' = "LOAD_FAIL"
  /\ UNCHANGED <<registry, total, objVars, hooks, running, testVars, req, cur, idx, victim>>

\* jbpf_load_codelet, in the order of the hash table.
LoadCodelet(c) ==
  /\ pc = "load"
  /\ c \in pending
  /\ LET h == codelets[c].hook
     IN  /\ h \in CtrlHooks => hooks[h] = {}
         /\ hooks' = [hooks EXCEPT ![h] = @ \cup {c}]
  /\ codelets' = [codelets EXCEPT ![c].loaded = TRUE]
  /\ pending' = pending \ {c}
  /\ UNCHANGED <<registry, total, nmap, mapData, table, linked, running, testVars, pc, req, cur, idx,
                 victim, outcome>>

\* Mutant: the load goes on without the codelet.
LoadCodeletFailsGoesOn(c) ==
  /\ pc = "load"
  /\ c \in pending
  /\ pending' = pending \ {c}
  /\ UNCHANGED <<registry, total, objVars, hooks, running, testVars, pc, req, cur, idx, victim, outcome>>

\* A control hook that is taken, or no memory for the new list.
LoadCodeletFails(c) ==
  /\ pc = "load"
  /\ c \in pending
  /\ AnyClient \/ (codelets[c].hook \in CtrlHooks /\ hooks[codelets[c].hook] # {})
  /\ pc' = "undo"
  /\ pending' = {}
  /\ outcome' = "LOAD_FAIL"
  /\ UNCHANGED <<registry, total, objVars, hooks, running, testVars, req, cur, idx, victim>>

LoadDone ==
  /\ pc = "load"
  /\ pending = {}
  /\ registry' = With(registry, req.name, req)
  /\ pc' = "idle" /\ req' = NULL /\ cur' = 1 /\ idx' = 1
  /\ UNCHANGED <<total, objVars, hooks, running, testVars, victim, pending, outcome>>

-----------------------------------------------------------------------------
(* jbpf_destroy_codelet.                                                   *)

\* jbpf_release_map(d)
ReleaseMap(d) == nmap' = nmap - 1 /\ mapData' = mapData \ {d}

\* Mutant: the contents go with the first reference.
DestroyMapOfFirst(m) ==
  /\ pc = "destroyMaps"
  /\ m \in DOMAIN codelets[victim].maps
  /\ LET alias == <<victim[1], Alias(victim[2], m)>>
         g     == table[alias]
         l     == [linked[g] EXCEPT !.ref_count = @ - 1, !.total_refs = @ - 1]
     IN  IF alias \in DOMAIN table
           THEN /\ table' = Without(table, alias)
                /\ linked' = IF l.total_refs = 0 THEN Without(linked, g) ELSE [linked EXCEPT ![g] = l]
           ELSE UNCHANGED <<table, linked>>
  /\ IF codelets[victim].maps[m] \in mapData
       THEN ReleaseMap(codelets[victim].maps[m])
       ELSE UNCHANGED <<nmap, mapData>>
  /\ codelets' = [codelets EXCEPT ![victim].maps = Without(@, m)]
  /\ UNCHANGED <<registry, total, hooks, running, testVars, taskVars>>

\* Mutant: a linked map that nothing refers to any more is not freed.
DestroyMapKeepsLinked(m) ==
  /\ pc = "destroyMaps"
  /\ m \in DOMAIN codelets[victim].maps
  /\ LET d     == codelets[victim].maps[m]
         alias == <<victim[1], Alias(victim[2], m)>>
         g     == table[alias]
         l     == [linked[g] EXCEPT !.ref_count = @ - 1, !.total_refs = @ - 1]
     IN  IF alias \in DOMAIN table
           THEN /\ table' = Without(table, alias)
                /\ linked' = [linked EXCEPT ![g] = l]
                /\ IF l.ref_count = 0 THEN ReleaseMap(d) ELSE UNCHANGED <<nmap, mapData>>
           ELSE ReleaseMap(d) /\ UNCHANGED <<table, linked>>
  /\ codelets' = [codelets EXCEPT ![victim].maps = Without(@, m)]
  /\ UNCHANGED <<registry, total, hooks, running, testVars, taskVars>>

\* One map of the victim, in the order of the hash table.  The alias of a linked
\* map goes, and the last reference takes the contents with it.
DestroyMap(m) ==
  /\ pc = "destroyMaps"
  /\ m \in DOMAIN codelets[victim].maps
  /\ LET d     == codelets[victim].maps[m]
         alias == <<victim[1], Alias(victim[2], m)>>
         g     == table[alias]
         l     == [linked[g] EXCEPT !.ref_count = @ - 1, !.total_refs = @ - 1]
     IN  IF alias \in DOMAIN table
           THEN /\ table' = Without(table, alias)
                /\ linked' = IF l.ref_count = 0 /\ l.total_refs = 0
                               THEN Without(linked, g)
                               ELSE [linked EXCEPT ![g] = l]
                /\ IF l.ref_count = 0 THEN ReleaseMap(d) ELSE UNCHANGED <<nmap, mapData>>
           ELSE ReleaseMap(d) /\ UNCHANGED <<table, linked>>
  /\ codelets' = [codelets EXCEPT ![victim].maps = Without(@, m)]
  /\ UNCHANGED <<registry, total, hooks, running, testVars, taskVars>>

\* The code is unmapped and the codelet freed; back to the loop that called.
DestroyCodeletDone ==
  /\ pc = "destroyMaps"
  /\ DOMAIN codelets[victim].maps = {}
  /\ codelets' = Without(codelets, victim)
  /\ pc' = IF req.name \in DOMAIN registry THEN "destroy" ELSE "undo"
  /\ victim' = NULL
  /\ UNCHANGED <<registry, total, nmap, mapData, table, linked, hooks, running, testVars, req, cur, idx,
                 pending, outcome>>

-----------------------------------------------------------------------------
(* Undoing a load that failed.                                             *)

\* jbpf_unload_codelet takes c off its hook and waits for invocations.
TakeOffHook(c) == hooks' = [hooks EXCEPT ![codelets[c].hook] = @ \ {c}]

\* It finds no memory for the other entries of the hook: the entry stays there,
\* and the invocations that may call c are not waited for.
LeaveOnHook(c) ==
  /\ AnyClient /\ hooks[codelets[c].hook] # {c}
  /\ hooks' = [hooks EXCEPT ![codelets[c].hook] = (@ \ {c}) \cup {Dangling}]
  /\ running' = [t \in Threads |-> running[t] \ {c}]

\* Mutant: the wait is for all hooks to be idle at once.
NobodyRunsAnything(c) == \A t \in Threads : running[t] = {}

NobodyRuns(c) == \A t \in Threads : c \notin running[t]

UndoCodelet(c) ==
  /\ pc = "undo"
  /\ c \in SetOf(req.name)
  /\ IF codelets[c].loaded
       THEN TakeOffHook(c) /\ pc' = "undoWait"
       ELSE UNCHANGED hooks /\ pc' = "destroyMaps"
  /\ victim' = c
  /\ UNCHANGED <<registry, total, objVars, running, testVars, req, cur, idx, pending, outcome>>

\* "Failed to unload codelet": it is destroyed without a grace period.
UndoCodeletLeft(c) ==
  /\ pc = "undo"
  /\ c \in SetOf(req.name)
  /\ codelets[c].loaded
  /\ LeaveOnHook(c)
  /\ total' = total - 1
  /\ victim' = c
  /\ pc' = "destroyMaps"
  /\ UNCHANGED <<registry, objVars, testVars, req, cur, idx, pending, outcome>>

UndoUnloaded ==
  /\ pc = "undoWait"
  /\ NobodyRuns(victim)
  /\ total' = total - 1
  /\ pc' = "destroyMaps"
  /\ UNCHANGED <<registry, objVars, hooks, running, testVars, req, cur, idx, victim, pending, outcome>>

OwnAliases == {a \in DOMAIN table : a[1] = req.name}
OtherAliases == [a \in DOMAIN table \ OwnAliases |-> table[a]]

\* Aliases no codelet has used are dropped from their linked maps.
UndoDone ==
  /\ pc = "undo"
  /\ SetOf(req.name) = {}
  /\ LET left(g) == Cardinality({a \in OwnAliases : table[a] = g})
     IN  linked' = [g \in {x \in DOMAIN linked : left(x) = 0 \/ linked[x].total_refs # left(x)} |->
                      [linked[g] EXCEPT !.total_refs = @ - left(g)]]
  /\ table' = OtherAliases
  /\ pc' = "idle" /\ req' = NULL /\ cur' = 1 /\ idx' = 1
  /\ UNCHANGED <<registry, total, codelets, mapData, nmap, hooks, running, testVars, victim, pending, outcome>>

-----------------------------------------------------------------------------
(* jbpf_codeletset_unload.                                                 *)

UnloadRefused(n) ==
  /\ pc = "idle"
  /\ n \notin DOMAIN registry
  /\ outcome' = IF validate_string_param(n) THEN "UNLOAD_FAIL" ELSE "PARAM_INVALID"
  /\ Called
  /\ UNCHANGED <<registry, total, objVars, hooks, running, pc, req, cur, idx, victim, pending>>

UnloadBegin(n) ==
  /\ pc = "idle"
  /\ n \in DOMAIN registry
  /\ pc' = "unload" /\ req' = registry[n] /\ outcome' = "SUCCESS"
  /\ pending' = SetOf(n)
  /\ Called
  /\ UNCHANGED <<registry, total, objVars, hooks, running, cur, idx, victim>>

UnloadCodelet(c) ==
  /\ pc = "unload"
  /\ c \in pending
  /\ TakeOffHook(c)
  /\ victim' = c
  /\ pc' = "unloadWait"
  /\ UNCHANGED <<registry, total, objVars, running, testVars, req, cur, idx, pending, outcome>>

\* The unload ignores what jbpf_unload_codelet returns.
UnloadCodeletLeft(c) ==
  /\ pc = "unload"
  /\ c \in pending
  /\ LeaveOnHook(c)
  /\ total' = total - 1
  /\ pending' = pending \ {c}
  /\ pc' = IF pending = {c} THEN "destroy" ELSE "unload"
  /\ UNCHANGED <<registry, objVars, testVars, req, cur, idx, victim, outcome>>

UnloadedCodelet ==
  /\ pc = "unloadWait"
  /\ NobodyRuns(victim)
  /\ total' = total - 1
  /\ pending' = pending \ {victim}
  /\ victim' = NULL
  /\ pc' = IF pending = {victim} THEN "destroy" ELSE "unload"
  /\ UNCHANGED <<registry, objVars, hooks, running, testVars, req, cur, idx, outcome>>

DestroyCodelet(c) ==
  /\ pc = "destroy"
  /\ c \in SetOf(req.name)
  /\ victim' = c
  /\ pc' = "destroyMaps"
  /\ UNCHANGED <<registry, total, objVars, hooks, running, testVars, req, cur, idx, pending, outcome>>

UnloadDone ==
  /\ pc = "destroy"
  /\ SetOf(req.name) = {}
  /\ registry' = Without(registry, req.name)
  /\ table' = OtherAliases
  /\ pc' = "idle" /\ req' = NULL
  /\ UNCHANGED <<total, codelets, mapData, nmap, linked, hooks, running, testVars, cur, idx, victim,
                 pending, outcome>>

-----------------------------------------------------------------------------
\* The steps of a request in progress.
LcmStep ==
  \/ AddLink \/ LinksOfNext
  \/ CreateCodelet \/ RelocateShort \/ RelocateKnown \/ RelocateOwn \/ RelocateFirst
  \/ RelocateShared \/ RelocateError \/ RegisterMapFails \/ CreateFails \/ CreateDone
  \/ LinkCheckOk \/ LinkCheckFails \/ LoadDone
  \/ \E c \in DOMAIN codelets :
       \/ LoadCodelet(c) \/ LoadCodeletFails(c) \/ UndoCodelet(c) \/ UndoCodeletLeft(c)
       \/ UnloadCodelet(c) \/ UnloadCodeletLeft(c) \/ DestroyCodelet(c)
  \/ \E c \in DOMAIN codelets : \E m \in DOMAIN codelets[c].maps : c = victim /\ DestroyMap(m)
  \/ DestroyCodeletDone \/ UndoUnloaded \/ UndoDone \/ UnloadedCodelet \/ UnloadDone

LcmStart ==
  \/ \E r \in Loads : LoadRefused(r) \/ LoadOutOfMemory(r) \/ LoadBegin(r)
  \/ \E n \in Unloads : UnloadRefused(n) \/ UnloadBegin(n)

Next ==
  \/ \E t \in Threads : HookReturn(t) \/ \E h \in Hooks : HookInvoke(t, h)
  \/ LcmStart
  \/ LcmStep

Spec == Init /\ [][Next]_vars

\* The thread that serves a request keeps running, and so does a thread inside
\* a hook, whose codelets terminate.
Fairness == WF_vars(LcmStep) /\ \A t \in Threads : WF_vars(HookReturn(t))

FairSpec == Spec /\ Fairness

-----------------------------------------------------------------------------
(* Properties.                                                             *)

\* Every variable has its type; ref_count and total_refs never go below zero.
TypeOK ==
  /\ \A n \in DOMAIN registry : registry[n].name = n /\ validate_codeletset(registry[n])
  /\ total \in Nat /\ nmap \in Nat
  /\ \A c \in DOMAIN codelets : codelets[c].hook \in Hooks /\ codelets[c].loaded \in BOOLEAN
  /\ \A a \in DOMAIN table : table[a] \in DOMAIN linked
  /\ \A g \in DOMAIN linked : linked[g].ref_count \in Nat /\ linked[g].total_refs \in Nat
  /\ \A h \in Hooks : hooks[h] \subseteq DOMAIN codelets \cup {Dangling}
  /\ req # NULL => validate_codeletset(req)
  /\ pending \subseteq DOMAIN codelets

MapsOf(c) == {codelets[c].maps[m] : m \in DOMAIN codelets[c].maps}

\* A codelet that a hook invocation may call exists, has all its maps, and none
\* of them has lost its contents: destroying another codelet of its set, which
\* a failed load does while it is still on its hook, leaves a linked map to the
\* last that refers to it (jbpf.c:878-911, 1480-1491).  The exception is a
\* codelet whose own remove failed for lack of memory, which is destroyed and
\* still called; those that share the hook or a map with it are safe.
NoFreedMapInUse ==
  \A t \in Threads : \A c \in running[t] :
    /\ c \in DOMAIN codelets
    /\ ~(pc = "destroyMaps" /\ victim = c)
    /\ MapsOf(c) \subseteq mapData

\* Between requests the codelets that exist are those of the loaded sets, each
\* on its hook: a load that fails at any point leaves nothing behind
\* (jbpf.c:1477-1507) but the entry, of no codelet, that a remove without memory
\* could not take off a hook (jbpf_hook.c:153-159), never a control hook.
LoadIsAllOrNothing ==
  pc = "idle" =>
    /\ DOMAIN codelets = UNION {{<<n, registry[n].codelets[i].name>> :
                                   i \in DOMAIN registry[n].codelets} : n \in DOMAIN registry}
    /\ \A h \in Hooks :
         /\ hooks[h] \ {Dangling} = {c \in DOMAIN codelets : codelets[c].hook = h}
         /\ h \in CtrlHooks => Dangling \notin hooks[h]

\* Every linked map counts the aliases that lead to it, at least one, at every
\* step; between requests all of them are used, and every map contents belongs
\* to a codelet (jbpf.c:852-913, 1492-1502).
NothingLeaks ==
  /\ \A g \in DOMAIN linked :
       LET aliases == {a \in DOMAIN table : table[a] = g}
       IN  /\ aliases # {}
           /\ linked[g].total_refs = Cardinality(aliases)
           /\ pc = "idle" => linked[g].ref_count = Cardinality(aliases)
  /\ pc = "idle" => mapData = UNION {MapsOf(c) : c \in DOMAIN codelets}

\* The limits on codelets, codeletsets and maps are kept, also during a load and
\* after loads that failed: total_num_codelets and nmap_reg, which the checks go
\* by, are never too low (jbpf.c:1328-1368, 553-556).
LimitsKept ==
  /\ Cardinality(DOMAIN codelets) <= MaxCodelets
  /\ Cardinality(DOMAIN registry) <= MaxSets
  /\ Cardinality(mapData) <= nmap /\ nmap <= MaxMaps

\* total_num_codelets is 0 once every set has been unloaded
\* (max_loaded_codeletSets_exceeded.c:150).
CodeletsCounted == pc = "idle" /\ DOMAIN registry = {} => total = 0

\* A link that is not used by all its codelets is reported: the failing linked
\* map has a map whose name the message can print (jbpf.c:1418-1436).
LinkErrorIsReported ==
  pc = "linkCheck" => \A a \in Unlinked : linked[table[a]].map # NULL

\* The maps of a request, and those its links join (directly or not).
Nodes(r) == UNION {LET d == r.codelets[i]
                   IN  {<<d.name, MapsIn(d)[j].name>> :
                          j \in {k \in DOMAIN MapsIn(d) : MapsIn(d)[k].type # "short"}} :
                     i \in DOMAIN r.codelets}
Links(r) == UNION {{{<<r.codelets[i].name, r.codelets[i].links[j].map>>,
                     <<r.codelets[i].links[j].codelet, r.codelets[i].links[j].linked>>} :
                       j \in DOMAIN r.codelets[i].links} : i \in DOMAIN r.codelets}
Joined(r, x, y) ==
  LET within[n \in Nat] ==
        IF n = 0 THEN {x}
        ELSE within[n - 1] \cup UNION {l \in Links(r) : l \cap within[n - 1] # {}}
  IN  y \in within[Cardinality(Links(r))]

\* In a loaded set two maps have the same contents exactly if links join them:
\* without a link they are "two different, unrelated maps" (docs/maps.md:57-60,
\* jbpf.c:1241-1284).
SharedIffLinked ==
  \A n \in DOMAIN registry :
    (pc = "idle" \/ req.name # n) =>
      \A x, y \in Nodes(registry[n]) :
        codelets[<<n, x[1]>>].maps[x[2]] = codelets[<<n, y[1]>>].maps[y[2]]
          <=> Joined(registry[n], x, y)

\* What a test program asserts of its last call holds: what the call returned,
\* and where the test looks at them the numbers of codeletsets, of codelets and
\* of maps (module LcmTests names the assertions).
TestsAgree ==
  pc = "idle" /\ asserted # NULL =>
    /\ outcome = asserted.returns
    /\ asserted.counts # <<>> => asserted.counts = <<Cardinality(DOMAIN registry), total, nmap>>

\* Every request is answered: a load or an unload waits for hook invocations,
\* which never wait for it (jbpf.c:1298, 1506, 1528, 1596).
RequestAnswered == pc # "idle" ~> pc = "idle"
=============================================================================
