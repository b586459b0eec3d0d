---------------------------- MODULE ThreadIds ----------------------------
(***************************************************************************)
(* Registration of threads with jbpf (core/jbpf.c, core/jbpf_bitmap.h).    *)
(* A thread takes the first clear bit of a bitmap as its id with a         *)
(* compare-and-swap on the word of the bitmap that holds the bit; the id   *)
(* selects the epoch record, and the slot of the performance data, that    *)
(* the thread uses without further synchronisation.  The I/O library keeps *)
(* a second id of the same kind (module JbpfIoQueue).                      *)
(***************************************************************************)
EXTENDS Integers

CONSTANTS Procs,     \* the threads of the process
          NumIds,    \* JBPF_MAX_NUM_REG_THREADS
          WordBits   \* BITMAP_BITS_PER_WORD

ASSUME IdConstants == NumIds \in Nat \ {0} /\ WordBits \in Nat \ {0}

VARIABLES bits,      \* the bits that are set in threads_info.registered_threads
          th         \* the thread-local variables of each thread, and its place in the scan

idVars == <<bits, th>>

Ids == 0 .. NumIds - 1

\* The bits of the bitmap that share a word with bit i.
Word(i) == {j \in Ids : j \div WordBits = i \div WordBits}

\* jbpf_init_threads_info; __thread_id = -1, e_record = NULL (-1 here), and
\* neither __jbpf_registered_thread nor __jbpf_unregistered_thread.
IdInit ==
  /\ bits = {}
  /\ th = [t \in Procs |-> [pc |-> "idle", i |-> 0, old |-> {}, id |-> -1, rec |-> -1,
                            flags |-> {}]]

Registered(t) == "registered" \in th[t].flags
Unregistered(t) == "unregistered" \in th[t].flags

\* jbpf_register_thread: nothing for a thread that is registered, or that was.
RegisterThread(t) ==
  /\ th[t].pc = "idle"
  /\ th' = IF Registered(t) THEN th ELSE [th EXCEPT ![t].pc = "read", ![t].i = 0]
  /\ UNCHANGED bits

\* The scan goes on with the next bit, or ends without an id (-1).
NextBit(r) ==
  IF r.i + 1 < NumIds THEN [r EXCEPT !.pc = "read", !.i = @ + 1]
  ELSE [r EXCEPT !.pc = "idle", !.id = -1]

\* jbpf_allocate_bit reads the word of bit i.
ReadWord(t) ==
  /\ th[t].pc = "read"
  /\ th' = [th EXCEPT ![t] = IF @.i \in bits THEN NextBit(@)
                             ELSE [@ EXCEPT !.pc = "cas", !.old = bits \cap Word(th[t].i)]]
  /\ UNCHANGED bits

\* Mutant: the bit is set without comparing the word.
SwapWordStores(t) ==
  /\ th[t].pc = "cas"
  /\ bits' = (bits \ Word(th[t].i)) \cup th[t].old \cup {th[t].i}
  /\ th' = [th EXCEPT ![t].pc = "idle", ![t].id = th[t].i, ![t].rec = th[t].i, ![t].flags = @ \cup {"registered"}]

\* The compare-and-swap.  Whoever loses it goes on with the next bit, even
\* if bit i is still clear.
SwapWord(t) ==
  /\ th[t].pc = "cas"
  /\ IF bits \cap Word(th[t].i) = th[t].old
     THEN /\ bits' = bits \cup {th[t].i}
          /\ th' = [th EXCEPT ![t].pc = "idle", ![t].id = th[t].i, ![t].rec = th[t].i,
                              ![t].flags = @ \cup {"registered"}]
     ELSE /\ th' = [th EXCEPT ![t] = NextBit(@)]
          /\ UNCHANGED bits

\* Mutant: a second clean-up gives the id back again.
CleanupThreadTwice(t) ==
  /\ th[t].pc = "idle"
  /\ bits' = bits \ {th[t].id}
  /\ th' = [th EXCEPT ![t].flags = @ \cup {"unregistered"}]

\* jbpf_cleanup_thread: gives the id back, once.  id -1 is out of the
\* bitmap's range and frees nothing.  e_record keeps its value.
CleanupThread(t) ==
  /\ th[t].pc = "idle"
  /\ bits' = IF Unregistered(t) THEN bits ELSE bits \ {th[t].id}
  /\ th' = [th EXCEPT ![t].flags = @ \cup {"unregistered"}]

\* A thread that has cleaned up does not register again: it is finishing.
IdNext ==
  \E t \in Procs : \/ ~ Unregistered(t) /\ RegisterThread(t)
                   \/ ReadWord(t)
                   \/ SwapWord(t)
                   \/ CleanupThread(t)

IdSpec == IdInit /\ [][IdNext]_idVars

LocalState ==
  [pc : {"idle", "read", "cas"}, i : Ids, old : SUBSET Ids, id : {-1} \cup Ids,
   rec : {-1} \cup Ids, flags : SUBSET {"registered", "unregistered"}]

IdTypeOK == bits \subseteq Ids /\ th \in [Procs -> LocalState]

Holds(t) == Registered(t) /\ ~ Unregistered(t)

(* Two threads that are registered have different ids, hence different     *)
(* epoch records and different slots of performance data, although they    *)
(* scan the bitmap at the same time as others register and leave           *)
(* (jbpf_allocate_bit, jbpf_free_bit).                                      *)
IdsUnique == \A t, u \in Procs : Holds(t) /\ Holds(u) /\ th[t].id = th[u].id => t = u

(* The bitmap has exactly the bits of the registered threads: no id is     *)
(* lost when a registration races with another or with a clean-up, and     *)
(* none is given back while its thread still has it.                       *)
BitsExact == bits = {th[t].id : t \in {u \in Procs : Holds(u)}}
=============================================================================
