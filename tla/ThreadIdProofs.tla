-------------------------- MODULE ThreadIdProofs --------------------------
(***************************************************************************)
(* For every number of threads and of ids: registered threads have         *)
(* different ids, and the bitmap has exactly their bits.                    *)
(***************************************************************************)
EXTENDS ThreadIds, TLAPS

\* What the scan of a thread knows.  The word it compares with did not have
\* the bit it is about to set.
ScanOK(r) ==
  /\ r.pc # "idle" => r.flags = {}
  /\ r.pc = "cas" => r.i \notin r.old
  /\ r.id \in Ids <=> "registered" \in r.flags

IdInv ==
  /\ IdTypeOK
  /\ \A t \in Procs : ScanOK(th[t])
  /\ IdsUnique
  /\ BitsExact

(* A bit shares its word with itself.                                       *)
LEMMA WordHasBit == \A i \in Ids : i \in Word(i)
  BY DEF Word, Ids

(* Where the scan goes on (NextBit) the thread has no id and nothing to    *)
(* compare.                                                                 *)
LEMMA NextBitOK ==
  ASSUME NEW r \in LocalState, ScanOK(r), r.flags = {}
  PROVE  NextBit(r) \in LocalState /\ ScanOK(NextBit(r)) /\ NextBit(r).flags = {}
<1>1. -1 \notin Ids /\ 0 \in Ids
  BY IdConstants DEF Ids
<1>2. CASE r.i + 1 < NumIds
  <2>1. r.i + 1 \in Ids
    BY <1>2, IdConstants DEF LocalState, Ids
  <2> QED BY <1>2, <2>1 DEF NextBit, LocalState, ScanOK
<1>3. CASE ~ (r.i + 1 < NumIds)
  BY <1>1, <1>3 DEF NextBit, LocalState, ScanOK
<1> QED BY <1>2, <1>3

(* jbpf_init_threads_info and the initial thread-local variables.          *)
LEMMA InitEstablishes == IdInit => IdInv
<1>1. -1 \notin Ids /\ 0 \in Ids
  BY IdConstants DEF Ids
<1> QED
  BY <1>1 DEF IdInit, IdInv, IdTypeOK, LocalState, ScanOK, IdsUnique, BitsExact, Holds,
              Registered, Unregistered

(* A step that gives thread t the local state r, neither t nor r with an   *)
(* id, and leaves the bitmap alone, keeps the invariant.                    *)
LEMMA UnregisteredStep ==
  ASSUME IdInv, NEW t \in Procs, NEW r \in LocalState, th' = [th EXCEPT ![t] = r], UNCHANGED bits,
         ~ Registered(t), "registered" \notin r.flags, ScanOK(r)
  PROVE  IdInv'
<1>1. IdTypeOK'
  BY DEF IdInv, IdTypeOK
<1>2. th'[t] = r /\ \A u \in Procs : u # t => th'[u] = th[u]
  BY DEF IdInv, IdTypeOK
<1>4. \A u \in Procs : ScanOK(th'[u])
  BY <1>2 DEF IdInv
<1>5. \A u \in Procs : /\ Holds(u)' <=> Holds(u)
                       /\ Holds(u) => th'[u] = th[u]
  BY <1>2 DEF Holds, Registered, Unregistered
<1>6. IdsUnique'
  BY <1>5 DEF IdInv, IdsUnique
<1>7. BitsExact'
  BY <1>5 DEF IdInv, BitsExact
<1> QED BY <1>1, <1>4, <1>6, <1>7 DEF IdInv

(* jbpf_register_thread and the reads of jbpf_allocate_bit.                 *)
LEMMA ScanKeeps ==
  ASSUME IdInv, NEW t \in Procs,
         \/ ~ Unregistered(t) /\ RegisterThread(t)
         \/ ReadWord(t)
  PROVE  IdInv'
<1>0. th[t] \in LocalState /\ ScanOK(th[t])
  BY DEF IdInv, IdTypeOK
<1>1. CASE ~ Unregistered(t) /\ RegisterThread(t) /\ Registered(t)
  BY <1>1 DEF RegisterThread, IdInv, IdTypeOK, IdsUnique, BitsExact, Holds, Registered, Unregistered
<1>2. CASE ~ Unregistered(t) /\ RegisterThread(t) /\ ~ Registered(t)
  <2> DEFINE r == [th[t] EXCEPT !.pc = "read", !.i = 0]
  <2>1. th' = [th EXCEPT ![t] = r] /\ UNCHANGED bits
    BY <1>0, <1>2 DEF RegisterThread, IdInv, IdTypeOK, LocalState
  <2>2. th[t].flags = {}
    BY <1>0, <1>2 DEF LocalState, Registered, Unregistered
  <2>3. r \in LocalState /\ ScanOK(r) /\ "registered" \notin r.flags
    <3>1. 0 \in Ids
      BY IdConstants DEF Ids
    <3> QED BY <1>0, <2>2, <3>1 DEF LocalState, ScanOK
  <2> HIDE DEF r
  <2> QED BY <1>2, <2>1, <2>3, UnregisteredStep
<1>3. CASE ReadWord(t)
  <2>1. th[t].flags = {} /\ ~ Registered(t)
    BY <1>0, <1>3 DEF ReadWord, ScanOK, Registered
  <2>2. CASE th[t].i \in bits
    <3>1. th' = [th EXCEPT ![t] = NextBit(th[t])] /\ UNCHANGED bits
      BY <1>3, <2>2 DEF ReadWord
    <3>2. NextBit(th[t]) \in LocalState /\ ScanOK(NextBit(th[t])) /\ NextBit(th[t]).flags = {}
      BY <1>0, <2>1, NextBitOK
    <3> QED BY <2>1, <3>1, <3>2, UnregisteredStep
  <2>3. CASE th[t].i \notin bits
    <3> DEFINE r == [th[t] EXCEPT !.pc = "cas", !.old = bits \cap Word(th[t].i)]
    <3>1. th' = [th EXCEPT ![t] = r] /\ UNCHANGED bits
      BY <1>3, <2>3 DEF ReadWord
    <3>2. r \in LocalState /\ ScanOK(r) /\ "registered" \notin r.flags
      BY <1>0, <2>1, <2>3 DEF LocalState, ScanOK, IdInv, IdTypeOK
    <3> HIDE DEF r
    <3> QED BY <2>1, <3>1, <3>2, UnregisteredStep
  <2> QED BY <2>2, <2>3
<1> QED BY <1>1, <1>2, <1>3

(* The compare-and-swap: when it succeeds, the word is the one in which    *)
(* the bit was clear, so that nobody has the id.                            *)
LEMMA SwapKeeps ==
  ASSUME IdInv, NEW t \in Procs, SwapWord(t)
  PROVE  IdInv'
<1>0. th[t] \in LocalState /\ ScanOK(th[t])
  BY DEF IdInv, IdTypeOK
<1>1. th[t].flags = {} /\ ~ Registered(t) /\ th[t].i \in Ids /\ th[t].i \notin th[t].old
  BY <1>0 DEF SwapWord, ScanOK, LocalState, Registered
<1>2. CASE bits \cap Word(th[t].i) = th[t].old
  <2> DEFINE i == th[t].i
  <2>1. i \notin bits
    BY <1>1, <1>2, WordHasBit
  <2>2. /\ bits' = bits \cup {i}
        /\ th' = [th EXCEPT ![t].pc = "idle", ![t].id = i, ![t].rec = i,
                            ![t].flags = @ \cup {"registered"}]
    BY <1>2 DEF SwapWord
  <2>3. /\ th'[t] = [th[t] EXCEPT !.pc = "idle", !.id = i, !.rec = i,
                                  !.flags = th[t].flags \cup {"registered"}]
        /\ th'[t] \in LocalState
        /\ th'[t].pc = "idle" /\ th'[t].id = i /\ th'[t].flags = {"registered"}
    BY <1>0, <1>1, <2>2 DEF IdInv, IdTypeOK, LocalState
  <2>4. \A u \in Procs : u # t => th'[u] = th[u]
    BY <2>2 DEF IdInv, IdTypeOK
  <2>5. IdTypeOK'
    <3>1. DOMAIN th' = Procs /\ th' = [u \in Procs |-> th'[u]]
      BY <2>2 DEF IdInv, IdTypeOK
    <3>2. bits' \subseteq Ids
      BY <1>1, <2>2 DEF IdInv, IdTypeOK
    <3>3. \A u \in Procs : th'[u] \in LocalState
      BY <2>3, <2>4 DEF IdInv, IdTypeOK
    <3> QED BY <3>1, <3>2, <3>3 DEF IdTypeOK
  <2>6. \A u \in Procs : ScanOK(th'[u])
    <3>1. ScanOK(th'[t])
      BY <1>1, <2>3 DEF ScanOK
    <3>2. \A u \in Procs : u # t => ScanOK(th'[u])
      BY <2>4 DEF IdInv
    <3> QED BY <3>1, <3>2
  <2>7. Holds(t)' /\ ~ Holds(t) /\ \A u \in Procs : u # t => (Holds(u)' <=> Holds(u))
    BY <1>1, <2>3, <2>4 DEF Holds, Registered, Unregistered
  <2>8. \A u \in Procs : Holds(u) => th[u].id \in bits
    BY DEF IdInv, BitsExact
  <2>9. IdsUnique'
    BY <2>1, <2>3, <2>4, <2>7, <2>8 DEF IdInv, IdsUnique
  <2>10. BitsExact'
    <3> DEFINE H == {v \in Procs : Holds(v)}
               K == {v \in Procs : Holds(v)'}
    <3>1. bits' = {th[u].id : u \in H} \cup {i}
      BY <2>2 DEF IdInv, BitsExact
    <3>2. K = H \cup {t}
      BY <2>7
    <3>3. \A u \in H : th'[u].id = th[u].id
      BY <2>4, <2>7
    <3>4. th'[t].id = i
      BY <2>3
    <3> HIDE DEF i, H
    <3>5. {th'[u].id : u \in H \cup {t}} = {th[u].id : u \in H} \cup {i}
      BY <3>3, <3>4
    <3>6. bits' = {th'[u].id : u \in K}
      BY <3>1, <3>2, <3>5
    <3> QED BY <3>6 DEF BitsExact
  <2> QED BY <2>5, <2>6, <2>9, <2>10 DEF IdInv
<1>3. CASE bits \cap Word(th[t].i) # th[t].old
  <2>1. th' = [th EXCEPT ![t] = NextBit(th[t])] /\ UNCHANGED bits
    BY <1>3 DEF SwapWord
  <2>2. NextBit(th[t]) \in LocalState /\ ScanOK(NextBit(th[t])) /\ NextBit(th[t]).flags = {}
    BY <1>0, <1>1, NextBitOK
  <2> QED BY <1>1, <2>1, <2>2, UnregisteredStep
<1> QED BY <1>2, <1>3

(* jbpf_cleanup_thread takes exactly the thread's own bit away.            *)
LEMMA CleanupKeeps ==
  ASSUME IdInv, NEW t \in Procs, CleanupThread(t)
  PROVE  IdInv'
<1>0. th[t] \in LocalState /\ ScanOK(th[t]) /\ th[t].pc = "idle"
  BY DEF IdInv, IdTypeOK, CleanupThread
<1>1. /\ th'[t] = [th[t] EXCEPT !.flags = th[t].flags \cup {"unregistered"}]
      /\ \A u \in Procs : u # t => th'[u] = th[u]
      /\ th' = [u \in Procs |-> th'[u]]
  BY DEF CleanupThread, IdInv, IdTypeOK
<1>2. /\ th'[t] \in LocalState /\ th'[t].pc = "idle" /\ th'[t].id = th[t].id
      /\ th'[t].flags = th[t].flags \cup {"unregistered"}
  BY <1>0, <1>1 DEF LocalState
<1>3. IdTypeOK'
  <2>1. \A u \in Procs : th'[u] \in LocalState
    BY <1>1, <1>2 DEF IdInv, IdTypeOK
  <2>2. bits' \subseteq Ids
    BY DEF CleanupThread, IdInv, IdTypeOK
  <2> QED BY <1>1, <2>1, <2>2 DEF IdTypeOK
<1>4. \A u \in Procs : ScanOK(th'[u])
  <2>1. ScanOK(th'[t])
    BY <1>0, <1>2 DEF ScanOK
  <2> QED BY <1>1, <2>1 DEF IdInv
<1>5. ~ Holds(t)' /\ \A u \in Procs : u # t => (Holds(u)' <=> Holds(u))
  BY <1>1, <1>2 DEF Holds, Registered, Unregistered
<1>6. IdsUnique'
  BY <1>1, <1>5 DEF IdInv, IdsUnique
<1>7. CASE Holds(t)
  <2>1. bits' = bits \ {th[t].id}
    BY <1>7 DEF CleanupThread, Holds
  <2>2. BitsExact'
    BY <1>1, <1>5, <1>7, <2>1 DEF IdInv, BitsExact, IdsUnique
  <2> QED BY <1>3, <1>4, <1>6, <2>2 DEF IdInv
<1>8. CASE ~ Holds(t)
  <2>1. bits' = bits
    <3>1. Unregistered(t) \/ ~ Registered(t)
      BY <1>8 DEF Holds
    <3>2. CASE ~ Registered(t)
      BY <1>0, <3>2 DEF CleanupThread, ScanOK, Registered, IdInv, IdTypeOK
    <3> QED BY <3>1, <3>2 DEF CleanupThread
  <2>2. BitsExact'
    BY <1>1, <1>5, <1>8, <2>1 DEF IdInv, BitsExact
  <2> QED BY <1>3, <1>4, <1>6, <2>2 DEF IdInv
<1> QED BY <1>7, <1>8

(* Every step of every thread keeps the invariant.                          *)
LEMMA StepKeeps == IdInv /\ [IdNext]_idVars => IdInv'
<1> SUFFICES ASSUME IdInv, [IdNext]_idVars PROVE IdInv'
  OBVIOUS
<1>1. CASE UNCHANGED idVars
  BY <1>1 DEF idVars, IdInv, IdTypeOK, IdsUnique, BitsExact, Holds, Registered, Unregistered
<1>2. CASE IdNext
  BY <1>2, ScanKeeps, SwapKeeps, CleanupKeeps DEF IdNext
<1> QED BY <1>1, <1>2

(* Registered threads have different ids: two threads that scan the bitmap *)
(* of jbpf_allocate_bit at the same time never take the same bit, whatever *)
(* the number of threads, of ids and of bits in a word.                     *)
THEOREM ThreadIdsUnique == IdSpec => []IdsUnique
<1>1. IdInv => IdsUnique
  BY DEF IdInv
<1> QED BY InitEstablishes, StepKeeps, <1>1, PTL DEF IdSpec

(* The bitmap has the bits of the registered threads and no others: no     *)
(* interleaving of registrations and clean-ups loses an id or frees one    *)
(* that is in use.                                                          *)
THEOREM ThreadBitsExact == IdSpec => []BitsExact
<1>1. IdInv => BitsExact
  BY DEF IdInv
<1> QED BY InitEstablishes, StepKeeps, <1>1, PTL DEF IdSpec
=============================================================================
