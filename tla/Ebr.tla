------------------------------- MODULE Ebr -------------------------------
(***************************************************************************)
(* The contract of the ck_epoch library (Concurrency Kit), which jbpf uses *)
(* for epoch-based reclamation.  The library is external: this module is   *)
(* written from how the code calls it.                                     *)
(*                                                                         *)
(* `section` is the set of threads between ck_epoch_begin and ck_epoch_end *)
(* on their record.  A ticket is something that waits for a grace period:  *)
(* a thread inside ck_epoch_synchronize / ck_epoch_barrier, or a block     *)
(* handed to ck_epoch_call.  A grace period has elapsed for a ticket once  *)
(* every thread that was in a section when the ticket was taken has left   *)
(* that section at least once; threads that enter later are not waited for.*)
(***************************************************************************)
CONSTANTS Threads,  \* threads that own an epoch record
          Tickets   \* everything that can wait for a grace period

VARIABLES section,  \* threads inside an epoch section
          waitFor   \* waitFor[k]: threads ticket k still waits for

ebrVars == <<section, waitFor>>

EbrTypeOK ==
  /\ section \subseteq Threads
  /\ waitFor \in [Tickets -> SUBSET Threads]

EbrInit ==
  /\ section = {}
  /\ waitFor = [k \in Tickets |-> {}]

\* ck_epoch_begin(record)
EpochBegin(t) ==
  /\ section' = section \cup {t}
  /\ UNCHANGED waitFor

\* ck_epoch_end(record): the thread is quiescent for every ticket.
EpochEnd(t) ==
  /\ section' = section \ {t}
  /\ waitFor' = [k \in Tickets |-> waitFor[k] \ {t}]

\* The entry of ck_epoch_synchronize / ck_epoch_barrier, or ck_epoch_call.
StartGrace(k) ==
  /\ waitFor' = [waitFor EXCEPT ![k] = section]
  /\ UNCHANGED section

GraceElapsed(k) == waitFor[k] = {}
=============================================================================
