------------------------------- MODULE MCMaps -------------------------------
(* CodeletMaps for model checking. *)
EXTENDS CodeletMaps, MapUnitTests

\* Two threads with ids of their own, and one that has none.
TwoIds == [t \in MapThreads |-> IF t = "w0" THEN 0 ELSE IF t = "w1" THEN 1 ELSE -1]
AllKeys == 0 .. 2 \cup {Absent}
OneVal == {1}
Def(type, max) == [type |-> type, max |-> max]
ClientMaps == {Def("array", 2), Def("per_thread_array", 2),
               Def("per_thread_hashmap", 2), Def("per_thread_hashmap", 3)}
\* Every key in one slot with a small and with a large hash, in the last slot,
\* and in slots of their own.
FourHashes == {[k \in MapKeys |-> 0], [k \in MapKeys |-> 8 * (k + 1)],
               [k \in MapKeys |-> 7], [k \in MapKeys |-> k]}
=============================================================================
