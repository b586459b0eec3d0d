---------------------------- MODULE MapUnitTests ----------------------------
(***************************************************************************)
(* The unit tests of the array map and of the per-thread hash map          *)
(* (jbpf_tests/unit_tests/array, jbpf_tests/unit_tests/hashmap) as the     *)
(* calls they make and what they assert about each.  Ten or a thousand     *)
(* entries become TestSize; a key of 9999 or more, which no test stores in *)
(* a full map, becomes Absent.                                              *)
(***************************************************************************)
EXTENDS Integers, Sequences

TestSize == 3
Absent == 9
Missing == -9     \* assert(!val)
TestCall(fn, k, v, want) == [fn |-> fn, key |-> k, val |-> v, want |-> want]
Adds(k, v) == TestCall("update", k, v, 0)
Refused(k) == TestCall("update", k, 9, -4)
Finds(k, v) == TestCall("lookup", k, 0, v)
Misses(k) == TestCall("lookup", k, 0, Missing)
Deletes(k) == TestCall("delete", k, 0, 0)
NoDelete(k) == TestCall("delete", k, 0, -1)
ForEach(op(_)) == [i \in 1 .. TestSize |-> op(i - 1)]
AddAll == ForEach(LAMBDA i : Adds(i, i))

UnitTest(type, max, setup, calls) == [map |-> [type |-> type, max |-> max], calls |-> setup \o calls]
OnArray(calls) == UnitTest("array", TestSize, AddAll, calls)
OnSingleArray(calls) == UnitTest("array", 1, <<Adds(0, 8)>>, calls)
OnFull(calls) == UnitTest("per_thread_hashmap", TestSize, AddAll, calls)
OnEmpty(calls) == UnitTest("per_thread_hashmap", TestSize, <<>>, calls)
OnFullSingle(calls) == UnitTest("per_thread_hashmap", 1, <<Adds(0, 0)>>, calls)
OnEmptySingle(calls) == UnitTest("per_thread_hashmap", 1, <<>>, calls)
OnSingle(calls) == UnitTest("per_thread_hashmap", 1, <<Adds(0, 8)>>, calls)

test_array_access == OnArray(ForEach(LAMBDA i : Finds(i, i)))
test_array_access_single_entry == OnSingleArray(<<Finds(0, 8)>>)
test_array_access_out_of_bounds == OnArray(<<Misses(Absent)>>)
test_array_access_out_of_bounds_single_entry == OnSingleArray(<<Misses(Absent)>>)

test_hashmap_access == OnFull(ForEach(LAMBDA i : Finds(i, i)))
test_hashmap_access_single_entry == OnSingle(<<Finds(0, 8)>>)
test_hashmap_access_key_not_exist == OnFull(<<Misses(Absent)>>)
test_hashmap_access_key_not_exist_single_entry == OnSingle(<<Misses(Absent)>>)
test_hashmap_remove_key_not_exist == OnFull(<<NoDelete(Absent)>>)
test_hashmap_add_a_new_key_to_a_full_map == <<Refused(Absent)>>
test_hashmap_update_existing_key_to_a_full_map == <<Adds(0, 0)>>
test_hashmap_remove_key_exist_and_then_check == OnFull(<<Deletes(0), Misses(0), Adds(0, 9)>>)
test_hashmap_mixed_add_delete_lookup ==
  <<Adds(0, 9), Finds(0, 9), Deletes(0), Misses(0), Adds(0, 9), Finds(0, 9), Deletes(0), Misses(0)>>
test_hashmap_delete_twice ==
  <<Adds(Absent, 9), Finds(Absent, 9), Deletes(Absent), Misses(Absent), NoDelete(Absent)>>

\* The tests as main lists them, with their set-up.
AllUnitTests ==
  {test_array_access, test_array_access_single_entry, test_array_access_out_of_bounds,
   test_array_access_out_of_bounds_single_entry,
   test_hashmap_access, test_hashmap_access_single_entry, test_hashmap_access_key_not_exist,
   test_hashmap_access_key_not_exist_single_entry, test_hashmap_remove_key_not_exist,
   OnFull(test_hashmap_add_a_new_key_to_a_full_map), OnFullSingle(test_hashmap_add_a_new_key_to_a_full_map),
   OnFull(test_hashmap_update_existing_key_to_a_full_map),
   OnFullSingle(test_hashmap_update_existing_key_to_a_full_map),
   test_hashmap_remove_key_exist_and_then_check,
   OnEmpty(test_hashmap_mixed_add_delete_lookup), OnEmptySingle(test_hashmap_mixed_add_delete_lookup),
   OnEmpty(test_hashmap_delete_twice), OnEmptySingle(test_hashmap_delete_twice)}
=============================================================================
