------------------------------ MODULE LcmTests ------------------------------
(***************************************************************************)
(* The repository's functional tests of loading and unloading, as clients  *)
(* of JbpfLcm: a test is the sequence of its calls, each with what the     *)
(* test asserts of it.  A test that fills a limit is scaled to the limits  *)
(* of the instance, and a name keeps its words only where its length is    *)
(* what the test is about: NotSet, Longest(w) and TooLong.                 *)
(***************************************************************************)
EXTENDS JbpfLcm, TLC

NotSet  == <<>>
Padded(w, n) == [i \in 1..n |-> IF i = 1 THEN w ELSE "0123456789abcdef"]
Longest(w) == Padded(w, NameLen - 1)
TooLong == Padded("A", NameLen)

test1     == <<"test1">>
test3     == <<"test3">>
ctrl_test0 == <<"ctrl_test0">>
unknown   == <<"unknown">>

-----------------------------------------------------------------------------
(* The object files: their maps, in the order of their definitions.        *)

Map(n, ty) == [name |-> n, type |-> ty]
Object(maps) == [elf |-> TRUE, maps |-> maps]

\* JBPF_MAX_LINKED_MAPS, and the numbered maps, channels and codelets.
MaxLinks == 2
input_maps  == <<<<"input_map0">>, <<"input_map1">>, <<"input_map2">>>>
output_maps == <<<<"output_map0">>, <<"output_map1">>, <<"output_map2">>>>
shared_maps == <<<<"shared_map0">>, <<"shared_map1">>, <<"shared_map2">>>>
shared_map_outputs == <<<<"shared_map_output0">>, <<"shared_map_output1">>, <<"shared_map_output2">>>>
names == <<<<"c0">>, <<"c1">>, <<"c2">>, <<"c3">>>>
sets  == <<<<"s0">>, <<"s1">>, <<"s2">>, <<"s3">>>>

input_map  == <<"input_map">>
output_map == <<"output_map">>
shared_map == <<"shared_map">>
shared_map_output  == <<"shared_map_output">>
shared_counter_map == <<"shared_counter_map">>

simple_output        == Object(<<Map(output_map, "out")>>)
simple_output_shared == Object(<<Map(output_map, "out"), Map(shared_map_output, "array")>>)
simple_input_shared  == Object(<<Map(input_map, "in"), Map(shared_map, "array")>>)
\* The same, with a map of another size or with names of maximal length.
simple_input_largeShared    == Object(<<Map(input_map, "in"), Map(shared_map, "largeArray")>>)
simple_input_shared_maxLen  == Object(<<Map(Longest("input_map"), "in"), Map(Longest("shared_map"), "array")>>)
simple_output_shared_maxLen ==
  Object(<<Map(Longest("output_map"), "out"), Map(Longest("shared_map_output"), "array")>>)
simple_output_2shared ==
  Object(<<Map(output_map, "out"), Map(shared_map_outputs[1], "array"), Map(shared_map_outputs[2], "array")>>)
max_input_shared ==
  Object([i \in 1..MaxChannels |-> Map(input_maps[i], "in")] \o [i \in 1..MaxLinks |-> Map(shared_maps[i], "array")])
max_output_shared ==
  Object([i \in 1..MaxChannels |-> Map(output_maps[i], "out")]
           \o [i \in 1..MaxLinks |-> Map(shared_map_outputs[i], "array")])
simple_output_shared_counter == Object(<<Map(output_map, "out"), Map(shared_counter_map, "array")>>)
simple_output_floodChannel   == Object(<<Map(output_map, "out"), Map(shared_counter_map, "array")>>)
simple_output_shared_counter_perThread ==
  Object(<<Map(output_map, "out"), Map(shared_counter_map, "perThreadArray")>>)
codelet_control_input_withFailures == Object(<<Map(input_map, "in"), Map(output_map, "out")>>)
codelet_control_input_output ==
  Object(<<Map(input_maps[2], "in"), Map(input_maps[3], "in"),
           Map(output_maps[2], "out"), Map(output_maps[3], "out")>>)
bad_object == [elf |-> FALSE, maps |-> <<>>]

TestFiles ==
     <<"simple_output">>                :> simple_output
  @@ <<"simple_output_shared">>         :> simple_output_shared
  @@ <<"simple_input_shared">>          :> simple_input_shared
  @@ <<"simple_input_largeShared">>     :> simple_input_largeShared
  @@ <<"simple_input_shared_maxLen">>   :> simple_input_shared_maxLen
  @@ <<"simple_output_shared_maxLen">>  :> simple_output_shared_maxLen
  @@ <<"simple_output_2shared">>        :> simple_output_2shared
  @@ <<"max_input_shared">>             :> max_input_shared
  @@ <<"max_output_shared">>            :> max_output_shared
  @@ <<"simple_output_shared_counter">> :> simple_output_shared_counter
  @@ <<"simple_output_floodChannel">>   :> simple_output_floodChannel
  @@ <<"simple_output_shared_counter_perThread">> :> simple_output_shared_counter_perThread
  @@ <<"codelet-control-input-withFailures">> :> codelet_control_input_withFailures
  @@ <<"codelet-control-input-output">> :> codelet_control_input_output
  @@ <<"bad_object">>                   :> bad_object

-----------------------------------------------------------------------------
(* Requests and calls.                                                     *)

Channel(n, s) == [name |-> n, stream |-> s, serde |-> NULL]
Link(m, c, l) == [map |-> m, codelet |-> c, linked |-> l]
Codelet(n, file, ins, outs, links) ==
  [name |-> n, hook |-> test1, path |-> <<file>>, ins |-> ins, outs |-> outs, links |-> links]
Request(n, cs) == [name |-> n, codelets |-> cs]
One(c) == Request(sets[1], <<c>>)

Asserts(o, counts) == [returns |-> o, counts |-> counts]
Load(r, o) == [load |-> r, unload |-> NULL, asserts |-> Asserts(o, <<>>)]
Unload(n, o) == [load |-> NULL, unload |-> n, asserts |-> Asserts(o, <<>>)]
\* The test also looks at the numbers of codeletsets, codelets and maps.
Counting(call, counts) == [call EXCEPT !.asserts.counts = counts]

\* Most tests make one call that fails, or load a codeletset and unload it.
Fails(r, o) == <<Load(r, o)>>
Succeeds(r) == <<Load(r, "SUCCESS"), Unload(r.name, "SUCCESS")>>

\* The descriptors most tests start from; i numbers codelets and streams.
Output(i) == Codelet(names[i], "simple_output", <<>>, <<Channel(output_map, i)>>, <<>>)
OutputShared(i) == Codelet(names[i], "simple_output_shared", <<>>, <<Channel(output_map, i)>>, <<>>)
InputShared == Codelet(<<"simple_input_shared">>, "simple_input_shared", <<Channel(input_map, 1)>>, <<>>, <<>>)
OutChannels(n) == [i \in 1..n |-> Channel(output_maps[i], i)]
InChannels(n)  == [i \in 1..n |-> Channel(input_maps[i], i)]
MaxOutput(chs, links) == Codelet(<<"max_output_shared">>, "max_output_shared", <<>>, chs, links)
MaxInput(chs) == Codelet(<<"max_input_shared">>, "max_input_shared", chs, <<>>, <<>>)

-----------------------------------------------------------------------------
(* request_validation/: the codeletset.                                    *)

codeletSet_CodeletDescriptors_empty == Fails(Request(sets[1], <<>>), "PARAM_INVALID")
codeletSet_CodeletDescriptors_max ==
  Succeeds(Request(sets[1], [i \in 1..MaxInSet |-> Output(i)]))
codeletSet_CodeletDescriptors_maxExceeded ==
  Fails(Request(sets[1], [i \in 1..MaxInSet + 1 |-> Output(1)]), "PARAM_INVALID")
\* The last descriptor is not filled in.
Unset == [name |-> NotSet, hook |-> NotSet, path |-> NotSet, ins |-> <<>>, outs |-> <<>>, links |-> <<>>]
codeletSet_CodeletDescriptors_null ==
  Fails(Request(sets[1], [i \in 1..MaxInSet |-> IF i < MaxInSet THEN Output(1) ELSE Unset]), "PARAM_INVALID")
codeletSet_Id_maxLen  == Succeeds(Request(Longest("s"), <<Output(1)>>))
codeletSet_Id_notSet  == Fails(Request(NotSet, <<Output(1)>>), "PARAM_INVALID")
codeletSet_Id_tooLong == Fails(Request(TooLong, <<Output(1)>>), "PARAM_INVALID")
codeletSet_duplicateCodeletNames ==
  Fails(Request(sets[1], [i \in 1..MaxInSet |-> [Output(i) EXCEPT !.name = names[1]]]), "PARAM_INVALID")
codeletSet_duplicateStreamIds ==
  Fails(Request(sets[1], [i \in 1..MaxInSet |-> [Output(i) EXCEPT !.outs = Output(1).outs]]), "CREATION_FAIL")

-----------------------------------------------------------------------------
(* request_validation/: the codelet.                                       *)

codelet_name_maxLen  == Succeeds(One([Output(1) EXCEPT !.name = Longest("c")]))
codelet_name_notSet  == Fails(One([Output(1) EXCEPT !.name = NotSet]), "PARAM_INVALID")
codelet_name_tooLong == Fails(One([Output(1) EXCEPT !.name = TooLong]), "PARAM_INVALID")
codelet_hook_notSet  == Fails(One([Output(1) EXCEPT !.hook = NotSet]), "PARAM_INVALID")
codelet_hook_tooLong == Fails(One([Output(1) EXCEPT !.hook = TooLong]), "PARAM_INVALID")
codelet_hook_unknown == Fails(One([Output(1) EXCEPT !.hook = unknown]), "HOOK_NOT_EXIST")
codelet_Path_maxLen   == Fails(One([Output(1) EXCEPT !.path = Longest("A")]), "CREATION_FAIL")
codelet_Path_notKnown == Fails(One([Output(1) EXCEPT !.path = unknown]), "CREATION_FAIL")
codelet_Path_notSet   == Fails(One([Output(1) EXCEPT !.path = NotSet]), "PARAM_INVALID")
codelet_Path_tooLong  == Fails(One([Output(1) EXCEPT !.path = TooLong]), "PARAM_INVALID")
codelet_badObject == Fails(One(Codelet(names[1], "bad_object", <<>>, <<>>, <<>>)), "CREATION_FAIL")

-----------------------------------------------------------------------------
(* request_validation/: the channels.                                      *)

codelet_InChannel_Name_maxLen ==
  Succeeds(One(Codelet(names[1], "simple_input_shared_maxLen", <<Channel(Longest("input_map"), 1)>>, <<>>, <<>>)))
codelet_InChannel_Name_notSet  == Fails(One([InputShared EXCEPT !.ins[1].name = NotSet]), "PARAM_INVALID")
codelet_InChannel_Name_tooLong == Fails(One([InputShared EXCEPT !.ins[1].name = TooLong]), "PARAM_INVALID")
codelet_InChannel_Serde_maxLen  == Fails(One([InputShared EXCEPT !.ins[1].serde = Longest("A")]), "PARAM_INVALID")
codelet_InChannel_Serde_notSet  == Fails(One([InputShared EXCEPT !.ins[1].serde = NotSet]), "PARAM_INVALID")
codelet_InChannel_Serde_tooLong == Fails(One([InputShared EXCEPT !.ins[1].serde = TooLong]), "PARAM_INVALID")
codelet_InChannel_Serde_unknown == Fails(One([InputShared EXCEPT !.ins[1].serde = unknown]), "PARAM_INVALID")
codelet_InChannel_map_unknown   == Fails(One([InputShared EXCEPT !.ins[1].name = unknown]), "CREATION_FAIL")
codelet_InChannel_mismatch == Fails(One(MaxInput(InChannels(MaxChannels - 1))), "CREATION_FAIL")
codelet_InChannel_null ==
  Fails(One(MaxInput([InChannels(MaxChannels) EXCEPT ![MaxChannels].name = NotSet])), "PARAM_INVALID")
codelet_InChannels_max == Succeeds(One(MaxInput(InChannels(MaxChannels))))
\* The descriptor one too many is read past the array, where nothing is set.
codelet_InChannels_maxExceeded ==
  Fails(One(MaxInput(Append(InChannels(MaxChannels), Channel(NotSet, 0)))), "PARAM_INVALID")

codelet_OutChannel_Name_maxLen ==
  Succeeds(One(Codelet(names[1], "simple_output_shared_maxLen", <<>>, <<Channel(Longest("output_map"), 1)>>, <<>>)))
codelet_OutChannel_Name_notSet  == Fails(One([OutputShared(1) EXCEPT !.outs[1].name = NotSet]), "PARAM_INVALID")
codelet_OutChannel_Name_tooLong == Fails(One([OutputShared(1) EXCEPT !.outs[1].name = TooLong]), "PARAM_INVALID")
codelet_OutChannel_Serde_maxLen  == Fails(One([OutputShared(1) EXCEPT !.outs[1].serde = Longest("A")]), "PARAM_INVALID")
codelet_OutChannel_Serde_notSet  == Fails(One([OutputShared(1) EXCEPT !.outs[1].serde = NotSet]), "PARAM_INVALID")
codelet_OutChannel_Serde_tooLong == Fails(One([OutputShared(1) EXCEPT !.outs[1].serde = TooLong]), "PARAM_INVALID")
codelet_OutChannel_Serde_unknown == Fails(One([OutputShared(1) EXCEPT !.outs[1].serde = unknown]), "PARAM_INVALID")
codelet_OutChannel_map_unknown   == Fails(One([OutputShared(1) EXCEPT !.outs[1].name = unknown]), "CREATION_FAIL")
\* The test makes the call twice.
codelet_OutChannel_mismatch ==
  LET r == One(MaxOutput(OutChannels(MaxChannels - 1), <<>>))
  IN  <<Load(r, "CREATION_FAIL"), Load(r, "CREATION_FAIL")>>
codelet_OutChannel_null ==
  Fails(One(MaxOutput([OutChannels(MaxChannels) EXCEPT ![MaxChannels].name = NotSet], <<>>)), "PARAM_INVALID")
codelet_OutChannels_max == Succeeds(One(MaxOutput(OutChannels(MaxChannels), <<>>)))
codelet_OutChannels_maxExceeded ==
  Fails(One(MaxOutput(Append(OutChannels(MaxChannels), Channel(NotSet, 0)), <<>>)), "PARAM_INVALID")

-----------------------------------------------------------------------------
(* request_validation/: the linked maps.                                   *)

\* An input codelet and an output codelet, which has the links and the channel.
Linking(ch, links) ==
  Request(sets[1], <<InputShared, [OutputShared(2) EXCEPT !.outs[1].name = ch, !.links = links]>>)
LinkingIn(links) == Request(sets[1], <<[InputShared EXCEPT !.links = links], OutputShared(2)>>)
in == InputShared.name

codelet_LinkedMap_LinkedCodeletName_unknown ==
  Fails(Linking(shared_map_output, <<Link(output_map, unknown, shared_map)>>), "CREATION_FAIL")
codelet_LinkedMap_LinkedMapName_InputChannel ==
  Fails(Linking(output_map, <<Link(shared_map_output, in, input_map)>>), "CREATION_FAIL")
codelet_LinkedMap_LinkedMapName_OutputChannel ==
  Fails(LinkingIn(<<Link(shared_map, names[2], output_map)>>), "CREATION_FAIL")
codelet_LinkedMap_LinkedMapName_unknown ==
  Fails(Linking(shared_map_output, <<Link(output_map, in, unknown)>>), "CREATION_FAIL")
codelet_LinkedMap_MapName_InputChannel ==
  Fails(LinkingIn(<<Link(input_map, names[2], shared_map_output)>>), "CREATION_FAIL")
codelet_LinkedMap_MapName_OutputChannel ==
  Fails(Linking(output_map, <<Link(output_map, in, shared_map)>>), "CREATION_FAIL")
codelet_LinkedMap_MapName_unknown ==
  Fails(Linking(output_map, <<Link(unknown, in, shared_map)>>), "LOAD_FAIL")
codelet_LinkedMap_mismatchedSize ==
  Fails([Linking(output_map, <<Link(shared_map_output, in, shared_map)>>)
           EXCEPT !.codelets[1].path = <<"simple_input_largeShared">>], "CREATION_FAIL")
codelet_LinkedMap_sameCodelet ==
  Fails([Linking(output_map, <<Link(shared_map_outputs[1], names[2], shared_map_outputs[2])>>)
           EXCEPT !.codelets[2].path = <<"simple_output_2shared">>], "PARAM_INVALID")
codelet_LinkedMaps_Names_maxLen ==
  Succeeds(Request(sets[1],
    <<Codelet(names[1], "simple_input_shared_maxLen", <<Channel(Longest("input_map"), 1)>>, <<>>, <<>>),
      Codelet(names[2], "simple_output_shared_maxLen", <<>>, <<Channel(Longest("output_map"), 2)>>,
              <<Link(Longest("shared_map_output"), names[1], Longest("shared_map"))>>)>>))

\* The codelets with all the maps there may be, the second with these links.
MaxLinking(links) ==
  Request(sets[1], <<MaxInput(InChannels(MaxChannels)), MaxOutput(OutChannels(MaxChannels), links)>>)
AllLinks == [m \in 1..MaxLinks |-> Link(shared_map_outputs[m], <<"max_input_shared">>, shared_maps[m])]

codelet_LinkedMap_null ==
  Fails(MaxLinking([AllLinks EXCEPT ![MaxLinks] = Link(NotSet, NotSet, NotSet)]), "PARAM_INVALID")
codelet_LinkedMaps_duplicate_linked_map_name ==
  Fails(MaxLinking([m \in 1..MaxLinks |-> [AllLinks[m] EXCEPT !.linked = shared_maps[1]]]), "PARAM_INVALID")
codelet_LinkedMaps_duplicate_map_name ==
  Fails(MaxLinking([m \in 1..MaxLinks |-> [AllLinks[m] EXCEPT !.map = shared_map_outputs[1]]]), "PARAM_INVALID")
codelet_LinkedMaps_max == Succeeds(MaxLinking(AllLinks))
codelet_LinkedMaps_maxExceeded ==
  Fails(MaxLinking(Append(AllLinks, Link(NotSet, NotSet, NotSet))), "PARAM_INVALID")

-----------------------------------------------------------------------------
(* load_unload/: the limits, and the counts after every call.              *)

\* Codeletset n, of k codelets with two maps each.
NumberedSet(n, k) ==
  Request(sets[n], [i \in 1..k |-> [OutputShared(i) EXCEPT !.outs[1].stream = (n - 1) * k + i]])
AfterSets(n, k) == <<n, n * k, 2 * n * k>>

max_loaded_codeletSets ==
  [n \in 1..MaxSets |-> Load(NumberedSet(n, 1), "SUCCESS")]
    \o [n \in 1..MaxSets |-> Unload(sets[n], "SUCCESS")]
\* n full codeletsets of k codelets, and one too many.
Exceeding(n, k) ==
  [i \in 1..n |-> Counting(Load(NumberedSet(i, k), "SUCCESS"), AfterSets(i, k))]
    \o <<Counting(Load(NumberedSet(n + 1, k), "CREATION_FAIL"), AfterSets(n, k))>>
    \o [i \in 1..n |-> Unload(sets[i], "SUCCESS")]
    \o <<Counting(Unload(sets[n + 1], "UNLOAD_FAIL"), AfterSets(0, k))>>
max_loaded_codeletSets_exceeded == Exceeding(MaxSets, 1)
max_loaded_codelets ==
  [n \in 1..MaxCodelets \div 2 |-> Load(NumberedSet(n, 2), "SUCCESS")]
    \o [n \in 1..MaxCodelets \div 2 |-> Unload(sets[n], "SUCCESS")]
max_loaded_codelets_exceeded == Exceeding(MaxCodelets \div 3, 3)
\* All but one of the codeletsets are unloaded and loaded again.
load_unload_repeated ==
  LET loaded(n) == Counting(Load(NumberedSet(n, 1), "SUCCESS"), AfterSets(n, 1))
      unloaded(n) == Counting(Unload(sets[n], "SUCCESS"), AfterSets(n - 1, 1))
      down(m) == [i \in 1..MaxSets - m |-> unloaded(MaxSets + 1 - i)]
  IN  [n \in 1..MaxSets |-> loaded(n)] \o down(1) \o [i \in 1..MaxSets - 1 |-> loaded(i + 1)] \o down(0)
\* jbpf_stop unloads what is loaded.
graceful_stop ==
  LET stopped(n) == Request(sets[n], <<MaxOutput([i \in 1..MaxChannels |->
                              Channel(output_maps[i], (n - 1) * MaxChannels + i)], <<>>)>>)
  IN  <<Load(stopped(1), "SUCCESS"), Load(stopped(2), "SUCCESS"),
        Unload(sets[1], "SUCCESS"), Unload(sets[2], "SUCCESS")>>

-----------------------------------------------------------------------------
(* codeletSets/, codelets/ and ctrl_hooks/.                                *)

codeletSet_LinkedMaps_cyclicCodelets ==
  LET c(i, links) == Codelet(names[i], "simple_output_2shared", <<>>, <<Channel(output_map, i)>>, links)
  IN  Succeeds(Request(sets[1],
        <<c(1, <<Link(shared_map_outputs[1], names[3], shared_map_outputs[1])>>),
          c(2, <<>>),
          c(3, <<Link(shared_map_outputs[2], names[1], shared_map_outputs[2])>>)>>))
codeletSet_loadTwice ==
  <<Load(One(Output(1)), "SUCCESS"), Load(One(Output(2)), "SUCCESS"),
    Unload(sets[1], "SUCCESS"), Unload(sets[1], "UNLOAD_FAIL")>>
codeletSet_multiple_withSameHook ==
  <<Load(Request(sets[1], <<Output(1)>>), "SUCCESS"), Load(Request(sets[2], <<Output(2)>>), "SUCCESS"),
    Unload(sets[1], "SUCCESS"), Unload(sets[2], "SUCCESS")>>
codeletSet_priority ==
  Succeeds(Request(sets[1], [i \in 1..MaxInSet |->
    Codelet(names[i], "simple_output_shared_counter", <<>>, <<Channel(output_map, i)>>,
            IF i = 1 THEN <<>> ELSE <<Link(shared_counter_map, names[1], shared_counter_map)>>)]))
codeletSet_unload_Unknown ==
  <<Load(One(Output(1)), "SUCCESS"), Unload(unknown, "UNLOAD_FAIL"), Unload(sets[1], "SUCCESS")>>

codelet_InChannel_flood ==
  Succeeds(One([Codelet(names[1], "codelet-control-input-output",
                        [i \in 1..2 |-> Channel(input_maps[i + 1], i)],
                        [i \in 1..2 |-> Channel(output_maps[i + 1], i)], <<>>) EXCEPT !.hook = test3]))
codelet_OutChannel_flood ==
  Succeeds(One(Codelet(names[1], "simple_output_floodChannel", <<>>, <<Channel(output_map, 1)>>, <<>>)))
codelet_hook_max == Succeeds(One([Output(1) EXCEPT !.hook = Longest("test")]))
codelet_hook_sameSuffix == Succeeds(One(Output(1)))
codelet_multiThread_perThreadArray ==
  Succeeds(One(Codelet(names[1], "simple_output_shared_counter_perThread", <<>>, <<Channel(output_map, 1)>>, <<>>)))

\* A codelet on the control hook; a second one is refused.
Control(i, s) ==
  [Codelet(names[i], "codelet-control-input-withFailures", <<Channel(input_map, s)>>, <<Channel(output_map, s)>>, <<>>)
     EXCEPT !.hook = ctrl_test0]
ctrlHook_checkReturns == Succeeds(One(Control(1, 1)))
ctrlHook_multipleCodelets ==
  <<Load(Request(sets[1], <<Control(1, 1), Control(2, 2)>>), "LOAD_FAIL"), Unload(sets[1], "UNLOAD_FAIL")>>
ctrlHook_multipleCodeletSets ==
  <<Load(Request(sets[1], <<Control(1, 1)>>), "SUCCESS"), Load(Request(sets[2], <<Control(1, 2)>>), "LOAD_FAIL"),
    Unload(sets[1], "SUCCESS"), Unload(sets[2], "UNLOAD_FAIL")>>

-----------------------------------------------------------------------------
Tests ==
  {codeletSet_CodeletDescriptors_empty, codeletSet_CodeletDescriptors_max,
   codeletSet_CodeletDescriptors_maxExceeded, codeletSet_CodeletDescriptors_null, codeletSet_Id_maxLen,
   codeletSet_Id_notSet, codeletSet_Id_tooLong, codeletSet_duplicateCodeletNames,
   codeletSet_duplicateStreamIds, codelet_name_maxLen, codelet_name_notSet, codelet_name_tooLong,
   codelet_hook_notSet, codelet_hook_tooLong, codelet_hook_unknown, codelet_Path_maxLen,
   codelet_Path_notKnown, codelet_Path_notSet, codelet_Path_tooLong, codelet_badObject,
   codelet_InChannel_Name_maxLen, codelet_InChannel_Name_notSet, codelet_InChannel_Name_tooLong,
   codelet_InChannel_Serde_maxLen, codelet_InChannel_Serde_notSet, codelet_InChannel_Serde_tooLong,
   codelet_InChannel_Serde_unknown, codelet_InChannel_map_unknown, codelet_InChannel_mismatch,
   codelet_InChannel_null, codelet_InChannels_max, codelet_InChannels_maxExceeded,
   codelet_OutChannel_Name_maxLen, codelet_OutChannel_Name_notSet, codelet_OutChannel_Name_tooLong,
   codelet_OutChannel_Serde_maxLen, codelet_OutChannel_Serde_notSet, codelet_OutChannel_Serde_tooLong,
   codelet_OutChannel_Serde_unknown, codelet_OutChannel_map_unknown, codelet_OutChannel_mismatch,
   codelet_OutChannel_null, codelet_OutChannels_max, codelet_OutChannels_maxExceeded,
   codelet_LinkedMap_LinkedCodeletName_unknown, codelet_LinkedMap_LinkedMapName_InputChannel,
   codelet_LinkedMap_LinkedMapName_OutputChannel, codelet_LinkedMap_LinkedMapName_unknown,
   codelet_LinkedMap_MapName_InputChannel, codelet_LinkedMap_MapName_OutputChannel,
   codelet_LinkedMap_MapName_unknown, codelet_LinkedMap_mismatchedSize, codelet_LinkedMap_sameCodelet,
   codelet_LinkedMaps_Names_maxLen, codelet_LinkedMap_null,
   codelet_LinkedMaps_duplicate_linked_map_name, codelet_LinkedMaps_duplicate_map_name,
   codelet_LinkedMaps_max, codelet_LinkedMaps_maxExceeded, max_loaded_codeletSets,
   max_loaded_codeletSets_exceeded, max_loaded_codelets, max_loaded_codelets_exceeded,
   load_unload_repeated, graceful_stop, codeletSet_LinkedMaps_cyclicCodelets, codeletSet_loadTwice,
   codeletSet_multiple_withSameHook, codeletSet_priority, codeletSet_unload_Unknown,
   codelet_InChannel_flood, codelet_OutChannel_flood, codelet_hook_max, codelet_hook_sameSuffix,
   codelet_multiThread_perThreadArray, ctrlHook_checkReturns, ctrlHook_multipleCodelets,
   ctrlHook_multipleCodeletSets}
=============================================================================
