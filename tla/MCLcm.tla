------------------------------- MODULE MCLcm -------------------------------
(***************************************************************************)
(* Small instances of JbpfLcm: any client, and the repository's tests.     *)
(***************************************************************************)
EXTENDS LcmTests

CONSTANTS t1, t2

mon  == test1
ctrl == ctrl_test0

A == <<"a">>
B == <<"b">>
C == <<"c">>
M == <<"m">>
N == <<"n">>
O == <<"o">>
S1 == <<"s1">>
S2 == <<"s2">>
S3 == <<"s3">>

\* The objects are named after their maps.
ClientFiles ==
     <<"moArray">>  :> Object(<<Map(M, "array"), Map(O, "out"), Map(M, "array")>>)
  @@ <<"nArray">>   :> Object(<<Map(N, "array")>>)
  @@ <<"mHash">>    :> Object(<<Map(M, "hash"), Map(O, "short")>>)
  @@ <<"nHash">>    :> Object(<<Map(N, "hash")>>)
  @@ <<"oOut">>     :> Object(<<Map(O, "out"), Map(M, "short")>>)
  @@ <<"mArray">>   :> Object(<<Map(M, "array")>>)
  @@ <<"mnArray">>  :> Object(<<Map(M, "array"), Map(N, "array")>>)
  @@ <<"onArray">>  :> Object(<<Map(O, "array"), Map(N, "array")>>)
AllFiles == ClientFiles @@ TestFiles

On(h, n, file, outs, links) == [Codelet(n, file, <<>>, outs, links) EXCEPT !.hook = h]

\* Two codelets that share a map; the first also has an I/O map.
Pair ==
  Request(S1, <<On(mon, A, "moArray", <<Channel(O, 1)>>, <<>>),
                On(ctrl, B, "nArray", <<>>, <<Link(N, A, M)>>)>>)
\* One codelet, on the same control hook.
Single == Request(S2, <<On(ctrl, C, "mHash", <<>>, <<>>)>>)
\* One codelet, on that hook too, whose channel has the stream of Pair.
Other == Request(S3, <<On(ctrl, C, "oOut", <<Channel(O, 1)>>, <<>>)>>)
\* A set of the same name whose linked maps differ in type.
Mismatch ==
  Request(S1, <<On(mon, A, "mArray", <<>>, <<Link(M, B, N)>>), On(mon, B, "nHash", <<>>, <<>>)>>)
\* A link to a map that its codelet does not have.
WrongName ==
  Request(S1, <<On(mon, A, "mArray", <<>>, <<>>), On(mon, B, "nArray", <<>>, <<Link(N, A, O)>>)>>)
\* Three codelets in a chain, one of which links two of its maps.
Chain ==
  Request(S1, <<On(mon, A, "mnArray", <<>>, <<>>),
                On(mon, B, "mArray", <<>>, <<Link(M, A, M)>>),
                On(ctrl, C, "onArray", <<>>, <<Link(O, B, M), Link(N, A, N)>>)>>)
\* The third link joins two groups that exist already.
Bridge ==
  Request(S1, <<On(mon, A, "mnArray", <<>>, <<Link(M, B, M), Link(N, B, N)>>),
                On(mon, B, "mnArray", <<>>, <<Link(M, A, N)>>)>>)
\* Neither end of the link is a map of its codelet.
BothWrong ==
  Request(S1, <<On(mon, A, "mArray", <<>>, <<>>), On(mon, B, "nArray", <<>>, <<Link(O, A, O)>>)>>)
BridgeRequests == {Bridge}
BothWrongRequests == {BothWrong}
MainRequests == {Pair, Other, Mismatch, WrongName, Chain}
PairRequests == {Pair, Single}

AllHooks == {test1, test3, Longest("test"), ctrl_test0}
CtrlHooksOnly == {ctrl_test0}
AllScripts == Tests \cup {NULL}
OnlyClients == {NULL}
=============================================================================
