------------------------- MODULE MCBufferedNetwork -------------------------
(* Instances of BufferedNetwork for TLC. *)
EXTENDS BufferedNetwork, TLC

CONSTANTS w1, w2, oA, oB

OneOwner  == (w1 :> oA) @@ (w2 :> oA)
TwoOwners == (w1 :> oA) @@ (w2 :> oB)
ThreeEntries == {<<w1, "a">>, <<w1, "b">>, <<w2, "a">>}
BulkOrNot == {{}, {oA}}
JustOneOwner == {OneOwner}
JustTwoOwners == {TwoOwners}
EitherWay == {OneOwner, TwoOwners}
=============================================================================
