------------------------ MODULE MCPropertyInventory ------------------------
(* Small properties for TLC.                                               *)
EXTENDS PropertyInventory, TLC

CONSTANTS A, B, C,                  \* room types
          c1, c2, qa, qb,           \* receipts
          q1, k1, k2, o1, m1, m2, m3

On(t, nights) == [type |-> t, nights |-> nights]

(* Direct sales: a suite of two units and two villas that a group links,  *)
(* in part or all, and that is replaced and dissolved around their stays;  *)
(* two commands under one key and a quote of three rooms in two lines.     *)
DirectTypes == {A, B, C}
DirectCapacity == A :> 2 @@ B :> 1 @@ C :> 1
DirectCommands == {c1, c2}
DirectQuoteReceipts == {qa, qb}
DirectQuoteOf == qa :> q1 @@ qb :> q1
DirectStay == c1 :> On(A, {1, 2}) @@ c2 :> On(B, {2}) @@ qa :> On(A, {1})
              @@ qb :> On(B, {1})
DirectRoomCount == c1 :> 1 @@ c2 :> 1 @@ qa :> 2 @@ qb :> 1
DirectReserveKey == c1 :> k1 @@ c2 :> k1
DirectReleaseKey == c1 :> k1 @@ c2 :> k1 @@ qa :> k2 @@ qb :> k2

(* Channel and blocks: an OTA booking that is altered between linked types *)
(* and a manual block; the smaller type is not sold directly.              *)
ChannelTypes == {A, B}
ChannelCapacity == A :> 3 @@ B :> 1
ChannelSellLimit == A :> 3 @@ B :> 0
ChannelQuoteReceipts == {qa}
ChannelQuoteOf == qa :> q1
ChannelStay == qa :> On(A, {1, 2})
ChannelRoomCount == qa :> 2
ChannelReleaseKey == qa :> k1
ChannelOtaStays == {On(A, {1}), On(B, {1, 2})}
ChannelBlockType == m1 :> B

(* Blocks: a villa of one unit linked with rooms of three.                 *)
BlocksCapacity == A :> 3 @@ B :> 1
BlocksType == m1 :> B @@ m2 :> A @@ m3 :> A
BlocksRoomCount == qa :> 1
BlocksStay == qa :> On(B, {1})
BlocksOtaStays == {On(A, {1}), On(B, {1})}

NoFunction == [x \in {} |-> x]
=============================================================================
