--------------------------- MODULE MCBlockDelivery --------------------------
(* Instance of BlockDelivery for TLC: two storage nodes and an archival    *)
(* node, one shard that both, one or none of the storage nodes keep, a     *)
(* block for it, and two changes of the contracts. Calls to one storage    *)
(* node may fail.                                                          *)
EXTENDS BlockDelivery, TLC

CONSTANTS s1, s2, a1

MCShardMaps == {s1 :> {1} @@ s2 :> {1}, s1 :> {1} @@ s2 :> {}, s1 :> {} @@ s2 :> {}}
=============================================================================
