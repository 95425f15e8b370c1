--------------------------- MODULE MCShardedRead -----------------------------
(* Four records; entity lists in file order, shuffled, incomplete, and with  *)
(* a repetition.                                                             *)
EXTENDS ShardedRead

MCLists == {<<1, 2, 3, 4>>, <<4, 2>>, <<3, 3, 1>>}
=============================================================================
