----------------------------- MODULE MCGoCache -----------------------------
(* A cache of two shards for TLC.                                          *)
EXTENDS GoCache

MCBucket == [k1 |-> 1, k2 |-> 2]
MCDurations == {NoExpiration, 0}
MCAmounts == {1, -1}
MCContents == {<<>>, [k1 |-> Item(Number("int", 1), 1)]}
MCObjects == {Number("int", 1), Number("float", 1)}
=============================================================================
