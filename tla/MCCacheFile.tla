---------------------------- MODULE MCCacheFile ----------------------------
(* The bot for TLC: one goroutine at a time puts answers into the cache.   *)
(* What may happen around it comes in several mixtures.                    *)
EXTENDS CacheFile

MCBucket == [k \in Keys |-> 1]
MCCallers == DOMAIN Key
MCClients == Savers \cup Setters \cup {Janitor}
Budget(r, t, d, x, c) ==
  [reports |-> r, tops |-> t, deaths |-> d, troubles |-> x, ticks |-> c]
MCBudgets == {Budget(1, 0, 0, 0, 0), Budget(0, 1, 1, 0, 2), Budget(0, 1, 0, 1, 2),
              Budget(0, 2, 1, 0, 0), Budget(0, 0, 1, 2, 0)}
=============================================================================
