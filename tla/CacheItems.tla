----------------------------- MODULE CacheItems -----------------------------
(***************************************************************************)
(* The items of a go-cache cache and their lock (cache.go), in shards as   *)
(* in sharded.go: a plain cache is a cache of one shard.  Each shard has a *)
(* sync.RWMutex: a writer that waits keeps new readers out.  An operation  *)
(* that holds the lock and does not wait in between is one step; a client  *)
(* that waits for a write lock, or keeps a read lock, is seen to do so.    *)
(***************************************************************************)
EXTENDS Integers

CONSTANTS
  Keys, Clients,
  Shards, Bucket,     \* the number of shards and the shard of each key
  DefaultExpiration,  \* the duration that 0 stands for, or NoExpiration
  Width               \* bound: the numbers of the integer types wrap around at it

ASSUME CacheConstants ==
  /\ Shards \in Nat \ {0} /\ Bucket \in [Keys -> 1..Shards]
  /\ DefaultExpiration \in Nat \cup {-1}
  /\ Width \in Nat \ {0}

VARIABLES
  now,
  items,  \* key -> [object, expiration]
  doing   \* what each client is doing: an operation it has begun, or Nothing

NoExpiration == -1
Nothing == [op |-> "nothing"]

Expired(item) == item.expiration # NoExpiration /\ item.expiration < now
Found(k) == k \in DOMAIN items /\ ~Expired(items[k])

Store(m, k, item) == [j \in DOMAIN m \cup {k} |-> IF j = k THEN item ELSE m[j]]
Keep(m, K) == [k \in DOMAIN m \cap K |-> m[k]]

\* When an item stored at t for the duration ttl expires.
Due(t, ttl) ==
  LET d == IF ttl = 0 THEN DefaultExpiration ELSE ttl
  IN  IF d > 0 THEN t + d ELSE NoExpiration

Item(x, expiration) == [object |-> x, expiration |-> expiration]

\* Integers wrap; a float that has outgrown its precision stays where it is.
Sum(x, by) ==
  LET n == x.number + by
  IN  [x EXCEPT !.number = IF x.type = "int" THEN n % Width
                           ELSE IF n >= Width THEN Width - 1
                           ELSE IF n <= -Width THEN 1 - Width ELSE n]

-----------------------------------------------------------------------------
(* The lock.                                                               *)

Writes == {"Set", "Add", "Replace", "Increment", "Delete", "DeleteExpired", "Flush", "Load"}

Shard(o) == IF "shard" \in DOMAIN o THEN o.shard ELSE Bucket[o.key]

\* Mutated form: the lock is released as soon as Items has returned the map.
ReadingUntilItems(p, s) == doing[p].op = "hold" /\ Shard(doing[p]) = s

Writing(p, s) == doing[p].op \in Writes /\ Shard(doing[p]) = s
Reading(p, s) == doing[p].op \in {"hold", "walk"} /\ Shard(doing[p]) = s
CanRLock(s) == \A p \in Clients : ~Writing(p, s)
CanLock(s) == \A p \in Clients : ~Reading(p, s)

Begin(p, op) == doing[p] = Nothing /\ doing' = [doing EXCEPT ![p] = op]

-----------------------------------------------------------------------------
(* What the operations do with the items, and what they return.            *)

\* Mutated form: an expired item still counts, as long as the janitor leaves it.
RefusedForAny(o) ==
  \/ o.op = "Add" /\ o.key \in DOMAIN items
  \/ o.op = "Replace" /\ o.key \notin DOMAIN items
  \/ o.op = "Increment" /\ (o.key \in DOMAIN items => items[o.key].object.type \notin o.types)

Refused(o) ==
  \/ o.op = "Add" /\ Found(o.key)
  \/ o.op = "Replace" /\ ~Found(o.key)
  \/ o.op = "Increment" /\ (Found(o.key) => items[o.key].object.type \notin o.types)

After(o) ==
  CASE Refused(o) -> items
    [] o.op \in {"Set", "Add", "Replace"} /\ ~Refused(o) ->
         Store(items, o.key, Item(o.object, Due(now, o.ttl)))
    [] o.op = "Increment" /\ ~Refused(o) -> [items EXCEPT ![o.key].object = Sum(@, o.by)]
    [] o.op = "Delete" -> Keep(items, Keys \ {o.key})
    [] o.op = "DeleteExpired" ->
         Keep(items, {k \in DOMAIN items : ~(Bucket[k] = o.shard /\ Expired(items[k]))})
    [] o.op = "Flush" -> Keep(items, {k \in Keys : Bucket[k] # o.shard})
    [] o.op = "Load" -> IF Found(o.key) THEN items ELSE Store(items, o.key, o.entry)

Say(word) == [type |-> word, number |-> 0]
Answer(o) ==
  IF Refused(o) THEN Say("refused")
  ELSE IF o.op = "Increment" THEN After(o)[o.key].object ELSE Say("done")

\* DeleteExpired and Flush go on to the next shard, the others are done.
AllShards(o) == o.op \in {"DeleteExpired", "Flush"}

\* Mutated form: returning an error leaves the lock locked.
GoesWithLock(o) ==
  IF Refused(o) THEN o
  ELSE IF AllShards(o) /\ o.shard < Shards THEN [o EXCEPT !.shard = @ + 1] ELSE Nothing

Goes(o) == IF AllShards(o) /\ o.shard < Shards THEN [o EXCEPT !.shard = @ + 1] ELSE Nothing

\* The write lock is free at last: the operation takes place.
Write(p) ==
  /\ doing[p].op \in Writes /\ CanLock(Shard(doing[p]))
  /\ items' = After(doing[p])
  /\ doing' = [doing EXCEPT ![p] = Goes(doing[p])]

\* SaveCache of go-lastfm locks, and then calls Items, which locks again.
RLock(p) ==
  /\ doing[p].op = "SaveCache" /\ CanRLock(Shard(doing[p]))
  /\ doing' = [doing EXCEPT ![p].op = "hold"]
  /\ items' = items

Items(p) ==
  /\ doing[p].op = "hold" /\ CanRLock(Shard(doing[p]))
  /\ doing' = [doing EXCEPT ![p].op = "walk"]
  /\ items' = items

\* Save, which locks once.
SaveBegin(p) ==
  /\ doing[p].op = "Save" /\ CanRLock(Shard(doing[p]))
  /\ doing' = [doing EXCEPT ![p].op = "walk"]
  /\ items' = items

\* The map has been walked to its end.
RUnlock(p) ==
  /\ doing[p].op = "walk"
  /\ doing' = [doing EXCEPT ![p] = Nothing]
  /\ items' = items

\* A reader waits for a writer that waits for the reader.
Jammed ==
  \E p, q \in Clients, s \in 1..Shards :
    doing[p].op = "hold" /\ Shard(doing[p]) = s /\ Writing(q, s)
=============================================================================
