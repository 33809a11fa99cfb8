--------------------------- MODULE GoCacheProofs ---------------------------
(***************************************************************************)
(* Proofs about GoCache, for any number of clients, keys, shards and items *)
(* and for any clock: nobody disturbs a walk through a shard, and every    *)
(* operation keeps the promise of ExpiringMap.                             *)
(***************************************************************************)
EXTENDS GoCache, TLAPS

USE CacheConstants, GoCacheConstants

\* What a client can be doing.
Storing == [op : {"Set", "Add", "Replace"}, key : Keys, object : [type : STRING, number : Int],
            ttl : Int]
Adding == [op : {"Increment"}, key : Keys, by : Int, types : {{"int", "float"}, {"int"}, {"float"}}]
Merging == [op : {"Load"}, key : Keys, entry : ItemSet]
Sweeping == [op : {"DeleteExpired", "Flush"}, shard : 1..Shards]
Walking == [op : {"Save", "SaveCache", "hold", "walk"}, shard : 1..Shards]
Doings == Storing \cup Adding \cup Others \cup Merging \cup Sweeping \cup Walking \cup {Nothing}

ItemsOK == DOMAIN items \subseteq Keys /\ items \in [DOMAIN items -> ItemSet]

TypeInv ==
  /\ now \in Nat
  /\ ItemsOK
  /\ doing \in [Clients -> Doings]

\* The kinds of operation, told apart by their names, and the shard of each.
LEMMA Kinds ==
  ASSUME NEW o \in Doings
  PROVE  /\ o.op \in {"Set", "Add", "Replace"} => o \in Storing /\ Shard(o) = Bucket[o.key]
         /\ o.op = "Increment" => o \in Adding /\ Shard(o) = Bucket[o.key]
         /\ o.op \in {"Get", "Delete"} => o \in Others /\ Shard(o) = Bucket[o.key]
         /\ o.op = "Load" => o \in Merging /\ Shard(o) = Bucket[o.key]
         /\ o.op \in {"DeleteExpired", "Flush"} => o \in Sweeping /\ Shard(o) = o.shard
         /\ o.op \in {"Save", "SaveCache", "hold", "walk"} => o \in Walking /\ Shard(o) = o.shard
         /\ o = Nothing <=> o.op = "nothing"
         /\ o.op \in Writes \cup {"Get", "Save", "SaveCache", "hold", "walk", "nothing"}
<1>1. ASSUME o \in Storing
      PROVE  o.op \in {"Set", "Add", "Replace"} /\ "shard" \notin DOMAIN o /\ o # Nothing
  BY <1>1 DEF Storing, Nothing
<1>2. ASSUME o \in Adding PROVE o.op = "Increment" /\ "shard" \notin DOMAIN o /\ o # Nothing
  BY <1>2 DEF Adding, Nothing
<1>3. ASSUME o \in Others PROVE o.op \in {"Get", "Delete"} /\ "shard" \notin DOMAIN o /\ o # Nothing
  BY <1>3 DEF Others, Nothing
<1>4. ASSUME o \in Merging PROVE o.op = "Load" /\ "shard" \notin DOMAIN o /\ o # Nothing
  BY <1>4 DEF Merging, Nothing
<1>5. ASSUME o \in Sweeping
      PROVE  o.op \in {"DeleteExpired", "Flush"} /\ "shard" \in DOMAIN o /\ o # Nothing
  BY <1>5 DEF Sweeping, Nothing
<1>6. ASSUME o \in Walking
      PROVE  o.op \in {"Save", "SaveCache", "hold", "walk"} /\ "shard" \in DOMAIN o /\ o # Nothing
  BY <1>6 DEF Walking, Nothing
<1>7. Nothing.op = "nothing"
  BY DEF Nothing
<1> QED
  BY <1>1, <1>2, <1>3, <1>4, <1>5, <1>6, <1>7 DEF Doings, Shard, Writes

\* The arithmetic and the maps keep their types.
LEMMA SumType ==
  ASSUME NEW x \in [type : STRING, number : Int], NEW by \in Int
  PROVE  Sum(x, by) \in [type : STRING, number : Int]
<1> DEFINE n == x.number + by
<1>1. n \in Int /\ n % Width \in Int /\ Width - 1 \in Int /\ 1 - Width \in Int
  OBVIOUS
<1> HIDE DEF n
<1>2. (IF x.type = "int" THEN n % Width
       ELSE IF n >= Width THEN Width - 1 ELSE IF n <= -Width THEN 1 - Width ELSE n) \in Int
  BY <1>1
<1> QED
  BY <1>2 DEF Sum, n

LEMMA DueType == ASSUME NEW t \in Nat, NEW ttl \in Int PROVE Due(t, ttl) \in Int
BY DEF Due, NoExpiration

LEMMA StoreType ==
  ASSUME ItemsOK, NEW k \in Keys, NEW item \in ItemSet
  PROVE  /\ DOMAIN Store(items, k, item) = DOMAIN items \cup {k}
         /\ Store(items, k, item) \in [DOMAIN items \cup {k} -> ItemSet]
         /\ Store(items, k, item)[k] = item
         /\ \A j \in DOMAIN items : j # k => Store(items, k, item)[j] = items[j]
BY DEF ItemsOK, Store

LEMMA KeepType ==
  ASSUME ItemsOK, NEW K
  PROVE  /\ DOMAIN Keep(items, K) = DOMAIN items \cap K
         /\ Keep(items, K) \in [DOMAIN items \cap K -> ItemSet]
         /\ \A j \in DOMAIN items \cap K : Keep(items, K)[j] = items[j]
BY DEF ItemsOK, Keep

\* What an operation does, kind by kind.
LEMMA AfterIs ==
  ASSUME NEW o
  PROVE  /\ Refused(o) => After(o) = items
         /\ o.op \in {"Set", "Add", "Replace"} /\ ~Refused(o) =>
              After(o) = Store(items, o.key, Item(o.object, Due(now, o.ttl)))
         /\ o.op = "Increment" /\ ~Refused(o) =>
              After(o) = [items EXCEPT ![o.key].object = Sum(@, o.by)]
         /\ o.op = "Delete" => After(o) = Keep(items, Keys \ {o.key})
         /\ o.op = "DeleteExpired" => After(o) =
              Keep(items, {k \in DOMAIN items : ~(Bucket[k] = o.shard /\ Expired(items[k]))})
         /\ o.op = "Flush" => After(o) = Keep(items, {k \in Keys : Bucket[k] # o.shard})
         /\ o.op = "Load" =>
              After(o) = IF Found(o.key) THEN items ELSE Store(items, o.key, o.entry)
<1>1. Refused(o) => o.op \in {"Add", "Replace", "Increment"}
  BY DEF Refused
<1> HIDE DEF Refused
<1> QED
  BY <1>1 DEF After

\* Increment changes the number of one item and nothing else.
LEMMA IncrementIs ==
  ASSUME ItemsOK, NEW o \in Adding, ~Refused(o)
  PROVE  /\ Found(o.key)
         /\ o.key \in DOMAIN items /\ items[o.key].object.type \in o.types
         /\ DOMAIN After(o) = DOMAIN items
         /\ After(o) \in [DOMAIN items -> ItemSet]
         /\ After(o)[o.key] = Item(Sum(items[o.key].object, o.by), items[o.key].expiration)
         /\ \A j \in DOMAIN items : j # o.key => After(o)[j] = items[j]
<1>1. o.op = "Increment"
  BY DEF Adding
<1>2. Found(o.key) /\ o.key \in DOMAIN items /\ items[o.key].object.type \in o.types
  BY <1>1 DEF Refused, Found
<1>3. After(o) = [items EXCEPT ![o.key].object = Sum(@, o.by)]
  BY <1>1, AfterIs
<1>4. items[o.key] \in ItemSet
  BY <1>2 DEF ItemsOK
<1>5. Sum(items[o.key].object, o.by) \in [type : STRING, number : Int]
  BY <1>4, SumType DEF Adding, ItemSet
<1>6. [items[o.key] EXCEPT !.object = Sum(@, o.by)]
      = Item(Sum(items[o.key].object, o.by), items[o.key].expiration)
  BY <1>4 DEF Item, ItemSet
<1>7. Item(Sum(items[o.key].object, o.by), items[o.key].expiration) \in ItemSet
  BY <1>4, <1>5 DEF Item, ItemSet
<1> HIDE DEF Sum, Item
<1> QED
  BY <1>2, <1>3, <1>6, <1>7 DEF ItemsOK

\* An operation leaves every other shard as it is.
LEMMA AfterElsewhere ==
  ASSUME TypeInv, NEW o \in Doings, o.op \in Writes
  PROVE  /\ DOMAIN After(o) \subseteq Keys
         /\ After(o) \in [DOMAIN After(o) -> ItemSet]
         /\ \A k \in Keys : Bucket[k] # Shard(o) =>
              /\ k \in DOMAIN After(o) <=> k \in DOMAIN items
              /\ k \in DOMAIN items => After(o)[k] = items[k]
<1>0. ItemsOK
  BY DEF TypeInv
<1>1. CASE Refused(o)
  <2>1. After(o) = items
    BY <1>1, AfterIs
  <2> QED
    BY <1>0, <2>1 DEF ItemsOK
<1>2. CASE o.op \in {"Set", "Add", "Replace"} /\ ~Refused(o)
  <2>1. o \in Storing /\ Shard(o) = Bucket[o.key]
    BY <1>2, Kinds
  <2>2. o.key \in Keys /\ Item(o.object, Due(now, o.ttl)) \in ItemSet
    BY <2>1, DueType DEF Storing, Item, ItemSet, TypeInv
  <2>3. After(o) = Store(items, o.key, Item(o.object, Due(now, o.ttl)))
    BY <1>2, AfterIs
  <2>4. /\ DOMAIN After(o) = DOMAIN items \cup {o.key}
        /\ After(o) \in [DOMAIN items \cup {o.key} -> ItemSet]
        /\ \A j \in DOMAIN items : j # o.key => After(o)[j] = items[j]
    <3> DEFINE k == o.key
               item == Item(o.object, Due(now, o.ttl))
    <3>1. k \in Keys /\ item \in ItemSet /\ After(o) = Store(items, k, item)
      BY <2>2, <2>3
    <3> HIDE DEF k, item
    <3>2. /\ DOMAIN Store(items, k, item) = DOMAIN items \cup {k}
          /\ Store(items, k, item) \in [DOMAIN items \cup {k} -> ItemSet]
          /\ \A j \in DOMAIN items : j # k => Store(items, k, item)[j] = items[j]
      BY <1>0, <3>1, StoreType
    <3>3. /\ DOMAIN After(o) = DOMAIN items \cup {k}
          /\ After(o) \in [DOMAIN items \cup {k} -> ItemSet]
          /\ \A j \in DOMAIN items : j # k => After(o)[j] = items[j]
      BY <3>1, <3>2
    <3> QED
      BY <3>3 DEF k
  <2> QED
    BY <1>0, <2>1, <2>2, <2>4 DEF ItemsOK
<1>3. CASE o.op = "Increment" /\ ~Refused(o)
  <2>1. o \in Adding /\ Shard(o) = Bucket[o.key]
    BY <1>3, Kinds
  <2> QED
    BY <1>0, <1>3, <2>1, IncrementIs DEF ItemsOK
<1>4. CASE o.op = "Delete"
  <2>1. o \in Others /\ Shard(o) = Bucket[o.key]
    BY <1>4, Kinds
  <2>2. After(o) = Keep(items, Keys \ {o.key})
    BY <1>4, AfterIs
  <2> DEFINE K == Keys \ {o.key}
  <2>3. \A k \in Keys : Bucket[k] # Shard(o) => (k \in DOMAIN items \cap K <=> k \in DOMAIN items)
    BY <2>1
  <2>4. After(o) = Keep(items, K)
    BY <2>2
  <2> HIDE DEF K
  <2>5. /\ DOMAIN After(o) = DOMAIN items \cap K
        /\ After(o) \in [DOMAIN items \cap K -> ItemSet]
        /\ \A j \in DOMAIN items \cap K : After(o)[j] = items[j]
    BY <1>0, <2>4, KeepType
  <2> QED
    BY <1>0, <2>3, <2>5 DEF ItemsOK
<1>5. CASE o.op = "DeleteExpired"
  <2> DEFINE K == {k \in DOMAIN items : ~(Bucket[k] = o.shard /\ Expired(items[k]))}
  <2>1. Shard(o) = o.shard /\ After(o) = Keep(items, K)
    BY <1>5, Kinds, AfterIs
  <2>2. \A k \in Keys : Bucket[k] # o.shard => (k \in DOMAIN items \cap K <=> k \in DOMAIN items)
    OBVIOUS
  <2> HIDE DEF K
  <2>3. /\ DOMAIN After(o) = DOMAIN items \cap K
        /\ After(o) \in [DOMAIN items \cap K -> ItemSet]
        /\ \A j \in DOMAIN items \cap K : After(o)[j] = items[j]
    BY <1>0, <2>1, KeepType
  <2> QED
    BY <1>0, <2>1, <2>2, <2>3 DEF ItemsOK
<1>6. CASE o.op = "Flush"
  <2> DEFINE K == {k \in Keys : Bucket[k] # o.shard}
  <2>1. Shard(o) = o.shard /\ After(o) = Keep(items, K)
    BY <1>6, Kinds, AfterIs
  <2>2. \A k \in Keys : Bucket[k] # o.shard => (k \in DOMAIN items \cap K <=> k \in DOMAIN items)
    OBVIOUS
  <2> HIDE DEF K
  <2>3. /\ DOMAIN After(o) = DOMAIN items \cap K
        /\ After(o) \in [DOMAIN items \cap K -> ItemSet]
        /\ \A j \in DOMAIN items \cap K : After(o)[j] = items[j]
    BY <1>0, <2>1, KeepType
  <2> QED
    BY <1>0, <2>1, <2>2, <2>3 DEF ItemsOK
<1>7. CASE o.op = "Load"
  <2>1. o \in Merging /\ Shard(o) = Bucket[o.key]
    BY <1>7, Kinds
  <2>2. o.key \in Keys /\ o.entry \in ItemSet
    BY <2>1 DEF Merging
  <2>3. After(o) = IF Found(o.key) THEN items ELSE Store(items, o.key, o.entry)
    BY <1>7, AfterIs
  <2>4. CASE Found(o.key)
    BY <1>0, <2>3, <2>4 DEF ItemsOK
  <2>5. CASE ~Found(o.key)
    <3> DEFINE k == o.key
               item == o.entry
    <3>1. /\ k \in Keys /\ item \in ItemSet /\ After(o) = Store(items, k, item)
          /\ Shard(o) = Bucket[k]
      BY <2>1, <2>2, <2>3, <2>5
    <3> HIDE DEF k, item
    <3>2. /\ DOMAIN Store(items, k, item) = DOMAIN items \cup {k}
          /\ Store(items, k, item) \in [DOMAIN items \cup {k} -> ItemSet]
          /\ \A j \in DOMAIN items : j # k => Store(items, k, item)[j] = items[j]
      BY <1>0, <3>1, StoreType
    <3>3. /\ DOMAIN After(o) = DOMAIN items \cup {k}
          /\ After(o) \in [DOMAIN items \cup {k} -> ItemSet]
          /\ \A j \in DOMAIN items : j # k => After(o)[j] = items[j]
      BY <3>1, <3>2
    <3> QED
      BY <1>0, <3>1, <3>3 DEF ItemsOK
  <2> QED
    BY <2>4, <2>5
<1> QED
  BY <1>1, <1>2, <1>3, <1>4, <1>5, <1>6, <1>7 DEF Writes

\* An operation is followed by nothing, or by itself in the next shard.
LEMMA GoesType ==
  ASSUME NEW o \in Doings, o.op \in Writes
  PROVE  /\ Goes(o) \in Doings
         /\ ~(AllShards(o) /\ o.shard < Shards) => Goes(o) = Nothing
         /\ AllShards(o) /\ o.shard < Shards =>
              Goes(o) = [op |-> o.op, shard |-> o.shard + 1] /\ Goes(o) \in Sweeping
<1>1. CASE AllShards(o) /\ o.shard < Shards
  <2>1. o \in Sweeping
    BY <1>1, Kinds DEF AllShards
  <2>2. o.shard + 1 \in 1..Shards /\ o.op \in {"DeleteExpired", "Flush"}
    BY <1>1, <2>1 DEF Sweeping
  <2>3. Goes(o) = [op |-> o.op, shard |-> o.shard + 1]
    BY <1>1, <2>1 DEF Goes, Sweeping
  <2>4. Goes(o) \in Sweeping
    BY <2>2, <2>3 DEF Sweeping
  <2> QED
    BY <1>1, <2>3, <2>4 DEF Doings
<1>2. CASE ~(AllShards(o) /\ o.shard < Shards)
  BY <1>2 DEF Goes, Doings
<1> QED
  BY <1>1, <1>2

-----------------------------------------------------------------------------
(* The type invariant.                                                     *)

LEMMA CallType ==
  ASSUME NEW op \in Puts \cup Changes \cup Others \cup Loads \cup Walks \cup {Sweep, Flush}
  PROVE  op \in Doings /\ op # Nothing
<1>1. CASE op \in Puts
  BY <1>1 DEF Puts, Doings, Storing, Nothing
<1>2. CASE op \in Changes
  <2>1. op \in Adding
    BY <1>2 DEF Changes, Adding
  <2> QED
    BY <2>1 DEF Doings, Adding, Nothing
<1>3. CASE op \in Others
  BY <1>3 DEF Others, Doings, Nothing
<1>4. CASE op \in Loads
  <2>1. op \in Merging
    BY <1>4 DEF Loads, Merging, Item, ItemSet, NoExpiration
  <2> QED
    BY <2>1 DEF Doings, Merging, Nothing
<1>5. CASE op \in Walks
  BY <1>5 DEF Walks, Walking, Doings, Nothing
<1>6. CASE op \in {Sweep, Flush}
  BY <1>6 DEF Sweep, Flush, Sweeping, Doings, Nothing
<1> QED
  BY <1>1, <1>2, <1>3, <1>4, <1>5, <1>6

\* A walk only changes its name.
LEMMA WalkType ==
  ASSUME TypeInv, NEW p \in Clients, RLock(p) \/ Items(p) \/ SaveBegin(p)
  PROVE  /\ doing[p] \in Walking /\ doing'[p] \in Walking /\ items' = items
         /\ doing'[p].shard = doing[p].shard
         /\ doing' = [doing EXCEPT ![p] = doing'[p]]
<1>1. doing[p] \in Walking
  BY Kinds DEF TypeInv, RLock, Items, SaveBegin
<1> QED
  BY <1>1 DEF TypeInv, RLock, Items, SaveBegin, Walking

LEMMA TypeStep == ASSUME TypeInv, [Next]_vars PROVE TypeInv'
<1>1. ASSUME NEW p \in Users, Call(p) PROVE TypeInv'
  <2>1. PICK op \in Puts \cup Changes \cup Others \cup Loads \cup Walks \cup {Sweep, Flush} :
          doing' = [doing EXCEPT ![p] = op]
    BY <1>1 DEF Call, Begin
  <2>2. op \in Doings
    BY CallType
  <2> QED
    BY <1>1, <2>1, <2>2 DEF Call, TypeInv, ItemsOK, Users
<1>2. ASSUME NEW p \in Clients, Get(p) \/ Walked(p) PROVE TypeInv'
  <2>1. now' = now /\ items' = items /\ doing' = [doing EXCEPT ![p] = Nothing]
    BY <1>2 DEF Get, Walked, RUnlock
  <2> QED
    BY <2>1 DEF TypeInv, ItemsOK, Doings
<1>3. ASSUME NEW p \in Clients, WriteAndTell(p) PROVE TypeInv'
  <2>1. /\ now' = now /\ items' = After(doing[p]) /\ doing' = [doing EXCEPT ![p] = Goes(doing[p])]
        /\ doing[p].op \in Writes /\ doing[p] \in Doings
    BY <1>3 DEF WriteAndTell, Write, TypeInv
  <2>2. DOMAIN items' \subseteq Keys /\ items' \in [DOMAIN items' -> ItemSet]
    BY <2>1, AfterElsewhere
  <2>3. Goes(doing[p]) \in Doings
    BY <2>1, GoesType
  <2> QED
    BY <2>1, <2>2, <2>3 DEF TypeInv, ItemsOK
<1>4. ASSUME NEW p \in Clients, Walk(p) PROVE TypeInv'
  <2>1. now' = now /\ (RLock(p) \/ Items(p) \/ SaveBegin(p))
    BY <1>4 DEF Walk
  <2>2. /\ doing'[p] \in Walking /\ items' = items
        /\ doing' = [doing EXCEPT ![p] = doing'[p]]
    BY <2>1, WalkType
  <2>3. doing'[p] \in Doings
    BY <2>2 DEF Doings
  <2> QED
    BY <2>1, <2>2, <2>3 DEF TypeInv, ItemsOK
<1>5. CASE Tick
  <2>1. Sweep \in Doings
    BY CallType
  <2>2. doing' \in [Clients -> Doings]
    BY <1>5, <2>1 DEF Tick, Begin, TypeInv
  <2> QED
    BY <1>5, <2>2 DEF Tick, TypeInv, ItemsOK
<1>6. CASE UNCHANGED <<now, items, doing>>
  BY <1>6 DEF TypeInv, ItemsOK
<1> QED
  BY <1>1, <1>2, <1>3, <1>4, <1>5, <1>6
  DEF Next, Step, JanitorBegins, Collect, StopJanitor, vars

LEMMA TypeInit == Init => TypeInv
<1> SUFFICES ASSUME Init PROVE TypeInv
  OBVIOUS
<1>1. ItemsOK
  BY DEF Init, ItemsOK
<1> QED
  BY <1>1 DEF Init, TypeInv, Doings

\* The items are items, and each client is doing one of the operations with
\* arguments of its kind.
THEOREM TypesHold == Spec => []TypeInv
<1> QED
  BY TypeInit, TypeStep, PTL DEF Spec

-----------------------------------------------------------------------------
(* Nobody disturbs a walk.                                                 *)

\* The lock keeps writers of the shard out while it is walked: WalksStable.
THEOREM WalksUndisturbed == Spec => WalksStable
<1> DEFINE Stable(p) ==
      doing[p].op = "walk" /\ doing'[p].op = "walk" =>
        LET K == {k \in Keys : Bucket[k] = Shard(doing[p])}
        IN  Keep(items', K) = Keep(items, K)
<1>1. TypeInv /\ [Next]_vars => \A p \in Clients : Stable(p)
  <2> SUFFICES ASSUME TypeInv, [Next]_vars, NEW p \in Clients, doing[p].op = "walk",
                      NEW K, K = {k \in Keys : Bucket[k] = Shard(doing[p])}
               PROVE  Keep(items', K) = Keep(items, K)
    OBVIOUS
  <2>1. ASSUME NEW q \in Clients, WriteAndTell(q) PROVE Keep(items', K) = Keep(items, K)
    <3>1. /\ items' = After(doing[q]) /\ doing[q].op \in Writes /\ doing[q] \in Doings
          /\ CanLock(Shard(doing[q]))
      BY <2>1 DEF WriteAndTell, Write, TypeInv
    <3>2. Shard(doing[q]) # Shard(doing[p])
      BY <3>1 DEF CanLock, Reading
    <3>3. \A k \in Keys \cap K : /\ k \in DOMAIN items' <=> k \in DOMAIN items
                                 /\ k \in DOMAIN items => items'[k] = items[k]
      BY <3>1, <3>2, AfterElsewhere
    <3>4. DOMAIN items' \subseteq Keys /\ DOMAIN items \subseteq Keys
      BY <3>1, AfterElsewhere DEF TypeInv, ItemsOK
    <3>5. DOMAIN items' \cap K = DOMAIN items \cap K
      BY <3>3, <3>4
    <3> QED
      BY <3>3, <3>4, <3>5 DEF Keep
  <2>2. CASE UNCHANGED items
    BY <2>2
  <2> QED
    BY <2>1, <2>2
    DEF Next, Step, Call, Get, Walk, Walked, RLock, Items, SaveBegin, RUnlock, Tick,
        JanitorBegins, Collect, StopJanitor, vars
<1> QED
  BY <1>1, TypesHold, PTL DEF Spec, WalksStable

-----------------------------------------------------------------------------
(* Every step is a step of ExpiringMap, or changes nothing of it.          *)

waiting == [p \in Clients |-> CallOf(doing[p])]

\* The entries of the map are the items that are found.
LEMMA LiveIs ==
  ASSUME TypeInv
  PROVE  /\ DOMAIN Live \subseteq Keys
         /\ \A k : k \in DOMAIN Live <=> Found(k)
         /\ \A k \in DOMAIN Live : Live[k] = items[k]
BY DEF TypeInv, ItemsOK, Live, Keep, Found

\* They are known by what is found after a step.
LEMMA LiveAfter ==
  ASSUME TypeInv, TypeInv', NEW f, f = [k \in DOMAIN f |-> f[k]],
         \A k : k \in DOMAIN f <=> Found(k)',
         \A k \in DOMAIN f : f[k] = items'[k]
  PROVE  Live' = f
<1>1. \A k : Found(k)' => k \in Keys /\ k \in DOMAIN items'
  BY DEF TypeInv, ItemsOK, Found
<1>2. DOMAIN items' \cap {k \in Keys : Found(k)'} = DOMAIN f
  BY <1>1
<1> QED
  BY <1>2 DEF Live, Keep

LEMMA LiveSame ==
  ASSUME TypeInv, TypeInv',
         \A k : Found(k)' <=> Found(k),
         \A k : Found(k) => items'[k] = items[k]
  PROVE  Live' = Live
<1>1. Live = [k \in DOMAIN Live |-> Live[k]]
  BY DEF Live, Keep
<1> QED
  BY <1>1, LiveIs, LiveAfter

\* What the clients wait for, kind by kind.
LEMMA CallIs ==
  ASSUME NEW o \in Doings
  PROVE  /\ o.op \in {"Save", "SaveCache", "hold", "walk"} => CallOf(o) = [op |-> "Save"]
         /\ o.op = "Flush" =>
              CallOf(o) = [op |-> "Flush", left |-> {k \in Keys : Bucket[k] >= o.shard}]
         /\ o.op = "DeleteExpired" => CallOf(o) = [op |-> "DeleteExpired"]
         /\ o.op \in {"Set", "Add", "Replace", "Increment", "Get", "Delete", "Load", "nothing"} =>
              CallOf(o) = o
         /\ CallOf(o) = Nothing <=> o = Nothing
<1>1. /\ o.op \in {"Save", "SaveCache", "hold", "walk"} => CallOf(o) = [op |-> "Save"]
      /\ o.op = "Flush" =>
           CallOf(o) = [op |-> "Flush", left |-> {k \in Keys : Bucket[k] >= o.shard}]
      /\ o.op = "DeleteExpired" => CallOf(o) = [op |-> "DeleteExpired"]
      /\ o.op \in {"Set", "Add", "Replace", "Increment", "Get", "Delete", "Load", "nothing"} =>
           CallOf(o) = o
  BY DEF CallOf
<1>2. [op |-> "Save"] # Nothing /\ [op |-> "DeleteExpired"] # Nothing
  BY DEF Nothing
<1>3. [op |-> "Flush", left |-> {k \in Keys : Bucket[k] >= o.shard}] # Nothing
  BY DEF Nothing
<1>4. o = Nothing <=> o.op = "nothing"
  BY Kinds
<1> QED
  BY <1>1, <1>2, <1>3, <1>4, Kinds DEF Writes

\* One client's change of what it does is one client's change of its call.
LEMMA CallsChange ==
  ASSUME TypeInv, NEW p \in Clients, NEW o, doing' = [doing EXCEPT ![p] = o]
  PROVE  waiting' = [waiting EXCEPT ![p] = CallOf(o)]
BY DEF TypeInv, waiting

\* A client that is done waits for nothing.
LEMMA CallsEnd ==
  ASSUME TypeInv, NEW p \in Clients, doing' = [doing EXCEPT ![p] = Nothing]
  PROVE  waiting' = [waiting EXCEPT ![p] = Nothing]
<1>1. CallOf(Nothing) = Nothing
  BY CallIs DEF Doings
<1> QED
  BY <1>1 DEF TypeInv, waiting

LEMMA MapInit == Init => Map!Init
<1> SUFFICES ASSUME Init PROVE Map!Init
  OBVIOUS
<1>1. TypeInv
  BY TypeInit
<1>2. \A k \in DOMAIN Live : Live[k].expiration = NoExpiration \/ Live[k].expiration >= now
  <2> SUFFICES ASSUME NEW k \in DOMAIN Live
               PROVE  Live[k].expiration = NoExpiration \/ Live[k].expiration >= now
    OBVIOUS
  <2>1. Found(k) /\ Live[k] = items[k] /\ k \in DOMAIN items
    BY <1>1, LiveIs DEF Found
  <2>2. items[k].expiration \in Int
    BY <1>1, <2>1 DEF TypeInv, ItemsOK, ItemSet
  <2> QED
    BY <1>1, <2>1, <2>2 DEF Found, Expired, TypeInv
<1>3. CallOf(Nothing) = Nothing
  BY DEF CallOf, Nothing
<1> QED
  BY <1>2, <1>3 DEF Init, Map!Init, Map!Lasts

LEMMA MapCall ==
  ASSUME TypeInv, TypeInv', NEW p \in Users, Call(p)
  PROVE  Map!Next
<1>1. PICK op \in Puts \cup Changes \cup Others \cup Loads \cup Walks \cup {Sweep, Flush} :
        doing[p] = Nothing /\ doing' = [doing EXCEPT ![p] = op]
  BY DEF Call, Begin
<1>2. op \in Doings /\ op # Nothing
  BY CallType
<1>3. p \in Clients /\ now' = now /\ items' = items /\ told' = told
  BY DEF Users, Call
<1>4. Live' = Live
  BY <1>3, LiveSame DEF Found, Expired
<1>5. waiting[p] = Nothing /\ waiting'[p] # Nothing /\ waiting' = [waiting EXCEPT ![p] = waiting'[p]]
  <2>1. waiting' = [waiting EXCEPT ![p] = CallOf(op)]
    BY <1>1, <1>3, CallsChange
  <2>2. CallOf(op) # Nothing
    BY <1>2, CallIs
  <2>3. waiting[p] = Nothing
    BY <1>1, <1>3, CallIs DEF waiting, Doings
  <2> QED
    BY <1>3, <2>1, <2>2, <2>3 DEF waiting
<1> QED
  BY <1>3, <1>4, <1>5 DEF Map!Next, Map!Call, waiting

LEMMA MapGet ==
  ASSUME TypeInv, TypeInv', NEW p \in Clients, Get(p)
  PROVE  Map!Next
<1>1. /\ doing[p] \in Doings /\ doing[p].op = "Get" /\ doing' = [doing EXCEPT ![p] = Nothing]
      /\ now' = now /\ items' = items
      /\ told' = <<p, IF Found(doing[p].key) THEN items[doing[p].key].object ELSE Say("missing")>>
  BY DEF Get, TypeInv
<1>2. waiting[p] = doing[p] /\ doing[p] # Nothing
  BY <1>1, CallIs, Kinds DEF waiting
<1>3. waiting' = [waiting EXCEPT ![p] = Nothing]
  BY <1>1, CallsEnd
<1>4. Live' = Live
  BY <1>1, LiveSame DEF Found, Expired
<1>5. told' = <<p, IF waiting[p].key \in DOMAIN Live THEN Live[waiting[p].key].object
                   ELSE Map!Say("missing")>>
  BY <1>1, <1>2, LiveIs DEF Say, Map!Say
<1> QED
  BY <1>1, <1>2, <1>3, <1>4, <1>5 DEF Map!Next, Map!Get, Map!Returns, waiting

\* What a write gives to the other lemmas.
LEMMA WriteIs ==
  ASSUME TypeInv, NEW p \in Clients, WriteAndTell(p), NEW o, o = doing[p]
  PROVE  /\ o \in Doings /\ o.op \in Writes /\ o # Nothing
         /\ now' = now /\ items' = After(o) /\ doing' = [doing EXCEPT ![p] = Goes(o)]
         /\ waiting' = [waiting EXCEPT ![p] = CallOf(Goes(o))]
         /\ Goes(o) = Nothing => told' = <<p, Answer(o)>>
         /\ Goes(o) # Nothing => told' = told
<1>1. /\ o \in Doings /\ o.op \in Writes
      /\ now' = now /\ items' = After(o) /\ doing' = [doing EXCEPT ![p] = Goes(o)]
      /\ told' = IF doing'[p] = Nothing THEN <<p, Answer(o)>> ELSE told
  BY DEF WriteAndTell, Write, TypeInv
<1>2. doing'[p] = Goes(o)
  BY <1>1 DEF TypeInv
<1>3. o # Nothing
  BY <1>1, Kinds DEF Writes
<1> QED
  BY <1>1, <1>2, <1>3, CallsChange

\* Set, Add and Replace.
LEMMA MapPut ==
  ASSUME TypeInv, TypeInv', NEW p \in Clients, WriteAndTell(p),
         doing[p].op \in {"Set", "Add", "Replace"}
  PROVE  Map!Next
<1> DEFINE o == doing[p]
<1>1. /\ o \in Storing /\ o \in Doings /\ o # Nothing /\ waiting[p] = o
      /\ now' = now /\ items' = After(o)
  BY WriteIs, Kinds, CallIs DEF waiting
<1>2. Goes(o) = Nothing
  BY WriteIs, GoesType DEF AllShards
<1>3. waiting' = [waiting EXCEPT ![p] = Nothing] /\ told' = <<p, Answer(o)>>
  BY <1>2, WriteIs, CallIs DEF Doings
<1>4. o.key \in Keys /\ o.ttl \in Int /\ now \in Nat
  BY <1>1 DEF Storing, TypeInv
<1>5. Refused(o) <=> \/ o.op = "Add" /\ o.key \in DOMAIN Live
                     \/ o.op = "Replace" /\ o.key \notin DOMAIN Live
  BY LiveIs DEF Refused
<1>6. CASE Refused(o)
  <2>1. items' = items /\ Answer(o) = Map!Say("refused")
    BY <1>1, <1>6, AfterIs DEF Answer, Say, Map!Say
  <2>2. Live' = Live
    BY <1>1, <2>1, LiveSame DEF Found, Expired
  <2>3. waiting[p] # Nothing /\ Map!Put(p)
    BY <1>1, <1>3, <1>5, <1>6, <2>1, <2>2 DEF Map!Put, Map!Returns, waiting
  <2> QED
    BY <2>3 DEF Map!Next, waiting
<1>7. CASE ~Refused(o)
  <2> DEFINE item == Item(o.object, Due(now, o.ttl))
             k == o.key
             f == [j \in DOMAIN Live \cup {k} |-> IF j = k THEN item ELSE Live[j]]
  <2>1. items' = Store(items, k, item) /\ Answer(o) = Map!Say("done")
    BY <1>1, <1>7, AfterIs DEF Answer, Say, Map!Say
  <2>2. /\ item.expiration \in Int /\ item \in ItemSet
        /\ item.expiration = NoExpiration \/ item.expiration >= now
    <3>1. Due(now, o.ttl) = NoExpiration \/ (Due(now, o.ttl) \in Int /\ Due(now, o.ttl) >= now)
      BY <1>4 DEF Due
    <3>2. Due(now, o.ttl) \in Int
      BY <1>4, DueType
    <3> QED
      BY <1>1, <3>1, <3>2 DEF Item, ItemSet, Storing
  <2> HIDE DEF item
  <2>3. k \in Keys /\ ItemsOK
    BY <1>4 DEF TypeInv
  <2>4. /\ DOMAIN items' = DOMAIN items \cup {k}
        /\ items'[k] = item /\ \A j \in DOMAIN items : j # k => items'[j] = items[j]
    <3> HIDE DEF k
    <3>1. /\ DOMAIN Store(items, k, item) = DOMAIN items \cup {k}
          /\ Store(items, k, item)[k] = item
          /\ \A j \in DOMAIN items : j # k => Store(items, k, item)[j] = items[j]
      BY <2>2, <2>3, StoreType
    <3> QED
      BY <2>1, <3>1
  <2> HIDE DEF k
  <2>5. \A j : Found(j)' <=> j = k \/ Found(j)
    BY <1>1, <1>4, <2>2, <2>4 DEF Found, Expired
  <2>6. Live' = f
    <3>1. f = [j \in DOMAIN f |-> f[j]] /\ \A j : j \in DOMAIN f <=> Found(j)'
      BY <2>5, LiveIs
    <3>2. \A j \in DOMAIN f : f[j] = items'[j]
      BY <2>4, LiveIs DEF Found
    <3> HIDE DEF f
    <3> QED
      BY <3>1, <3>2, LiveAfter
  <2>7. waiting[p] # Nothing /\ Map!Put(p)
    BY <1>1, <1>3, <1>5, <1>7, <2>1, <2>6
    DEF Map!Put, Map!Returns, Map!Bind, Map!Entry, waiting, item, k, Item
  <2> QED
    BY <2>7 DEF Map!Next, waiting
<1> QED
  BY <1>6, <1>7

LEMMA MapChange ==
  ASSUME TypeInv, TypeInv', NEW p \in Clients, WriteAndTell(p), doing[p].op = "Increment"
  PROVE  Map!Next
<1> DEFINE o == doing[p]
<1>1. /\ o \in Adding /\ o \in Doings /\ o # Nothing /\ waiting[p] = o
      /\ now' = now /\ items' = After(o)
  BY WriteIs, Kinds, CallIs DEF waiting
<1>2. Goes(o) = Nothing
  BY WriteIs, GoesType DEF AllShards
<1>3. waiting' = [waiting EXCEPT ![p] = Nothing] /\ told' = <<p, Answer(o)>>
  BY <1>2, WriteIs, CallIs DEF Doings
<1>4. Refused(o) <=> o.key \notin DOMAIN Live \/ Live[o.key].object.type \notin o.types
  BY LiveIs DEF Refused
<1>5. CASE Refused(o)
  <2>1. items' = items /\ Answer(o) = Map!Say("refused")
    BY <1>1, <1>5, AfterIs DEF Answer, Say, Map!Say
  <2>2. Live' = Live
    BY <1>1, <2>1, LiveSame DEF Found, Expired
  <2>3. waiting[p] # Nothing /\ Map!Change(p)
    BY <1>1, <1>3, <1>4, <1>5, <2>1, <2>2 DEF Map!Change, Map!Returns, waiting
  <2> QED
    BY <2>3 DEF Map!Next, waiting
<1>6. CASE ~Refused(o)
  <2> DEFINE k == o.key
             x == Sum(items[k].object, o.by)
             f == [Live EXCEPT ![k].object = x]
  <2>1. /\ Found(k) /\ k \in DOMAIN items
        /\ DOMAIN items' = DOMAIN items
        /\ items'[k] = Item(x, items[k].expiration)
        /\ \A j \in DOMAIN items : j # k => items'[j] = items[j]
    BY <1>1, <1>6, IncrementIs DEF TypeInv
  <2>2. Live[k] = items[k] /\ k \in DOMAIN Live
    BY <2>1, LiveIs
  <2>3. Answer(o) = x
    <3>1. Answer(o) = After(o)[o.key].object
      BY <1>1, <1>6 DEF Answer, Adding
    <3> QED
      BY <1>1, <2>1, <3>1 DEF Item
  <2> HIDE DEF x
  <2>4. \A j : Found(j)' <=> Found(j)
    BY <1>1, <2>1 DEF Found, Expired, Item
  <2>5. items[k] \in ItemSet
    BY <2>1 DEF TypeInv, ItemsOK
  <2>6. f[k] = items'[k]
    BY <2>1, <2>2, <2>5 DEF Item, ItemSet
  <2>7. \A j \in DOMAIN f : f[j] = items'[j]
    <3> SUFFICES ASSUME NEW j \in DOMAIN f, j # k PROVE f[j] = items'[j]
      BY <2>6
    <3>1. f[j] = Live[j] /\ j \in DOMAIN Live
      OBVIOUS
    <3> QED
      BY <2>1, <3>1, LiveIs DEF Found
  <2>8. Live' = f
    <3>1. f = [j \in DOMAIN f |-> f[j]] /\ \A j : j \in DOMAIN f <=> Found(j)'
      BY <2>4, LiveIs
    <3> HIDE DEF f
    <3> QED
      BY <2>7, <3>1, LiveAfter
  <2>9. ~(k \notin DOMAIN Live \/ Live[k].object.type \notin o.types)
    BY <1>4, <1>6
  <2>10. x = Sum(Live[k].object, o.by)
    BY <2>2 DEF x
  <2>11. waiting[p] # Nothing /\ Map!Change(p)
    BY <1>1, <1>3, <2>3, <2>8, <2>9, <2>10 DEF Map!Change, Map!Returns, waiting
  <2> QED
    BY <2>11 DEF Map!Next, waiting
<1> QED
  BY <1>5, <1>6

\* What is left of the map when only some keys are kept.
LEMMA LiveKept ==
  ASSUME TypeInv, TypeInv', now' = now, NEW K, items' = Keep(items, K)
  PROVE  Live' = [k \in DOMAIN Live \cap K |-> Live[k]]
<1> DEFINE f == [k \in DOMAIN Live \cap K |-> Live[k]]
<1>1. /\ DOMAIN items' = DOMAIN items \cap K
      /\ \A j \in DOMAIN items \cap K : items'[j] = items[j]
  BY KeepType DEF TypeInv
<1>2. f = [k \in DOMAIN f |-> f[k]] /\ \A k : k \in DOMAIN f <=> Found(k)'
  BY <1>1, LiveIs DEF Found, Expired
<1>3. \A k \in DOMAIN f : f[k] = items'[k]
  BY <1>1, LiveIs DEF Found
<1> HIDE DEF f
<1>4. Live' = f
  BY <1>2, <1>3, LiveAfter
<1> QED
  BY <1>4 DEF f

LEMMA MapDelete ==
  ASSUME TypeInv, TypeInv', NEW p \in Clients, WriteAndTell(p), doing[p].op = "Delete"
  PROVE  Map!Next
<1> DEFINE o == doing[p]
           K == Keys \ {o.key}
<1>0. /\ o \in Doings /\ o # Nothing /\ now' = now /\ items' = After(o)
  BY WriteIs
<1>1. /\ o \in Doings /\ o # Nothing /\ waiting[p] = o
      /\ now' = now /\ items' = Keep(items, K)
  BY <1>0, CallIs, AfterIs DEF waiting
<1>2. Goes(o) = Nothing
  BY WriteIs, GoesType DEF AllShards
<1>3. waiting' = [waiting EXCEPT ![p] = Nothing] /\ told' = <<p, Answer(o)>>
  BY <1>2, WriteIs, CallIs DEF Doings
<1>4. Answer(o) = Map!Say("done")
  BY DEF Answer, Refused, Say, Map!Say
<1>5. Live' = [k \in DOMAIN Live \cap K |-> Live[k]]
  <2> HIDE DEF K
  <2> QED
    BY <1>1, LiveKept
<1>6. waiting[p] # Nothing /\ Map!Delete(p)
  BY <1>1, <1>3, <1>4, <1>5 DEF Map!Delete, Map!Returns, Map!Only, waiting
<1> QED
  BY <1>6 DEF Map!Next, waiting

LEMMA MapMerge ==
  ASSUME TypeInv, TypeInv', NEW p \in Clients, WriteAndTell(p), doing[p].op = "Load"
  PROVE  Map!Next
<1> DEFINE o == doing[p]
           k == o.key
           e == o.entry
<1>0. /\ o \in Doings /\ o # Nothing /\ now' = now /\ items' = After(o)
  BY WriteIs
<1>1. /\ o \in Merging /\ o \in Doings /\ o # Nothing /\ waiting[p] = o
      /\ now' = now /\ items' = IF Found(k) THEN items ELSE Store(items, k, e)
  BY <1>0, Kinds, CallIs, AfterIs DEF waiting
<1>2. Goes(o) = Nothing
  BY WriteIs, GoesType DEF AllShards
<1>3. waiting' = [waiting EXCEPT ![p] = Nothing] /\ told' = <<p, Answer(o)>>
  BY <1>2, WriteIs, CallIs DEF Doings
<1>4. Answer(o) = Map!Say("done")
  BY DEF Answer, Refused, Say, Map!Say
<1>5. k \in Keys /\ e \in ItemSet /\ e.expiration \in Int /\ now \in Nat
  BY <1>1 DEF Merging, ItemSet, TypeInv
<1>6. Map!Lasts(e, now) <=> ~(e.expiration # NoExpiration /\ e.expiration < now)
  BY <1>5 DEF Map!Lasts
<1>7. Live' = IF k \notin DOMAIN Live /\ Map!Lasts(e, now)
              THEN [j \in DOMAIN Live \cup {k} |-> IF j = k THEN e ELSE Live[j]] ELSE Live
  <2>1. CASE Found(k)
    <3>1. Live' = Live
      BY <1>1, <2>1, LiveSame DEF Found, Expired
    <3> QED
      BY <2>1, <3>1, LiveIs
  <2>2. CASE ~Found(k)
    <3> HIDE DEF k, e
    <3>1. /\ DOMAIN Store(items, k, e) = DOMAIN items \cup {k}
          /\ Store(items, k, e)[k] = e
          /\ \A j \in DOMAIN items : j # k => Store(items, k, e)[j] = items[j]
      BY <1>5, StoreType DEF TypeInv
    <3>2. /\ DOMAIN items' = DOMAIN items \cup {k}
          /\ items'[k] = e /\ \A j \in DOMAIN items : j # k => items'[j] = items[j]
      BY <1>1, <2>2, <3>1
    <3>3. \A j : j = k => (Found(j)' <=> Map!Lasts(e, now))
      BY <1>1, <1>6, <3>2 DEF Found, Expired
    <3>4. \A j : j # k => (Found(j)' <=> Found(j))
      BY <1>1, <3>2 DEF Found, Expired
    <3>5. CASE Map!Lasts(e, now)
      <4> DEFINE f == [j \in DOMAIN Live \cup {k} |-> IF j = k THEN e ELSE Live[j]]
      <4>1. f = [j \in DOMAIN f |-> f[j]] /\ \A j : j \in DOMAIN f <=> Found(j)'
        BY <3>3, <3>4, <3>5, LiveIs
      <4>2. \A j \in DOMAIN f : f[j] = items'[j]
        BY <3>2, LiveIs DEF Found
      <4> HIDE DEF f
      <4>3. Live' = f
        BY <4>1, <4>2, LiveAfter
      <4> QED
        BY <2>2, <3>5, <4>3, LiveIs DEF f
    <3>6. CASE ~Map!Lasts(e, now)
      <4>1. Live' = Live
        BY <2>2, <3>2, <3>3, <3>4, <3>6, LiveSame DEF Found
      <4> QED
        BY <3>6, <4>1
    <3> QED
      BY <3>5, <3>6
  <2> QED
    BY <2>1, <2>2
<1>8. waiting[p] # Nothing /\ Map!Merge(p)
  BY <1>1, <1>3, <1>4, <1>7 DEF Map!Merge, Map!Returns, Map!Bind, waiting
<1> QED
  BY <1>8 DEF Map!Next, waiting

\* What has expired is not in the map already, whatever shard it is swept from.
LEMMA MapDeleteExpired ==
  ASSUME TypeInv, TypeInv', NEW p \in Clients, WriteAndTell(p), doing[p].op = "DeleteExpired"
  PROVE  Map!Next \/ UNCHANGED Map!mapVars
<1> DEFINE o == doing[p]
           K == {k \in DOMAIN items : ~(Bucket[k] = o.shard /\ Expired(items[k]))}
<1>1. /\ o \in Doings /\ o # Nothing /\ o.op \in Writes /\ now' = now /\ items' = After(o)
      /\ waiting' = [waiting EXCEPT ![p] = CallOf(Goes(o))]
      /\ Goes(o) = Nothing => told' = <<p, Answer(o)>>
      /\ Goes(o) # Nothing => told' = told
  BY WriteIs
<1>2. items' = Keep(items, K) /\ waiting[p] = [op |-> "DeleteExpired"]
  <2>1. After(o) = Keep(items, K)
    BY AfterIs
  <2>2. CallOf(o) = [op |-> "DeleteExpired"]
    BY <1>1, CallIs
  <2> QED
    BY <1>1, <2>1, <2>2 DEF waiting
<1>3. Live' = Live
  <2>1. Live' = [k \in DOMAIN Live \cap K |-> Live[k]]
    <3> HIDE DEF K
    <3> QED
      BY <1>1, <1>2, LiveKept
  <2>2. DOMAIN Live \cap K = DOMAIN Live /\ Live = [k \in DOMAIN Live |-> Live[k]]
    <3>1. \A k \in DOMAIN Live : k \in DOMAIN items /\ ~Expired(items[k])
      BY LiveIs DEF Found
    <3>2. Live = [k \in DOMAIN Live |-> Live[k]]
      BY DEF Live, Keep
    <3> QED
      BY <3>1, <3>2
  <2> QED
    BY <2>1, <2>2
<1>4. CASE Goes(o) = Nothing
  <2>1. waiting' = [waiting EXCEPT ![p] = Nothing] /\ told' = <<p, Answer(o)>>
    BY <1>1, <1>4, CallIs DEF Doings
  <2>2. Answer(o) = Map!Say("done")
    BY DEF Answer, Refused, Say, Map!Say
  <2>3. waiting[p] # Nothing /\ Map!DeleteExpired(p)
    BY <1>1, <1>2, <1>3, <2>1, <2>2 DEF Map!DeleteExpired, Map!Returns, waiting, Nothing
  <2> QED
    BY <2>3 DEF Map!Next, waiting
<1>5. CASE Goes(o) # Nothing
  <2>1. Goes(o) \in Sweeping /\ Goes(o) = [op |-> o.op, shard |-> o.shard + 1]
    BY <1>1, <1>5, GoesType
  <2>2. CallOf(Goes(o)) = [op |-> "DeleteExpired"]
    BY <2>1, CallIs DEF Doings
  <2>3. waiting' = waiting
    BY <1>1, <1>2, <2>2 DEF waiting
  <2> QED
    BY <1>1, <1>3, <1>5, <2>3 DEF Map!mapVars, waiting
<1> QED
  BY <1>4, <1>5

\* Flush forgets the keys of one shard, and goes on to those of the next.
LEMMA MapFlush ==
  ASSUME TypeInv, TypeInv', NEW p \in Clients, WriteAndTell(p), doing[p].op = "Flush"
  PROVE  Map!Next
<1> DEFINE o == doing[p]
           left == {k \in Keys : Bucket[k] >= o.shard}
           part == {k \in Keys : Bucket[k] = o.shard}
           K == {k \in Keys : Bucket[k] # o.shard}
<1>1. /\ o \in Doings /\ o # Nothing /\ o.op \in Writes /\ now' = now /\ items' = After(o)
      /\ waiting' = [waiting EXCEPT ![p] = CallOf(Goes(o))]
      /\ Goes(o) = Nothing => told' = <<p, Answer(o)>>
      /\ Goes(o) # Nothing => told' = told
  BY WriteIs
<1>2. items' = Keep(items, K) /\ waiting[p] = [op |-> "Flush", left |-> left]
  <2>1. After(o) = Keep(items, K)
    BY AfterIs
  <2>2. CallOf(o) = [op |-> "Flush", left |-> left]
    BY <1>1, CallIs
  <2> QED
    BY <1>1, <2>1, <2>2 DEF waiting
<1>3. o \in Sweeping /\ o.shard \in 1..Shards
  BY <1>1, Kinds DEF Sweeping
<1>4. part \subseteq left /\ K = Keys \ part
  BY <1>3
<1>5. Live' = [k \in DOMAIN Live \cap (Keys \ part) |-> Live[k]]
  <2>1. Live' = [k \in DOMAIN Live \cap K |-> Live[k]]
    <3> HIDE DEF K
    <3> QED
      BY <1>1, <1>2, LiveKept
  <2> QED
    BY <1>4, <2>1
<1>6. CASE Goes(o) = Nothing
  <2>1. waiting' = [waiting EXCEPT ![p] = Nothing] /\ told' = <<p, Answer(o)>>
    BY <1>1, <1>6, CallIs DEF Doings
  <2>2. Answer(o) = Map!Say("done")
    BY DEF Answer, Refused, Say, Map!Say
  <2>3. part = left
    <3>1. ~(o.shard < Shards)
      BY <1>1, <1>3, <1>6, GoesType DEF AllShards, Sweeping, Nothing
    <3> QED
      BY <1>3, <3>1
  <2> HIDE DEF left, part
  <2>4. part \in SUBSET waiting[p].left /\ part = waiting[p].left
    BY <1>2, <2>3
  <2>5. waiting[p] # Nothing /\ waiting[p].op = "Flush"
    BY <1>2 DEF Nothing
  <2>6. Map!Returns(p, Map!Say("done")) /\ Live' = Map!Only(Keys \ part)
    BY <1>1, <1>5, <2>1, <2>2 DEF Map!Returns, Map!Only, waiting
  <2>7. waiting[p] # Nothing /\ Map!Flush(p)
    BY <2>4, <2>5, <2>6 DEF Map!Flush, waiting
  <2> QED
    BY <2>7 DEF Map!Next, waiting
<1>7. CASE Goes(o) # Nothing
  <2>1. Goes(o) \in Sweeping /\ Goes(o) = [op |-> "Flush", shard |-> o.shard + 1]
    BY <1>1, <1>7, GoesType
  <2>2. CallOf(Goes(o)) = [op |-> "Flush", left |-> {k \in Keys : Bucket[k] >= o.shard + 1}]
    <3>1. Goes(o) \in Doings /\ Goes(o).op = "Flush" /\ Goes(o).shard = o.shard + 1
      BY <2>1 DEF Doings
    <3>2. CallOf(Goes(o)) = [op |-> "Flush", left |-> {k \in Keys : Bucket[k] >= Goes(o).shard}]
      BY <3>1, CallIs
    <3> QED
      BY <3>1, <3>2
  <2>3. {k \in Keys : Bucket[k] >= o.shard + 1} = left \ part
    BY <1>3
  <2> HIDE DEF left, part
  <2>4. waiting' = [waiting EXCEPT ![p] = [op |-> "Flush", left |-> left \ part]]
    BY <1>1, <2>2, <2>3
  <2>5. [waiting[p] EXCEPT !.left = @ \ part] = [op |-> "Flush", left |-> left \ part]
    <3>1. PICK r : r = waiting[p]
      OBVIOUS
    <3>2. r = [op |-> "Flush", left |-> left]
      BY <1>2, <3>1
    <3>3. [r EXCEPT !.left = @ \ part] = [op |-> "Flush", left |-> left \ part]
      BY <3>2
    <3> HIDE DEF waiting
    <3> QED
      BY <3>1, <3>3, Zenon
  <2>6. waiting' = [waiting EXCEPT ![p].left = @ \ part]
    BY <2>4, <2>5
  <2>7. part \in SUBSET waiting[p].left /\ waiting[p] # Nothing /\ waiting[p].op = "Flush"
    BY <1>2, <1>4 DEF Nothing
  <2>8. Live' = Map!Only(Keys \ part) /\ UNCHANGED <<now, told>>
    BY <1>1, <1>5, <1>7 DEF Map!Only
  <2>9. waiting[p] # Nothing /\ Map!Flush(p)
    BY <2>6, <2>7, <2>8 DEF Map!Flush, waiting
  <2> QED
    BY <2>9 DEF Map!Next, waiting
<1> QED
  BY <1>6, <1>7

\* A walk ends at one instant; the locks it takes before are its own affair.
LEMMA MapWalk ==
  ASSUME TypeInv, TypeInv', NEW p \in Clients, Walk(p) \/ Walked(p)
  PROVE  Map!Next \/ UNCHANGED Map!mapVars
<1>1. CASE Walk(p)
  <2>1. now' = now /\ told' = told /\ (RLock(p) \/ Items(p) \/ SaveBegin(p))
    BY <1>1 DEF Walk
  <2>2. /\ doing[p] \in Walking /\ doing'[p] \in Walking /\ items' = items
        /\ doing' = [doing EXCEPT ![p] = doing'[p]]
    BY <2>1, WalkType
  <2>3. CallOf(doing'[p]) = [op |-> "Save"] /\ CallOf(doing[p]) = [op |-> "Save"]
    BY <2>2, CallIs DEF Doings, Walking
  <2>4. waiting' = waiting
    BY <2>2, <2>3 DEF waiting, TypeInv
  <2>5. Live' = Live
    BY <2>1, <2>2, LiveSame DEF Found, Expired
  <2> QED
    BY <2>1, <2>4, <2>5 DEF Map!mapVars, waiting
<1>2. CASE Walked(p)
  <2>1. /\ doing[p] \in Doings /\ doing[p].op = "walk" /\ doing' = [doing EXCEPT ![p] = Nothing]
        /\ now' = now /\ items' = items /\ told' = <<p, Map!Say("done")>>
    BY <1>2 DEF Walked, RUnlock, TypeInv, Say, Map!Say
  <2>2. waiting[p] = [op |-> "Save"] /\ waiting' = [waiting EXCEPT ![p] = Nothing]
    BY <2>1, CallIs, CallsEnd DEF waiting
  <2>3. Live' = Live
    BY <2>1, LiveSame DEF Found, Expired
  <2>4. waiting[p] # Nothing /\ Map!Walk(p)
    BY <2>1, <2>2, <2>3 DEF Map!Walk, Map!Returns, waiting, Nothing
  <2> QED
    BY <2>4 DEF Map!Next, waiting
<1> QED
  BY <1>1, <1>2

\* Time removes entries, and only the janitor begins anything meanwhile.
LEMMA MapTick ==
  ASSUME TypeInv, TypeInv', Tick
  PROVE  Map!Next
<1>1. /\ now' = now + 1 /\ now \in Nat /\ items' = items /\ told' = told
      /\ doing' = doing \/ Begin(Janitor, Sweep)
  BY DEF Tick, TypeInv
<1>2. \A k \in DOMAIN items : items[k].expiration \in Int
  BY DEF TypeInv, ItemsOK, ItemSet
<1> DEFINE K == {k \in DOMAIN Live : Map!Lasts(Live[k], now')}
           f == [k \in DOMAIN Live \cap K |-> Live[k]]
<1>3. \A k : Found(k)' <=> k \in K
  <2> SUFFICES ASSUME NEW k PROVE Found(k)' <=> k \in K
    OBVIOUS
  <2>1. Found(k)' <=> /\ k \in DOMAIN items
                      /\ items[k].expiration = NoExpiration \/ items[k].expiration >= now + 1
    BY <1>1, <1>2 DEF Found, Expired
  <2>2. k \in K <=> /\ Found(k)
                    /\ items[k].expiration = NoExpiration \/ items[k].expiration >= now + 1
    BY <1>1, LiveIs DEF Map!Lasts
  <2> QED
    BY <1>1, <1>2, <2>1, <2>2 DEF Found, Expired
<1>4. Live' = f
  <2>1. f = [k \in DOMAIN f |-> f[k]] /\ \A k : k \in DOMAIN f <=> Found(k)'
    BY <1>3
  <2>2. \A k \in DOMAIN f : f[k] = items'[k]
    BY <1>1, LiveIs
  <2> HIDE DEF f
  <2> QED
    BY <2>1, <2>2, LiveAfter
<1>5. \A p \in Clients : waiting[p] # Nothing => waiting'[p] = waiting[p]
  <2>1. CASE doing' = doing
    BY <2>1 DEF waiting
  <2>2. CASE Begin(Janitor, Sweep)
    <3>1. doing[Janitor] = Nothing /\ doing' = [doing EXCEPT ![Janitor] = Sweep]
      BY <2>2 DEF Begin
    <3>2. waiting[Janitor] = Nothing
      BY <3>1, CallIs DEF waiting, Doings
    <3>3. waiting' = [waiting EXCEPT ![Janitor] = CallOf(Sweep)]
      BY <3>1, CallsChange
    <3> QED
      BY <3>2, <3>3 DEF waiting
  <2> QED
    BY <1>1, <2>1, <2>2
<1>6. Map!Tick
  BY <1>1, <1>4, <1>5 DEF Map!Tick, Map!Only, waiting
<1> QED
  BY <1>6 DEF Map!Next

LEMMA MapStep ==
  ASSUME TypeInv, TypeInv', [Next]_vars
  PROVE  [Map!Next]_Map!mapVars
<1>1. ASSUME NEW p \in Users, Call(p) PROVE Map!Next
  BY <1>1, MapCall
<1>2. ASSUME NEW p \in Clients, Get(p) PROVE Map!Next
  BY <1>2, MapGet
<1>3. ASSUME NEW p \in Clients, WriteAndTell(p) PROVE Map!Next \/ UNCHANGED Map!mapVars
  <2>1. doing[p].op \in Writes
    BY <1>3, WriteIs
  <2> QED
    BY <1>3, <2>1, MapPut, MapChange, MapDelete, MapDeleteExpired, MapFlush, MapMerge DEF Writes
<1>4. ASSUME NEW p \in Clients, Walk(p) \/ Walked(p)
      PROVE  Map!Next \/ UNCHANGED Map!mapVars
  BY <1>4, MapWalk
<1>5. CASE Tick
  BY <1>5, MapTick
<1>6. CASE UNCHANGED <<now, items, doing, told>>
  <2>1. Live' = Live
    BY <1>6, LiveSame DEF Found, Expired
  <2>2. waiting' = waiting
    BY <1>6 DEF waiting
  <2> QED
    BY <1>6, <2>1, <2>2 DEF Map!mapVars, waiting
<1> QED
  BY <1>1, <1>2, <1>3, <1>4, <1>5, <1>6
  DEF Next, Step, JanitorBegins, Collect, StopJanitor, vars

\* Every operation takes effect at one instant, on the entries whose time has
\* not passed, whether or not the janitor has removed the others: KeepsMap.
THEOREM CacheKeepsMap == Spec => KeepsMap
<1>1. TypeInv /\ TypeInv' /\ [Next]_vars => [Map!Next]_Map!mapVars
  BY MapStep
<1> QED
  BY <1>1, MapInit, TypesHold, PTL DEF Spec, KeepsMap, Map!Spec

=============================================================================
