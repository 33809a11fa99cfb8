------------------------------ MODULE GoCache ------------------------------
(***************************************************************************)
(* A go-cache cache in use: clients call its operations, time passes, and  *)
(* a janitor removes what has expired until the cache is garbage.          *)
(***************************************************************************)
EXTENDS CacheItems

CONSTANTS
  Janitor,  \* one of the clients: the goroutine of janitor.Run
  Contents,  \* the items NewFrom is given
  Objects, Durations, Amounts,
  MaxTime,  \* bound: the clock
  MaxCalls  \* bound: operations called

\* What an item holds, and when it expires.
ItemSet == [object : [type : STRING, number : Int], expiration : Int]

ASSUME GoCacheConstants ==
  /\ Janitor \in Clients
  /\ Objects \subseteq [type : STRING, number : Int]
  /\ Durations \subseteq Int /\ Amounts \subseteq Int
  /\ \A m \in Contents : DOMAIN m \subseteq Keys /\ m \in [DOMAIN m -> ItemSet]
  /\ MaxTime \in Nat /\ MaxCalls \in Nat

VARIABLES
  told,     \* who returned last, and with which answer
  janitor,  \* "born", "running" (its channel is made) or "stopped"
  garbage,  \* the finalizer: "none", "stopping", "stuck" or "done"
  calls

vars == <<now, items, doing, told, janitor, garbage, calls>>

Users == Clients \ {Janitor}

Number(type, n) == [type |-> type, number |-> n]

\* The operations and their arguments, at the shard they begin with.
Puts == [op : {"Set", "Add", "Replace"}, key : Keys, object : Objects, ttl : Durations]
Changes == [op : {"Increment"}, key : Keys, by : Amounts,
            types : {{"int", "float"}, {"int"}, {"float"}}]
Others == [op : {"Get", "Delete"}, key : Keys]
Loads == [op : {"Load"}, key : Keys,
          entry : {Item(x, t) : x \in Objects, t \in {NoExpiration, 0}}]
Walks == [op : {"Save", "SaveCache"}, shard : 1..Shards]
Sweep == [op |-> "DeleteExpired", shard |-> 1]
Flush == [op |-> "Flush", shard |-> 1]

Init ==
  /\ now = 0 /\ items \in Contents
  /\ doing = [p \in Clients |-> Nothing] /\ told = <<>>
  /\ janitor = "born" /\ garbage = "none" /\ calls = 0

Call(p) ==
  /\ garbage = "none" /\ calls < MaxCalls
  /\ \E op \in Puts \cup Changes \cup Others \cup Loads \cup Walks \cup {Sweep, Flush} :
       Begin(p, op)
  /\ calls' = calls + 1
  /\ UNCHANGED <<now, items, told, janitor, garbage>>

Get(p) ==
  /\ doing[p].op = "Get" /\ CanRLock(Shard(doing[p]))
  /\ told' = <<p, IF Found(doing[p].key) THEN items[doing[p].key].object ELSE Say("missing")>>
  /\ doing' = [doing EXCEPT ![p] = Nothing]
  /\ UNCHANGED <<now, items, janitor, garbage, calls>>

\* An operation is told what it did when it has done all of it.
WriteAndTell(p) ==
  /\ Write(p)
  /\ told' = IF doing'[p] = Nothing THEN <<p, Answer(doing[p])>> ELSE told
  /\ UNCHANGED <<now, janitor, garbage, calls>>

Walk(p) ==
  /\ RLock(p) \/ Items(p) \/ SaveBegin(p)
  /\ UNCHANGED <<now, told, janitor, garbage, calls>>

Walked(p) ==
  /\ RUnlock(p)
  /\ told' = <<p, Say("done")>>
  /\ UNCHANGED <<now, janitor, garbage, calls>>

\* A clock tick is the janitor's interval; a janitor that is late loses ticks.
Tick ==
  /\ now < MaxTime /\ now' = now + 1
  /\ IF janitor = "running" /\ doing[Janitor] = Nothing
     THEN Begin(Janitor, Sweep) ELSE UNCHANGED doing
  /\ UNCHANGED <<items, told, janitor, garbage, calls>>

-----------------------------------------------------------------------------
(* The janitor and the finalizer that stops it.                            *)

JanitorBegins ==
  /\ janitor = "born" /\ janitor' = "running"
  /\ UNCHANGED <<now, items, doing, told, garbage, calls>>

\* A finalizer that comes before the janitor's channel is made sends to nil.
Collect ==
  /\ garbage = "none" /\ \A p \in Users : doing[p] = Nothing
  /\ garbage' = IF janitor = "born" THEN "stuck" ELSE "stopping"
  /\ UNCHANGED <<now, items, doing, told, janitor, calls>>

StopJanitor ==
  /\ garbage = "stopping" /\ doing[Janitor] = Nothing
  /\ janitor' = "stopped" /\ garbage' = "done"
  /\ UNCHANGED <<now, items, doing, told, calls>>

Step(p) == Get(p) \/ WriteAndTell(p) \/ Walk(p) \/ Walked(p)

Next ==
  \/ \E p \in Users : Call(p)
  \/ \E p \in Clients : Step(p)
  \/ Tick \/ JanitorBegins \/ Collect \/ StopJanitor

Spec == Init /\ [][Next]_vars

\* Every goroutine that can go on does.
Fairness ==
  /\ \A p \in Clients : WF_vars(Step(p))
  /\ WF_vars(JanitorBegins) /\ WF_vars(StopJanitor)

FairSpec == Spec /\ Fairness

-----------------------------------------------------------------------------

\* Nobody changes the items, nor the number in one, while another client goes
\* through the map that Items returned under the lock it keeps ("explicit
\* synchronization is needed", cache.go:912).
WalksStable ==
  [][\A p \in Clients :
       doing[p].op = "walk" /\ doing'[p].op = "walk" =>
         LET K == {k \in Keys : Bucket[k] = Shard(doing[p])}
         IN  Keep(items', K) = Keep(items, K)]_vars

\* Every operation comes to its end, unless a SaveCache has met a writer
\* between its two locks; and a cache that is garbage gets rid of its janitor,
\* unless it became garbage before the janitor had begun.
EndsUnlessJammed ==
  /\ \A p \in Clients : doing[p] # Nothing ~> doing[p] = Nothing \/ Jammed
  /\ garbage = "stopping" ~> garbage = "done" \/ Jammed

\* Each operation takes effect at one instant, on the entries whose time has
\* not passed, whether or not the janitor has removed the others.
Live == Keep(items, {k \in Keys : Found(k)})
CallOf(o) == IF o.op \in {"Save", "SaveCache", "hold", "walk"} THEN [op |-> "Save"]
             ELSE IF o.op = "Flush" THEN [op |-> "Flush", left |-> {k \in Keys : Bucket[k] >= o.shard}]
             ELSE IF o.op = "DeleteExpired" THEN [op |-> o.op] ELSE o
Map == INSTANCE ExpiringMap WITH Never <- NoExpiration, None <- Nothing,
         live <- Live, call <- [p \in Clients |-> CallOf(doing[p])]
KeepsMap == Map!Spec
=============================================================================
