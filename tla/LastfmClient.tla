---------------------------- MODULE LastfmClient ----------------------------
(***************************************************************************)
(* The last.fm client (go-lastfm): every Get function looks for its answer *)
(* in the cache, else asks the server, and a goroutine of its own puts the *)
(* answer into the cache for as long as the server's headers allow.        *)
(*                                                                         *)
(* A key stands for a method with its parameters (makeCacheKey), an object *)
(* for what the program tells apart in an answer: "tags", "bare" (without  *)
(* tags or track), "untitled" (tags of a track it does not name), "error"  *)
(* (a *LastFMError), and "error value", which is what gob makes of one and *)
(* no Get function knows.                                                  *)
(***************************************************************************)
EXTENDS CacheItems

CONSTANTS
  Callers,  \* the goroutines that call Get functions
  Setters,  \* clients of the cache: the goroutines of cacheSet
  Janitor,  \* client of the cache
  Kept,     \* the keys whose answers the server allows to keep
  Titled,   \* the keys whose answers have a track to name
  Ttl       \* for how long

ASSUME LastfmConstants ==
  /\ Setters \subseteq Clients /\ Janitor \in Clients
  /\ Kept \subseteq Keys /\ Titled \subseteq Keys /\ Ttl \in Nat

VARIABLES
  asks,  \* what each caller asks for: a key, at "get" or "query", or an answer
  up     \* the process: "up", "down", "dead" (it cannot start)

Off == [at |-> "off"]
Asking(key) == [at |-> "get", key |-> key]
Querying(key) == [at |-> "query", key |-> key]
Got(key, x) == [at |-> "got", key |-> key, answer |-> x]

\* cacheGet: errors come back as errors, a value nobody knows not at all.
FromCache(p) ==
  LET k == asks[p].key
  IN  /\ asks[p].at = "get" /\ CanRLock(Bucket[k])
      /\ asks' = [asks EXCEPT ![p] =
           IF Found(k) /\ items[k].object # "error value" THEN Got(k, items[k].object)
           ELSE Querying(k)]
      /\ UNCHANGED <<now, items, doing, up>>

Free == {s \in Setters : doing[s] = Nothing}

\* cacheSet: the headers say how long; without leave nothing is kept.  Bound:
\* the headers give no leave for an answer that finds every setter at work; the
\* query itself never waits for the goroutine it starts.
Spawn(k, x) ==
  IF k \in Kept /\ Free # {}
  THEN \E s \in Setters : Begin(s, [op |-> "spawned", key |-> k, object |-> x, ttl |-> Ttl])
  ELSE UNCHANGED doing

\* doQuery and the decoding of its answer, either of which may fail.
Query(p) ==
  /\ asks[p].at = "query"
  /\ \E x \in {"tags", "bare", "error", "failure"}
               \cup (IF asks[p].key \in Titled THEN {"untitled"} ELSE {}) :
       /\ asks' = [asks EXCEPT ![p] = Got(asks[p].key, x)]
       /\ IF x = "failure" THEN UNCHANGED doing ELSE Spawn(asks[p].key, x)
  /\ UNCHANGED <<now, items, up>>

Announce(s) ==
  /\ doing[s].op = "spawned"
  /\ doing' = [doing EXCEPT ![s].op = "Set"]
  /\ UNCHANGED <<now, items, asks, up>>

Writer(s) == Write(s) /\ UNCHANGED <<now, asks, up>>

\* Time passes, and the janitor wants to sweep.
Tick ==
  /\ now' = now + 1
  /\ doing' = IF doing[Janitor] = Nothing
              THEN [doing EXCEPT ![Janitor] = [op |-> "DeleteExpired", shard |-> 1]]
              ELSE doing
  /\ UNCHANGED <<items, asks, up>>

IsError(x) == x \in {"error", "failure"}
=============================================================================
