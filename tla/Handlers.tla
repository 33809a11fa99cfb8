------------------------------ MODULE Handlers ------------------------------
(***************************************************************************)
(* The handler sets of goirc's client (dispatch.go): for each event a      *)
(* doubly linked list of handlers, in each of three sets with a RWMutex,   *)
(* and dispatch, which holds a set's lock for reading until the goroutines *)
(* of all its handlers have ended.                                         *)
(*                                                                         *)
(* A goroutine's task is what its handler does: it returns, panics, edits  *)
(* a handler set, dispatches an event itself (h_001), or says something,   *)
(* which is left to the module Client.                                     *)
(***************************************************************************)
EXTENDS Integers, Sequences, SequencesExt

CONSTANTS Nodes, Home, Event, Body  \* handlers: their set, event and task

Sets == {"int", "bg", "fg"}
Nil == "nil"
Loop == <<0, "loop", Nil>>  \* runLoop, as a dispatcher
Main == <<0, "main", Nil>>  \* a goroutine that is no handler

ASSUME HandlerConstants ==
  /\ IsFiniteSet(Nodes) /\ Home \in [Nodes -> Sets] /\ Nil \notin Nodes
  /\ DOMAIN Event = Nodes /\ DOMAIN Body = Nodes
  /\ \A n \in Nodes :
       /\ Body[n].do \in {"return", "panic", "add", "remove", "say", "dispatch"}
       /\ Body[n].do \in {"add", "remove"} => Body[n].node \in Nodes
  \* Only h_001 dispatches.
  /\ \A n, m \in Nodes :
       Body[n].do = "dispatch" => Home[n] = "int" /\ (Body[m].do = "dispatch" => m = n)

VARIABLES
  start, end,  \* <<set, event>> -> the ends of its list, Nil if there is none
  next, prev,  \* hNode's links
  owned,       \* the nodes that have a set
  order,       \* history: the handlers added to a list and not removed, in order
  lines,       \* the lines dispatched so far: [event, by]
  frames,      \* <<line, set>> -> "idle", "want" (the lock), "run" or "done"
  tasks,       \* goroutine -> what it does; a handler's is <<line, set, node>>
  mishaps      \* history: a node was removed "twice"

listVars == <<start, end, next, prev, owned, order>>
handlerVars == <<listVars, lines, frames, tasks, mishaps>>

ListOf(n) == <<Home[n], Event[n]>>
Lists == {ListOf(n) : n \in Nodes}
Without(f, a) == [x \in DOMAIN f \ {a} |-> f[x]]

-----------------------------------------------------------------------------
(* The lists.                                                              *)

Entry(s, k) == IF k \in DOMAIN s THEN s[k] ELSE Nil
Place(s, n) == CHOOSE k \in DOMAIN s : s[k] = n

\* The links of lists built by adding the handlers of sequences.
Beside(s, n, d) == IF n \in ToSet(s) THEN Entry(s, Place(s, n) + d) ELSE Nil
Linked(first) ==
  [start |-> [l \in Lists |-> Entry(first[l], 1)],
   end   |-> [l \in Lists |-> Entry(first[l], Len(first[l]))],
   next  |-> [n \in Nodes |-> Beside(first[ListOf(n)], n, 1)],
   prev  |-> [n \in Nodes |-> Beside(first[ListOf(n)], n, -1)]]

Add(n) ==
  LET l == ListOf(n)
  IN  /\ end' = [end EXCEPT ![l] = n]
      /\ IF start[l] = Nil
         THEN start' = [start EXCEPT ![l] = n] /\ next' = next
              /\ prev' = [prev EXCEPT ![n] = Nil]
         ELSE start' = start /\ next' = [next EXCEPT ![end[l]] = n]
              /\ prev' = [prev EXCEPT ![n] = end[l]]
      /\ owned' = owned \cup {n} /\ order' = [order EXCEPT ![l] = Append(@, n)]
      /\ mishaps' = mishaps

\* Mutated form: the node that follows keeps its backward link.
Unlink(n) ==
  LET l == ListOf(n)
      ends == [start |-> IF prev[n] = Nil THEN next[n] ELSE start[l],
               end |-> IF next[n] = Nil THEN prev[n] ELSE end[l]]
      gone == ends.start = Nil \/ ends.end = Nil
  IN  IF start[l] = Nil THEN UNCHANGED <<listVars, mishaps>>
      ELSE /\ start' = [start EXCEPT ![l] = IF gone THEN Nil ELSE ends.start]
           /\ end' = [end EXCEPT ![l] = IF gone THEN Nil ELSE ends.end]
           /\ next' = [m \in Nodes |-> IF m = n THEN Nil ELSE IF m = prev[n] THEN next[n] ELSE next[m]]
           /\ prev' = [prev EXCEPT ![n] = Nil]
           /\ owned' = owned \ {n}
           /\ order' = IF n \in owned THEN [order EXCEPT ![l] = RemoveAt(@, Place(@, n))] ELSE order
           /\ mishaps' = IF n \in owned THEN mishaps ELSE mishaps \cup {"twice"}

\* Nothing happens to a node without a list.  A list whose start or end is nil is
\* deleted: the links of a node removed before are nil, and so its list is.
RemoveNode(n) ==
  LET l == ListOf(n)
      ends == [start |-> IF prev[n] = Nil THEN next[n] ELSE start[l],
               end |-> IF next[n] = Nil THEN prev[n] ELSE end[l]]
      gone == ends.start = Nil \/ ends.end = Nil
  IN  IF start[l] = Nil THEN UNCHANGED <<listVars, mishaps>>
      ELSE /\ start' = [start EXCEPT ![l] = IF gone THEN Nil ELSE ends.start]
           /\ end' = [end EXCEPT ![l] = IF gone THEN Nil ELSE ends.end]
           /\ next' = [m \in Nodes |-> IF m = n THEN Nil ELSE IF m = prev[n] THEN next[n] ELSE next[m]]
           /\ prev' = [m \in Nodes |-> IF m = n THEN Nil ELSE IF m = next[n] THEN prev[n] ELSE prev[m]]
           /\ owned' = owned \ {n}
           /\ order' = IF n \in owned THEN [order EXCEPT ![l] = RemoveAt(@, Place(@, n))] ELSE order
           /\ mishaps' = IF n \in owned THEN mishaps ELSE mishaps \cup {"twice"}

\* Where dispatch is on a list after so many steps: at a handler, or at its end.
Walk(l) ==
  LET At[k \in 0..Cardinality(Nodes)] ==
        IF k = 0 THEN start[l] ELSE IF At[k - 1] = Nil THEN Nil ELSE next[At[k - 1]]
  IN  At
Walked(l) == {Walk(l)[k] : k \in 0..Cardinality(Nodes)} \ {Nil}

-----------------------------------------------------------------------------
(* The locks.                                                              *)

Editing == {g \in DOMAIN tasks : tasks[g].do \in {"adding", "removing"}}
Writers(s) == {g \in Editing : Home[tasks[g].node] = s}
CanRLock(s) == Writers(s) = {}

RunsOf(i, s) == {g \in DOMAIN tasks : g[1] = i /\ g[2] = s}

\* The handlers of a running dispatch keep it.
CanLock(s) == \A i \in DOMAIN lines : frames[<<i, s>>] # "run"

-----------------------------------------------------------------------------
(* dispatch.                                                               *)

Begun(i) ==
  [f \in (1..i) \X Sets |->
    IF f = <<i, "int">> THEN "want" ELSE IF f[1] = i THEN "idle" ELSE frames[f]]

\* Mutated form: dispatch does not wait for the foreground handlers.
IntDispatched(i) == frames[<<i, "int">>] = "done"

Dispatched(i) == frames[<<i, "fg">>] = "done"

\* runLoop takes a line when the one before has been dispatched.
LoopTake(takes) ==
  /\ Cardinality({i \in DOMAIN lines : lines[i].by = Loop}) < takes
  /\ \A i \in DOMAIN lines : lines[i].by = Loop => Dispatched(i)
  /\ \E e \in {Event[n] : n \in Nodes} :
       e \notin {"CONNECTED", "REGISTER"} /\ lines' = Append(lines, [event |-> e, by |-> Loop])
  /\ frames' = Begun(Len(lines) + 1)
  /\ UNCHANGED <<listVars, tasks, mishaps>>

\* dispatch gets the lock and starts a goroutine for each handler.
RLock(i, s) ==
  /\ frames[<<i, s>>] = "want" /\ CanRLock(s)
  /\ frames' = [frames EXCEPT ![<<i, s>>] = "run"]
  /\ LET l == <<s, lines[i].event>>
         found == IF l \in Lists THEN Walked(l) ELSE {}
         born == {<<i, s, n>> : n \in found}
     IN  tasks' = [g \in DOMAIN tasks \cup born |-> IF g \in born THEN Body[g[3]] ELSE tasks[g]]
  /\ UNCHANGED <<listVars, lines, mishaps>>

\* The WaitGroup is empty.  After the internal handlers come the others.
RUnlock(i, s) ==
  /\ frames[<<i, s>>] = "run" /\ RunsOf(i, s) = {}
  /\ frames' = [f \in DOMAIN frames |->
       IF f = <<i, s>> THEN "done"
       ELSE IF s = "int" /\ f[1] = i THEN "want" ELSE frames[f]]
  /\ UNCHANGED <<listVars, lines, tasks, mishaps>>

-----------------------------------------------------------------------------
(* What a goroutine does.                                                  *)

Ended(g) == tasks' = Without(tasks, g)
Goes(g, task) == tasks' = [tasks EXCEPT ![g] = task]

\* Mutated form: a panic takes wg.Done with it.
ReturnsUnlessPanic(g) ==
  /\ tasks[g].do = "return" /\ Ended(g)
  /\ UNCHANGED <<listVars, lines, frames, mishaps>>

\* A panic is recovered in hNode.Handle.
Returns(g) ==
  /\ tasks[g].do \in {"return", "panic"} /\ Ended(g)
  /\ UNCHANGED <<listVars, lines, frames, mishaps>>

Dispatches(g) ==
  /\ tasks[g].do = "dispatch"
  /\ lines' = Append(lines, [event |-> tasks[g].event, by |-> g])
  /\ frames' = Begun(Len(lines) + 1)
  /\ Goes(g, [do |-> "waiting", line |-> Len(lines) + 1])
  /\ UNCHANGED <<listVars, mishaps>>

DispatchReturns(g) ==
  /\ tasks[g].do = "waiting" /\ Dispatched(tasks[g].line) /\ Ended(g)
  /\ UNCHANGED <<listVars, lines, frames, mishaps>>

\* Remove reads the node's set without a lock; nil makes it panic.
AsksToEdit(g) ==
  /\ \/ tasks[g].do = "add" /\ Goes(g, [do |-> "adding", node |-> tasks[g].node])
     \/ tasks[g].do = "remove"
        /\ Goes(g, IF tasks[g].node \in owned THEN [do |-> "removing", node |-> tasks[g].node]
                   ELSE [do |-> "panic"])
  /\ UNCHANGED <<listVars, lines, frames, mishaps>>

\* add makes a node of its own each time: a node that nobody refers to.
Unused(n) == n \notin owned /\ \A g \in Editing : tasks[g].do = "removing" => tasks[g].node # n

Edits(g) ==
  /\ g \in Editing /\ CanLock(Home[tasks[g].node]) /\ Ended(g)
  /\ tasks[g].do = "adding" => Unused(tasks[g].node)
  /\ IF tasks[g].do = "adding" THEN Add(tasks[g].node) ELSE RemoveNode(tasks[g].node)
  /\ UNCHANGED <<lines, frames>>

TaskStep(g) ==
  Returns(g) \/ Dispatches(g) \/ DispatchReturns(g) \/ AsksToEdit(g) \/ Edits(g)

-----------------------------------------------------------------------------

\* The handlers that each list has from the start, in the order of their adding.
HandlersInit(first) ==
  /\ LET built == Linked(first)
     IN  start = built.start /\ end = built.end /\ next = built.next /\ prev = built.prev
  /\ owned = UNION {ToSet(first[l]) : l \in Lists} /\ order = first
  /\ lines = <<>> /\ frames = <<>> /\ tasks = <<>> /\ mishaps = {}

\* A handler waits for a lock that cannot be had before the handler ends.
Entangled ==
  \E s \in Sets, i \in DOMAIN lines :
    /\ Writers(s) # {} /\ frames[<<i, s>>] = "run"
    /\ \E g \in RunsOf(i, s) : g \in Editing \/ tasks[g].do = "waiting"
=============================================================================
