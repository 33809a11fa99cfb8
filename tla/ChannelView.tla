---------------------------- MODULE ChannelView ----------------------------
(***************************************************************************)
(* What goirc's state tracker promises its users (the Tracker interface,   *)
(* state/tracker.go): a relation between channels and nicks which covers   *)
(* exactly the channels I am on, where every nick has one name and a nick  *)
(* shares a channel with me or is not there at all.                        *)
(***************************************************************************)
CONSTANTS Chans, Names

VARIABLES
  me,   \* the name I am known by
  view  \* the pairs <<c, n>> where n is on c

cvVars == <<me, view>>

Members(c) == {n \in Names : <<c, n>> \in view}
Seen == {n \in Names : \E c \in Chans : n \in Members(c)}

Init == me \in Names /\ view = {}

\* I, or somebody on a channel I am on: one nick for JOIN, several for NAMES.
Enter(c, who) ==
  /\ me \in Members(c) \cup who
  /\ view' = view \cup ({c} \X who)
  /\ me' = me

Leave(c, n) ==
  /\ view' = IF n = me THEN view \ ({c} \X Names) ELSE view \ {<<c, n>>}
  /\ me' = me

Quit(n) ==
  /\ n # me
  /\ view' = view \ (Chans \X {n})
  /\ me' = me

\* A name that is taken is never taken over.
Rename(old, neu) ==
  /\ neu \notin Seen \cup {me}
  /\ view' = {p \in Chans \X Names :
                IF p[2] = neu THEN <<p[1], old>> \in view ELSE p[2] # old /\ p \in view}
  /\ me' = IF old = me THEN neu ELSE me

Wipe == view' = {} /\ me' = me

Next ==
  \/ \E c \in Chans : \E who \in SUBSET Names : Enter(c, who)
  \/ \E c \in Chans, n \in Names : Leave(c, n)
  \/ \E n \in Names : Quit(n)
  \/ \E old, neu \in Names : Rename(old, neu)
  \/ Wipe

Spec == Init /\ [][Next]_cvVars
=============================================================================
