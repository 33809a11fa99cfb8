------------------------------- MODULE Client -------------------------------
(***************************************************************************)
(* goirc's client: lines of the server are dispatched to handlers, which   *)
(* say things, which are cut into lines, queued for send, and written at   *)
(* the pace the flood control allows; another client reads them.           *)
(***************************************************************************)
EXTENDS Handlers, Texts, Flood

CONSTANTS
  OutCap,    \* capacity of conn.out
  Msgs,      \* what each handler may say: [cmd, verb, text]
  Scenarios  \* what there is at the start: [first, main, Flood, takes]

LongestLine == MaxPiece + Len(Dots) + 4

ASSUME ClientConstants ==
  /\ OutCap \in Nat \ {0} /\ DOMAIN Msgs = Nodes
  \* A CTCP verb is a word.
  /\ \A n \in Nodes : \A m \in Msgs[n] :
       /\ m.cmd \in {"PRIVMSG", "NOTICE", "CTCP", "CTCPREPLY"} /\ m.text \in Seq(Characters)
       /\ m.verb \in Characters \ {" ", "nl"}
  /\ \A c \in Scenarios :
       /\ c.first \in [Lists -> Seq(Nodes)] /\ c.takes \in Nat /\ c.main \in Seq(ToSet(c.main))
       /\ \A l \in Lists : IsInjective(c.first[l]) /\ \A n \in ToSet(c.first[l]) : ListOf(n) = l
       /\ \A task \in ToSet(c.main) :
            /\ task.do \in {"add", "remove", "dispatch"}
            /\ task.do # "dispatch" => task.node \in Nodes
  /\ LongIdle >= LineTime(LongestLine)

VARIABLES
  cfg,      \* the scenario: the configuration's Flood turns the flood control off
  toDo,     \* what main has still to do
  out,      \* conn.out: who said which message, and a line of it
  sending,  \* what send writes, or <<>>
  heard     \* what other clients got of each goroutine, in the order they got it

ioVars == <<cfg, toDo, out, sending, heard>>
vars == <<handlerVars, floodVars, ioVars>>

Init ==
  /\ cfg \in Scenarios /\ toDo = cfg.main
  /\ HandlersInit(cfg.first) /\ FloodInit
  /\ out = <<>> /\ sending = <<>> /\ heard = <<>>

-----------------------------------------------------------------------------

MainGoes ==
  /\ toDo # <<>> /\ Main \notin DOMAIN tasks
  /\ tasks' = [g \in DOMAIN tasks \cup {Main} |-> IF g = Main THEN Head(toDo) ELSE tasks[g]]
  /\ toDo' = Tail(toDo)
  /\ UNCHANGED <<listVars, lines, frames, mishaps, floodVars, cfg, out, sending, heard>>

\* One line into conn.out, when there is room.
Says(g) ==
  /\ tasks[g].do \in {"say", "saying"} /\ Len(out) < OutCap
  /\ \E msg \in (IF tasks[g].do = "say" THEN Msgs[g[3]] ELSE {tasks[g].msg}) :
       LET left == IF tasks[g].do = "say" THEN Lines(msg) ELSE tasks[g].left
       IN  /\ out' = Append(out, [by |-> g, msg |-> msg, line |-> Head(left)])
           /\ IF Tail(left) = <<>> THEN Ended(g)
              ELSE Goes(g, [do |-> "saying", msg |-> msg, left |-> Tail(left)])
  /\ UNCHANGED <<listVars, lines, frames, mishaps, floodVars, cfg, toDo, sending, heard>>

Chars(said) == Len(said.line.text)
HeardOf(g) == IF g \in DOMAIN heard THEN heard[g] ELSE <<>>

\* send takes a line; write asks the flood control.
SendTakes ==
  /\ sending = <<>> /\ out # <<>>
  /\ sending' = <<Head(out)>> /\ out' = Tail(out)
  /\ IF cfg.Flood THEN UNCHANGED floodVars ELSE RateLimit(Chars(Head(out)))
  /\ UNCHANGED <<handlerVars, cfg, toDo, heard>>

Writes ==
  /\ sending # <<>>
  /\ IF cfg.Flood THEN UNCHANGED floodVars ELSE Arrives(Chars(sending[1]))
  /\ LET g == sending[1].by
         one == [msg |-> sending[1].msg, got |-> ParseLine(sending[1].line)]
     IN  heard' = [h \in DOMAIN heard \cup {g} |->
                    IF h = g THEN Append(HeardOf(g), one) ELSE heard[h]]
  /\ sending' = <<>>
  /\ UNCHANGED <<handlerVars, cfg, toDo, out>>

Clock == ~cfg.Flood /\ TimePasses /\ UNCHANGED <<handlerVars, ioVars>>

Dispatching ==
  /\ \E i \in DOMAIN lines, s \in Sets : RLock(i, s) \/ RUnlock(i, s)
  /\ UNCHANGED <<floodVars, ioVars>>
Task == \E g \in DOMAIN tasks : Says(g) \/ (TaskStep(g) /\ UNCHANGED <<floodVars, ioVars>>)
Sending == SendTakes \/ Writes

Next ==
  \/ LoopTake(cfg.takes) /\ UNCHANGED <<floodVars, ioVars>>
  \/ Dispatching \/ MainGoes \/ Task \/ Sending \/ Clock

Spec == Init /\ [][Next]_vars

\* What can go on does; the server need not send anything.
FairSpec ==
  Spec /\ WF_vars(Dispatching) /\ WF_vars(Task) /\ WF_vars(Sending) /\ WF_vars(Clock)

-----------------------------------------------------------------------------

\* The types of the handler sets, the tasks and the flood control.
TypeOK ==
  /\ order \in [Lists -> Seq(Nodes)] /\ owned \subseteq Nodes
  /\ DOMAIN tasks \subseteq {Main} \cup ((1..Len(lines)) \X Sets \X Nodes)
  /\ Len(out) <= OutCap
  /\ badness \in Nat /\ elapsed \in 0..LongIdle /\ asleep \in Nat /\ penalty \in Nat

\* Each list holds the handlers added to it and not removed, in the order of
\* their adding, forwards and backwards, unless a handler was removed twice at
\* once, which may delete its list (dispatch.go:57, 90).  And a handler that has
\* been removed does not run any more, nor start again.
HandlersInOrder ==
  /\ TypeOK
  /\ mishaps = {} => \A l \in Lists :
       /\ \A k \in 0..Cardinality(Nodes) : Walk(l)[k] = Entry(order[l], k + 1)
       /\ end[l] = Entry(order[l], Len(order[l]))
       /\ \A k \in DOMAIN order[l] : prev[order[l][k]] = Entry(order[l], k - 1)
  /\ \A g \in DOMAIN tasks \ {Main} : g[3] \in owned

\* A line and those whose handlers it came from.
Origins(seq) ==
  LET f[k \in 0..Len(seq)] == IF k = 0 THEN {} ELSE {k} \cup f[seq[k].by[1]] IN f
From(i) == Origins(lines)[i]

\* The handlers for one event have finished before those for the next start
\* (dispatch.go:165), background handlers and what Connect dispatches apart:
\* whatever runs belongs to one line and to what that line's handlers dispatch,
\* and user handlers never run beside internal ones of the same line.
OneEventAtATime ==
  \A g, h \in DOMAIN tasks \ {Main} :
    LET Ours(r) == r[2] # "bg" /\ \A j \in From(r[1]) : lines[j].by # Main
    IN  Ours(g) /\ Ours(h) => /\ g[1] \in From(h[1]) \/ h[1] \in From(g[1])
                              /\ (g[1] = h[1] => g[2] = h[2])

\* Every line is dispatched to all its handlers and their work ends, unless a
\* handler edits the set it is in, or one is edited while h_001 dispatches.
EventsDispatched ==
  []<>((\A i \in DOMAIN lines : Dispatched(i)) \/ Entangled)

\* The argument of what a client is to read: part of a message.
Read(msg, part) ==
  LET shown == CHOOSE k \in 0..Len(part) :
                 /\ \A i \in 1..k : part[i] # "nl"
                 /\ k < Len(part) => part[k + 1] = "nl"
      text == SubSeq(part, 1, shown)
  IN  CASE msg.cmd \in {"PRIVMSG", "NOTICE"} -> [cmd |-> msg.cmd, args |-> <<text>>]
        [] msg.cmd = "CTCP" /\ msg.verb = "ACTION" -> [cmd |-> "ACTION", args |-> <<text>>]
        [] OTHER -> [cmd |-> msg.cmd, args |-> <<msg.verb, text>>]

\* A PRIVMSG or NOTICE with \001 in it may be read as a CTCP; a CTCP without
\* argument, or with a line break in it, is read otherwise (line.go:125,
\* commands.go:85).
Plain(msg) ==
  IF msg.cmd \in {"PRIVMSG", "NOTICE"} THEN Positions(msg.text, "ctl") = {}
  ELSE msg.text # <<>> /\ Positions(msg.text, "nl") = {}

\* The part of a message between two places, as it is sent.
Part(text, a, b) ==
  SubSeq(text, a + 1, b) \o (IF b < Len(text) THEN Dots ELSE <<>>)

\* Where in a message so many of its parts may end, given what was heard.
PartEnds(msg, parts) ==
  LET f[j \in 0..Len(parts)] ==
        IF j = 0 THEN {0}
        ELSE LET before == f[j - 1]
             IN  {b \in 0..Len(msg.text) :
                    \E a \in before : /\ a <= b /\ b - a <= MaxPiece
                                      /\ parts[j].got = Read(msg, Part(msg.text, a, b))}
  IN  f

\* Others read of a message its successive parts, none longer than the limit,
\* each ended by dots unless it is the last, and in the end all of it, whoever
\* else speaks at the time; of a part only what comes before a line break.
HeardAsSaid ==
  \A g \in DOMAIN heard :
    LET parts == heard[g]
        msg == parts[1].msg
        ends == PartEnds(msg, parts)[Len(parts)]
        over == /\ g \notin DOMAIN tasks
                /\ \A x \in ToSet(out) \cup ToSet(sending) : x.by # g
    IN  Plain(msg) => ends # {} /\ (over => Len(msg.text) \in ends)

\* The server never counts more than ten seconds and two of the longest lines
\* ("at risk of Excess Flood", connection.go:380).
FloodBounded == penalty <= Limit + 2 * LineTime(LongestLine)
=============================================================================
