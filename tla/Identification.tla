-------------------------- MODULE Identification --------------------------
(***************************************************************************)
(* checkIdentified and isIdentified of nick_map.go: how the goroutine of a *)
(* command asks the server, by WHOIS, whether its nick is identified with  *)
(* NickServ, how the handlers that goirc's event loop runs answer it over  *)
(* a channel, the cache of positive answers, and what QUIT, a lost         *)
(* connection and resetIdentifiedCache do to checks in progress.           *)
(*                                                                         *)
(* A checker is one call of checkIdentified; the channel it makes has the  *)
(* checker's own name.  The calls of one nick share one entry of           *)
(* isIdentifiedChan, which is the source of most of what can go wrong.     *)
(*                                                                         *)
(* Abstractions.  Each access of a Go map is atomic (the maps have no      *)
(* lock).  The lines on the wire and those in conn.in are one queue.  The  *)
(* ten seconds of the timeout may pass at any time.  A PRIVMSG or INVITE   *)
(* is received and dispatched in one step, when no other line is queued.   *)
(***************************************************************************)
EXTENDS Naturals, Sequences

CONSTANTS
  Commands,     \* checks made by a goroutine that onPrivmsg started
  Inviters,     \* checks made by onInvite, inside the event loop
  Nicks,
  NickOf,       \* the nick each check is about
  NoChan,       \* a nil channel; no entry in isIdentifiedChan
  NoLine,       \* the loop holds no line
  RequireAuth,  \* the -require-auth flag
  MaxVouch,     \* how many of 307 and 330 a WHOIS reply may hold
  MaxDrops,     \* bound: lost connections
  MaxChanges    \* bound: changes of who is identified, QUITs included

Checkers == Commands \cup Inviters

\* "vouch" is 307 or 330, "end" is 318.
Lines == [cmd : {"vouch", "end", "quit"}, nick : Nicks]

ASSUME IdentificationConstants ==
  /\ Commands \cap Inviters = {}
  /\ NickOf \in [Checkers -> Nicks]
  /\ NoChan \notin Checkers /\ NoLine \notin Lines
  /\ RequireAuth \in BOOLEAN
  /\ MaxVouch \in 1..2
  /\ MaxDrops \in Nat /\ MaxChanges \in Nat

VARIABLES
  pc,          \* where each check is
  chan,        \* the channels: values buffered, and closed or not
  sel,         \* the channel the select of each check waits on
  got,         \* the r of each check
  table,       \* isIdentifiedChan
  cache,       \* the nicks in isIdentifiedCache
  mutex,       \* isIdentifiedMutex is locked
  loop,        \* what runLoop is doing: its stage, line and channel operand
  inq,         \* lines from the server, not yet dispatched
  whois,       \* the WHOIS of each check
  link,        \* the connection, and how far its end has been dealt with
  identified,  \* nicks the server considers identified
  drops, changes,  \* bounds
  answer,      \* history: what the server replied while the check was going on
  trusted,     \* history: nicks vouched for since the last QUIT or reset
  seen,        \* history: checks during which their nick was trusted
  vouched,     \* history: nicks the server ever vouched for
  calm,        \* history: no timeout, no two open checks of one nick, no
               \*   connection lost under an open check, and no check begun
               \*   while the loss of one is being dealt with
  raced        \* history: a nick was forgotten under an open check

goroutine == <<pc, chan, sel, got>>
maps == <<table, cache>>
wire == <<inq, whois, link>>
world == <<identified, drops, changes>>
told == <<answer, trusted, seen, vouched>>
vars == <<pc, chan, sel, got, table, cache, mutex, loop, inq, whois, link,
          identified, drops, changes, answer, trusted, seen, vouched, calm, raced>>

-----------------------------------------------------------------------------
\* Channel buffers: make(chan bool, 1).
MaxBuf == 1
Fresh == [buf |-> 0, closed |-> FALSE]

Idle == [stage |-> "idle", line |-> NoLine, ch |-> NoChan]
At(stage, line, ch) == [stage |-> stage, line |-> line, ch |-> ch]

Finished(c) == pc[c] \in {"granted", "denied"}
Begun(c) == pc[c] # "idle" /\ ~Finished(c)
Running(c) == pc[c] \in {"eval", "select", "exit", "left"}
Waits(c) == pc[c] \in {"eval", "select", "exit"}

\* A line of a WHOIS reply about n is still to be handled.
InFlight(n) ==
  \/ \E i \in 1..Len(inq) : inq[i].nick = n /\ inq[i].cmd # "quit"
  \/ loop.stage \in {"lock", "act"} /\ loop.line.nick = n

\* The check of c, or its WHOIS, is still going on.
Open(c) == Waits(c) \/ whois[c] \in {"queued", "sent"}
OpenFor(n) == InFlight(n) \/ \E c \in Checkers : NickOf[c] = n /\ Open(c)

\* The identity of n is forgotten while a check of n is going on.
Racing(n) == \E c \in Checkers : NickOf[c] = n /\ Running(c)

Init ==
  /\ pc = [c \in Checkers |-> "idle"]
  /\ chan = [c \in Checkers |-> Fresh]
  /\ sel = [c \in Checkers |-> NoChan]
  /\ got = [c \in Checkers |-> FALSE]
  /\ table = [n \in Nicks |-> NoChan]
  /\ cache = {}
  /\ mutex = FALSE
  /\ loop = Idle
  /\ inq = <<>>
  /\ whois = [c \in Checkers |-> "none"]
  /\ link = "up"
  /\ identified \in SUBSET Nicks
  /\ drops = 0 /\ changes = 0
  /\ answer = [c \in Checkers |-> "none"]
  /\ trusted = {} /\ seen = {} /\ vouched = {}
  /\ calm = TRUE /\ raced = FALSE

-----------------------------------------------------------------------------
(* checkIdentified.                                                        *)

CanReceive == link = "up" /\ loop.stage = "idle" /\ inq = <<>>

Begin(c) ==
  /\ pc' = [pc EXCEPT ![c] = "start"]
  /\ seen' = IF NickOf[c] \in trusted THEN seen \cup {c} ELSE seen

\* onPrivmsg starts a goroutine whose command begins with checkIdentified.
StartCommand(c) ==
  /\ c \in Commands /\ CanReceive /\ pc[c] = "idle"
  /\ Begin(c)
  /\ UNCHANGED <<chan, sel, got, maps, mutex, loop, wire, world, answer,
                 trusted, vouched, calm, raced>>

\* onInvite calls checkIdentified itself: the loop waits for it.
StartInvite(c) ==
  /\ c \in Inviters /\ CanReceive /\ pc[c] = "idle"
  /\ Begin(c)
  /\ loop' = At("invite", NoLine, c)
  /\ UNCHANGED <<chan, sel, got, maps, mutex, wire, world, answer, trusted,
                 vouched, calm, raced>>

InviteDone(c) ==
  /\ loop.stage = "invite" /\ loop.ch = c /\ Finished(c)
  /\ loop' = Idle
  /\ UNCHANGED <<goroutine, maps, mutex, wire, world, told, calm, raced>>

\* Not required to check, or found in the cache.
Look(c) ==
  /\ pc[c] = "start"
  /\ ~RequireAuth \/ NickOf[c] \in cache
  /\ pc' = [pc EXCEPT ![c] = "granted"]
  /\ UNCHANGED <<chan, sel, got, maps, mutex, loop, wire, world, told, calm, raced>>

Miss(c) ==
  /\ pc[c] = "start"
  /\ RequireAuth /\ NickOf[c] \notin cache
  /\ pc' = [pc EXCEPT ![c] = "miss"]
  /\ UNCHANGED <<chan, sel, got, maps, mutex, loop, wire, world, told, calm, raced>>

\* A new channel replaces whatever entry the nick had; WHOIS is sent by a
\* goroutine of its own.
Ask(c) ==
  /\ pc[c] = "miss"
  /\ table' = [table EXCEPT ![NickOf[c]] = c]
  /\ whois' = [whois EXCEPT ![c] = "queued"]
  /\ pc' = [pc EXCEPT ![c] = "eval"]
  /\ calm' = (calm /\ ~OpenFor(NickOf[c]) /\ link \in {"up", "down"})
  /\ UNCHANGED <<chan, sel, got, cache, mutex, loop, inq, link, world, told, raced>>

\* Each turn of the loop looks the channel up again.
EvalSelect(c) ==
  /\ pc[c] = "eval"
  /\ sel' = [sel EXCEPT ![c] = table[NickOf[c]]]
  /\ pc' = [pc EXCEPT ![c] = "select"]
  /\ UNCHANGED <<chan, got, maps, mutex, loop, wire, world, told, calm, raced>>

\* Mutated form: the loop is left after the first value.
ReceiveOnce(c) ==
  /\ pc[c] = "select" /\ sel[c] # NoChan /\ chan[sel[c]].buf > 0
  /\ chan' = [chan EXCEPT ![sel[c]].buf = @ - 1]
  /\ got' = [got EXCEPT ![c] = TRUE]
  /\ pc' = [pc EXCEPT ![c] = "exit"]
  /\ UNCHANGED <<sel, maps, mutex, loop, wire, world, told, calm, raced>>

Receive(c) ==
  /\ pc[c] = "select" /\ sel[c] # NoChan /\ chan[sel[c]].buf > 0
  /\ chan' = [chan EXCEPT ![sel[c]].buf = @ - 1]
  /\ got' = [got EXCEPT ![c] = TRUE]
  /\ pc' = [pc EXCEPT ![c] = "eval"]
  /\ UNCHANGED <<sel, maps, mutex, loop, wire, world, told, calm, raced>>

\* Mutated form: the second result of the receive is not looked at.
ReceiveUnchecked(c) ==
  /\ pc[c] = "select" /\ sel[c] # NoChan
  /\ chan[sel[c]] = [buf |-> 0, closed |-> TRUE]
  /\ got' = [got EXCEPT ![c] = TRUE]
  /\ pc' = [pc EXCEPT ![c] = "exit"]
  /\ UNCHANGED <<chan, sel, maps, mutex, loop, wire, world, told, calm, raced>>

ReceiveClosed(c) ==
  /\ pc[c] = "select" /\ sel[c] # NoChan
  /\ chan[sel[c]] = [buf |-> 0, closed |-> TRUE]
  /\ pc' = [pc EXCEPT ![c] = "exit"]
  /\ UNCHANGED <<chan, sel, got, maps, mutex, loop, wire, world, told, calm, raced>>

\* Mutated form: only an entry that is still there is given up on.
TimeoutOfEntry(c) ==
  /\ pc[c] = "select" /\ sel[c] # NoChan
  /\ pc' = [pc EXCEPT ![c] = "denied"]
  /\ calm' = FALSE
  /\ UNCHANGED <<chan, sel, got, maps, mutex, loop, wire, world, told, raced>>

\* The entry of isIdentifiedChan stays behind.
Timeout(c) ==
  /\ pc[c] = "select"
  /\ pc' = [pc EXCEPT ![c] = "denied"]
  /\ calm' = FALSE
  /\ UNCHANGED <<chan, sel, got, maps, mutex, loop, wire, world, told, raced>>

\* Mutated form: a negative answer is cached like a positive one.
CacheAny(c) == cache \cup {NickOf[c]}

CacheAfter(c) == IF got[c] THEN cache \cup {NickOf[c]} ELSE cache

\* delete() removes whatever entry the nick has by now.
Leave(c) ==
  /\ pc[c] = "exit"
  /\ table' = [table EXCEPT ![NickOf[c]] = NoChan]
  /\ pc' = [pc EXCEPT ![c] = "left"]
  /\ UNCHANGED <<chan, sel, got, cache, mutex, loop, wire, world, told, calm, raced>>

Finish(c) ==
  /\ pc[c] = "left"
  /\ cache' = CacheAfter(c)
  /\ pc' = [pc EXCEPT ![c] = IF got[c] THEN "granted" ELSE "denied"]
  /\ UNCHANGED <<chan, sel, got, table, mutex, loop, wire, world, told, calm, raced>>

-----------------------------------------------------------------------------
(* The server.                                                             *)

\* conn.out is not drained when a connection ends: a request queued under
\* the last one is sent under the next.
SendWhois(c) ==
  /\ link = "up" /\ whois[c] = "queued"
  /\ whois' = [whois EXCEPT ![c] = "sent"]
  /\ UNCHANGED <<goroutine, maps, mutex, loop, inq, link, world, told, calm, raced>>

Reply(n, k) ==
  [i \in 1..k + 1 |-> [cmd |-> IF i <= k THEN "vouch" ELSE "end", nick |-> n]]

\* A WHOIS reply: 307 or 330 or both if the nick is identified, then 318.
Answer(c) ==
  /\ link = "up" /\ whois[c] = "sent"
  /\ LET n == NickOf[c]
         yes == n \in identified
     IN  /\ \E k \in IF yes THEN 1..MaxVouch ELSE {0} : inq' = inq \o Reply(n, k)
         /\ answer' = IF Begun(c) THEN [answer EXCEPT ![c] = IF yes THEN "yes" ELSE "no"]
                      ELSE answer
         /\ vouched' = IF yes THEN vouched \cup {n} ELSE vouched
  /\ whois' = [whois EXCEPT ![c] = "answered"]
  /\ UNCHANGED <<goroutine, maps, mutex, loop, link, world, trusted, seen, calm, raced>>

Identify(n) ==
  /\ changes < MaxChanges /\ n \notin identified
  /\ changes' = changes + 1
  /\ identified' = identified \cup {n}
  /\ UNCHANGED <<goroutine, maps, mutex, loop, wire, drops, told, calm, raced>>

\* The owner of the nick leaves; whoever takes it next is not identified.
Quit(n) ==
  /\ changes < MaxChanges /\ n \in identified /\ link = "up"
  /\ changes' = changes + 1
  /\ identified' = identified \ {n}
  /\ inq' = Append(inq, [cmd |-> "quit", nick |-> n])
  /\ UNCHANGED <<goroutine, maps, mutex, loop, whois, link, drops, told, calm, raced>>

-----------------------------------------------------------------------------
(* runLoop and the handlers it waits for.                                  *)

TakeLine ==
  /\ link \in {"up", "closing"} /\ loop.stage = "idle"
  /\ inq # <<>> /\ Head(inq).cmd # "quit"
  /\ loop' = At("lock", Head(inq), NoChan)
  /\ inq' = Tail(inq)
  /\ LET n == Head(inq).nick
         vouches == Head(inq).cmd = "vouch"
     IN  /\ trusted' = IF vouches THEN trusted \cup {n} ELSE trusted
         /\ seen' = IF vouches THEN seen \cup {c \in Checkers : NickOf[c] = n /\ Begun(c)}
                    ELSE seen
  /\ UNCHANGED <<goroutine, maps, mutex, whois, link, world, answer, vouched, calm, raced>>

\* Mutated form: QUIT leaves the cache alone.
KeepQuitter(n) == cache

DropQuitter(n) == cache \ {n}

\* dropIdentifiedCache.
HandleQuit ==
  /\ link \in {"up", "closing"} /\ loop.stage = "idle"
  /\ inq # <<>> /\ Head(inq).cmd = "quit"
  /\ inq' = Tail(inq)
  /\ cache' = DropQuitter(Head(inq).nick)
  /\ trusted' = trusted \ {Head(inq).nick}
  /\ raced' = (raced \/ Racing(Head(inq).nick))
  /\ UNCHANGED <<goroutine, table, mutex, loop, whois, link, world, answer,
                 seen, vouched, calm>>

\* isIdentified locks and evaluates its channel operand.
Lock ==
  /\ loop.stage = "lock" /\ ~mutex
  /\ mutex' = TRUE
  /\ loop' = At("act", loop.line, table[loop.line.nick])
  /\ UNCHANGED <<goroutine, maps, wire, world, told, calm, raced>>

OpenChan(ch) == ch # NoChan /\ ~chan[ch].closed

\* 307 or 330: a send, which waits for room in an open channel; on a nil
\* channel it waits for ever, so no action of this module ends it.
HandleVouch ==
  /\ loop.stage = "act" /\ loop.line.cmd = "vouch"
  /\ OpenChan(loop.ch) /\ chan[loop.ch].buf < MaxBuf
  /\ chan' = [chan EXCEPT ![loop.ch].buf = @ + 1]
  /\ mutex' = FALSE
  /\ loop' = Idle
  /\ UNCHANGED <<pc, sel, got, maps, wire, world, told, calm, raced>>

EndOf(ch) == [chan EXCEPT ![ch].closed = TRUE]

\* 318: close.
HandleEnd ==
  /\ loop.stage = "act" /\ loop.line.cmd = "end"
  /\ OpenChan(loop.ch)
  /\ chan' = EndOf(loop.ch)
  /\ mutex' = FALSE
  /\ loop' = Idle
  /\ UNCHANGED <<pc, sel, got, maps, wire, world, told, calm, raced>>

\* A send on a closed channel, or close of a closed or nil one, panics.
\* hNode.Handle recovers, and the mutex stays locked.
Panic ==
  /\ loop.stage = "act"
  /\ ~OpenChan(loop.ch)
  /\ loop.ch # NoChan \/ loop.line.cmd = "end"
  /\ loop' = Idle
  /\ UNCHANGED <<goroutine, maps, mutex, wire, world, told, calm, raced>>

-----------------------------------------------------------------------------
(* A lost connection: shutdown, the DISCONNECTED handler and reconnection. *)

\* recv fails: what had not reached conn.in is lost, and so is a WHOIS that
\* has been sent.
Drop ==
  /\ link = "up" /\ drops < MaxDrops
  /\ drops' = drops + 1
  /\ link' = "closing"
  /\ \E k \in 0..Len(inq) : inq' = SubSeq(inq, 1, k)
  /\ whois' = [c \in Checkers |-> IF whois[c] = "sent" THEN "lost" ELSE whois[c]]
  /\ calm' = (calm /\ \A n \in Nicks : ~OpenFor(n))
  /\ UNCHANGED <<goroutine, maps, mutex, loop, identified, changes, told, raced>>

\* runLoop sees conn.die only between two lines; shutdown waits for it.
\* Then DISCONNECTED is dispatched, whose handler resets the cache.
ResetCache ==
  /\ link = "closing" /\ loop.stage = "idle"
  /\ link' = "resetting"
  /\ cache' = {}
  /\ trusted' = {}
  /\ raced' = (raced \/ \E n \in Nicks : Racing(n))
  /\ UNCHANGED <<goroutine, table, mutex, loop, inq, whois, world, answer, seen,
                 vouched, calm>>

Entries == {table[n] : n \in Nicks} \ {NoChan}
Closed(S) == [c \in Checkers |-> IF c \in S THEN [chan[c] EXCEPT !.closed = TRUE]
                                 ELSE chan[c]]

CloseChannels ==
  /\ link = "resetting" /\ \A ch \in Entries : OpenChan(ch)
  /\ chan' = Closed(Entries)
  /\ link' = "closed"
  /\ UNCHANGED <<pc, sel, got, maps, mutex, loop, inq, whois, world, told, calm, raced>>

\* close() of a closed entry panics after some of the others: the handler is
\* left before it starts the goroutine that reconnects.
ClosePanics ==
  /\ link = "resetting" /\ \E ch \in Entries : ~OpenChan(ch)
  /\ \E S \in SUBSET {ch \in Entries : OpenChan(ch)} : chan' = Closed(S)
  /\ link' = "dead"
  /\ UNCHANGED <<pc, sel, got, maps, mutex, loop, inq, whois, world, told, calm, raced>>

ResetTable ==
  /\ link = "closed"
  /\ table' = [n \in Nicks |-> NoChan]
  /\ link' = "down"
  /\ UNCHANGED <<goroutine, cache, mutex, loop, inq, whois, world, told, calm, raced>>

\* The lines still in conn.in are there for the next runLoop.
Reconnect ==
  /\ link = "down"
  /\ link' = "up"
  /\ UNCHANGED <<goroutine, maps, mutex, loop, inq, whois, world, told, calm, raced>>

-----------------------------------------------------------------------------
Check(c) ==
  \/ Look(c) \/ Miss(c) \/ Ask(c) \/ EvalSelect(c) \/ Receive(c)
  \/ ReceiveClosed(c) \/ Timeout(c) \/ Leave(c) \/ Finish(c)

Dispatch ==
  \/ TakeLine \/ HandleQuit \/ Lock \/ HandleVouch \/ HandleEnd \/ Panic
  \/ \E c \in Inviters : InviteDone(c)

Reset == ResetCache \/ CloseChannels \/ ClosePanics \/ ResetTable \/ Reconnect

Server ==
  \/ \E c \in Checkers : Answer(c)
  \/ \E n \in Nicks : Identify(n) \/ Quit(n)
  \/ Drop

Next ==
  \/ \E c \in Checkers : StartCommand(c) \/ StartInvite(c) \/ Check(c) \/ SendWhois(c)
  \/ Dispatch \/ Reset \/ Server

Spec == Init /\ [][Next]_vars

\* Goroutines that can run do run, timers fire, and the handlers of goirc are
\* dispatched as soon as the loop is free.  Nothing is assumed of the server.
FairSpec ==
  /\ Spec
  /\ \A c \in Checkers : WF_vars(Check(c))
  /\ WF_vars(Dispatch) /\ WF_vars(Reset)

-----------------------------------------------------------------------------
(* Properties.                                                             *)

\* Each variable has its type: channels never hold more than their buffer,
\* and entries and operands are channels some check made.
TypeOK ==
  /\ pc \in [Checkers -> {"idle", "start", "miss", "eval", "select", "exit", "left",
                         "granted", "denied"}]
  /\ chan \in [Checkers -> [buf : 0..MaxBuf, closed : BOOLEAN]]
  /\ sel \in [Checkers -> Checkers \cup {NoChan}]
  /\ got \in [Checkers -> BOOLEAN]
  /\ table \in [Nicks -> Checkers \cup {NoChan}]
  /\ cache \subseteq Nicks
  /\ mutex \in BOOLEAN
  /\ loop \in [stage : {"lock", "act"}, line : Lines, ch : Checkers \cup {NoChan}]
             \cup [stage : {"idle", "invite"}, line : {NoLine}, ch : Checkers \cup {NoChan}]
  /\ inq \in Seq(Lines)
  /\ whois \in [Checkers -> {"none", "queued", "sent", "answered", "lost"}]
  /\ link \in {"up", "closing", "resetting", "closed", "down", "dead"}
  /\ identified \subseteq Nicks
  /\ drops \in 0..MaxDrops /\ changes \in 0..MaxChanges
  /\ answer \in [Checkers -> {"none", "yes", "no"}]
  /\ trusted \subseteq Nicks /\ seen \subseteq Checkers /\ vouched \subseteq Nicks
  /\ calm \in BOOLEAN /\ raced \in BOOLEAN

\* Some check can still take a value out of channel ch.
HasReader(ch) ==
  \E c \in Checkers : \/ pc[c] = "select" /\ sel[c] = ch
                      \/ pc[c] = "eval" /\ table[NickOf[c]] = ch

\* The event loop will never again get past a line of a WHOIS reply: the
\* mutex was left locked, or the handler sends where nobody receives.
Wedged ==
  \/ mutex /\ loop.stage # "act"
  \/ /\ loop.stage = "act" /\ loop.line.cmd = "vouch"
     /\ \/ loop.ch = NoChan
        \/ chan[loop.ch] = [buf |-> MaxBuf, closed |-> FALSE] /\ ~HasReader(loop.ch)

\* As long as nothing unusual happens to a check (no timeout, no second check
\* of the same nick, no lost connection), no send or close of isIdentified
\* meets a wrong channel: the event loop is never stuck behind
\* isIdentifiedMutex, and a lost connection is always followed by a new one.
CalmNeverWedges == calm => ~Wedged /\ link # "dead"

\* Under the same conditions a check that got an answer to its own WHOIS
\* returns that answer, however the lines, the selects and the checks of other
\* nicks interleave.
CalmAnswers ==
  calm => \A c \in Checkers :
            (Finished(c) /\ answer[c] # "none") => (pc[c] = "granted" <=> answer[c] = "yes")

\* Nobody is let through whom the server never called identified, whatever
\* channel their check ends up reading.
GrantsVouched ==
  RequireAuth => \A c \in Checkers : pc[c] = "granted" => NickOf[c] \in vouched

\* -require-auth: a check that succeeds saw its nick vouched for at some moment
\* between its start and its end, not only before a QUIT or a reconnection.
Founded ==
  RequireAuth => \A c \in Checkers : pc[c] = "granted" => c \in seen

\* The only way round it is an identity forgotten while a check of that nick
\* is going on, whose answer is cached afterwards.
FoundedUnlessRaced == ~raced => Founded

\* What onInvite's comment expects (bot.go:153-154): an invitation by a nick that
\* the server calls identified is accepted.  The loop that waits for the reply is
\* the one that would dispatch it, so only the cache can answer.
InvitesAnswered ==
  \A c \in Inviters : Finished(c) /\ answer[c] = "yes" => pc[c] = "granted"

\* Each call of checkIdentified returns, whatever becomes of its channel.
ChecksReturn == \A c \in Checkers : pc[c] = "start" ~> Finished(c)

\* runLoop dispatches the lines received: with the connection up, the lines
\* that wait now do not wait for ever.
LinesDispatched == (link = "up" /\ inq # <<>>) ~> (link # "up" \/ inq = <<>>)
=============================================================================
