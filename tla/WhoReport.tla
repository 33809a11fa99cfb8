----------------------------- MODULE WhoReport -----------------------------
(***************************************************************************)
(* The .wp command of all.go: reportAllNowPlaying asks the server for the  *)
(* members of a channel (WHO), whoHandler collects the reply in the event  *)
(* loop, and one goroutine per member, the reporters, looks up and reports *)
(* what the member is playing.                                             *)
(*                                                                         *)
(* A request is one goroutine that has passed checkIdentified, and the     *)
(* whoChannel entry it makes has the request's own name.  The reporters of *)
(* a request are interchangeable and are counted by what they are doing.   *)
(* All the members of a channel but the bot are one value, Other.          *)
(***************************************************************************)
EXTENDS Integers, Sequences

CONSTANTS
  Requests,
  Channels,
  ChanOf,      \* the channel each request is about
  NumOthers,   \* how many members each channel has beside the bot
  Other,       \* the nick of any of them
  OldNick, NewNick,  \* the bot's nick, before and after it gets its own back
  NoChan,      \* a nil channel; no entry in whoChannel
  RateLimit,   \* capacity of rateLimit
  MaxDrops,    \* bound: lost connections
  MaxRenames   \* bound: changes of the bot's nick

ASSUME WhoReportConstants ==
  /\ ChanOf \in [Requests -> Channels]
  /\ NumOthers \in [Channels -> Nat]
  /\ NoChan \notin Requests
  /\ Other # OldNick /\ Other # NewNick /\ OldNick # NewNick
  /\ RateLimit \in Nat \ {0}
  /\ MaxDrops \in Nat /\ MaxRenames \in 0..1

VARIABLES
  pc,          \* where each request is
  operand,     \* the channel its first range loop reads
  whoChannel, closedWho,  \* whoChannel, and the channels 315 has closed
  whoResult,   \* how often each nick is in the list collected for each channel
  limit,       \* whoHandlerLimit holds its token for ever
  inq,         \* lines of the server not yet handled
  who,         \* the WHO of each request
  up,          \* the connection is up
  me, serverMe,  \* the bot's nick as irc.Me() and as the server know it
  total, count,  \* totalReport and totalCount of each request
  reporters,   \* per request: how many wait for rateLimit, look up, or send
  rateLimit,   \* how many values the channel rateLimit holds
  crashed,     \* a reporter has panicked, and with it the process
  drops, renames,
  calm         \* history: no overlap, lost connection or change of nick met a
               \* request, and no NICK line of an old connection was handled

handling == <<whoChannel, closedWho, whoResult, limit>>
network == <<inq, who, up, me, serverMe, drops, renames>>
report == <<total, count, reporters, rateLimit, crashed>>
vars == <<pc, operand, whoChannel, closedWho, whoResult, limit, inq, who, up, me,
          serverMe, total, count, reporters, rateLimit, crashed, drops, renames,
          calm>>

Names == {Other, OldNick, NewNick}
Nobody == [n \in Names |-> 0]

Init ==
  /\ pc = [r \in Requests |-> "idle"]
  /\ operand = [r \in Requests |-> NoChan]
  /\ whoChannel = [c \in Channels |-> NoChan] /\ closedWho = {}
  /\ whoResult = [c \in Channels |-> Nobody]
  /\ limit = FALSE
  /\ inq = <<>>
  /\ who = [r \in Requests |-> "none"]
  /\ up = TRUE
  /\ me = OldNick /\ serverMe = OldNick
  /\ total = [r \in Requests |-> 0] /\ count = [r \in Requests |-> 0]
  /\ reporters = [r \in Requests |-> [waiting |-> 0, busy |-> 0, sending |-> 0]]
  /\ rateLimit = 0
  /\ crashed = FALSE
  /\ drops = 0 /\ renames = 0
  /\ calm = TRUE

Ended(r) == pc[r] \in {"idle", "done", "turnedAway"}
\* The request, its WHO or the reply to it is still going on.
Active(r) ==
  \/ pc[r] # "check" /\ ~Ended(r)
  \/ who[r] \in {"queued", "sent"}
  \/ \E i \in 1..Len(inq) : inq[i].cmd # "NICK" /\ inq[i].chan = ChanOf[r]
InUse(c) == \E r \in Requests : ChanOf[r] = c /\ Active(r)

-----------------------------------------------------------------------------
(* reportAllNowPlaying.                                                    *)

Start(r) ==
  /\ pc[r] = "idle" /\ ~crashed
  /\ pc' = [pc EXCEPT ![r] = "check"]
  /\ UNCHANGED <<operand, handling, network, report, calm>>

\* A request for the channel is in progress: this one returns.
Check(r) ==
  /\ pc[r] = "check" /\ ~crashed
  /\ pc' = [pc EXCEPT ![r] = IF whoChannel[ChanOf[r]] = NoChan THEN "make"
                             ELSE "turnedAway"]
  /\ UNCHANGED <<operand, handling, network, report, calm>>

Make(r) ==
  /\ pc[r] = "make" /\ ~crashed
  /\ whoChannel' = [whoChannel EXCEPT ![ChanOf[r]] = r]
  /\ who' = [who EXCEPT ![r] = "queued"]
  /\ pc' = [pc EXCEPT ![r] = "range"]
  /\ calm' = (calm /\ ~\E q \in Requests \ {r} : ChanOf[q] = ChanOf[r] /\ Active(q))
  /\ UNCHANGED <<operand, closedWho, whoResult, limit, inq, up, me, serverMe,
                 drops, renames, report>>

\* range evaluates its operand once.
EvalRange(r) ==
  /\ pc[r] = "range" /\ ~crashed
  /\ operand' = [operand EXCEPT ![r] = whoChannel[ChanOf[r]]]
  /\ pc' = [pc EXCEPT ![r] = "wait"]
  /\ UNCHANGED <<handling, network, report, calm>>

Listed(c) == whoResult[c][Other] + whoResult[c][OldNick] + whoResult[c][NewNick]

TotalReport(c) == Listed(c) - 1

\* The channel was closed: its entry goes.
Leave(r) ==
  /\ pc[r] = "wait" /\ operand[r] \in closedWho /\ ~crashed
  /\ whoChannel' = [whoChannel EXCEPT ![ChanOf[r]] = NoChan]
  /\ pc' = [pc EXCEPT ![r] = "collect"]
  /\ UNCHANGED <<operand, closedWho, whoResult, limit, network, report, calm>>

\* The members are counted, and the asker told how many they are.
Collect(r) ==
  /\ pc[r] = "collect" /\ ~crashed
  /\ total' = [total EXCEPT ![r] = TotalReport(ChanOf[r])]
  /\ pc' = [pc EXCEPT ![r] = "spawn"]
  /\ UNCHANGED <<operand, handling, network, count, reporters, rateLimit, crashed, calm>>

\* Mutated form: the list is not deleted.
SpawnKeepList(r) ==
  /\ pc[r] = "spawn" /\ ~crashed
  /\ reporters' = [reporters EXCEPT
                     ![r].waiting = Listed(ChanOf[r]) - whoResult[ChanOf[r]][me]]
  /\ pc' = [pc EXCEPT ![r] = "gather"]
  /\ UNCHANGED <<operand, handling, network, total, count, rateLimit, crashed, calm>>

\* Mutated form: the bot is not left out.
SpawnAll(r) ==
  /\ pc[r] = "spawn" /\ ~crashed
  /\ reporters' = [reporters EXCEPT ![r].waiting = Listed(ChanOf[r])]
  /\ whoResult' = [whoResult EXCEPT ![ChanOf[r]] = Nobody]
  /\ pc' = [pc EXCEPT ![r] = "gather"]
  /\ UNCHANGED <<operand, whoChannel, closedWho, limit, network, total, count,
                 rateLimit, crashed, calm>>

\* One reporter for each nick that is not irc.Me().
Spawn(r) ==
  /\ pc[r] = "spawn" /\ ~crashed
  /\ reporters' = [reporters EXCEPT
                     ![r].waiting = Listed(ChanOf[r]) - whoResult[ChanOf[r]][me]]
  /\ whoResult' = [whoResult EXCEPT ![ChanOf[r]] = Nobody]
  /\ pc' = [pc EXCEPT ![r] = "gather"]
  /\ UNCHANGED <<operand, whoChannel, closedWho, limit, network, total, count,
                 rateLimit, crashed, calm>>

-----------------------------------------------------------------------------
(* The reporters, and the loop that receives from them.                    *)

Begin(r) ==
  /\ reporters[r].waiting > 0 /\ rateLimit < RateLimit /\ ~crashed
  /\ reporters' = [reporters EXCEPT ![r].waiting = @ - 1, ![r].busy = @ + 1]
  /\ rateLimit' = rateLimit + 1
  /\ UNCHANGED <<pc, operand, handling, network, total, count, crashed, calm>>

\* reportNowPlaying returns.
LookedUp(r) ==
  /\ reporters[r].busy > 0 /\ ~crashed
  /\ reporters' = [reporters EXCEPT ![r].busy = @ - 1, ![r].sending = @ + 1]
  /\ UNCHANGED <<pc, operand, handling, network, total, count, rateLimit,
                 crashed, calm>>

\* Mutated form: a reporter whose result was received keeps its place.
KeepPlace == rateLimit

Release == rateLimit - 1

\* reportChan has no buffer: sending and receiving are one step, after which
\* the reporter leaves rateLimit.  The loop ends on exactly totalReport.
Receive(r) ==
  /\ pc[r] = "gather" /\ reporters[r].sending > 0 /\ ~crashed
  /\ reporters' = [reporters EXCEPT ![r].sending = @ - 1]
  /\ rateLimit' = Release
  /\ count' = [count EXCEPT ![r] = @ + 1]
  /\ pc' = [pc EXCEPT ![r] = IF count[r] + 1 = total[r] THEN "done" ELSE "gather"]
  /\ UNCHANGED <<operand, handling, network, total, crashed, calm>>

\* After the loop reportChan is closed: a reporter that is left panics, and no
\* hNode.Handle is there to recover.
SendOnClosed(r) ==
  /\ pc[r] = "done" /\ reporters[r].sending > 0 /\ ~crashed
  /\ crashed' = TRUE
  /\ UNCHANGED <<pc, operand, handling, network, total, count, reporters,
                 rateLimit, calm>>

-----------------------------------------------------------------------------
(* The server and the connection.                                          *)

SendWho(r) ==
  /\ up /\ who[r] = "queued"
  /\ who' = [who EXCEPT ![r] = "sent"]
  /\ UNCHANGED <<pc, operand, handling, inq, up, me, serverMe, drops, renames,
                 report, calm>>

\* A 352 for each member, the bot under the nick it has now, then 315.
ReplyOf(c) ==
  [i \in 1..NumOthers[c] + 2 |->
     CASE i <= NumOthers[c]     -> [cmd |-> "352", chan |-> c, nick |-> Other]
       [] i = NumOthers[c] + 1  -> [cmd |-> "352", chan |-> c, nick |-> serverMe]
       [] i = NumOthers[c] + 2  -> [cmd |-> "315", chan |-> c, nick |-> serverMe]]

Reply(r) ==
  /\ up /\ who[r] = "sent"
  /\ inq' = inq \o ReplyOf(ChanOf[r])
  /\ who' = [who EXCEPT ![r] = "answered"]
  /\ UNCHANGED <<pc, operand, handling, up, me, serverMe, drops, renames, report,
                 calm>>

\* The server gives the bot its own nick back.
Rename ==
  /\ up /\ renames < MaxRenames
  /\ renames' = renames + 1
  /\ serverMe' = NewNick
  /\ inq' = Append(inq, [cmd |-> "NICK", nick |-> NewNick])
  /\ calm' = (calm /\ \A c \in Channels : ~InUse(c))
  /\ UNCHANGED <<pc, operand, handling, who, up, me, drops, report>>

Next352 == ~limit /\ up /\ inq # <<>> /\ Head(inq).cmd = "352" /\ ~crashed
Next315 == ~limit /\ up /\ inq # <<>> /\ Head(inq).cmd = "315" /\ ~crashed
Closable(ch) == ch # NoChan /\ ch \notin closedWho

\* whoHandler.  The event loop runs one handler of these lines at a time, so
\* whoHandlerLimit is only ever full when a panic has left its token there.
Handle352 ==
  /\ Next352
  /\ LET l == Head(inq)
     IN  whoResult' = [whoResult EXCEPT ![l.chan][l.nick] = @ + 1]
  /\ inq' = Tail(inq)
  /\ UNCHANGED <<pc, operand, whoChannel, closedWho, limit, who, up, me,
                 serverMe, drops, renames, report, calm>>

Handle315 ==
  /\ Next315 /\ Closable(whoChannel[Head(inq).chan])
  /\ closedWho' = closedWho \cup {whoChannel[Head(inq).chan]}
  /\ inq' = Tail(inq)
  /\ UNCHANGED <<pc, operand, whoChannel, whoResult, limit, who, up, me,
                 serverMe, drops, renames, report, calm>>

\* close() of a nil or closed channel panics; hNode.Handle recovers.
Panic315 ==
  /\ Next315 /\ ~Closable(whoChannel[Head(inq).chan])
  /\ limit' = TRUE
  /\ inq' = Tail(inq)
  /\ UNCHANGED <<pc, operand, whoChannel, closedWho, whoResult, who, up, me,
                 serverMe, drops, renames, report, calm>>

\* h_NICK.  A line left over from the last connection makes the two nicks differ.
HandleNick ==
  /\ up /\ inq # <<>> /\ Head(inq).cmd = "NICK" /\ ~crashed
  /\ me' = Head(inq).nick
  /\ inq' = Tail(inq)
  /\ calm' = (calm /\ Head(inq).nick = serverMe)
  /\ UNCHANGED <<pc, operand, handling, who, up, serverMe, drops, renames,
                 report>>

\* The event loop waits for whoHandlerLimit and will never get it.
Stuck == limit /\ inq # <<>> /\ Head(inq).cmd # "NICK"

\* The connection is lost.  What is in conn.in stays there; whoChannel and
\* whoResult are not reset.  shutdown cannot finish while the loop is stuck.
Drop ==
  /\ up /\ ~Stuck /\ drops < MaxDrops
  /\ drops' = drops + 1
  /\ up' = FALSE
  /\ \E k \in 0..Len(inq) : inq' = SubSeq(inq, 1, k)
  /\ who' = [r \in Requests |-> IF who[r] = "sent" THEN "lost" ELSE who[r]]
  /\ calm' = (calm /\ \A c \in Channels : ~InUse(c))
  /\ UNCHANGED <<pc, operand, handling, me, serverMe, renames, report>>

\* The bot registers again, under the nick it takes itself to have.
Reconnect ==
  /\ ~up /\ ~crashed
  /\ up' = TRUE
  /\ serverMe' = me
  /\ UNCHANGED <<pc, operand, handling, inq, who, me, drops, renames, report, calm>>

-----------------------------------------------------------------------------
Step(r) ==
  \/ Check(r) \/ Make(r) \/ EvalRange(r) \/ Leave(r) \/ Collect(r)
  \/ Spawn(r) \/ Receive(r)
Reporter(r) == Begin(r) \/ LookedUp(r) \/ SendOnClosed(r)
Network(r) == SendWho(r) \/ Reply(r)
Handle == Handle352 \/ Handle315 \/ Panic315 \/ HandleNick

Next ==
  \/ \E r \in Requests : Start(r) \/ Step(r) \/ Reporter(r) \/ Network(r)
  \/ Handle \/ Rename \/ Drop \/ Reconnect

Spec == Init /\ [][Next]_vars

\* Goroutines that can run do run, last.fm answers each query or fails, and
\* the server answers WHO; nothing makes the user, the network or services act.
FairSpec ==
  /\ Spec
  /\ \A r \in Requests : /\ WF_vars(Step(r)) /\ SF_vars(Begin(r))
                         /\ WF_vars(LookedUp(r)) /\ WF_vars(Network(r))
  /\ WF_vars(Handle) /\ WF_vars(Reconnect)

-----------------------------------------------------------------------------
(* Properties.                                                             *)

\* Each variable has its type; no count of reporters goes below zero, and
\* rateLimit holds no more than its capacity.
TypeOK ==
  /\ pc \in [Requests -> {"idle", "check", "make", "range", "wait", "collect",
                          "spawn", "gather", "done", "turnedAway"}]
  /\ operand \in [Requests -> Requests \cup {NoChan}]
  /\ whoChannel \in [Channels -> Requests \cup {NoChan}]
  /\ closedWho \subseteq Requests
  /\ whoResult \in [Channels -> [Names -> Nat]]
  /\ limit \in BOOLEAN
  /\ inq \in Seq([cmd : {"352", "315"}, chan : Channels, nick : Names]
                   \cup [cmd : {"NICK"}, nick : Names])
  /\ who \in [Requests -> {"none", "queued", "sent", "answered", "lost"}]
  /\ up \in BOOLEAN
  /\ me \in {OldNick, NewNick} /\ serverMe \in {OldNick, NewNick}
  /\ total \in [Requests -> Int] /\ count \in [Requests -> Nat]
  /\ reporters \in [Requests -> [waiting : Nat, busy : Nat, sending : Nat]]
  /\ rateLimit \in 0..RateLimit
  /\ crashed \in BOOLEAN
  /\ drops \in 0..MaxDrops /\ renames \in 0..MaxRenames
  /\ calm \in BOOLEAN

\* As long as no request meets another one for its channel, a lost connection
\* or a change of the bot's nick, no close of whoHandler and no send of a
\* reporter finds its channel closed or missing.
CalmIsSafe == calm => ~crashed /\ ~limit

\* Under the same conditions the final notice of a request counts every member
\* of the channel but the bot, once: nobody is missed, repeated or taken from
\* the list of another request.
CalmCountsEveryone ==
  calm => \A r \in Requests :
            pc[r] = "done" => /\ count[r] = NumOthers[ChanOf[r]]
                              /\ total[r] = count[r]

\* Requests end unless one of those disturbances comes between, though their
\* reporters share the places of rateLimit and hold one until the request that
\* started them receives.
RequestsEnd == \A r \in Requests : pc[r] = "check" ~> Ended(r) \/ ~calm

\* .wp shows what is playing for everyone in the channel and goes on serving:
\* it does not take the process down.
NeverCrashes == ~crashed
=============================================================================
