---------------------------- MODULE CacheFile -----------------------------
(***************************************************************************)
(* The file of the API cache (bot.go: saveCacheNow, saveCache, loadCache   *)
(* and the timer in main; go-lastfm: SaveCache and LoadCache), with the    *)
(* commands that fill the cache, through crashes and restarts.             *)
(*                                                                         *)
(* Three goroutines save: the timer's, the DISCONNECTED handler's, main.   *)
(* The file has a head, written when the encoder first writes, and a tail, *)
(* written when the compressor is closed; each piece is named for its      *)
(* writer.  A file made of two savers' pieces cannot be read.              *)
(***************************************************************************)
EXTENDS NowPlaying

Savers == {"timer", "disconnected", "main"}

ASSUME FileConstants == Savers \subseteq Clients /\ Shards = 1

VARIABLES
  saver,       \* what each saver does: see Headless and the actions
  head, tail,  \* the pieces of the file: "none", or who wrote them
  exists,
  encoded,     \* what each saver last put into its pieces
  fired,       \* a value in cacheTimer's channel
  quitting,
  mishaps      \* history: savers "cut" short, an "overlap" of two, a write that "failed"

fileVars == <<saver, exists, head, tail, encoded, mishaps>>
vars == <<now, items, doing, asks, up, reportVars, fileVars, fired, quitting>>
session == <<asks, now, report, heard>>

Blank == [s \in Savers |-> "off"]
Headless(s) == saver[s] \in {"begun", "created"}
Active(s) == saver[s] # "off"

Init ==
  /\ now = 0 /\ items = <<>> /\ doing = [p \in Clients |-> Nothing]
  /\ asks = [p \in Callers |-> Off] /\ up = "up"
  /\ report = Idle /\ armed = TRUE /\ left \in Budgets /\ heard = [f \in Fetchers |-> "nothing"]
  /\ saver = Blank /\ exists = FALSE /\ head = "none" /\ tail = "none"
  /\ encoded = [s \in Savers |-> <<>>]
  /\ fired = FALSE /\ quitting = FALSE /\ mishaps = {}

-----------------------------------------------------------------------------
(* saveCacheNow, in whichever goroutine.                                   *)

Begins(s) == saver' = [saver EXCEPT ![s] = "begun"]
Ends(s) == saver' = [saver EXCEPT ![s] = "off"]

\* A timer that has fired while its channel was full leaves no second value.
TimerFires ==
  /\ up = "up" /\ armed /\ armed' = FALSE /\ fired' = TRUE
  /\ UNCHANGED <<session, left, items, doing, up, fileVars, quitting>>

TimerSaves ==
  /\ up = "up" /\ fired /\ ~Active("timer") /\ fired' = FALSE
  /\ Begins("timer")
  /\ UNCHANGED <<session, left, items, doing, up, armed, exists, head, tail, encoded, mishaps, quitting>>

\* The handler of DISCONNECTED, unless the bot quits.
Disconnected ==
  /\ ~quitting /\ ~Active("disconnected")
  /\ Happens("troubles")
  /\ Begins("disconnected")
  /\ UNCHANGED <<session, items, doing, up, armed, exists, head, tail, encoded, mishaps, fired, quitting>>

Signal ==
  /\ ~quitting /\ Happens("deaths") /\ quitting' = TRUE
  /\ Begins("main")
  /\ UNCHANGED <<session, items, doing, up, armed, exists, head, tail, encoded, mishaps, fired>>

\* os.Create truncates what is there.
Create(s) ==
  /\ saver[s] = "begun"
  /\ exists' = TRUE /\ head' = "none" /\ tail' = "none"
  /\ saver' = [saver EXCEPT ![s] = "created"]
  /\ Begin(s, [op |-> "SaveCache", shard |-> 1])
  /\ mishaps' = IF \E r \in Savers \ {s} : saver[r] \notin {"off", "begun"}
                THEN mishaps \cup {"overlap"} ELSE mishaps
  /\ UNCHANGED <<session, left, items, up, armed, encoded, fired, quitting>>

\* Mutated form: the timer is left to those who call saveCache.
RearmsNever(s) == armed' = armed

\* When the save is over the timer's goroutine sets the timer again.
Rearms(s) == armed' = (armed \/ s = "timer")

CreateFails(s) ==
  /\ saver[s] = "begun" /\ Happens("troubles")
  /\ Ends(s) /\ Rearms(s)
  /\ UNCHANGED <<session, items, doing, up, exists, head, tail, encoded, mishaps, fired, quitting>>

Locks(s) ==
  /\ RLock(s) \/ Items(s)
  /\ UNCHANGED <<session, left, up, armed, fileVars, fired, quitting>>

\* The encoder writes the first of its bytes.
Encode(s) ==
  /\ doing[s].op = "walk" /\ saver[s] = "created"
  /\ saver' = [saver EXCEPT ![s] = "writing"]
  /\ head' = s /\ encoded' = [encoded EXCEPT ![s] = items]
  /\ UNCHANGED <<session, left, items, doing, up, armed, exists, tail, mishaps, fired, quitting>>

\* SaveCache returns, and what it holds is released.
SaveReturns(s) ==
  /\ saver[s] = "writing" /\ RUnlock(s)
  /\ saver' = [saver EXCEPT ![s] = "saved"]
  /\ UNCHANGED <<session, left, up, armed, exists, head, tail, encoded, mishaps, fired, quitting>>

\* The disk refuses the encoder's bytes: the error is logged and no tail follows.
EncodeFails(s) ==
  /\ saver[s] \in {"created", "writing"} /\ RUnlock(s)
  /\ Happens("troubles")
  /\ Ends(s) /\ Rearms(s)
  /\ mishaps' = mishaps \cup {"failed"}
  /\ UNCHANGED <<session, up, exists, head, tail, encoded, fired, quitting>>

\* ItemCount, which locks for reading once more, for the log.
Counts(s) ==
  /\ saver[s] = "saved" /\ CanRLock(1)
  /\ saver' = [saver EXCEPT ![s] = "counted"]
  /\ UNCHANGED <<session, left, items, doing, up, armed, exists, head, tail, encoded, mishaps, fired, quitting>>

\* Mutated form: the compressor is not closed.
CloseFileOnly(s) ==
  /\ saver[s] = "counted"
  /\ Ends(s) /\ Rearms(s)
  /\ UNCHANGED <<session, left, items, doing, up, exists, head, tail, encoded, mishaps, fired, quitting>>

Close(s) ==
  /\ saver[s] = "counted" /\ tail' = s
  /\ Ends(s) /\ Rearms(s)
  /\ UNCHANGED <<session, left, items, doing, up, exists, head, encoded, mishaps, fired, quitting>>

SaverStep(s) ==
  Create(s) \/ Locks(s) \/ Encode(s) \/ SaveReturns(s) \/ Counts(s) \/ Close(s)

-----------------------------------------------------------------------------
(* The process.                                                            *)

\* Every goroutine is gone, and the timer with them.
Dies ==
  /\ up' = "down"
  /\ items' = <<>> /\ doing' = [p \in Clients |-> Nothing]
  /\ asks' = [p \in Callers |-> Off] /\ report' = Idle /\ armed' = FALSE
  /\ heard' = [f \in Fetchers |-> "nothing"]
  /\ saver' = Blank /\ fired' = FALSE /\ quitting' = FALSE
  /\ mishaps' = IF \E s \in Savers : saver[s] \notin {"off", "begun"}
                THEN mishaps \cup {"cut"} ELSE mishaps
  /\ UNCHANGED <<now, exists, head, tail, encoded>>

Crash == Happens("deaths") /\ Dies

\* main returns, whoever else may be saving.
Exit == quitting /\ ~Active("main") /\ Dies /\ left' = left

\* What the file holds, when one saver has written all of it.
Whole == head # "none" /\ head = tail
Contents == encoded[head]
Decoded(m) == [k \in DOMAIN m |-> IF m[k].object = "error"
                                  THEN [m[k] EXCEPT !.object = "error value"] ELSE m[k]]

\* Mutated form: what cannot be read stops the bot.
LoadPanics ==
  /\ items' = IF Whole THEN Decoded(Contents) ELSE <<>>
  /\ up' = IF exists /\ ~Whole THEN "dead" ELSE "up"

\* loadCache: the reader of a file without a head is nil, and LoadCache panics;
\* any other file that cannot be read is logged.
Load ==
  /\ items' = IF Whole THEN Decoded(Contents) ELSE <<>>
  /\ up' = IF exists /\ head = "none" THEN "dead" ELSE "up"

Restart ==
  /\ up = "down" /\ Load /\ armed' = (up' = "up")
  /\ UNCHANGED <<now, doing, asks, report, left, heard, fileVars, fired, quitting>>

-----------------------------------------------------------------------------

Elsewhere == UNCHANGED <<fileVars, fired, quitting>>
NotReporting == UNCHANGED reportVars

Ask(p) == (FromCache(p) \/ Query(p)) /\ NotReporting /\ Elsewhere
Remember(c) == (Announce(c) \/ Writer(c)) /\ NotReporting /\ Elsewhere
Gather ==
  /\ CommandEnds \/ NothingPlaying \/ Playing \/ Reply \/ \E f \in Fetchers : Receive(f)
  /\ Elsewhere
Begun == (ReportBegins \/ CommandBegins \/ Ignored) /\ Elsewhere
TimePasses ==
  /\ Happens("ticks") /\ Tick
  /\ UNCHANGED <<report, armed, heard>> /\ Elsewhere

Next ==
  \/ \E p \in Callers : Ask(p)
  \/ \E c \in Setters \cup {Janitor} : Remember(c)
  \/ Begun \/ Gather \/ TimePasses
  \/ TimerFires \/ TimerSaves \/ Disconnected \/ Signal
  \/ \E s \in Savers : SaverStep(s) \/ CreateFails(s) \/ EncodeFails(s)
  \/ Crash \/ Exit \/ Restart

Spec == Init /\ [][Next]_vars

\* Goroutines that can go on do, and the timer fires: commands, which put it
\* off, are bounded.
Fairness ==
  /\ WF_vars(\E p \in Callers : Ask(p))
  /\ WF_vars(\E c \in Setters \cup {Janitor} : Remember(c))
  /\ WF_vars(Gather) /\ WF_vars(TimerFires) /\ WF_vars(TimerSaves)
  /\ \A s \in Savers : WF_vars(SaverStep(s))

FairSpec == Spec /\ Fairness

-----------------------------------------------------------------------------

\* While nobody saves the file is absent or whole, whatever order the savers'
\* steps came in, unless two of them were at it at once (bot.go:482 and 512),
\* one was cut short or could not write.
IdleFileIsWhole ==
  mishaps = {} /\ (\A s \in Savers : saver[s] \in {"off", "begun"}) => ~exists \/ Whole

\* The bot starts again after any death that did not come in the middle of a
\* save, and with any file that was written to its end or not at all.
StartsUnlessCut == up = "dead" => mishaps \cap {"cut", "failed"} # {}

\* Every report ends with a reply, whichever answers fail, unless the cache has
\* jammed (go-lastfm cache.go:95) or the bot goes down.
ReportsEnd == report.at # "idle" ~> report.at = "idle" \/ Jammed \/ up # "up"

\* A cached answer gets into the file while it is in the cache, even if saves
\* overlap or fail, unless the bot goes down or the cache jams.
AnswersSaved ==
  \A k \in Kept :
    k \in DOMAIN items ~> \/ k \notin DOMAIN items \/ Jammed \/ up # "up"
                          \/ Whole /\ k \in DOMAIN Contents
=============================================================================
