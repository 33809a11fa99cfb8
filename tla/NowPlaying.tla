----------------------------- MODULE NowPlaying -----------------------------
(***************************************************************************)
(* The replies that come from last.fm (bot.go): reportNowPlaying, which    *)
(* asks for three answers at once and takes them in whatever order they    *)
(* come, and doTop5 and doCompare, which ask one question each.            *)
(***************************************************************************)
EXTENDS LastfmClient

CONSTANT Budgets  \* bounds: how many of each thing outside the bot's control may happen

Fetchers == {"info", "track", "artist"}
Key == [reporter |-> "recent", info |-> "info", track |-> "track", artist |-> "artist",
        top |-> "top"]

\* The commands, crashes and exits, lost connections or failing disks, and ticks to come.
Happenings == {"reports", "tops", "deaths", "troubles", "ticks"}

ASSUME ReportConstants ==
  /\ Callers = DOMAIN Key /\ \A p \in Callers : Key[p] \in Keys
  /\ Budgets \subseteq [Happenings -> Nat]

VARIABLES
  report,  \* reportNowPlaying: [at, reads, tags, info]
  armed,   \* cacheTimer is running; saveCache (re)starts it
  left,    \* bound: what may still happen
  heard    \* history: what each fetcher of this report has sent

reportVars == <<report, armed, left, heard>>

\* The tags of a reply, after whose they are.
NoTags == <<"nobody", "none">>
Idle == [at |-> "idle", reads |-> 0, tags |-> NoTags, info |-> FALSE]

Happens(what) == up = "up" /\ left[what] > 0 /\ left' = [left EXCEPT ![what] = @ - 1]

Command(p) ==
  /\ asks[p] = Off
  /\ asks' = [asks EXCEPT ![p] = Asking(Key[p])]
  /\ UNCHANGED <<now, items, doing, up, armed>>

ReportBegins ==
  /\ Happens("reports") /\ Command("reporter") /\ report.at = "idle"
  /\ report' = [Idle EXCEPT !.at = "recent"]
  /\ heard' = [f \in Fetchers |-> "nothing"]

\* reportNowPlaying, doTop5 and doCompare do nothing but say so when the user
\* asked to be ignored.
Ignored ==
  /\ Happens("reports") \/ Happens("tops")
  /\ UNCHANGED <<now, items, doing, asks, up, report, armed, heard>>

\* doTop5 and doCompare.
CommandBegins == Happens("tops") /\ Command("top") /\ UNCHANGED <<report, heard>>

\* An error is told and the cache not saved.
CommandEnds ==
  /\ asks["top"].at = "got"
  /\ asks' = [asks EXCEPT !["top"] = Off]
  /\ armed' = (armed \/ ~IsError(asks["top"].answer))
  /\ UNCHANGED <<now, items, doing, up, report, left, heard>>

\* Nothing playing, or an error: that is the reply.
NothingPlaying ==
  /\ report.at = "recent" /\ asks["reporter"].at = "got"
  /\ asks["reporter"].answer # "tags"
  /\ asks' = [asks EXCEPT !["reporter"] = Off]
  /\ report' = Idle /\ armed' = TRUE
  /\ UNCHANGED <<now, items, doing, up, left, heard>>

Playing ==
  /\ report.at = "recent" /\ asks["reporter"].at = "got"
  /\ asks["reporter"].answer = "tags"
  /\ asks' = [p \in Callers |-> CASE p \in Fetchers -> Asking(Key[p])
                                  [] p = "reporter" -> Off
                                  [] OTHER -> asks[p]]
  /\ report' = [report EXCEPT !.at = "gather"]
  /\ UNCHANGED <<now, items, doing, up, armed, left, heard>>

\* Track tags are told from the artist's by the name of a track in the answer,
\* whoever asked for it.
NamesTrack(f, x) == f = "track" /\ x # "untitled"

\* Mutated form: the last answer with tags wins.
MergeLast(r, f, x) ==
  CASE IsError(x) -> r
    [] f = "info" /\ ~IsError(x) -> [r EXCEPT !.info = TRUE]
    [] f # "info" /\ ~IsError(x) ->
         [r EXCEPT !.tags = IF NamesTrack(f, x) /\ x # "tags" THEN @ ELSE <<f, x>>]

\* Track tags are used if there are any, the artist's unless there are track tags.
Merge(r, f, x) ==
  CASE IsError(x) -> r
    [] f = "info" /\ ~IsError(x) -> [r EXCEPT !.info = TRUE]
    [] f # "info" /\ ~IsError(x) /\ NamesTrack(f, x) ->
         IF x = "tags" THEN [r EXCEPT !.tags = <<f, x>>] ELSE r
    [] f # "info" /\ ~IsError(x) /\ ~NamesTrack(f, x) ->
         IF r.tags[2] \in {"none", "bare"} THEN [r EXCEPT !.tags = <<f, x>>] ELSE r

\* Mutated form: a goroutine whose call has failed sends nothing.
ReceiveAnswers(f) ==
  /\ report.at = "gather" /\ report.reads < 3 /\ asks[f].at = "got"
  /\ ~IsError(asks[f].answer)
  /\ asks' = [asks EXCEPT ![f] = Off]
  /\ report' = [Merge(report, f, asks[f].answer) EXCEPT !.reads = @ + 1]
  /\ heard' = [heard EXCEPT ![f] = asks[f].answer]
  /\ UNCHANGED <<now, items, doing, up, armed, left>>

\* One message on the channel, which has no buffer.
Receive(f) ==
  /\ report.at = "gather" /\ report.reads < 3 /\ asks[f].at = "got"
  /\ asks' = [asks EXCEPT ![f] = Off]
  /\ report' = [Merge(report, f, asks[f].answer) EXCEPT !.reads = @ + 1]
  /\ heard' = [heard EXCEPT ![f] = asks[f].answer]
  /\ UNCHANGED <<now, items, doing, up, armed, left>>

\* The channel is closed and the reply made of what there is.
Reply ==
  /\ report.at = "gather" /\ report.reads = 3
  /\ report' = [report EXCEPT !.at = "idle"] /\ armed' = TRUE
  /\ UNCHANGED <<now, items, doing, asks, up, left, heard>>

-----------------------------------------------------------------------------

\* The tags there are to choose from: the track's if it has any, else the
\* artist's.  A track's answer that names no track passes for the artist's, and
\* of two with tags that pass for them the first counts.
Choice ==
  IF heard["track"] = "tags" THEN {<<"track", "tags">>}
  ELSE IF heard["track"] = "untitled"
  THEN {<<"track", "untitled">>}
       \cup (IF heard["artist"] \in {"tags", "untitled"} THEN {<<"artist", heard["artist"]>>} ELSE {})
  ELSE IF heard["artist"] \in {"tags", "bare", "untitled"} THEN {<<"artist", heard["artist"]>>}
  ELSE {NoTags}

\* The reply's tags depend on the answers, not on the order in which they came
\* (bot.go:279, bot.go:284), as long as the server names the track.  And when
\* the channel is closed nobody is left to send: a send would panic, and a
\* goroutine nobody listens to would wait for ever.
ReplyFollowsAnswers ==
  report.at = "idle" =>
    /\ \A f \in Fetchers : asks[f] = Off
    /\ report.reads > 0 => report.tags \in Choice
=============================================================================
