---------------------------- MODULE NickRecovery ----------------------------
(***************************************************************************)
(* How the bot takes a nick and gets its own one back: goirc's handlers of *)
(* REGISTER, 001, 433 and NICK, and main's of CONNECTED, NOTICE, QUIT and  *)
(* NICK (bot.go), with a server and services at the other end.             *)
(*                                                                         *)
(* conn.out, conn.in and what is between them are two FIFO channels.  When *)
(* a connection is lost, what has not been written or was read already     *)
(* stays, and belongs to the next connection.  PASS and JOIN change        *)
(* nothing here.                                                           *)
(***************************************************************************)
EXTENDS Naturals, Sequences

CONSTANTS
  Names, BotNick,  \* -nick
  NewNick,         \* Config.NewNick: the name tried after one that is taken
  NickPass,        \* whether there is a -nick-pass
  Guests,          \* the names services give to whom they do not know
  MaxEvents,       \* bound: what others do
  MaxDials         \* bound: connections made

Nobody == "nobody"

ASSUME NickConstants ==
  /\ BotNick \in Names /\ Nobody \notin Names /\ NewNick \in [Names -> Names]
  /\ NickPass \in BOOLEAN
  /\ Guests \subseteq Names \ {BotNick}
  /\ MaxEvents \in Nat /\ MaxDials \in Nat

VARIABLES
  me,        \* cfg.Me.Nick
  greeting,  \* what h_REGISTER has still to send: "NICK", "USER" or "none"
  asked,     \* the client's lines on their way to the server
  lines,     \* the server's lines on their way to the handlers
  link,      \* "down", "open" (not registered yet) or "up"
  mine,      \* at the server: the name of the client, or Nobody
  user,      \* at the server: USER has arrived
  others,    \* at the server: the names that are taken by others
  known,     \* services know the client under its present name
  events, dials,
  bounced,   \* history: a name was refused since the client was registered
  stale      \* history: lines of an earlier connection were left for this one

client == <<me, greeting>>
server == <<link, mine, user, others, known, bounced>>
counts == <<events, dials, stale>>
nickVars == <<client, server, counts, asked, lines>>

Ask(said) == asked' = asked \o said
Reply(sent) == lines' = lines \o sent

NickCmd(n) == [cmd |-> "NICK", nick |-> n]
UserCmd == [cmd |-> "USER"]
Ghost == [cmd |-> "GHOST"]        \* PRIVMSG NickServ :GHOST botNick password
Identify == [cmd |-> "IDENTIFY"]  \* PRIVMSG NickServ :IDENTIFY password

Welcome == [cmd |-> "001"]
Refusal(n) == [cmd |-> "433", nick |-> n]
NickLine(a, b) == [cmd |-> "NICK", from |-> a, nick |-> b]
QuitLine(n) == [cmd |-> "QUIT", nick |-> n]
Notice(t) == [cmd |-> "NOTICE", text |-> t]

NickInit ==
  /\ me = BotNick /\ greeting = "none"
  /\ asked = <<>> /\ lines = <<>>
  /\ link = "down" /\ mine = Nobody /\ user = FALSE /\ known = FALSE
  /\ others \in SUBSET {BotNick}
  /\ events = 0 /\ dials = 0 /\ bounced = FALSE /\ stale = FALSE

-----------------------------------------------------------------------------
(* The client.  runLoop hands one line after another to the handlers, while *)
(* Connect has REGISTER dispatched.                                        *)

Connects ==
  /\ link = "down" /\ dials < MaxDials
  /\ link' = "open" /\ user' = FALSE /\ bounced' = FALSE
  /\ greeting' = "NICK" /\ dials' = dials + 1
  /\ UNCHANGED <<me, asked, lines, mine, others, known, events, stale>>

h_REGISTER ==
  /\ \/ greeting = "NICK" /\ Ask(<<NickCmd(me)>>) /\ greeting' = "USER"
     \/ greeting = "USER" /\ Ask(<<UserCmd>>) /\ greeting' = "none"
  /\ UNCHANGED <<me, lines, server, counts>>

\* The next line is one of these.
Handling(cmd) ==
  /\ link # "down" /\ lines # <<>> /\ Head(lines).cmd = cmd
  /\ lines' = Tail(lines)
  /\ UNCHANGED <<greeting, server, counts>>

\* Mutated form: the client waits for a NICK line, which does not come before
\* it is registered.
h_433WithoutRename ==
  /\ Handling("433")
  /\ Ask(<<NickCmd(NewNick[Head(lines).nick])>>)
  /\ UNCHANGED me

h_433 ==
  /\ Handling("433")
  /\ LET refused == Head(lines).nick
     IN  /\ Ask(<<NickCmd(NewNick[refused])>>)
         /\ me' = IF refused = me THEN NewNick[refused] ELSE me

\* h_001 dispatches CONNECTED.
h_001 ==
  /\ Handling("001")
  /\ IF NickPass THEN Ask(<<IF me # BotNick THEN Ghost ELSE Identify>>)
     ELSE UNCHANGED asked
  /\ UNCHANGED me

\* Mutated form: main's handler looks at the name before goirc's has.
h_NICKBefore ==
  /\ Handling("NICK")
  /\ LET l == Head(lines)
     IN  /\ me' = IF l.from = me THEN l.nick ELSE me
         /\ IF l.nick = me /\ NickPass THEN Ask(<<Identify>>) ELSE UNCHANGED asked

\* goirc's handler, then main's.
h_NICK ==
  /\ Handling("NICK")
  /\ LET l == Head(lines)
     IN  /\ me' = IF l.from = me THEN l.nick ELSE me
         /\ IF l.nick = me' /\ NickPass THEN Ask(<<Identify>>) ELSE UNCHANGED asked

\* Mutated form: the name of whoever has left will do.
onQuitOfAnybody ==
  /\ Handling("QUIT")
  /\ Ask(<<NickCmd(Head(lines).nick)>>)
  /\ UNCHANGED me

onQuit ==
  /\ Handling("QUIT")
  /\ IF Head(lines).nick = BotNick THEN Ask(<<NickCmd(BotNick)>>) ELSE UNCHANGED asked
  /\ UNCHANGED me

\* Mutated form: the notice is only logged.
onNoticeLogs ==
  /\ Handling("NOTICE")
  /\ UNCHANGED <<me, asked>>

onNotice ==
  /\ Handling("NOTICE")
  /\ IF Head(lines).text = "ghost" THEN Ask(<<NickCmd(BotNick)>>) ELSE UNCHANGED asked
  /\ UNCHANGED me

\* shutdown, which waits for Connect: of the lines that were sent the last may
\* not have been written, of those that came the first have been read.  The
\* server may take a while to miss the client.
Loses ==
  /\ link # "down" /\ greeting = "none"
  /\ \E unread \in 0..Len(lines), written \in 0..Len(asked) :
       /\ lines' = SubSeq(lines, 1, unread)
       /\ asked' = SubSeq(asked, written + 1, Len(asked))
  /\ stale' = (lines' # <<>> \/ asked' # <<>>)
  /\ link' = "down" /\ mine' = Nobody /\ known' = FALSE
  /\ others' \in {others, others \cup ({mine} \ {Nobody})}
  /\ UNCHANGED <<client, user, events, dials, bounced>>

-----------------------------------------------------------------------------
(* The server and services.                                                *)

Taking(cmd) ==
  /\ link # "down" /\ asked # <<>> /\ Head(asked).cmd = cmd
  /\ asked' = Tail(asked)
  /\ UNCHANGED <<client, counts>>

Refuses ==
  /\ Taking("NICK") /\ Head(asked).nick \in others
  /\ Reply(<<Refusal(Head(asked).nick)>>)
  /\ bounced' = (bounced \/ link = "up")
  /\ UNCHANGED <<link, mine, user, others, known>>

Grants ==
  /\ Taking("NICK") /\ Head(asked).nick \notin others \cup {mine}
  /\ mine' = Head(asked).nick /\ known' = FALSE
  /\ CASE link = "up" -> Reply(<<NickLine(mine, mine')>>) /\ link' = link
       [] link = "open" /\ user -> Reply(<<Welcome>>) /\ link' = "up"
       [] OTHER -> UNCHANGED <<lines, link>>
  /\ UNCHANGED <<user, others, bounced>>

HasIt ==
  /\ Taking("NICK") /\ Head(asked).nick = mine
  /\ UNCHANGED <<server, lines>>

Admits ==
  /\ Taking("USER")
  /\ user' = TRUE
  /\ IF link = "open" /\ mine # Nobody THEN link' = "up" /\ Reply(<<Welcome>>)
     ELSE UNCHANGED <<link, lines>>
  /\ UNCHANGED <<mine, others, known, bounced>>

\* Whoever shares no channel with the holder does not see it go; main takes
\* every notice with the word for a success.
Ghosts ==
  /\ Taking("GHOST")
  /\ IF link # "up" THEN UNCHANGED <<lines, others>>
     ELSE \/ others' = others /\ Reply(<<Notice("ghost")>>)
          \/ others' = others /\ Reply(<<Notice("other")>>)
          \/ /\ BotNick \in others /\ others' = others \ {BotNick}
             /\ \/ Reply(<<Notice("ghost")>>)
                \/ Reply(<<QuitLine(BotNick), Notice("ghost")>>)
  /\ UNCHANGED <<link, mine, user, known, bounced>>

\* Services know one name, the bot's.
Identifies ==
  /\ Taking("IDENTIFY")
  /\ IF link = "up" /\ mine = BotNick THEN known' = TRUE /\ Reply(<<Notice("identified")>>)
     ELSE UNCHANGED <<known, lines>>
  /\ UNCHANGED <<link, mine, user, others, bounced>>

-----------------------------------------------------------------------------
(* Others.                                                                 *)

Others ==
  /\ events < MaxEvents /\ events' = events + 1
  /\ UNCHANGED <<client, asked, link, user, bounced, dials, stale>>

Shown(l) == UNCHANGED lines \/ (link = "up" /\ Reply(<<l>>))

Comes(n) ==
  /\ Others /\ n \notin others \cup {mine}
  /\ others' = others \cup {n}
  /\ UNCHANGED <<mine, known, lines>>

Goes(n) ==
  /\ Others /\ n \in others
  /\ others' = others \ {n} /\ Shown(QuitLine(n))
  /\ UNCHANGED <<mine, known>>

Renames(a, b) ==
  /\ Others /\ a \in others /\ b \notin others \cup {mine}
  /\ others' = (others \ {a}) \cup {b} /\ Shown(NickLine(a, b))
  /\ UNCHANGED <<mine, known>>

\* Services rename a client that does not identify.
Evicts(n) ==
  /\ Others /\ link = "up" /\ mine = BotNick /\ ~known /\ n \in Guests \ others
  /\ mine' = n /\ Reply(<<NickLine(mine, n)>>)
  /\ UNCHANGED <<others, known>>

-----------------------------------------------------------------------------
Handles == h_433 \/ h_001 \/ h_NICK \/ onQuit \/ onNotice
Serves == Refuses \/ Grants \/ HasIt \/ Admits \/ Ghosts \/ Identifies
World == \E n \in Names : Comes(n) \/ Goes(n) \/ Evicts(n) \/ \E m \in Names : Renames(n, m)

NickNext == Connects \/ h_REGISTER \/ Handles \/ Loses \/ Serves \/ World

NickSpec == NickInit /\ [][NickNext]_nickVars

\* Goroutines that can run do run, and the server takes what was written.
FairNickSpec ==
  /\ NickSpec
  /\ WF_nickVars(h_REGISTER) /\ WF_nickVars(Handles) /\ WF_nickVars(Serves)

-----------------------------------------------------------------------------
(* Properties.                                                             *)

ClientLine == {NickCmd(n) : n \in Names} \cup {UserCmd, Ghost, Identify}
ServerLine ==
  {Welcome} \cup {Refusal(n) : n \in Names} \cup {QuitLine(n) : n \in Names}
    \cup {NickLine(a, b) : a \in Names, b \in Names}
    \cup {Notice(t) : t \in {"ghost", "identified", "other"}}

\* Each variable has its type.
NickTypeOK ==
  /\ me \in Names /\ greeting \in {"NICK", "USER", "none"}
  /\ asked \in Seq(ClientLine) /\ lines \in Seq(ServerLine)
  /\ link \in {"down", "open", "up"} /\ mine \in Names \cup {Nobody}
  /\ user \in BOOLEAN /\ others \subseteq Names /\ known \in BOOLEAN
  /\ events \in 0..MaxEvents /\ dials \in 0..MaxDials
  /\ bounced \in BOOLEAN /\ stale \in BOOLEAN

\* With every line of the server handled, a registered client is called what it
\* believes, whatever was refused, granted or forced on it and when, unless
\* lines of an earlier connection were left (handlers.go:70, 92).
MeFollowed == link = "up" /\ lines = <<>> /\ ~stale => me = mine

\* With nothing on its way, a bot that has its own name and a password has
\* identified under it, however often it lost the name and got it back.
IdentifiedAsItself ==
  link = "up" /\ lines = <<>> /\ asked = <<>> /\ ~stale /\ NickPass /\ mine = BotNick => known

\* A name tried after a refusal replaces the bot's own (h_433 does not know that
\* another request has succeeded), and nothing else the bot says does.
GivesUpOnlyBounced ==
  [][link = "up" /\ mine = BotNick /\ mine' # BotNick /\ asked' # asked /\ link' = "up"
       => bounced \/ stale]_nickVars

\* When its name is free and the bot is told, it gets it, unless somebody takes
\* it first or the connection is lost.
Told == \E i \in DOMAIN lines : lines[i] \in {QuitLine(BotNick), Notice("ghost")}
Retakes == link = "up" /\ Told ~> mine = BotNick \/ BotNick \in others \/ link # "up"

\* MeFollowed whatever was left.
MeAlwaysFollowed == link = "up" /\ lines = <<>> /\ asked = <<>> => me = mine
=============================================================================
