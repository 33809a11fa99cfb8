------------------------------ MODULE Tracker ------------------------------
(***************************************************************************)
(* The state tracker of goirc (state/tracker.go, nick.go, channel.go) and  *)
(* the handlers that feed it the server's lines (client/state_handlers.go, *)
(* handlers.go), against a server whose lines arrive with a delay.         *)
(*                                                                         *)
(* A tracker is a record of the maps the code keeps.  Nick objects have an *)
(* identity of their own, Me's is 0; a channel is never renamed, so its    *)
(* name stands for the object, and Nick.lookup, whose keys are the names   *)
(* of Nick.chans, is not kept twice.  Of the modes one flag (+m), one      *)
(* privilege (+o) and one mode the code does not know (+b) stand for all;  *)
(* of a nick's data only whether its ident is known; of a topic, whether   *)
(* there is one.  The 352 lines that answer one WHO are one line.          *)
(***************************************************************************)
EXTENDS Naturals, Sequences, FiniteSets, SequencesExt

CONSTANTS
  Chans, Names,
  Bot,        \* the nick the client is configured with
  Reserved,   \* the names nobody but the client takes
  NewNick,    \* Config.NewNick: the name tried after one that is taken
  MaxLines,   \* bound: lines on their way in each direction
  MaxEvents   \* bound: what happens at the server or to the connection

NoName == "no name"

ASSUME TrackerConstants ==
  /\ IsFiniteSet(Names) /\ IsFiniteSet(Chans) /\ NoName \notin Names
  /\ Bot \in Names /\ Reserved \subseteq Names
  /\ NewNick \in [Names -> Names]
  /\ MaxLines \in Nat /\ MaxEvents \in Nat

VARIABLES
  tracking,  \* conn.st is not nil
  st,        \* the tracker; without tracking only Me, which is conn.cfg.Me
  link,      \* "down", "registering" or "up"
  lines,     \* what the server has sent and runLoop not yet dispatched
  asked,     \* what the client has sent and the server not yet seen
  mine,      \* at the server: the name of the client, or NoName
  online,    \* the names of the others
  on, ops,   \* who is on a channel, who has +o there
  mode, topic,
  events,    \* history: events so far
  mishaps    \* history: what has happened that the tracker cannot follow

client == <<tracking, st>>
server == <<mine, online, on, ops, mode, topic>>
vars == <<tracking, st, link, lines, asked, mine, online, on, ops, mode, topic,
          events, mishaps>>

Me == 0
Objects == 0..Cardinality(Names)

-----------------------------------------------------------------------------
(* The tracker's operations.                                               *)

Without(f, X) == [x \in DOMAIN f \ X |-> f[x]]
With(f, x, v) == [y \in DOMAIN f \cup {x} |-> IF y = x THEN v ELSE f[y]]

NickObject(name, known) == [name |-> name, chans |-> {}, known |-> known]
ChanObject == [nicks |-> <<>>, lookup |-> <<>>, mode |-> FALSE, topic |-> FALSE]

NewTracker(name) ==
  [nicks |-> With(<<>>, name, Me), nk |-> With(<<>>, Me, NickObject(name, TRUE)),
   ch |-> <<>>]

Tracked(s, name) == name \in DOMAIN s.nicks
MyName(s) == s.nk[Me].name

Unused(s) == CHOOSE i \in Objects \ DOMAIN s.nk : \A j \in Objects \ DOMAIN s.nk : i <= j

AddNick(s, name, known) ==
  IF Tracked(s, name) THEN s
  ELSE [s EXCEPT !.nicks = With(@, name, Unused(s)),
                 !.nk = With(@, Unused(s), NickObject(name, known))]

AddChannel(s, c) == IF c \in DOMAIN s.ch THEN s ELSE [s EXCEPT !.ch = With(@, c, ChanObject)]

Associate(s, c, i) ==
  IF c \in s.nk[i].chans THEN s
  ELSE [s EXCEPT !.ch[c].nicks = With(@, i, FALSE),
                 !.ch[c].lookup = With(@, s.nk[i].name, i),
                 !.nk[i].chans = @ \cup {c}]

\* Channel.delNick: the object goes from one map, its present name from the other.
Expel(s, ch, i) ==
  [ch EXCEPT !.nicks = Without(@, {i}), !.lookup = Without(@, {s.nk[i].name})]

Drop(s, i) ==
  [nicks |-> Without(s.nicks, {s.nk[i].name}),
   ch |-> [c \in DOMAIN s.ch |->
             IF c \in s.nk[i].chans THEN Expel(s, s.ch[c], i) ELSE s.ch[c]],
   nk |-> Without(s.nk, {i})]

DelNick(s, name) ==
  IF Tracked(s, name) /\ s.nicks[name] # Me THEN Drop(s, s.nicks[name]) ELSE s

\* Mutated form: I go like anybody with my last channel.
DelChannelAndMe(s, c) ==
  LET gone == {i \in DOMAIN s.ch[c].nicks : s.nk[i].chans = {c}}
  IN  [nicks |-> Without(s.nicks, {s.nk[i].name : i \in gone}),
       ch |-> Without(s.ch, {c}),
       nk |-> [i \in DOMAIN s.nk \ gone |->
                 IF i \in DOMAIN s.ch[c].nicks THEN [s.nk[i] EXCEPT !.chans = @ \ {c}]
                                               ELSE s.nk[i]]]

\* A nick that was on no other channel goes with the channel; I stay.
DelChannel(s, c) ==
  LET gone == {i \in DOMAIN s.ch[c].nicks \ {Me} : s.nk[i].chans = {c}}
  IN  [nicks |-> Without(s.nicks, {s.nk[i].name : i \in gone}),
       ch |-> Without(s.ch, {c}),
       nk |-> [i \in DOMAIN s.nk \ gone |->
                 IF i \in DOMAIN s.ch[c].nicks THEN [s.nk[i] EXCEPT !.chans = @ \ {c}]
                                               ELSE s.nk[i]]]

Dissociate(s, c, name) ==
  IF ~(c \in DOMAIN s.ch /\ Tracked(s, name) /\ c \in s.nk[s.nicks[name]].chans) THEN s
  ELSE LET i == s.nicks[name]
           left == [s EXCEPT !.ch[c] = Expel(s, @, i), !.nk[i].chans = @ \ {c}]
       IN  CASE i = Me -> DelChannel(s, c)
             [] i # Me /\ left.nk[i].chans = {} -> Drop(left, i)
             [] OTHER -> left

ReNick(s, old, neu) ==
  IF ~Tracked(s, old) \/ Tracked(s, neu) THEN s
  ELSE LET i == s.nicks[old]
       IN  [nicks |-> With(Without(s.nicks, {old}), neu, i),
            nk |-> [s.nk EXCEPT ![i].name = neu],
            ch |-> [c \in DOMAIN s.ch |->
                      IF c \notin s.nk[i].chans THEN s.ch[c]
                      ELSE [s.ch[c] EXCEPT !.lookup = With(Without(@, {old}), neu, i)]]]

\* Wipe: the channels go one by one, and every nick but me with them.
Wipe(s) ==
  LET cs == SetToSeq(DOMAIN s.ch)
      Gone[k \in 0..Len(cs)] == IF k = 0 THEN s ELSE DelChannel(Gone[k - 1], cs[k])
  IN  Gone[Len(cs)]

\* Mutated form: a privilege is always given, never taken.
LetterAdds(acc, m) ==
  IF m.letter = "m" THEN [acc EXCEPT !.ch.mode = m.add]
  ELSE IF m.letter = "o" /\ acc.args # <<>> /\ Head(acc.args) \in DOMAIN acc.ch.lookup
       THEN [ch |-> [acc.ch EXCEPT !.nicks[acc.ch.lookup[Head(acc.args)]] = TRUE],
             args |-> Tail(acc.args)]
       ELSE acc

\* Channel.ParseModes.  A letter that takes a parameter consumes it only when
\* it is a privilege given to a nick on the channel: +b leaves its mask behind.
Letter(acc, m) ==
  IF m.letter = "m" THEN [acc EXCEPT !.ch.mode = m.add]
  ELSE IF m.letter = "o" /\ acc.args # <<>> /\ Head(acc.args) \in DOMAIN acc.ch.lookup
       THEN [ch |-> [acc.ch EXCEPT !.nicks[acc.ch.lookup[Head(acc.args)]] = m.add],
             args |-> Tail(acc.args)]
       ELSE acc

ParseModes(ch, modes, args) ==
  LET Read[k \in 0..Len(modes)] ==
        IF k = 0 THEN [ch |-> ch, args |-> args] ELSE Letter(Read[k - 1], modes[k])
  IN  Read[Len(modes)].ch

-----------------------------------------------------------------------------
(* The lines.                                                              *)

JoinLine(n, c) == [cmd |-> "JOIN", nick |-> n, chan |-> c]
PartLine(n, c) == [cmd |-> "PART", nick |-> n, chan |-> c]  \* or KICK
QuitLine(n) == [cmd |-> "QUIT", nick |-> n]
NickLine(n, m) == [cmd |-> "NICK", nick |-> n, neu |-> m]
InUse(n) == [cmd |-> "433", nick |-> n]
ModeLine(cmd, c, modes, args) == [cmd |-> cmd, chan |-> c, modes |-> modes, args |-> args]
TopicLine(cmd, c, t) == [cmd |-> cmd, chan |-> c, topic |-> t]
NamesLine(c, who, withOp) == [cmd |-> "353", chan |-> c, who |-> who, withOp |-> withOp]
WhoLine(who) == [cmd |-> "352", who |-> who]
WhoisLine(n) == [cmd |-> "311", who |-> {n}]

Ask(cmd, arg) == [cmd |-> cmd, arg |-> arg]
Plus(letter) == [add |-> TRUE, letter |-> letter]
Minus(letter) == [add |-> FALSE, letter |-> letter]
Mask == "mask"

-----------------------------------------------------------------------------
(* The handlers.  Those of stHandlers run only while tracking is enabled.  *)

Dispatched(cmds) ==
  /\ link # "down" /\ lines # <<>> /\ Head(lines).cmd \in cmds
  /\ lines' = Tail(lines)
  /\ UNCHANGED <<tracking, server, link, events, mishaps>>

Track(s) == st' = (IF tracking THEN s ELSE st) /\ asked' = asked

\* Mutated form: the first JOIN of a channel may be anybody's.
JoinedByAnyone(s, l) ==
  LET t == AddNick(AddChannel(s, l.chan), l.nick, TRUE)
  IN  Associate(t, l.chan, t.nicks[l.nick])

\* The first JOIN of a channel is mine, or it is not for us.
Joined(s, l) ==
  IF l.chan \notin DOMAIN s.ch /\ l.nick # MyName(s) THEN s
  ELSE LET t == AddNick(AddChannel(s, l.chan), l.nick, TRUE)
       IN  Associate(t, l.chan, t.nicks[l.nick])

\* What a JOIN makes the client ask the server.
Wanted(s, l) ==
  IF Joined(s, l) = s THEN <<>>
  ELSE (IF l.chan \in DOMAIN s.ch THEN <<>>
        ELSE <<Ask("MODE", l.chan), Ask("WHO", l.chan)>>)
       \o (IF Tracked(s, l.nick) THEN <<>> ELSE <<Ask("WHO", l.nick)>>)

h_JOIN ==
  /\ Dispatched({"JOIN"})
  /\ IF ~tracking THEN UNCHANGED <<st, asked>>
     ELSE /\ st' = Joined(st, Head(lines))
          /\ asked' = asked \o Wanted(st, Head(lines))
          /\ Len(asked') <= MaxLines

\* h_PART and h_KICK.
h_PART ==
  /\ Dispatched({"PART"})
  /\ Track(Dissociate(st, Head(lines).chan, Head(lines).nick))

h_QUIT ==
  /\ Dispatched({"QUIT"})
  /\ Track(DelNick(st, Head(lines).nick))

\* h_STNICK and h_NICK: without tracking only my own name is followed.
h_NICK ==
  /\ Dispatched({"NICK"})
  /\ st' = ReNick(st, Head(lines).nick, Head(lines).neu)
  /\ asked' = asked

\* Before the server has registered us it sends no NICK line for the new name.
h_433 ==
  /\ Dispatched({"433"})
  /\ asked' = Append(asked, Ask("NICK", NewNick[Head(lines).nick]))
  /\ Len(asked') <= MaxLines
  /\ st' = IF Head(lines).nick = MyName(st)
           THEN ReNick(st, MyName(st), NewNick[MyName(st)]) ELSE st

\* MODE and 324; a MODE line for a nick sets user modes, which are left out.
h_MODE ==
  /\ Dispatched({"MODE", "324"})
  /\ LET l == Head(lines)
     IN  Track(IF l.chan \in DOMAIN st.ch
               THEN [st EXCEPT !.ch[l.chan] = ParseModes(@, l.modes, l.args)] ELSE st)

\* TOPIC and 332.
h_TOPIC ==
  /\ Dispatched({"TOPIC", "332"})
  /\ LET l == Head(lines)
     IN  Track(IF l.chan \in DOMAIN st.ch THEN [st EXCEPT !.ch[l.chan].topic = l.topic]
               ELSE st)

\* One name of a 353 line.
Listed(s, c, n, withOp) ==
  LET t == AddNick(s, n, FALSE)
      u == Associate(t, c, t.nicks[n])
  IN  IF n \in withOp THEN [u EXCEPT !.ch[c].nicks[u.nicks[n]] = TRUE] ELSE u

NamesListed(s, l) ==
  LET names == SetToSeq(l.who)
      Got[k \in 0..Len(names)] ==
        IF k = 0 THEN s ELSE Listed(Got[k - 1], l.chan, names[k], l.withOp)
  IN  Got[Len(names)]

h_353 ==
  /\ Dispatched({"353"})
  /\ LET l == Head(lines)
     IN  Track(IF l.chan \in DOMAIN st.ch THEN NamesListed(st, l) ELSE st)

\* 311 and 352, which tell the ident of a nick.
h_352 ==
  /\ Dispatched({"311", "352"})
  /\ LET told == {st.nicks[n] : n \in Head(lines).who \cap DOMAIN st.nicks}
     IN  Track([st EXCEPT !.nk = [i \in DOMAIN st.nk |->
                  [st.nk[i] EXCEPT !.known = @ \/ i \in told]]])

Handle == h_JOIN \/ h_PART \/ h_QUIT \/ h_NICK \/ h_433 \/ h_MODE \/ h_TOPIC \/ h_353 \/ h_352

-----------------------------------------------------------------------------
(* The server.  It sends the client what happens on the client's channels, *)
(* in the order in which it happens, and answers what it is asked.         *)

Everyone == online \cup ({mine} \ {NoName})
SeenByUs(n) == link = "up" /\ \E c \in Chans : {mine, n} \subseteq on[c]
OnIt(c) == link = "up" /\ mine \in on[c]

\* What the server sends at a step; steps nobody but the server sees are left
\* to Init, Arrive and Quit.
Sends(ls) ==
  /\ lines' = lines \o ls /\ Len(lines') <= MaxLines
  /\ UNCHANGED <<client, link, asked>>
Event == events < MaxEvents /\ events' = events + 1

Join(n, c) ==
  /\ Event /\ link = "up" /\ n \in Everyone \ on[c]
  /\ on' = [on EXCEPT ![c] = @ \cup {n}]
  /\ ops' = [ops EXCEPT ![c] = IF on[c] = {} THEN {n} ELSE @]
  /\ Sends(IF n = mine
           THEN <<JoinLine(n, c)>>
                \o (IF topic[c] THEN <<TopicLine("332", c, TRUE)>> ELSE <<>>)
                \o <<NamesLine(c, on'[c], ops'[c])>>
           ELSE IF OnIt(c) THEN <<JoinLine(n, c)>> ELSE <<>>)
  /\ UNCHANGED <<mine, online, mode, topic, mishaps>>

\* The last to leave takes the channel along.
TakeOff(n, cs) ==
  LET gone == {c \in cs : on[c] \subseteq {n}}
  IN  /\ on' = [c \in Chans |-> IF c \in cs THEN on[c] \ {n} ELSE on[c]]
      /\ ops' = [c \in Chans |-> IF c \in cs THEN ops[c] \ {n} ELSE ops[c]]
      /\ mode' = [c \in Chans |-> mode[c] /\ c \notin gone]
      /\ topic' = [c \in Chans |-> topic[c] /\ c \notin gone]

\* The client's own JOIN, which the topic or the names follow, is on its way.
Arriving(c) ==
  \E i \in 1..Len(lines) - 1 :
    /\ lines[i].cmd = "JOIN" /\ lines[i].chan = c
    /\ lines[i + 1].cmd \in {"332", "353"} /\ lines[i + 1].chan = c

\* The client does not know yet who is on the channel: its WHO is unanswered.
Introducing(c) == Arriving(c) \/ \E i \in 1..Len(asked) : asked[i] = Ask("WHO", c)

Leave(n, c) ==
  /\ Event /\ link = "up" /\ n \in on[c]
  /\ TakeOff(n, {c})
  /\ Sends(IF OnIt(c) THEN <<PartLine(n, c)>> ELSE <<>>)
  /\ mishaps' = mishaps \cup (IF n # mine /\ Introducing(c) THEN {"moved"} ELSE {})
  /\ UNCHANGED <<mine, online>>

Quit(n) ==
  /\ Event /\ n \in online
  /\ online' = online \ {n}
  /\ TakeOff(n, Chans)
  /\ Sends(IF SeenByUs(n) THEN <<QuitLine(n)>> ELSE <<>>)
  /\ UNCHANGED <<mine, mishaps>>

Arrive(n) ==
  /\ Event /\ n \in Names \ (Everyone \cup Reserved)
  /\ online' = online \cup {n}
  /\ Sends(<<>>)
  /\ UNCHANGED <<mine, on, ops, mode, topic, mishaps>>

RenameAtServer(n, m) ==
  LET moved(ns) == {IF x = n THEN m ELSE x : x \in ns}
  IN  /\ online' = moved(online) /\ mine' = (IF n = mine THEN m ELSE mine)
      /\ on' = [c \in Chans |-> moved(on[c])]
      /\ ops' = [c \in Chans |-> moved(ops[c])]
      /\ UNCHANGED <<mode, topic>>

Rename(n, m) ==
  /\ Event /\ n \in online /\ m \in Names \ (Everyone \cup Reserved)
  /\ RenameAtServer(n, m)
  /\ Sends(IF SeenByUs(n) THEN <<NickLine(n, m)>> ELSE <<>>)
  /\ UNCHANGED mishaps

\* +m or -m; +o or -o for a nick; a ban and +o in one line.
SetModes(c, n, add, how) ==
  /\ Event /\ link = "up" /\ n \in on[c]
  /\ mode' = IF how = "flag" THEN [mode EXCEPT ![c] = add] ELSE mode
  /\ ops' = IF how = "flag" THEN ops
            ELSE [ops EXCEPT ![c] = IF add THEN @ \cup {n} ELSE @ \ {n}]
  /\ <<mode', ops'>> # <<mode, ops>>
  /\ LET sign(letter) == IF add THEN Plus(letter) ELSE Minus(letter)
         letters == CASE how = "flag" -> <<sign("m")>>
                      [] how = "op" -> <<sign("o")>>
                      [] how = "banAndOp" -> <<Plus("b"), sign("o")>>
         args == CASE how = "flag" -> <<>>
                   [] how = "op" -> <<n>>
                   [] how = "banAndOp" -> <<Mask, n>>
     IN  Sends(IF OnIt(c) THEN <<ModeLine("MODE", c, letters, args)>> ELSE <<>>)
  /\ mishaps' = mishaps \cup (IF how = "banAndOp" THEN {"ban"} ELSE {})
  /\ UNCHANGED <<mine, online, on, topic>>

SetTopic(c) ==
  /\ Event /\ link = "up" /\ on[c] # {}
  /\ topic' = [topic EXCEPT ![c] = ~@]
  /\ Sends(IF OnIt(c) THEN <<TopicLine("TOPIC", c, topic'[c])>> ELSE <<>>)
  /\ UNCHANGED <<mine, online, on, ops, mode, mishaps>>

\* The server answers the client's next command; unregistered, only NICK counts.
Answers(cmd, ls) ==
  /\ link # "down" /\ asked # <<>> /\ Head(asked).cmd = cmd
  /\ asked' = Tail(asked)
  /\ lines' = lines \o ls /\ Len(lines') <= MaxLines
  /\ UNCHANGED <<client, events, mishaps>>

AnswerWho ==
  LET arg == Head(asked).arg
      who == IF arg \in Chans THEN on[arg] ELSE {arg} \cap Everyone
  IN  /\ Answers("WHO", IF link = "up" /\ who # {} THEN <<WhoLine(who)>> ELSE <<>>)
      /\ UNCHANGED <<server, link>>

AnswerMode ==
  LET c == Head(asked).arg
  IN  /\ Answers("MODE", IF link = "up" /\ on[c] # {}
                         THEN <<ModeLine("324", c, IF mode[c] THEN <<Plus("m")>> ELSE <<>>, <<>>)>>
                         ELSE <<>>)
      /\ UNCHANGED <<server, link>>

AnswerWhois ==
  LET n == Head(asked).arg
  IN  /\ Answers("WHOIS", IF link = "up" /\ n \in Everyone THEN <<WhoisLine(n)>> ELSE <<>>)
      /\ UNCHANGED <<server, link>>

AnswerNick ==
  LET n == Head(asked).arg
      free == n \notin Everyone
  IN  /\ Answers("NICK", IF n \in online THEN <<InUse(n)>>
                         ELSE IF link = "up" /\ free THEN <<NickLine(mine, n)>> ELSE <<>>)
      /\ IF free /\ link = "up" THEN RenameAtServer(mine, n)
         ELSE /\ mine' = IF free THEN n ELSE mine
              /\ UNCHANGED <<online, on, ops, mode, topic>>
      /\ link' = IF free THEN "up" ELSE link

-----------------------------------------------------------------------------
(* The client's user and the connection.                                   *)

\* conn.Nick and conn.Whois.
AppAsks(ask) ==
  /\ Event /\ link = "up" /\ Len(asked) < MaxLines
  /\ asked' = Append(asked, ask)
  /\ UNCHANGED <<client, server, link, lines, mishaps>>

\* Some lines stay in conn.in and conn.out; initialise wipes the tracker.
Lose ==
  /\ Event /\ link # "down"
  /\ link' = "down" /\ mine' = NoName
  /\ \E k \in 0..Len(lines) : lines' = SubSeq(lines, 1, k)
  /\ \E k \in 1..Len(asked) + 1 : asked' = SubSeq(asked, k, Len(asked))
  /\ st' = IF tracking THEN Wipe(st) ELSE st
  /\ TakeOff(mine, {c \in Chans : mine \in on[c]})
  /\ mishaps' = mishaps \cup (IF lines' = <<>> /\ asked' = <<>> THEN {} ELSE {"stale"})
  /\ UNCHANGED <<tracking, online>>

\* h_REGISTER.
Connect ==
  /\ link = "down" /\ Len(asked) < MaxLines
  /\ link' = "registering"
  /\ asked' = Append(asked, Ask("NICK", MyName(st)))
  /\ UNCHANGED <<client, server, lines, events, mishaps>>

\* A tracker enabled on a channel, or with lines on their way, starts too late.
\* One step, and so is the opposite: that the thirteen handlers are added and
\* removed while none of them is dispatched is assumed of the program, which
\* calls these in a foreground handler or without a connection.
EnableStateTracking ==
  /\ Event /\ ~tracking
  /\ tracking' = TRUE /\ st' = NewTracker(MyName(st))
  /\ mishaps' = mishaps \cup
       (IF lines # <<>> \/ \E c \in Chans : mine \in on[c] THEN {"late"} ELSE {})
  /\ UNCHANGED <<server, link, lines, asked>>

DisableStateTracking ==
  /\ Event /\ tracking
  /\ tracking' = FALSE /\ st' = Wipe(st)
  /\ UNCHANGED <<server, link, lines, asked, mishaps>>

Init ==
  /\ tracking = TRUE /\ st = NewTracker(Bot)
  /\ link = "down" /\ lines = <<>> /\ asked = <<>> /\ mine = NoName
  /\ online \in SUBSET (Names \ Reserved)
  /\ on \in [Chans -> SUBSET (online \ {Bot})] /\ ops = [c \in Chans |-> {}]
  /\ mode = [c \in Chans |-> FALSE] 
  /\ topic = [c \in Chans |-> on[c] # {}]
  /\ events = 0 /\ mishaps = {}

World ==
  \/ \E n \in Names, c \in Chans : Join(n, c) \/ Leave(n, c)
  \/ \E n \in Names : Quit(n) \/ Arrive(n)
  \/ \E n, m \in Names : Rename(n, m)
  \/ \E n \in Names, c \in Chans, add \in BOOLEAN, how \in {"flag", "op", "banAndOp"} :
        SetModes(c, n, add, how)
  \/ \E c \in Chans : SetTopic(c)

Server == AnswerWho \/ AnswerMode \/ AnswerWhois \/ AnswerNick

Next ==
  \/ Handle \/ World \/ Server
  \/ \E n \in Names \ Reserved : AppAsks(Ask("NICK", n))
  \/ \E n \in DOMAIN st.nicks \ {MyName(st)} : AppAsks(Ask("WHOIS", n))
  \/ Lose \/ Connect
  \/ EnableStateTracking \/ DisableStateTracking

Spec == Init /\ [][Next]_vars

-----------------------------------------------------------------------------
(* What the tracker shows its user, and what is so.                        *)

View == UNION {{c} \X {st.nk[i].name : i \in DOMAIN st.ch[c].nicks} : c \in DOMAIN st.ch}
Truth == {p \in Chans \X Names : {mine, p[2]} \subseteq on[p[1]]}

\* The types: the tracker's maps and the lines on their way.
TypeOK ==
  /\ tracking \in BOOLEAN /\ link \in {"down", "registering", "up"}
  /\ DOMAIN st.nicks \subseteq Names /\ DOMAIN st.ch \subseteq Chans
  /\ DOMAIN st.nk \subseteq Objects /\ Me \in DOMAIN st.nk
  /\ mine \in Names \cup {NoName} /\ (mine = NoName <=> link # "up")
  /\ mine \notin online /\ \A c \in Chans : ops[c] \subseteq on[c] /\ on[c] \subseteq Everyone
  /\ Len(lines) <= MaxLines /\ Len(asked) <= MaxLines

\* The maps agree, whatever lines come and in whatever state: each nick is
\* filed under its present name, a nick and a channel list each other, the
\* channel's index by name is that of its nicks, I am on every channel, and
\* nobody else is kept who is on none ("this shouldn't happen",
\* tracker.go:129; "internal state tracking code is fubar", tracker.go:118).
Consistent ==
  /\ TypeOK
  /\ DOMAIN st.nicks = {st.nk[i].name : i \in DOMAIN st.nk}
  /\ \A n \in DOMAIN st.nicks : st.nicks[n] \in DOMAIN st.nk /\ st.nk[st.nicks[n]].name = n
  /\ \A c \in DOMAIN st.ch :
       /\ DOMAIN st.ch[c].nicks = {i \in DOMAIN st.nk : c \in st.nk[i].chans}
       /\ Me \in DOMAIN st.ch[c].nicks
       /\ DOMAIN st.ch[c].lookup = {st.nk[i].name : i \in DOMAIN st.ch[c].nicks}
       /\ \A n \in DOMAIN st.ch[c].lookup : st.ch[c].lookup[n] = st.nicks[n]
  /\ \A i \in DOMAIN st.nk :
       /\ st.nk[i].chans \subseteq DOMAIN st.ch
       /\ i # Me => st.nk[i].chans # {}

Settled == link = "up" /\ tracking /\ lines = <<>>

\* Once every line is handled the tracker shows who is on my channels, under
\* which names, unless an earlier connection left lines or tracking was
\* enabled late.
FollowsMembers ==
  Settled /\ mishaps \cap {"stale", "late"} = {} => View = Truth /\ MyName(st) = mine

\* And then their topics and, once the server has answered what was asked,
\* their modes and privileges, unless a mode the code does not know came with
\* a parameter.
FollowsModes ==
  Settled /\ asked = <<>> /\ mishaps \cap {"stale", "late", "ban"} = {} =>
    \A c \in DOMAIN st.ch :
      /\ st.ch[c].mode = mode[c] /\ st.ch[c].topic = topic[c]
      /\ {n \in DOMAIN st.ch[c].lookup : st.ch[c].nicks[st.ch[c].lookup[n]]} = ops[c]

\* And knows everybody's ident, unless somebody moved away from a channel
\* between the NAMES list that told of them and the answer to the WHO: the
\* comment of state_handlers.go:64 relies on that WHO.
FollowsIdents ==
  Settled /\ asked = <<>> /\ mishaps \cap {"stale", "late", "moved"} = {} =>
    \A i \in DOMAIN st.nk : st.nk[i].known

\* What a user of the tracker relies on once the lines so far are handled.
FollowsServer == FollowsMembers /\ FollowsModes /\ FollowsIdents

\* The tracker implements the abstract relation, step by step.
Promise == INSTANCE ChannelView WITH me <- MyName(st), view <- View
KeepsPromise == Promise!Spec
=============================================================================
