--------------------------- MODULE WhoReportProofs ---------------------------
(***************************************************************************)
(* Safety of WhoReport for any set of requests and channels, of any size.  *)
(*                                                                         *)
(* rateLimit holds one value for each reporter inside it (Places), so the  *)
(* place that a reporter leaves was taken.  In calm a request goes through *)
(* the stages below in order, and of the requests about one channel only   *)
(* one is Going: whoChannel, whoResult and the lines of the channel are    *)
(* its own.  What is left of the reply in the queue and what is already in *)
(* whoResult make up the whole reply (Block).                              *)
(***************************************************************************)
EXTENDS WhoReport, FiniteSets, FiniteSetTheorems, SequenceTheorems, TLAPS

Line == [cmd : {"352", "315"}, chan : Channels, nick : Names]
          \cup [cmd : {"NICK"}, nick : {NewNick}]

Stops ==
  {"idle", "check", "make", "range", "wait", "collect", "spawn", "gather", "done", "turnedAway"}
Inside(r) == reporters[r].busy + reporters[r].sending

\* The reporters inside rateLimit, told apart by a number.
Holders == UNION {{r} \X (1..Inside(r)) : r \in Requests}
Places == IsFiniteSet(Holders) /\ Cardinality(Holders) = rateLimit

\* Of its own nick the bot is only told that it is NewNick.
TypeInv == TypeOK /\ Places /\ inq \in Seq(Line)

-----------------------------------------------------------------------------
(* The stages of a request in calm.                                        *)

Idle(r) == reporters[r] = [waiting |-> 0, busy |-> 0, sending |-> 0] /\ count[r] = 0
NickAt(i) == inq[i].cmd = "NICK"
IsFor(i, c) == ~NickAt(i) /\ inq[i].chan = c
NoLines(c) == \A i \in 1..Len(inq) : ~IsFor(i, c)
NickSettled == up /\ \A i \in 1..Len(inq) : ~NickAt(i)

Going(r) == pc[r] \in {"range", "wait", "collect", "spawn", "gather"}
Asking(r) ==
  /\ pc[r] \in {"range", "wait"} /\ Idle(r)
  /\ whoChannel[ChanOf[r]] = r
  /\ operand[r] = IF pc[r] = "wait" THEN r ELSE NoChan

Members(c) == [n \in Names |-> IF n = Other THEN NumOthers[c] ELSE IF n = serverMe THEN 1 ELSE 0]

\* The first d lines of the reply, and no more, are in whoResult.
Seen(c, d) ==
  [n \in Names |-> IF n = Other THEN IF d < NumOthers[c] THEN d ELSE NumOthers[c]
                   ELSE IF n = serverMe /\ d > NumOthers[c] THEN 1 ELSE 0]

\* The reply for c: e lines are before it in the queue, or d of its own are handled.
Block(c, d, e) ==
  /\ d = 0 \/ e = 0
  /\ d <= NumOthers[c] + 1 /\ whoResult[c] = Seen(c, d)
  /\ Len(inq) >= e + NumOthers[c] + 2 - d
  /\ \A i \in 1..Len(inq) :
       IF e < i /\ i <= e + NumOthers[c] + 2 - d
       THEN inq[i] = ReplyOf(c)[i - e + d] ELSE ~IsFor(i, c)

Before(r) ==
  /\ pc[r] \in {"idle", "check", "make", "turnedAway"} /\ Idle(r)
  /\ who[r] = "none" /\ r \notin closedWho /\ operand[r] = NoChan
Asked(r) ==
  /\ Asking(r) /\ who[r] \in {"queued", "sent"} /\ r \notin closedWho
  /\ whoResult[ChanOf[r]] = Nobody /\ NoLines(ChanOf[r])
Answered(r) ==
  /\ Asking(r) /\ who[r] = "answered" /\ r \notin closedWho /\ up
  /\ \E d \in 0..NumOthers[ChanOf[r]] + 1, e \in 0..Len(inq) : Block(ChanOf[r], d, e)
Listing(r) ==
  /\ who[r] = "answered" /\ r \in closedWho /\ NickSettled /\ NoLines(ChanOf[r])
  /\ whoResult[ChanOf[r]] = Members(ChanOf[r])
Closed(r) == Asking(r) /\ Listing(r)
Counted(r) ==
  /\ pc[r] \in {"collect", "spawn"} /\ Idle(r) /\ Listing(r)
  /\ whoChannel[ChanOf[r]] = NoChan
  /\ pc[r] = "spawn" => total[r] = NumOthers[ChanOf[r]]
Gathering(r) ==
  /\ pc[r] = "gather" /\ who[r] = "answered" /\ r \in closedWho
  /\ NoLines(ChanOf[r])
  /\ whoResult[ChanOf[r]] = Nobody /\ whoChannel[ChanOf[r]] = NoChan
  /\ total[r] = NumOthers[ChanOf[r]]
  /\ total[r] = count[r] + reporters[r].waiting + Inside(r)
Done(r) ==
  /\ pc[r] = "done" /\ who[r] = "answered" /\ r \in closedWho
  /\ total[r] = NumOthers[ChanOf[r]] /\ count[r] = total[r]
  /\ reporters[r] = [waiting |-> 0, busy |-> 0, sending |-> 0]

Stage(r) ==
  \/ Before(r) \/ Asked(r) \/ Answered(r) \/ Closed(r) \/ Counted(r)
  \/ Gathering(r) \/ Done(r)

Resting(c) == whoChannel[c] = NoChan /\ whoResult[c] = Nobody /\ NoLines(c)

Stages == \A r \in Requests : Stage(r)
OneAtATime ==
  \A r, q \in Requests : Going(r) /\ Going(q) /\ ChanOf[r] = ChanOf[q] => r = q
AtRest == \A c \in Channels : (\A r \in Requests : ChanOf[r] = c => ~Going(r)) => Resting(c)

\* A NICK line is only sent while there is no reply behind which it could wait.
NicksFirst == \A i, j \in 1..Len(inq) : i < j /\ NickAt(j) => NickAt(i)

CalmNow ==
  /\ ~crashed /\ ~limit
  /\ Stages /\ OneAtATime /\ AtRest /\ NicksFirst
  /\ NickSettled => me = serverMe

CalmInv == calm => CalmNow

-----------------------------------------------------------------------------
(* Types, and the places of rateLimit.                                     *)

Counts == [waiting : Nat, busy : Nat, sending : Nat]

LEMMA NamesAre ==
  /\ Names = {Other, OldNick, NewNick}
  /\ Other # OldNick /\ Other # NewNick /\ OldNick # NewNick
  /\ Nobody \in [Names -> Nat] /\ \A n \in Names : Nobody[n] = 0
BY WhoReportConstants DEF Names, Nobody

LEMMA ReplyLines ==
  ASSUME TypeInv, NEW c \in Channels
  PROVE  /\ ReplyOf(c) \in Seq(Line) /\ Len(ReplyOf(c)) = NumOthers[c] + 2
         /\ \A i \in 1..NumOthers[c] + 2 :
              /\ ReplyOf(c)[i].chan = c
              /\ ReplyOf(c)[i].cmd = IF i = NumOthers[c] + 2 THEN "315" ELSE "352"
              /\ ReplyOf(c)[i].nick = IF i <= NumOthers[c] THEN Other ELSE serverMe
<1> DEFINE n == NumOthers[c]
           F(i) == CASE i <= n     -> [cmd |-> "352", chan |-> c, nick |-> Other]
                     [] i = n + 1  -> [cmd |-> "352", chan |-> c, nick |-> serverMe]
                     [] i = n + 2  -> [cmd |-> "315", chan |-> c, nick |-> serverMe]
<1>1. n \in Nat /\ Other \in Names /\ serverMe \in Names
  BY WhoReportConstants DEF TypeInv, TypeOK, Names
<1>2. \A i \in 1..n + 2 :
        /\ F(i) \in Line /\ F(i).chan = c
        /\ F(i).cmd = IF i = n + 2 THEN "315" ELSE "352"
        /\ F(i).nick = IF i <= n THEN Other ELSE serverMe
  <2> SUFFICES ASSUME NEW i \in 1..n + 2
               PROVE /\ F(i) \in Line /\ F(i).chan = c
                     /\ F(i).cmd = IF i = n + 2 THEN "315" ELSE "352"
                     /\ F(i).nick = IF i <= n THEN Other ELSE serverMe
    OBVIOUS
  <2>1. CASE i <= n
    <3>1. F(i) = [cmd |-> "352", chan |-> c, nick |-> Other]
      BY <1>1, <2>1
    <3> QED
      BY <1>1, <2>1, <3>1 DEF Line
  <2>2. CASE i = n + 1
    <3>1. F(i) = [cmd |-> "352", chan |-> c, nick |-> serverMe]
      BY <1>1, <2>2
    <3> QED
      BY <1>1, <2>2, <3>1 DEF Line
  <2>3. CASE i = n + 2
    <3>1. F(i) = [cmd |-> "315", chan |-> c, nick |-> serverMe]
      BY <1>1, <2>3
    <3> QED
      BY <1>1, <2>3, <3>1 DEF Line
  <2> QED
    BY <1>1, <2>1, <2>2, <2>3
<1>3. ReplyOf(c) = [i \in 1..n + 2 |-> F(i)]
  BY DEF ReplyOf
<1> HIDE DEF F
<1> QED
  BY <1>1, <1>2, <1>3

LEMMA HeadIsLine ==
  ASSUME TypeInv, inq # <<>>
  PROVE  /\ Head(inq) = inq[1] /\ Len(inq) \in Nat /\ Len(inq) >= 1 /\ Head(inq) \in Line
         /\ Head(inq).nick \in Names
         /\ Head(inq).cmd # "NICK" => Head(inq).chan \in Channels
         /\ Head(inq).cmd = "NICK" => Head(inq).nick = NewNick
         /\ Tail(inq) \in Seq(Line) /\ Len(Tail(inq)) = Len(inq) - 1
         /\ \A i \in 1..Len(inq) - 1 : Tail(inq)[i] = inq[i + 1]
<1>1. inq \in Seq(Line)
  BY DEF TypeInv
<1>2. Head(inq) = inq[1] /\ Len(inq) \in Nat /\ Len(inq) >= 1
  BY <1>1
<1>3. /\ Head(inq) \in Line /\ Tail(inq) \in Seq(Line) /\ Len(Tail(inq)) = Len(inq) - 1
      /\ \A i \in 1..Len(Tail(inq)) : Tail(inq)[i] = inq[i + 1]
  BY <1>1, HeadTailProperties
<1>4. /\ Head(inq).nick \in Names
      /\ Head(inq).cmd # "NICK" => Head(inq).chan \in Channels
      /\ Head(inq).cmd = "NICK" => Head(inq).nick = NewNick
  BY <1>3, NamesAre DEF Line
<1> QED
  BY <1>2, <1>3, <1>4

\* What a reporter's step does to the counts of its request.
LEMMA ReporterCounts ==
  ASSUME TypeOK, NEW r \in Requests
  PROVE  /\ reporters[r] \in Counts
         /\ Begin(r) => reporters' = [reporters EXCEPT ![r] =
              [waiting |-> reporters[r].waiting - 1, busy |-> reporters[r].busy + 1,
               sending |-> reporters[r].sending]]
         /\ LookedUp(r) => reporters' = [reporters EXCEPT ![r] =
              [waiting |-> reporters[r].waiting, busy |-> reporters[r].busy - 1,
               sending |-> reporters[r].sending + 1]]
         /\ Receive(r) => reporters' = [reporters EXCEPT ![r] =
              [waiting |-> reporters[r].waiting, busy |-> reporters[r].busy,
               sending |-> reporters[r].sending - 1]]
         /\ Spawn(r) => reporters' = [reporters EXCEPT ![r] =
              [waiting |-> Listed(ChanOf[r]) - whoResult[ChanOf[r]][me],
               busy |-> reporters[r].busy, sending |-> reporters[r].sending]]
<1>1. reporters \in [Requests -> Counts] /\ reporters[r] \in Counts
  BY DEF TypeOK, Counts
<1>2. Begin(r) => reporters' = [reporters EXCEPT ![r] =
              [waiting |-> reporters[r].waiting - 1, busy |-> reporters[r].busy + 1,
               sending |-> reporters[r].sending]]
  BY <1>1 DEF Begin, Counts
<1>3. LookedUp(r) => reporters' = [reporters EXCEPT ![r] =
              [waiting |-> reporters[r].waiting, busy |-> reporters[r].busy - 1,
               sending |-> reporters[r].sending + 1]]
  BY <1>1 DEF LookedUp, Counts
<1>4. Receive(r) => reporters' = [reporters EXCEPT ![r] =
              [waiting |-> reporters[r].waiting, busy |-> reporters[r].busy,
               sending |-> reporters[r].sending - 1]]
  BY <1>1 DEF Receive, Counts
<1>5. Spawn(r) => reporters' = [reporters EXCEPT ![r] =
              [waiting |-> Listed(ChanOf[r]) - whoResult[ChanOf[r]][me],
               busy |-> reporters[r].busy, sending |-> reporters[r].sending]]
  BY <1>1 DEF Spawn, Counts
<1> QED
  BY <1>1, <1>2, <1>3, <1>4, <1>5

LEMMA HolderIs ==
  \A h : h \in Holders <=> \E q \in Requests : \E i \in 1..Inside(q) : h = <<q, i>>
BY DEF Holders

LEMMA PlacesSame ==
  ASSUME Places, rateLimit' = rateLimit, \A q \in Requests : Inside(q)' = Inside(q)
  PROVE  Places'
<1>1. Holders' = Holders
  <2>1. \A h : h \in Holders' <=> \E q \in Requests : \E i \in 1..Inside(q)' : h = <<q, i>>
    BY DEF Holders
  <2> QED
    BY <2>1, HolderIs
<1> QED
  BY <1>1 DEF Places

LEMMA PlacesStep ==
  ASSUME TypeInv, NEW r \in Requests
  PROVE  /\ Begin(r) => Places' /\ rateLimit' \in 0..RateLimit
         /\ LookedUp(r) => Places' /\ rateLimit' \in 0..RateLimit
         /\ Receive(r) => Places' /\ rateLimit' \in 0..RateLimit
<1> DEFINE n == Inside(r)
<1>1. /\ reporters[r] \in Counts /\ reporters \in [Requests -> Counts]
      /\ rateLimit \in 0..RateLimit /\ RateLimit \in Nat
      /\ IsFiniteSet(Holders) /\ Cardinality(Holders) = rateLimit
  BY ReporterCounts, WhoReportConstants DEF TypeInv, TypeOK, Places, Counts
<1>2. n \in Nat
  BY <1>1 DEF Counts, Inside
<1>3. \A h : h \in Holders' <=> \E q \in Requests : \E i \in 1..Inside(q)' : h = <<q, i>>
  BY DEF Holders
<1>4. ASSUME Begin(r) PROVE Places' /\ rateLimit' \in 0..RateLimit
  <2>1. /\ rateLimit < RateLimit /\ rateLimit' = rateLimit + 1
        /\ reporters' = [reporters EXCEPT ![r] =
             [waiting |-> reporters[r].waiting - 1, busy |-> reporters[r].busy + 1,
              sending |-> reporters[r].sending]]
    BY <1>4, ReporterCounts DEF Begin, TypeInv
  <2>2. Inside(r)' = n + 1 /\ \A q \in Requests \ {r} : Inside(q)' = Inside(q)
    BY <1>1, <2>1 DEF Inside, Counts
  <2>3. Holders' = Holders \cup {<<r, n + 1>>} /\ <<r, n + 1>> \notin Holders
    <3> HIDE DEF n
    <3>1. \A q \in Requests : \A i : i \in 1..Inside(q)' <=> i \in 1..Inside(q) \/ (q = r /\ i = n + 1)
      BY <1>2, <2>2 DEF n
    <3>2. n + 1 \notin 1..Inside(r)
      BY <1>2 DEF n
    <3> QED
      BY <1>3, <3>1, <3>2, HolderIs
  <2>4. IsFiniteSet(Holders') /\ Cardinality(Holders') = rateLimit + 1
    <3> HIDE DEF n
    <3> DEFINE h == <<r, n + 1>>
    <3>1. Holders' = Holders \cup {h} /\ h \notin Holders
      BY <2>3
    <3> HIDE DEF h
    <3> QED
      BY <1>1, <3>1, FS_AddElement
  <2> QED
    BY <1>1, <2>1, <2>4 DEF Places
<1>5. ASSUME LookedUp(r) PROVE Places' /\ rateLimit' \in 0..RateLimit
  <2>1. /\ rateLimit' = rateLimit
        /\ reporters' = [reporters EXCEPT ![r] =
             [waiting |-> reporters[r].waiting, busy |-> reporters[r].busy - 1,
              sending |-> reporters[r].sending + 1]]
    BY <1>5, ReporterCounts DEF LookedUp, TypeInv
  <2>2. \A q \in Requests : Inside(q)' = Inside(q)
    BY <1>1, <2>1 DEF Inside, Counts
  <2> QED
    BY <1>1, <2>1, <2>2, PlacesSame DEF TypeInv
<1>6. ASSUME Receive(r) PROVE Places' /\ rateLimit' \in 0..RateLimit
  <2>1. /\ rateLimit' = rateLimit - 1 /\ reporters[r].sending > 0
        /\ reporters' = [reporters EXCEPT ![r] =
             [waiting |-> reporters[r].waiting, busy |-> reporters[r].busy,
              sending |-> reporters[r].sending - 1]]
    BY <1>6, ReporterCounts DEF Receive, Release, TypeInv
  <2>2. n >= 1 /\ Inside(r)' = n - 1 /\ \A q \in Requests \ {r} : Inside(q)' = Inside(q)
    BY <1>1, <2>1 DEF Inside, Counts
  <2>3. Holders' = Holders \ {<<r, n>>} /\ <<r, n>> \in Holders
    <3> HIDE DEF n
    <3>1. \A q \in Requests : \A i : i \in 1..Inside(q)' <=> i \in 1..Inside(q) /\ ~(q = r /\ i = n)
      BY <1>2, <2>2 DEF n
    <3>2. n \in 1..Inside(r)
      BY <1>2, <2>2 DEF n
    <3> QED
      BY <1>3, <3>1, <3>2, HolderIs
  <2>4. IsFiniteSet(Holders') /\ Cardinality(Holders') = rateLimit - 1
    <3> HIDE DEF n
    <3> DEFINE h == <<r, n>>
    <3>1. Holders' = Holders \ {h} /\ h \in Holders
      BY <2>3
    <3> HIDE DEF h
    <3> QED
      BY <1>1, <3>1, FS_RemoveElement
  <2>5. rateLimit' >= 0
    BY <2>1, <2>4, FS_CardinalityType
  <2> QED
    BY <1>1, <2>1, <2>4, <2>5 DEF Places
<1> QED
  BY <1>4, <1>5, <1>6

\* The steps of the reporters; Receive is also the request's.
LEMMA ReporterTypes ==
  ASSUME TypeInv, NEW r \in Requests, Begin(r) \/ LookedUp(r) \/ Receive(r)
  PROVE  TypeInv'
<1>1. /\ reporters[r] \in Counts /\ reporters \in [Requests -> Counts]
      /\ count \in [Requests -> Nat] /\ pc[r] = pc[r]
  BY ReporterCounts DEF TypeInv, TypeOK, Counts
<1>2. Places' /\ rateLimit' \in 0..RateLimit
  BY PlacesStep
<1>3. reporters' \in [Requests -> Counts]
  <2>1. CASE Begin(r)
    <3> DEFINE x == [waiting |-> reporters[r].waiting - 1, busy |-> reporters[r].busy + 1,
                   sending |-> reporters[r].sending]
    <3>1. reporters[r].waiting > 0
      BY <2>1 DEF Begin
    <3>2. x \in Counts
      BY <1>1, <3>1 DEF Counts
    <3>3. reporters' = [reporters EXCEPT ![r] = x]
      BY <2>1, ReporterCounts DEF TypeInv
    <3> QED
      BY <1>1, <3>2, <3>3
  <2>2. CASE LookedUp(r)
    <3> DEFINE x == [waiting |-> reporters[r].waiting, busy |-> reporters[r].busy - 1,
                   sending |-> reporters[r].sending + 1]
    <3>1. reporters[r].busy > 0
      BY <2>2 DEF LookedUp
    <3>2. x \in Counts
      BY <1>1, <3>1 DEF Counts
    <3>3. reporters' = [reporters EXCEPT ![r] = x]
      BY <2>2, ReporterCounts DEF TypeInv
    <3> QED
      BY <1>1, <3>2, <3>3
  <2>3. CASE Receive(r)
    <3> DEFINE x == [waiting |-> reporters[r].waiting, busy |-> reporters[r].busy,
                   sending |-> reporters[r].sending - 1]
    <3>1. reporters[r].sending > 0
      BY <2>3 DEF Receive
    <3>2. x \in Counts
      BY <1>1, <3>1 DEF Counts
    <3>3. reporters' = [reporters EXCEPT ![r] = x]
      BY <2>3, ReporterCounts DEF TypeInv
    <3> QED
      BY <1>1, <3>2, <3>3
  <2> QED
    BY <2>1, <2>2, <2>3
<1>4. pc' \in [Requests -> Stops] /\ count' \in [Requests -> Nat]
  <2>1. pc \in [Requests -> Stops] /\ count \in [Requests -> Nat]
    BY DEF TypeInv, TypeOK, Stops
  <2>2. CASE Receive(r)
    BY <2>1, <2>2 DEF Receive, Stops
  <2>3. CASE ~Receive(r)
    BY <2>1, <2>3 DEF Begin, LookedUp
  <2> QED
    BY <2>2, <2>3
<1>5. UNCHANGED <<operand, handling, network, total, crashed, calm>>
  BY DEF Begin, LookedUp, Receive
<1>6. inq' \in Seq(Line)
  BY <1>5 DEF TypeInv, network
<1> QED
  BY <1>2, <1>3, <1>4, <1>5, <1>6 DEF TypeInv, TypeOK, Counts, Stops, handling, network

\* The steps of the request.
LEMMA RequestTypes ==
  ASSUME TypeInv, NEW r \in Requests,
         Start(r) \/ Check(r) \/ Make(r) \/ EvalRange(r) \/ Leave(r) \/ Collect(r) \/ SendWho(r)
           \/ SendOnClosed(r)
  PROVE  TypeInv'
<1>1. ChanOf[r] \in Channels
  BY WhoReportConstants
<1>2. /\ rateLimit' = rateLimit /\ reporters' = reporters /\ inq' = inq
      /\ UNCHANGED <<closedWho, whoResult, limit, up, me, serverMe, count, drops, renames>>
  BY DEF Start, Check, Make, EvalRange, Leave, Collect, SendWho, SendOnClosed, handling, network, report
<1>3. Places'
  BY <1>2, PlacesSame DEF Inside, TypeInv
<1>4. pc' \in [Requests -> Stops]
  <2>1. pc \in [Requests -> Stops]
    BY DEF TypeInv, TypeOK, Stops
  <2> QED
    BY <2>1 DEF Start, Check, Make, EvalRange, Leave, Collect, SendWho, SendOnClosed, Stops
<1>5. TotalReport(ChanOf[r]) \in Int
  <2>1. \A n \in Names : whoResult[ChanOf[r]][n] \in Nat
    BY <1>1 DEF TypeInv, TypeOK
  <2> QED
    BY <1>1, <2>1, NamesAre, SMTT(30) DEF TotalReport, Listed
<1>6. /\ operand' \in [Requests -> Requests \cup {NoChan}]
      /\ whoChannel' \in [Channels -> Requests \cup {NoChan}]
      /\ who' \in [Requests -> {"none", "queued", "sent", "answered", "lost"}]
      /\ total' \in [Requests -> Int]
  <2>1. /\ operand \in [Requests -> Requests \cup {NoChan}]
        /\ whoChannel \in [Channels -> Requests \cup {NoChan}]
        /\ who \in [Requests -> {"none", "queued", "sent", "answered", "lost"}]
        /\ total \in [Requests -> Int]
    BY DEF TypeInv, TypeOK
  <2>2. CASE Start(r) \/ Check(r) \/ SendOnClosed(r)
    BY <2>1, <2>2 DEF Start, Check, SendOnClosed, handling, network, report
  <2>3. CASE Make(r)
    BY <2>1, <2>3 DEF Make, report
  <2>4. CASE EvalRange(r)
    BY <1>1, <2>1, <2>4 DEF EvalRange, handling, network, report
  <2>5. CASE Collect(r)
    BY <1>5, <2>1, <2>5 DEF Collect, handling, network
  <2>7. CASE Leave(r)
    BY <1>1, <2>1, <2>7 DEF Leave, network, report
  <2>6. CASE SendWho(r)
    BY <2>1, <2>6 DEF SendWho, handling, report
  <2> QED
    BY <2>2, <2>3, <2>4, <2>5, <2>6, <2>7
<1>7. crashed' \in BOOLEAN /\ calm' \in BOOLEAN
  <2>1. crashed \in BOOLEAN /\ calm \in BOOLEAN
    BY DEF TypeInv, TypeOK
  <2> QED
    BY <2>1, Zenon
    DEF Start, Check, Make, EvalRange, Leave, Collect, SendWho, SendOnClosed, report
<1> QED
  BY <1>2, <1>3, <1>4, <1>6, <1>7 DEF TypeInv, TypeOK, Stops

LEMMA SpawnTypes ==
  ASSUME TypeInv, NEW r \in Requests, Spawn(r)
  PROVE  TypeInv'
<1>1. ChanOf[r] \in Channels /\ me \in Names
  BY WhoReportConstants, NamesAre DEF TypeInv, TypeOK
<1>2. reporters[r] \in Counts /\ reporters \in [Requests -> Counts]
  BY ReporterCounts DEF TypeInv, TypeOK, Counts
<1>3. Listed(ChanOf[r]) - whoResult[ChanOf[r]][me] \in Nat
  <2>1. \A n \in Names : whoResult[ChanOf[r]][n] \in Nat
    BY <1>1 DEF TypeInv, TypeOK
  <2> QED
    BY <1>1, <2>1, NamesAre, SMTT(30) DEF Listed
<1>4. reporters' \in [Requests -> Counts]
  <2> DEFINE x == [waiting |-> Listed(ChanOf[r]) - whoResult[ChanOf[r]][me],
                   busy |-> reporters[r].busy, sending |-> reporters[r].sending]
  <2>1. x \in Counts
    BY <1>2, <1>3 DEF Counts
  <2>2. reporters' = [reporters EXCEPT ![r] = x]
    BY ReporterCounts DEF TypeInv
  <2> QED
    BY <1>2, <2>1, <2>2
<1>5. /\ pc' \in [Requests -> Stops]
      /\ whoResult' \in [Channels -> [Names -> Nat]]
      /\ UNCHANGED <<operand, whoChannel, closedWho, limit, network, total, count,
                 rateLimit, crashed, calm>>
  <2>1. /\ pc' = [pc EXCEPT ![r] = "gather"]
        /\ whoResult' = [whoResult EXCEPT ![ChanOf[r]] = Nobody]
        /\ UNCHANGED <<operand, whoChannel, closedWho, limit, network, total, count,
                       rateLimit, crashed, calm>>
    BY DEF Spawn
  <2>2. pc \in [Requests -> Stops] /\ "gather" \in Stops
    BY DEF TypeInv, TypeOK, Stops
  <2>3. whoResult \in [Channels -> [Names -> Nat]] /\ Nobody \in [Names -> Nat]
    BY DEF TypeInv, TypeOK, Nobody
  <2> QED
    BY <2>1, <2>2, <2>3
<1>6. Places'
  <2>1. \A q \in Requests : Inside(q)' = Inside(q)
    BY <1>2, ReporterCounts DEF Inside, Counts, TypeInv
  <2> QED
    BY <1>5, <2>1, PlacesSame DEF TypeInv
<1> QED
  BY <1>4, <1>5, <1>6 DEF TypeInv, TypeOK, Counts, Stops, network

\* The steps of the network and of the event loop.
LEMMA NetworkTypes ==
  ASSUME TypeInv, (\E r \in Requests : Reply(r)) \/ Rename \/ Drop \/ Reconnect \/ Handle
  PROVE  TypeInv'
<1>1. /\ rateLimit' = rateLimit /\ reporters' = reporters
      /\ UNCHANGED <<pc, operand, whoChannel, total, count, crashed>>
  BY DEF Reply, Rename, Drop, Reconnect, Handle, Handle352, Handle315, Panic315, HandleNick,
         handling, report
<1>2. Places'
  BY <1>1, PlacesSame DEF Inside, TypeInv
<1>3. inq' \in Seq(Line)
  <2>1. inq \in Seq(Line)
    BY DEF TypeInv, TypeOK, Line
  <2>2. ASSUME NEW r \in Requests, Reply(r) PROVE inq' \in Seq(Line)
    <3>1. ChanOf[r] \in Channels
      BY WhoReportConstants
    <3>2. ReplyOf(ChanOf[r]) \in Seq(Line)
      BY <3>1, ReplyLines
    <3> QED
      BY <2>1, <2>2, <3>2, ConcatProperties DEF Reply
  <2>3. CASE Rename
    <3>1. [cmd |-> "NICK", nick |-> NewNick] \in Line
      BY NamesAre DEF Line
    <3> QED
      BY <2>1, <2>3, <3>1 DEF Rename
  <2>4. CASE Drop
    <3>1. PICK k \in 0..Len(inq) : inq' = SubSeq(inq, 1, k)
      BY <2>4 DEF Drop
    <3>2. k \in Int /\ \A i \in 1..k : inq[i] \in Line
      BY <2>1
    <3> QED
      BY <3>1, <3>2, SubSeqProperties
  <2>5. CASE Reconnect
    BY <2>1, <2>5 DEF Reconnect
  <2>6. CASE Handle
    BY <2>6, HeadIsLine
    DEF Handle, Handle352, Handle315, Panic315, HandleNick, Next352, Next315, TypeInv
  <2> QED
    BY <2>2, <2>3, <2>4, <2>5, <2>6
<1>4. closedWho' \subseteq Requests /\ whoResult' \in [Channels -> [Names -> Nat]]
  <2>1. CASE Handle352
    <3>1. inq # <<>> /\ Head(inq).cmd # "NICK" /\ closedWho' = closedWho
      BY <2>1 DEF Handle352, Next352
    <3>2. Head(inq).chan \in Channels /\ Head(inq).nick \in Names
      BY <3>1, HeadIsLine
    <3>3. PICK c \in Channels, n \in Names : whoResult' = [whoResult EXCEPT ![c][n] = @ + 1]
      BY <2>1, <3>2 DEF Handle352
    <3>4. closedWho \subseteq Requests /\ whoResult \in [Channels -> [Names -> Nat]]
      BY DEF TypeInv, TypeOK
    <3> QED
      BY <3>1, <3>3, <3>4
  <2>2. CASE Handle315
    <3>1. /\ inq # <<>> /\ Head(inq).cmd # "NICK" /\ whoResult' = whoResult
          /\ closedWho' = closedWho \cup {whoChannel[Head(inq).chan]}
          /\ whoChannel[Head(inq).chan] # NoChan
      BY <2>2 DEF Handle315, Next315, Closable
    <3>2. Head(inq).chan \in Channels
      BY <3>1, HeadIsLine
    <3>3. whoChannel[Head(inq).chan] \in Requests
      BY <3>1, <3>2 DEF TypeInv, TypeOK
    <3>4. closedWho \subseteq Requests /\ whoResult \in [Channels -> [Names -> Nat]]
      BY DEF TypeInv, TypeOK
    <3> QED
      BY <3>1, <3>3, <3>4
  <2>3. CASE (\E r \in Requests : Reply(r)) \/ Rename \/ Drop \/ Reconnect \/ Panic315
             \/ HandleNick
    <3>1. closedWho' = closedWho /\ whoResult' = whoResult
      BY <2>3 DEF Reply, Rename, Drop, Reconnect, Panic315, HandleNick, handling
    <3> QED
      BY <3>1 DEF TypeInv, TypeOK
  <2> QED
    BY <2>1, <2>2, <2>3 DEF Handle
<1>5. me' \in {OldNick, NewNick} /\ serverMe' \in {OldNick, NewNick}
  <2>1. CASE HandleNick
    <3>1. Head(inq).nick \in {OldNick, NewNick}
      BY <2>1, HeadIsLine DEF HandleNick
    <3> QED
      BY <2>1, <3>1 DEF HandleNick, TypeInv, TypeOK
  <2>2. CASE ~HandleNick
    BY <2>2
    DEF Reply, Rename, Drop, Reconnect, Handle, Handle352, Handle315, Panic315, TypeInv, TypeOK
  <2> QED
    BY <2>1, <2>2
<1>6. /\ limit' \in BOOLEAN /\ up' \in BOOLEAN /\ calm' \in BOOLEAN
      /\ who' \in [Requests -> {"none", "queued", "sent", "answered", "lost"}]
      /\ drops' \in 0..MaxDrops /\ renames' \in 0..MaxRenames
  <2>1. calm \in BOOLEAN /\ limit \in BOOLEAN /\ up \in BOOLEAN
    BY DEF TypeInv, TypeOK
  <2>2. calm' \in BOOLEAN /\ limit' \in BOOLEAN /\ up' \in BOOLEAN
    BY <2>1, Zenon
    DEF Reply, Rename, Drop, Reconnect, Handle, Handle352, Handle315, Panic315, HandleNick,
        handling
  <2>3. who' \in [Requests -> {"none", "queued", "sent", "answered", "lost"}]
    BY DEF Reply, Rename, Drop, Reconnect, Handle, Handle352, Handle315, Panic315, HandleNick,
           TypeInv, TypeOK
  <2>4. drops' \in 0..MaxDrops /\ renames' \in 0..MaxRenames
    <3>1. /\ drops \in 0..MaxDrops /\ renames \in 0..MaxRenames
          /\ MaxDrops \in Nat /\ MaxRenames \in Nat
      BY WhoReportConstants DEF TypeInv, TypeOK
    <3>2. CASE Rename
      BY <3>1, <3>2 DEF Rename
    <3>3. CASE Drop
      BY <3>1, <3>3 DEF Drop
    <3>4. CASE ~Rename /\ ~Drop
      BY <3>1, <3>4
      DEF Reply, Reconnect, Handle, Handle352, Handle315, Panic315, HandleNick
    <3> QED
      BY <3>2, <3>3, <3>4
  <2> QED
    BY <2>2, <2>3, <2>4
<1>7. inq' \in Seq([cmd : {"352", "315"}, chan : Channels, nick : Names]
                     \cup [cmd : {"NICK"}, nick : Names])
  <2>1. Line \subseteq [cmd : {"352", "315"}, chan : Channels, nick : Names]
                        \cup [cmd : {"NICK"}, nick : Names]
    BY NamesAre DEF Line
  <2> QED
    BY <1>3, <2>1
<1> QED
  BY <1>1, <1>2, <1>3, <1>4, <1>5, <1>6, <1>7 DEF TypeInv, TypeOK

-----------------------------------------------------------------------------
(* What a step does not disturb.                                           *)

Same(q) ==
  /\ pc'[q] = pc[q] /\ who'[q] = who[q] /\ operand'[q] = operand[q]
  /\ reporters'[q] = reporters[q] /\ count'[q] = count[q] /\ total'[q] = total[q]
  /\ q \in closedWho' <=> q \in closedWho
SameChannel(c) == whoChannel'[c] = whoChannel[c] /\ whoResult'[c] = whoResult[c]
SameNet == inq' = inq /\ up' = up /\ serverMe' = serverMe

LEMMA Kept ==
  ASSUME NEW q \in Requests, Stage(q), Same(q), SameChannel(ChanOf[q]), SameNet
  PROVE  Stage(q)' /\ (Going(q)' <=> Going(q))
<1>1. \A c, d, e : whoResult'[c] = whoResult[c] /\ Block(c, d, e) => Block(c, d, e)'
  <2>1. \A c, d : ReplyOf(c)' = ReplyOf(c) /\ Seen(c, d)' = Seen(c, d)
    BY DEF SameNet, ReplyOf, Seen
  <2>2. \A c, i : IsFor(i, c)' <=> IsFor(i, c)
    BY DEF SameNet, IsFor, NickAt
  <2> QED
    BY <2>1, <2>2 DEF Block, SameNet
<1>2. \A c : (NoLines(c)' <=> NoLines(c)) /\ Members(c)' = Members(c)
  BY DEF NoLines, IsFor, NickAt, SameNet, Members
<1>3. NickSettled' <=> NickSettled
  BY DEF NickSettled, NickAt, SameNet
<1>4. (Idle(q)' <=> Idle(q)) /\ (Asking(q)' <=> Asking(q)) /\ Inside(q)' = Inside(q)
  BY DEF Idle, Asking, Same, SameChannel, Inside
<1>5. Before(q) => Before(q)'
  BY <1>4 DEF Before, Same
<1>6. Asked(q) => Asked(q)'
  BY <1>2, <1>4 DEF Asked, Same, SameChannel
<1>7. Answered(q) => Answered(q)'
  BY <1>1, <1>4 DEF Answered, Same, SameChannel, SameNet
<1>8. Listing(q) => Listing(q)'
  BY <1>2, <1>3 DEF Listing, Same, SameChannel
<1>9. Counted(q) \/ Closed(q) => (Counted(q) \/ Closed(q))'
  BY <1>4, <1>8 DEF Counted, Closed, Same, SameChannel
<1>10. Gathering(q) => Gathering(q)'
  BY <1>2, <1>4 DEF Gathering, Same, SameChannel
<1>11. Done(q) => Done(q)'
  BY DEF Done, Same
<1>12. Going(q)' <=> Going(q)
  BY DEF Going, Same
<1> QED
  BY <1>5, <1>6, <1>7, <1>9, <1>10, <1>11, <1>12 DEF Stage

\* A request that is not under way depends on nothing else.
LEMMA KeptAside ==
  ASSUME NEW q \in Requests, Stage(q), Same(q), ~Going(q)
  PROVE  Stage(q)' /\ ~Going(q)' /\ (Before(q) \/ Done(q))
<1>1. Before(q) \/ Done(q)
  BY DEF Stage, Asked, Answered, Closed, Counted, Gathering, Asking, Going
<1>2. Before(q) => Before(q)'
  BY DEF Before, Same, Idle
<1>3. Done(q) => Done(q)'
  BY DEF Done, Same
<1> QED
  BY <1>1, <1>2, <1>3 DEF Stage, Going, Same

\* A step of r that leaves the network alone, and of the channels only its own.
LEMMA RequestStep ==
  ASSUME CalmNow, NEW r \in Requests, Stage(r)', SameNet, me' = me, limit' = limit, ~crashed',
         \A q \in Requests \ {r} : Same(q),
         \A c \in Channels \ {ChanOf[r]} : SameChannel(c),
         \/ SameChannel(ChanOf[r]) \/ Going(r)
         \/ \A q \in Requests \ {r} : ChanOf[q] = ChanOf[r] => ~Going(q),
         Going(r)' => \/ Going(r)
                      \/ \A q \in Requests \ {r} : ChanOf[q] = ChanOf[r] => ~Going(q),
         Going(r)' \/ Resting(ChanOf[r])' \/ (~Going(r) /\ SameChannel(ChanOf[r]))
  PROVE  CalmNow'
<1>1. \A q \in Requests : ChanOf[q] \in Channels
  BY WhoReportConstants
<1>2. ASSUME NEW q \in Requests \ {r} PROVE Stage(q)' /\ (Going(q)' <=> Going(q))
  <2>1. CASE SameChannel(ChanOf[q])
    BY <1>2, <2>1, Kept DEF CalmNow, Stages
  <2>2. CASE ~SameChannel(ChanOf[q])
    <3>1. ChanOf[q] = ChanOf[r] /\ ~Going(q)
      BY <1>1, <2>2 DEF CalmNow, OneAtATime
    <3> QED
      BY <1>2, <3>1, KeptAside DEF CalmNow, Stages
  <2> QED
    BY <2>1, <2>2
<1>3. Stages'
  BY <1>2 DEF Stages
<1>4. OneAtATime'
  BY <1>2 DEF OneAtATime, CalmNow
<1>5. AtRest'
  <2> SUFFICES ASSUME NEW c \in Channels, \A q \in Requests : ChanOf[q] = c => ~Going(q)'
               PROVE  Resting(c)'
    BY DEF AtRest
  <2>1. NoLines(c)' <=> NoLines(c)
    BY DEF NoLines, IsFor, NickAt, SameNet
  <2>2. CASE \A q \in Requests : ChanOf[q] = c => ~Going(q)
    <3>1. Resting(c)
      BY <2>2 DEF CalmNow, AtRest
    <3>2. CASE c = ChanOf[r]
      BY <1>1, <2>1, <3>1, <3>2 DEF Resting, SameChannel
    <3>3. CASE c # ChanOf[r]
      BY <2>1, <3>1, <3>3 DEF Resting, SameChannel
    <3> QED
      BY <3>2, <3>3
  <2>3. CASE ~\A q \in Requests : ChanOf[q] = c => ~Going(q)
    BY <1>2, <2>3
  <2> QED
    BY <2>2, <2>3
<1>6. NicksFirst' /\ (NickSettled' => me' = serverMe')
  BY DEF NicksFirst, NickSettled, NickAt, SameNet, CalmNow
<1> QED
  BY <1>3, <1>4, <1>5, <1>6 DEF CalmNow

-----------------------------------------------------------------------------
(* The steps of a request.                                                 *)

LEMMA StartCalm ==
  ASSUME TypeInv, CalmNow, NEW r \in Requests, Start(r) \/ Check(r)
  PROVE  CalmNow'
<1>1. /\ pc[r] \in {"idle", "check"} /\ ~crashed /\ SameNet
      /\ \E p \in {"check", "make", "turnedAway"} : pc' = [pc EXCEPT ![r] = p]
      /\ UNCHANGED <<operand, handling, network, report>>
  BY DEF Start, Check, SameNet, network
<1>2. PICK p \in {"check", "make", "turnedAway"} : pc' = [pc EXCEPT ![r] = p]
  BY <1>1
<1>3. pc'[r] = p /\ \A q \in Requests \ {r} : pc'[q] = pc[q]
  BY <1>2 DEF TypeInv, TypeOK
<1>4. Before(r) /\ ~Going(r)
  BY <1>1 DEF CalmNow, Stages, Stage, Before, Asked, Answered, Closed, Counted, Gathering, Done,
              Asking, Going
<1>5. Before(r)'
  BY <1>1, <1>3, <1>4 DEF Before, Idle, handling, network, report
<1>6. (\A q \in Requests \ {r} : Same(q)) /\ \A c : SameChannel(c)
  BY <1>1, <1>3 DEF Same, SameChannel, handling, network, report
<1>7. ~Going(r)' /\ Stage(r)'
  BY <1>5 DEF Going, Before, Stage
<1>8. me' = me /\ limit' = limit /\ ~crashed'
  BY <1>1 DEF handling, network, report
<1> QED
  BY <1>1, <1>4, <1>6, <1>7, <1>8, RequestStep

LEMMA MakeCalm ==
  ASSUME TypeInv, CalmNow, NEW r \in Requests, Make(r), calm'
  PROVE  CalmNow'
<1> DEFINE c == ChanOf[r]
<1>1. /\ pc[r] = "make" /\ ~crashed
      /\ whoChannel' = [whoChannel EXCEPT ![c] = r] /\ who' = [who EXCEPT ![r] = "queued"]
      /\ pc' = [pc EXCEPT ![r] = "range"]
      /\ \A q \in Requests \ {r} : ChanOf[q] = c => ~Active(q)
      /\ UNCHANGED <<operand, closedWho, whoResult, limit, inq, up, me, serverMe,
                     drops, renames, report>>
  BY DEF Make
<1>2. c \in Channels /\ r # NoChan
  BY WhoReportConstants
<1>3. /\ pc'[r] = "range" /\ who'[r] = "queued" /\ whoChannel'[c] = r
      /\ \A q \in Requests \ {r} : pc'[q] = pc[q] /\ who'[q] = who[q]
      /\ \A d \in Channels \ {c} : whoChannel'[d] = whoChannel[d]
  BY <1>1, <1>2 DEF TypeInv, TypeOK
<1>4. Before(r) /\ ~Going(r)
  BY <1>1 DEF CalmNow, Stages, Stage, Before, Asked, Answered, Closed, Counted, Gathering, Done,
              Asking, Going
<1>5. \A q \in Requests \ {r} : ChanOf[q] = c => ~Going(q)
  BY <1>1 DEF Active, Ended, Going
<1>6. Resting(c)
  BY <1>2, <1>4, <1>5 DEF CalmNow, AtRest
<1>7. Asked(r)'
  BY <1>1, <1>3, <1>4, <1>6
  DEF Asked, Asking, Before, Idle, Resting, NoLines, IsFor, NickAt, report
<1>8. Going(r)' /\ Stage(r)'
  BY <1>3, <1>7 DEF Going, Stage
<1>9. /\ \A q \in Requests \ {r} : Same(q)
      /\ \A d \in Channels \ {c} : SameChannel(d)
      /\ SameNet /\ me' = me /\ limit' = limit /\ ~crashed'
  BY <1>1, <1>3 DEF Same, SameChannel, SameNet, report
<1> QED
  BY <1>5, <1>8, <1>9, RequestStep

LEMMA EvalRangeCalm ==
  ASSUME TypeInv, CalmNow, NEW r \in Requests, EvalRange(r)
  PROVE  CalmNow'
<1>1. /\ pc[r] = "range" /\ ~crashed
      /\ operand' = [operand EXCEPT ![r] = whoChannel[ChanOf[r]]]
      /\ pc' = [pc EXCEPT ![r] = "wait"]
      /\ UNCHANGED <<handling, network, report>>
  BY DEF EvalRange
<1>2. /\ pc'[r] = "wait" /\ operand'[r] = whoChannel[ChanOf[r]]
      /\ \A q \in Requests \ {r} : pc'[q] = pc[q] /\ operand'[q] = operand[q]
  BY <1>1 DEF TypeInv, TypeOK
<1>3. (Asked(r) \/ Answered(r) \/ Closed(r)) /\ Going(r) /\ Going(r)'
  BY <1>1, <1>2 DEF CalmNow, Stages, Stage, Before, Counted, Gathering, Done, Going
<1>4. Asking(r)'
  BY <1>1, <1>2, <1>3 DEF Asked, Answered, Closed, Asking, Idle, handling, report
<1>5. Asked(r) => Asked(r)'
  BY <1>1, <1>4 DEF Asked, NoLines, IsFor, NickAt, handling, network
<1>6. Answered(r) => Answered(r)'
  <2>1. \A d, e : Block(ChanOf[r], d, e)' <=> Block(ChanOf[r], d, e)
    <3>1. \A c, d : ReplyOf(c)' = ReplyOf(c) /\ Seen(c, d)' = Seen(c, d)
      BY <1>1 DEF network, ReplyOf, Seen
    <3>2. \A c, i : IsFor(i, c)' <=> IsFor(i, c)
      BY <1>1 DEF network, IsFor, NickAt
    <3> QED
      BY <1>1, <3>1, <3>2 DEF Block, handling, network
  <2> QED
    BY <1>1, <1>4, <2>1 DEF Answered, handling, network
<1>7. Closed(r) => Closed(r)'
  BY <1>1, <1>4
  DEF Closed, Listing, NoLines, NickSettled, IsFor, NickAt, Members, handling, network
<1>8. Stage(r)'
  BY <1>3, <1>5, <1>6, <1>7 DEF Stage
<1>9. (\A q \in Requests \ {r} : Same(q)) /\ (\A c : SameChannel(c))
      /\ SameNet /\ me' = me /\ limit' = limit /\ ~crashed'
  BY <1>1, <1>2 DEF Same, SameChannel, SameNet, handling, network, report
<1> QED
  BY <1>3, <1>8, <1>9, RequestStep

LEMMA MembersCount ==
  ASSUME TypeInv, NEW c \in Channels, whoResult[c] = Members(c)
  PROVE  Listed(c) = NumOthers[c] + 1 /\ TotalReport(c) = NumOthers[c]
         /\ whoResult[c][serverMe] = 1 /\ NumOthers[c] \in Nat
<1>1. /\ NumOthers[c] \in Nat /\ serverMe \in {OldNick, NewNick}
      /\ Names = {Other, OldNick, NewNick}
      /\ Other # OldNick /\ Other # NewNick /\ OldNick # NewNick
  BY NamesAre, WhoReportConstants DEF TypeInv, TypeOK
<1>2. \A n \in Names : whoResult[c][n] = IF n = Other THEN NumOthers[c]
                                         ELSE IF n = serverMe THEN 1 ELSE 0
  BY DEF Members
<1>3. CASE serverMe = OldNick
  BY <1>1, <1>2, <1>3 DEF Listed, TotalReport
<1>4. CASE serverMe = NewNick
  BY <1>1, <1>2, <1>4 DEF Listed, TotalReport
<1> QED
  BY <1>1, <1>3, <1>4

LEMMA LeaveCalm ==
  ASSUME TypeInv, CalmNow, NEW r \in Requests, Leave(r)
  PROVE  CalmNow'
<1> DEFINE c == ChanOf[r]
<1>1. /\ pc[r] = "wait" /\ operand[r] \in closedWho /\ ~crashed
      /\ whoChannel' = [whoChannel EXCEPT ![c] = NoChan]
      /\ pc' = [pc EXCEPT ![r] = "collect"]
      /\ UNCHANGED <<operand, closedWho, whoResult, limit, network, report, calm>>
  BY DEF Leave
<1>2. c \in Channels
  BY WhoReportConstants
<1>3. /\ pc'[r] = "collect" /\ whoChannel'[c] = NoChan
      /\ \A q \in Requests \ {r} : pc'[q] = pc[q]
      /\ \A d \in Channels \ {c} : whoChannel'[d] = whoChannel[d]
  BY <1>1, <1>2 DEF TypeInv, TypeOK
<1>4. Closed(r) /\ Going(r) /\ Going(r)'
  BY <1>1, <1>3 DEF CalmNow, Stages, Stage, Before, Asked, Answered, Asking, Counted, Gathering,
                    Done, Going
<1>5. Idle(r)' /\ Listing(r)'
  BY <1>1, <1>4
  DEF Closed, Asking, Idle, Listing, NoLines, NickSettled, IsFor, NickAt, Members, network, report
<1>6. Stage(r)'
  BY <1>3, <1>5 DEF Counted, Stage
<1>7. /\ \A q \in Requests \ {r} : Same(q)
      /\ \A d \in Channels \ {c} : SameChannel(d)
      /\ SameNet /\ me' = me /\ limit' = limit /\ ~crashed'
  BY <1>1, <1>3 DEF Same, SameChannel, SameNet, network, report
<1> QED
  BY <1>4, <1>6, <1>7, RequestStep

LEMMA CollectCalm ==
  ASSUME TypeInv, CalmNow, NEW r \in Requests, Collect(r)
  PROVE  CalmNow'
<1> DEFINE c == ChanOf[r]
<1>1. /\ pc[r] = "collect" /\ ~crashed
      /\ total' = [total EXCEPT ![r] = TotalReport(c)]
      /\ pc' = [pc EXCEPT ![r] = "spawn"]
      /\ UNCHANGED <<operand, handling, network, count, reporters, rateLimit, crashed, calm>>
  BY DEF Collect
<1>2. c \in Channels
  BY WhoReportConstants
<1>3. /\ pc'[r] = "spawn" /\ total'[r] = TotalReport(c)
      /\ \A q \in Requests \ {r} : pc'[q] = pc[q] /\ total'[q] = total[q]
  BY <1>1, <1>2 DEF TypeInv, TypeOK
<1>4. Counted(r) /\ Going(r) /\ Going(r)'
  BY <1>1, <1>3 DEF CalmNow, Stages, Stage, Before, Asked, Answered, Asking, Closed, Gathering,
                    Done, Going
<1>5. Idle(r)' /\ Listing(r)'
  BY <1>1, <1>4
  DEF Counted, Idle, Listing, NoLines, NickSettled, IsFor, NickAt, Members, handling, network
<1>6. total'[r] = NumOthers[c]
  BY <1>2, <1>3, <1>4, MembersCount DEF Counted, Listing
<1>7. Stage(r)'
  BY <1>1, <1>3, <1>4, <1>5, <1>6 DEF Counted, Stage, handling
<1>8. /\ \A q \in Requests \ {r} : Same(q)
      /\ \A d \in Channels \ {c} : SameChannel(d)
      /\ SameNet /\ me' = me /\ limit' = limit /\ ~crashed'
  BY <1>1, <1>3 DEF Same, SameChannel, SameNet, handling, network
<1> QED
  BY <1>4, <1>7, <1>8, RequestStep

LEMMA SpawnCalm ==
  ASSUME TypeInv, CalmNow, NEW r \in Requests, Spawn(r)
  PROVE  CalmNow'
<1> DEFINE c == ChanOf[r]
<1>1. /\ pc[r] = "spawn" /\ ~crashed
      /\ whoResult' = [whoResult EXCEPT ![c] = Nobody]
      /\ pc' = [pc EXCEPT ![r] = "gather"]
      /\ UNCHANGED <<operand, whoChannel, closedWho, limit, network, total, count,
                     rateLimit, crashed, calm>>
  BY DEF Spawn
<1>2. c \in Channels /\ reporters \in [Requests -> Counts] /\ reporters[r] \in Counts
  BY WhoReportConstants DEF TypeInv, TypeOK, Counts
<1>3. /\ pc'[r] = "gather" /\ whoResult'[c] = Nobody
      /\ \A q \in Requests \ {r} : pc'[q] = pc[q]
      /\ \A d \in Channels \ {c} : whoResult'[d] = whoResult[d]
  BY <1>1, <1>2 DEF TypeInv, TypeOK
<1>4. Counted(r) /\ Going(r) /\ Going(r)'
  BY <1>1, <1>3 DEF CalmNow, Stages, Stage, Before, Asked, Answered, Closed, Asking, Gathering,
                    Done, Going
<1>5. me = serverMe /\ whoResult[c] = Members(c)
  BY <1>4 DEF Counted, Listing, CalmNow
<1>6. Listed(c) - whoResult[c][me] = NumOthers[c] /\ NumOthers[c] \in Nat
  BY <1>2, <1>5, MembersCount
<1>7. reporters' = [reporters EXCEPT ![r] = [waiting |-> NumOthers[c],
                      busy |-> reporters[r].busy, sending |-> reporters[r].sending]]
  BY <1>6, ReporterCounts DEF TypeInv
<1>8. reporters'[r] = [waiting |-> NumOthers[c], busy |-> 0, sending |-> 0] /\ count[r] = 0
      /\ \A q \in Requests \ {r} : reporters'[q] = reporters[q]
  BY <1>2, <1>4, <1>7 DEF Counted, Idle
<1>9. Gathering(r)'
  BY <1>1, <1>3, <1>4, <1>6, <1>8
  DEF Counted, Listing, Gathering, Inside, NoLines, IsFor, NickAt, network
<1>10. Stage(r)'
  BY <1>9 DEF Stage
<1>11. /\ \A q \in Requests \ {r} : Same(q)
       /\ \A d \in Channels \ {c} : SameChannel(d)
       /\ SameNet /\ me' = me /\ limit' = limit /\ ~crashed'
  BY <1>1, <1>3, <1>8 DEF Same, SameChannel, SameNet, network
<1> QED
  BY <1>4, <1>10, <1>11, RequestStep

\* Only a request that gathers has reporters.
LEMMA ReporterCalm ==
  ASSUME TypeInv, CalmNow, NEW r \in Requests, Begin(r) \/ LookedUp(r) \/ Receive(r)
  PROVE  CalmNow'
<1> DEFINE n == reporters[r]
<1>1. n \in Counts /\ reporters \in [Requests -> Counts] /\ count[r] \in Nat
  BY DEF TypeInv, TypeOK, Counts
<1>2. /\ n.waiting > 0 \/ n.busy > 0 \/ n.sending > 0
      /\ SameNet /\ (\A c : SameChannel(c)) /\ me' = me /\ limit' = limit
      /\ ~crashed' /\ UNCHANGED <<operand, closedWho, who, total>>
  BY DEF Begin, LookedUp, Receive, SameNet, SameChannel, handling, network
<1>3. Gathering(r) /\ Going(r)
  BY <1>1, <1>2
  DEF CalmNow, Stages, Stage, Before, Asked, Answered, Closed, Counted, Asking, Idle, Done,
      Gathering, Going, Counts
<1>4. \A q \in Requests \ {r} : Same(q)
  BY <1>1, <1>2 DEF Begin, LookedUp, Receive, Same, TypeInv, TypeOK
<1>5. \A c : NoLines(c)' <=> NoLines(c)
  BY <1>2 DEF NoLines, IsFor, NickAt, SameNet
<1>6. CASE Begin(r) \/ LookedUp(r)
  <2>1. /\ pc' = pc /\ count' = count
        /\ reporters'[r].waiting + Inside(r)' = n.waiting + Inside(r)
    <3>1. CASE Begin(r)
      <4>1. reporters'[r] = [waiting |-> n.waiting - 1, busy |-> n.busy + 1, sending |-> n.sending]
        BY <1>1, <3>1, ReporterCounts DEF TypeInv
      <4> QED
        BY <1>1, <3>1, <4>1 DEF Begin, Inside, Counts
    <3>2. CASE LookedUp(r)
      <4>1. reporters'[r] = [waiting |-> n.waiting, busy |-> n.busy - 1, sending |-> n.sending + 1]
        BY <1>1, <3>2, ReporterCounts DEF TypeInv
      <4> QED
        BY <1>1, <3>2, <4>1 DEF LookedUp, Inside, Counts
    <3> QED
      BY <1>6, <3>1, <3>2
  <2>2. /\ Inside(r) \in Int /\ Inside(r)' \in Int
        /\ n.waiting \in Int /\ reporters'[r].waiting \in Int
    <3>1. TypeInv'
      BY ReporterTypes
    <3>2. reporters'[r] \in Counts
      BY <3>1 DEF TypeInv, TypeOK, Counts
    <3> QED
      BY <1>1, <3>2 DEF Counts, Inside
  <2>3. Gathering(r)'
    BY <1>1, <1>2, <1>3, <1>5, <2>1, <2>2 DEF Gathering, SameChannel
  <2>4. Stage(r)' /\ Going(r)'
    BY <2>3 DEF Stage, Gathering, Going
  <2> QED
    BY <1>2, <1>3, <1>4, <2>4, RequestStep
<1>7. CASE Receive(r)
  <2>1. /\ reporters'[r] = [waiting |-> n.waiting, busy |-> n.busy, sending |-> n.sending - 1]
        /\ count'[r] = count[r] + 1 /\ n.sending > 0
        /\ pc'[r] = IF count[r] + 1 = total[r] THEN "done" ELSE "gather"
    <3>1. reporters'[r] = [waiting |-> n.waiting, busy |-> n.busy, sending |-> n.sending - 1]
      BY <1>1, <1>7, ReporterCounts DEF TypeInv
    <3>2. /\ count'[r] = count[r] + 1 /\ n.sending > 0
          /\ pc'[r] = IF count[r] + 1 = total[r] THEN "done" ELSE "gather"
      BY <1>7 DEF Receive, TypeInv, TypeOK
    <3> QED
      BY <3>1, <3>2
  <2>2. total[r] = count'[r] + reporters'[r].waiting + Inside(r)'
    BY <1>1, <1>3, <2>1 DEF Gathering, Inside, Counts
  <2>3. CASE count[r] + 1 = total[r]
    <3>1. n.waiting = 0 /\ n.busy = 0 /\ n.sending = 1
      BY <1>1, <1>3, <2>1, <2>3 DEF Gathering, Inside, Counts
    <3>2. Done(r)'
      BY <1>2, <1>3, <2>1, <2>3, <3>1 DEF Gathering, Done
    <3>3. Resting(ChanOf[r])' /\ ~Going(r)' /\ Stage(r)'
      BY <1>2, <1>3, <1>5, <3>2 DEF Gathering, Resting, SameChannel, Done, Going, Stage
    <3> QED
      BY <1>2, <1>3, <1>4, <3>3, RequestStep
  <2>4. CASE count[r] + 1 # total[r]
    <3>1. Gathering(r)'
      BY <1>2, <1>3, <1>5, <2>1, <2>2, <2>4 DEF Gathering, SameChannel
    <3>2. Stage(r)' /\ Going(r)'
      BY <3>1 DEF Stage, Gathering, Going
    <3> QED
      BY <1>2, <1>3, <1>4, <3>2, RequestStep
  <2> QED
    BY <2>3, <2>4
<1> QED
  BY <1>6, <1>7

LEMMA NoneLeftBehind ==
  ASSUME TypeInv, CalmNow, NEW r \in Requests
  PROVE  ~SendOnClosed(r)
BY DEF SendOnClosed, CalmNow, Stages, Stage, Before, Asked, Answered, Closed, Counted,
       Gathering, Asking, Done

LEMMA SendWhoCalm ==
  ASSUME TypeInv, CalmNow, NEW r \in Requests, SendWho(r)
  PROVE  CalmNow'
<1>1. /\ who[r] = "queued" /\ who' = [who EXCEPT ![r] = "sent"]
      /\ UNCHANGED <<pc, operand, handling, inq, up, me, serverMe, drops, renames, report>>
  BY DEF SendWho
<1>2. who'[r] = "sent" /\ \A q \in Requests \ {r} : who'[q] = who[q]
  BY <1>1 DEF TypeInv, TypeOK
<1>3. Asked(r) /\ Going(r)
  BY <1>1 DEF CalmNow, Stages, Stage, Before, Answered, Closed, Counted, Listing, Gathering,
              Done, Asked, Asking, Going
<1>4. Asked(r)' /\ Going(r)'
  BY <1>1, <1>2, <1>3
  DEF Asked, Asking, Idle, Going, NoLines, IsFor, NickAt, handling, report
<1>5. Stage(r)'
  BY <1>4 DEF Stage
<1>6. (\A q \in Requests \ {r} : Same(q)) /\ (\A c : SameChannel(c))
      /\ SameNet /\ me' = me /\ limit' = limit /\ ~crashed'
  BY <1>1, <1>2 DEF Same, SameChannel, SameNet, handling, report, CalmNow
<1> QED
  BY <1>3, <1>4, <1>5, <1>6, RequestStep

-----------------------------------------------------------------------------
(* The steps of the network.                                               *)

\* The reply comes behind what is in the queue already.
LEMMA KeptBehind ==
  ASSUME NEW q \in Requests, Stage(q), Same(q), SameChannel(ChanOf[q]),
         up' = up, serverMe' = serverMe,
         NumOthers[ChanOf[q]] \in Nat, Len(inq) \in Nat, Len(inq') \in Nat,
         Len(inq') >= Len(inq),
         \A i \in 1..Len(inq) : inq'[i] = inq[i],
         \A i \in Len(inq) + 1..Len(inq') : inq'[i].cmd # "NICK" /\ inq'[i].chan # ChanOf[q]
  PROVE  Stage(q)' /\ (Going(q)' <=> Going(q))
<1> DEFINE c == ChanOf[q]
<1>1. \A i \in 1..Len(inq) : IsFor(i, c)' <=> IsFor(i, c)
  BY DEF IsFor, NickAt
<1>2. \A i \in Len(inq) + 1..Len(inq') : ~IsFor(i, c)' /\ ~NickAt(i)'
  BY DEF IsFor, NickAt
<1>3. 1..Len(inq') = (1..Len(inq)) \cup (Len(inq) + 1..Len(inq'))
  OBVIOUS
<1>4. NoLines(c) => NoLines(c)'
  BY <1>1, <1>2, <1>3 DEF NoLines
<1>5. NickSettled => NickSettled'
  BY <1>2, <1>3 DEF NickSettled, NickAt
<1>6. ASSUME NEW d \in 0..NumOthers[c] + 1, NEW e \in 0..Len(inq), Block(c, d, e)
      PROVE  Block(c, d, e)'
  <2>1. \A k : ReplyOf(c)'[k] = ReplyOf(c)[k] /\ Seen(c, d)' = Seen(c, d)
    BY DEF ReplyOf, Seen
  <2>2. \A i \in 1..Len(inq) : IF e < i /\ i <= e + NumOthers[c] + 2 - d
                               THEN inq'[i] = ReplyOf(c)'[i - e + d] ELSE ~IsFor(i, c)'
    BY <1>1, <1>6, <2>1 DEF Block
  <2>3. \A i \in Len(inq) + 1..Len(inq') : ~(i <= e + NumOthers[c] + 2 - d)
    BY <1>6 DEF Block
  <2>4. \A i \in 1..Len(inq') : IF e < i /\ i <= e + NumOthers[c] + 2 - d
                                THEN inq'[i] = ReplyOf(c)'[i - e + d] ELSE ~IsFor(i, c)'
    BY <1>2, <1>3, <2>2, <2>3
  <2> QED
    BY <1>6, <2>1, <2>4 DEF Block, SameChannel
<1>7. (Idle(q)' <=> Idle(q)) /\ (Asking(q)' <=> Asking(q)) /\ Inside(q)' = Inside(q)
  BY DEF Idle, Asking, Same, SameChannel, Inside
<1>8. Before(q) => Before(q)'
  BY <1>7 DEF Before, Same
<1>9. Asked(q) => Asked(q)'
  BY <1>4, <1>7 DEF Asked, Same, SameChannel
<1>10. Answered(q) => Answered(q)'
  <2> SUFFICES ASSUME Answered(q) PROVE Answered(q)'
    OBVIOUS
  <2>1. PICK d \in 0..NumOthers[c] + 1, e \in 0..Len(inq) : Block(c, d, e)
    BY DEF Answered
  <2>2. Block(c, d, e)' /\ e \in 0..Len(inq')
    BY <1>6, <2>1
  <2>3. \E f \in 0..NumOthers[c] + 1, g \in 0..Len(inq') : Block(c, f, g)'
    BY <2>1, <2>2
  <2> QED
    BY <1>7, <2>3 DEF Answered, Same
<1>11. Listing(q) => Listing(q)'
  BY <1>4, <1>5 DEF Listing, Same, SameChannel, Members
<1>12. Counted(q) \/ Closed(q) => (Counted(q) \/ Closed(q))'
  BY <1>7, <1>11 DEF Counted, Closed, Same, SameChannel
<1>13. Gathering(q) => Gathering(q)'
  BY <1>4, <1>7 DEF Gathering, Same, SameChannel
<1>14. Done(q) => Done(q)'
  BY DEF Done, Same
<1>15. Going(q)' <=> Going(q)
  BY DEF Going, Same
<1> QED
  BY <1>8, <1>9, <1>10, <1>12, <1>13, <1>14, <1>15 DEF Stage

LEMMA ReplyCalm ==
  ASSUME TypeInv, CalmNow, NEW r \in Requests, Reply(r)
  PROVE  CalmNow'
<1> DEFINE c == ChanOf[r]
           n == NumOthers[c]
<1>1. /\ up /\ who[r] = "sent" /\ inq' = inq \o ReplyOf(c)
      /\ who' = [who EXCEPT ![r] = "answered"]
      /\ UNCHANGED <<pc, operand, handling, up, me, serverMe, drops, renames, report, calm>>
  BY DEF Reply
<1>2. c \in Channels /\ n \in Nat /\ inq \in Seq(Line)
  BY WhoReportConstants DEF TypeInv
<1>3. who'[r] = "answered" /\ \A q \in Requests \ {r} : who'[q] = who[q]
  BY <1>1 DEF TypeInv, TypeOK
<1>4. /\ ReplyOf(c) \in Seq(Line) /\ Len(ReplyOf(c)) = n + 2
      /\ \A i \in 1..n + 2 : ReplyOf(c)[i].chan = c /\ ReplyOf(c)[i].cmd # "NICK"
  BY <1>2, ReplyLines
<1>5. /\ Len(inq) \in Nat /\ Len(inq') = Len(inq) + n + 2
      /\ \A i \in 1..Len(inq') :
           inq'[i] = IF i <= Len(inq) THEN inq[i] ELSE ReplyOf(c)[i - Len(inq)]
  <2> DEFINE s == ReplyOf(c)
  <2>1. s \in Seq(Line) /\ Len(s) = n + 2
    BY <1>4
  <2> HIDE DEF s
  <2>2. /\ Len(inq \o s) = Len(inq) + Len(s)
        /\ \A i \in 1..Len(inq) + Len(s) : (inq \o s)[i] =
             IF i <= Len(inq) THEN inq[i] ELSE s[i - Len(inq)]
    BY <1>2, <2>1, ConcatProperties
  <2>3. inq' = inq \o s /\ Len(inq) \in Nat
    BY <1>1, <1>2 DEF s
  <2> HIDE DEF n
  <2>4. /\ Len(inq') = Len(inq) + n + 2
        /\ \A i \in 1..Len(inq') : inq'[i] = IF i <= Len(inq) THEN inq[i] ELSE s[i - Len(inq)]
    BY <1>2, <2>1, <2>2, <2>3
  <2> QED
    BY <2>3, <2>4 DEF s
<1>6. /\ \A i \in 1..Len(inq) : inq'[i] = inq[i]
      /\ \A i \in Len(inq) + 1..Len(inq') : inq'[i] = ReplyOf(c)[i - Len(inq)]
      /\ \A i \in Len(inq) + 1..Len(inq') : inq'[i].cmd # "NICK" /\ inq'[i].chan = c
  <2> HIDE DEF n
  <2>1. \A i \in 1..Len(inq) : inq'[i] = inq[i]
    BY <1>2, <1>5
  <2>2. ASSUME NEW i \in Len(inq) + 1..Len(inq')
        PROVE  inq'[i] = ReplyOf(c)[i - Len(inq)] /\ i - Len(inq) \in 1..n + 2
    BY <1>2, <1>5
  <2> QED
    BY <1>4, <2>1, <2>2
<1>7. 1..Len(inq') = (1..Len(inq)) \cup (Len(inq) + 1..Len(inq'))
  BY <1>2, <1>5
<1>8. Asked(r) /\ Going(r) /\ Going(r)'
  BY <1>1 DEF CalmNow, Stages, Stage, Before, Answered, Closed, Counted, Listing, Gathering,
              Done, Asked, Asking, Going
<1>9. Stage(r)'
  <2>1. Asking(r)' /\ r \notin closedWho' /\ up'
    BY <1>1, <1>8 DEF Asked, Asking, Idle, handling, report
  <2>2. ASSUME NEW e \in 0..Len(inq), e = Len(inq) PROVE Block(c, 0, e)'
    <3>1. whoResult'[c] = Seen(c, 0)'
      <4>1. whoResult'[c] = Nobody
        BY <1>1, <1>8 DEF Asked, handling
      <4>2. Seen(c, 0)' = [m \in Names |-> 0]
        BY <1>2 DEF Seen
      <4> QED
        BY <4>1, <4>2 DEF Nobody
    <3>2. ReplyOf(c)' = ReplyOf(c)
      BY <1>1 DEF ReplyOf
    <3>3. \A i \in 1..Len(inq') :
            IF e < i /\ i <= e + n + 2 - 0
            THEN inq'[i] = ReplyOf(c)[i - e + 0] ELSE ~IsFor(i, c)'
      <4>1. \A i \in 1..Len(inq) : ~IsFor(i, c)'
        BY <1>6, <1>8 DEF Asked, NoLines, IsFor, NickAt
      <4>2. \A i \in Len(inq) + 1..Len(inq') :
              e < i /\ i <= e + n + 2 - 0 /\ inq'[i] = ReplyOf(c)[i - e + 0]
        BY <1>2, <1>5, <1>6, <2>2
      <4> QED
        BY <1>7, <2>2, <4>1, <4>2
    <3> QED
      BY <1>2, <1>5, <2>2, <3>1, <3>2, <3>3 DEF Block
  <2>3. \E d \in 0..n + 1, e \in 0..Len(inq') : Block(c, d, e)'
    <3>1. Len(inq) \in 0..Len(inq) /\ 0 \in 0..n + 1 /\ \A e \in 0..Len(inq) : e \in 0..Len(inq')
      BY <1>2, <1>5
    <3> QED
      BY <2>2, <3>1
  <2>4. Answered(r)'
    BY <1>3, <2>1, <2>3 DEF Answered
  <2> QED
    BY <2>4 DEF Stage
<1>10. ASSUME NEW q \in Requests \ {r} PROVE Stage(q)' /\ (Going(q)' <=> Going(q))
  <2>1. Same(q) /\ SameChannel(ChanOf[q]) /\ Stage(q)
    BY <1>1, <1>3 DEF Same, SameChannel, handling, report, CalmNow, Stages
  <2>2. CASE ChanOf[q] = c
    <3>1. ~Going(q)
      BY <1>8, <2>2 DEF CalmNow, OneAtATime
    <3> QED
      BY <2>1, <3>1, KeptAside
  <2>3. CASE ChanOf[q] # c
    <3>1. NumOthers[ChanOf[q]] \in Nat
      BY WhoReportConstants
    <3> QED
      BY <1>1, <1>2, <1>5, <1>6, <2>1, <2>3, <3>1, KeptBehind
  <2> QED
    BY <2>2, <2>3
<1>11. OneAtATime'
  BY <1>8, <1>10 DEF CalmNow, OneAtATime
<1>12. AtRest'
  <2> SUFFICES ASSUME NEW d \in Channels, \A q \in Requests : ChanOf[q] = d => ~Going(q)'
               PROVE  Resting(d)'
    BY DEF AtRest
  <2>1. Resting(d) /\ d # c
    BY <1>8, <1>10 DEF CalmNow, AtRest
  <2>2. NoLines(d)'
    BY <1>6, <1>7, <2>1 DEF Resting, NoLines, IsFor, NickAt
  <2> QED
    BY <1>1, <2>1, <2>2 DEF Resting, handling
<1>13. NicksFirst'
  BY <1>5, <1>6, <1>7 DEF CalmNow, NicksFirst, NickAt
<1>14. ~NickSettled' \/ NickSettled
  BY <1>1, <1>6, <1>7 DEF NickSettled, NickAt
<1> QED
  BY <1>1, <1>9, <1>10, <1>11, <1>12, <1>13, <1>14 DEF CalmNow, Stages, handling, report

\* While no channel is in use, nobody waits for anything.
LEMMA Unused ==
  ASSUME TypeInv, CalmNow, \A c \in Channels : ~InUse(c)
  PROVE  /\ \A r \in Requests : Stage(r) /\ ~Going(r) /\ who[r] \in {"none", "answered"}
         /\ \A c \in Channels : Resting(c)
         /\ \A i \in 1..Len(inq) : NickAt(i)
<1>1. \A r \in Requests : ChanOf[r] \in Channels
  BY WhoReportConstants
<1>2. \A r \in Requests : ~Going(r)
  BY <1>1 DEF InUse, Active, Going, Ended
<1>3. \A c \in Channels : Resting(c)
  BY <1>2 DEF CalmNow, AtRest
<1>4. \A r \in Requests : Stage(r) /\ who[r] \in {"none", "answered"}
  BY <1>2 DEF CalmNow, Stages, Stage, Before, Asked, Answered, Closed, Counted, Gathering,
              Done, Asking, Going
<1>5. ASSUME NEW i \in 1..Len(inq) PROVE NickAt(i)
  <2>1. inq[i] \in Line
    BY DEF TypeInv
  <2>2. CASE ~NickAt(i)
    <3>1. inq[i].chan \in Channels
      BY <2>1, <2>2 DEF Line, NickAt
    <3> QED
      BY <1>3, <2>2, <3>1 DEF Resting, NoLines, IsFor
  <2> QED
    BY <2>2
<1> QED
  BY <1>2, <1>3, <1>4, <1>5

LEMMA UnusedStep ==
  ASSUME TypeInv, CalmNow, \A c \in Channels : ~InUse(c),
         UNCHANGED <<pc, operand, handling, report>>, who' = who,
         \A i \in 1..Len(inq') : inq'[i].cmd = "NICK",
         ~NickSettled'
  PROVE  CalmNow'
<1>1. \A r \in Requests : Stage(r)' /\ ~Going(r)'
  <2>1. \A r \in Requests : Same(r)
    BY DEF Same, handling, report
  <2> QED
    BY <2>1, Unused, KeptAside
<1>2. AtRest'
  BY Unused DEF AtRest, Resting, NoLines, IsFor, NickAt, handling
<1> QED
  BY <1>1, <1>2 DEF CalmNow, Stages, OneAtATime, NicksFirst, NickAt, handling, report

LEMMA RenameDropCalm ==
  ASSUME TypeInv, CalmNow, Rename \/ Drop, calm'
  PROVE  CalmNow'
<1>1. (\A c \in Channels : ~InUse(c)) /\ inq \in Seq(Line) /\ UNCHANGED <<pc, operand, handling, report>>
  BY DEF Rename, Drop, TypeInv
<1>2. CASE Rename
  <2>1. /\ inq' = Append(inq, [cmd |-> "NICK", nick |-> NewNick]) /\ who' = who
    BY <1>2 DEF Rename
  <2>2. /\ Len(inq') = Len(inq) + 1 /\ inq'[Len(inq) + 1] = [cmd |-> "NICK", nick |-> NewNick]
        /\ Len(inq) \in Nat /\ \A i \in 1..Len(inq) : inq'[i] = inq[i]
    BY <1>1, <2>1
  <2>3. \A i \in 1..Len(inq') : inq'[i].cmd = "NICK"
    BY <1>1, <2>2, Unused DEF NickAt
  <2>4. ~NickSettled'
    BY <2>2, <2>3 DEF NickSettled, NickAt
  <2> QED
    BY <1>1, <2>1, <2>3, <2>4, UnusedStep
<1>3. CASE Drop
  <2>1. /\ up' = FALSE /\ \E k \in 0..Len(inq) : inq' = SubSeq(inq, 1, k)
        /\ who' = [r \in Requests |-> IF who[r] = "sent" THEN "lost" ELSE who[r]]
    BY <1>3 DEF Drop
  <2>2. who' = who
    <3>1. \A r \in Requests : who[r] # "sent"
      BY <1>1, Unused
    <3> QED
      BY <2>1, <3>1 DEF TypeInv, TypeOK
  <2>3. \A i \in 1..Len(inq') : inq'[i].cmd = "NICK"
    <3>1. PICK k \in 0..Len(inq) : inq' = SubSeq(inq, 1, k)
      BY <2>1
    <3>2. k \in Nat /\ Len(inq') = k /\ \A i \in 1..k : inq'[i] = inq[i]
      BY <1>1, <3>1
    <3> QED
      BY <1>1, <3>2, Unused DEF NickAt
  <2>4. ~NickSettled'
    BY <2>1 DEF NickSettled
  <2> QED
    BY <1>1, <2>2, <2>3, <2>4, UnusedStep
<1> QED
  BY <1>2, <1>3

LEMMA ReconnectCalm ==
  ASSUME TypeInv, CalmNow, Reconnect
  PROVE  CalmNow'
<1>1. /\ ~up /\ serverMe' = me /\ me' = me /\ inq' = inq
      /\ UNCHANGED <<pc, operand, handling, who, report>>
  BY DEF Reconnect
<1>2. \A c : NoLines(c)' <=> NoLines(c)
  BY <1>1 DEF NoLines, IsFor, NickAt
<1>3. ASSUME NEW r \in Requests PROVE Stage(r)'
  <2>1. Before(r) \/ Asked(r) \/ Gathering(r) \/ Done(r)
    BY <1>1 DEF CalmNow, Stages, Stage, Answered, Closed, Counted, Listing, NickSettled
  <2>2. Before(r) => Before(r)'
    BY <1>1 DEF Before, Idle, handling, report
  <2>3. Asked(r) => Asked(r)'
    BY <1>1, <1>2 DEF Asked, Asking, Idle, handling, report
  <2>4. Gathering(r) => Gathering(r)'
    BY <1>1, <1>2 DEF Gathering, Inside, handling, report
  <2>5. Done(r) => Done(r)'
    BY <1>1 DEF Done, handling, report
  <2> QED
    BY <2>1, <2>2, <2>3, <2>4, <2>5 DEF Stage
<1>4. OneAtATime' /\ AtRest' /\ NicksFirst'
  BY <1>1, <1>2 DEF CalmNow, OneAtATime, AtRest, Going, Resting, NicksFirst, NickAt, handling
<1> QED
  BY <1>1, <1>3, <1>4 DEF CalmNow, Stages, handling, report

-----------------------------------------------------------------------------
(* The event loop.                                                         *)

\* The first line is taken from the queue, and it is not one for the channel of q.
LEMMA KeptAhead ==
  ASSUME TypeInv, NEW q \in Requests, Stage(q), Same(q), SameChannel(ChanOf[q]),
         up' = up, serverMe' = serverMe, inq # <<>>, inq' = Tail(inq),
         ~IsFor(1, ChanOf[q])
  PROVE  Stage(q)' /\ (Going(q)' <=> Going(q))
<1> DEFINE c == ChanOf[q]
           n == NumOthers[c]
<1>1. /\ Len(inq) \in Nat /\ Len(inq) >= 1 /\ Len(inq') = Len(inq) - 1 /\ n \in Nat
      /\ \A i \in 1..Len(inq) - 1 : inq'[i] = inq[i + 1]
  BY HeadIsLine, WhoReportConstants
<1>2. \A i \in 1..Len(inq') : i + 1 \in 1..Len(inq) /\ (IsFor(i, c)' <=> IsFor(i + 1, c))
                              /\ (NickAt(i)' <=> NickAt(i + 1))
  BY <1>1 DEF IsFor, NickAt
<1>3. NoLines(c) => NoLines(c)'
  BY <1>2 DEF NoLines
<1>4. NickSettled => NickSettled'
  BY <1>2 DEF NickSettled
<1>5. ASSUME NEW d \in 0..n + 1, NEW e \in 0..Len(inq), Block(c, d, e)
      PROVE  e >= 1 /\ Block(c, d, e - 1)'
  <2>1. e >= 1
    <3>1. ASSUME e = 0 PROVE FALSE
      <4>1. e < 1 /\ 1 <= e + n + 2 - d /\ 1 \in 1..Len(inq) /\ 1 - e + d \in 1..n + 2
        BY <1>1, <3>1
      <4>2. inq[1] = ReplyOf(c)[1 - e + d]
        BY <1>5, <4>1 DEF Block
      <4>3. ReplyOf(c)[1 - e + d].cmd # "NICK" /\ ReplyOf(c)[1 - e + d].chan = c
        BY <4>1, ReplyLines, WhoReportConstants
      <4> QED
        BY <4>2, <4>3 DEF IsFor, NickAt
    <3> QED
      BY <3>1
  <2>2. \A k : ReplyOf(c)'[k] = ReplyOf(c)[k] /\ Seen(c, d)' = Seen(c, d)
    BY DEF ReplyOf, Seen
  <2>3. d = 0
    BY <1>5, <2>1 DEF Block
  <2>4. ASSUME NEW i \in 1..Len(inq')
        PROVE  IF e - 1 < i /\ i <= e - 1 + n + 2 - d
               THEN inq'[i] = ReplyOf(c)'[i - (e - 1) + d] ELSE ~IsFor(i, c)'
    <3>1. i + 1 \in 1..Len(inq) /\ inq'[i] = inq[i + 1]
      BY <1>1
    <3>2. IF e < i + 1 /\ i + 1 <= e + n + 2 - d
          THEN inq[i + 1] = ReplyOf(c)[(i + 1) - e + d] ELSE ~IsFor(i + 1, c)
      BY <1>5, <3>1 DEF Block
    <3>3. (i + 1) - e + d = i - (e - 1) + d
      BY <2>3
    <3>4. (e < i + 1 /\ i + 1 <= e + n + 2 - d) <=> (e - 1 < i /\ i <= e - 1 + n + 2 - d)
      <4>1. e \in Int /\ i \in Int /\ d \in Int /\ n \in Int
        BY <1>1
      <4> HIDE DEF n
      <4> QED
        BY <4>1
    <3> QED
      BY <1>2, <2>2, <3>1, <3>2, <3>3, <3>4
  <2>5. ASSUME NEW g \in 0..Len(inq), g = e - 1 PROVE Block(c, d, g)'
    <3>1. d <= n + 1 /\ whoResult'[c] = Seen(c, d)'
      BY <1>1, <1>5, <2>2 DEF Block, SameChannel
    <3>2. Len(inq') >= g + n + 2 - d
      BY <1>1, <1>5, <2>1, <2>5 DEF Block
    <3>3. \A i \in 1..Len(inq') :
            IF g < i /\ i <= g + n + 2 - d
            THEN inq'[i] = ReplyOf(c)'[i - g + d] ELSE ~IsFor(i, c)'
      BY <2>4, <2>5
    <3> QED
      BY <2>3, <3>1, <3>2, <3>3 DEF Block
  <2> QED
    BY <2>1, <2>5
<1>6. (Idle(q)' <=> Idle(q)) /\ (Asking(q)' <=> Asking(q)) /\ Inside(q)' = Inside(q)
  BY DEF Idle, Asking, Same, SameChannel, Inside
<1>7. Before(q) => Before(q)'
  BY <1>6 DEF Before, Same
<1>8. Asked(q) => Asked(q)'
  BY <1>3, <1>6 DEF Asked, Same, SameChannel
<1>9. Answered(q) => Answered(q)'
  <2> SUFFICES ASSUME Answered(q) PROVE Answered(q)'
    OBVIOUS
  <2>1. PICK d \in 0..n + 1, e \in 0..Len(inq) : Block(c, d, e)
    BY DEF Answered
  <2>2. e - 1 \in 0..Len(inq') /\ Block(c, d, e - 1)'
    BY <1>1, <1>5, <2>1
  <2>3. \E f \in 0..n + 1, g \in 0..Len(inq') : Block(c, f, g)'
    BY <2>1, <2>2
  <2> QED
    BY <1>6, <2>3 DEF Answered, Same
<1>10. Listing(q) => Listing(q)'
  BY <1>3, <1>4 DEF Listing, Same, SameChannel, Members
<1>11. Counted(q) \/ Closed(q) => (Counted(q) \/ Closed(q))'
  BY <1>6, <1>10 DEF Counted, Closed, Same, SameChannel
<1>12. Gathering(q) => Gathering(q)'
  BY <1>3, <1>6 DEF Gathering, Same, SameChannel
<1>13. Done(q) => Done(q)'
  BY DEF Done, Same
<1>14. Going(q)' <=> Going(q)
  BY DEF Going, Same
<1> QED
  BY <1>7, <1>8, <1>9, <1>11, <1>12, <1>13, <1>14 DEF Stage

\* The requests that a line is not about keep their stage.
LEMMA HandleOthers ==
  ASSUME TypeInv, CalmNow, NEW r \in Requests, Stage(r)', Going(r), Going(r)',
         UNCHANGED <<pc, who, operand, reporters, count, total>>,
         UNCHANGED <<up, me, serverMe, limit, crashed>>,
         \A q \in Requests \ {r} : q \in closedWho' <=> q \in closedWho,
         \A c \in Channels \ {ChanOf[r]} : SameChannel(c),
         inq # <<>>, inq' = Tail(inq), IsFor(1, ChanOf[r])
  PROVE  CalmNow'
<1>1. /\ Len(inq') = Len(inq) - 1 /\ Len(inq) \in Nat /\ Len(inq) >= 1
      /\ \A i \in 1..Len(inq) - 1 : inq'[i] = inq[i + 1]
  BY HeadIsLine
<1>2. ASSUME NEW q \in Requests \ {r} PROVE Stage(q)' /\ (Going(q)' <=> Going(q))
  <2>1. Same(q) /\ Stage(q)
    BY DEF Same, CalmNow, Stages
  <2>2. CASE ChanOf[q] = ChanOf[r]
    <3>1. ~Going(q)
      BY <2>2 DEF CalmNow, OneAtATime
    <3> QED
      BY <2>1, <3>1, KeptAside
  <2>3. CASE ChanOf[q] # ChanOf[r]
    <3>1. SameChannel(ChanOf[q]) /\ ~IsFor(1, ChanOf[q])
      BY <2>3, WhoReportConstants DEF IsFor
    <3> QED
      BY <2>1, <3>1, KeptAhead
  <2> QED
    BY <2>2, <2>3
<1>3. OneAtATime'
  BY <1>2 DEF CalmNow, OneAtATime
<1>4. AtRest'
  <2> SUFFICES ASSUME NEW d \in Channels, \A q \in Requests : ChanOf[q] = d => ~Going(q)'
               PROVE  Resting(d)'
    BY DEF AtRest
  <2>1. Resting(d) /\ d # ChanOf[r]
    BY <1>2 DEF CalmNow, AtRest
  <2>2. NoLines(d)'
    BY <1>1, <2>1 DEF Resting, NoLines, IsFor, NickAt
  <2> QED
    BY <2>1, <2>2 DEF Resting, SameChannel
<1>5. NicksFirst'
  <2> SUFFICES ASSUME NEW i \in 1..Len(inq'), NEW j \in 1..Len(inq'), i < j, NickAt(j)'
               PROVE  NickAt(i)'
    BY DEF NicksFirst
  <2>1. i + 1 \in 1..Len(inq) /\ j + 1 \in 1..Len(inq) /\ i + 1 < j + 1
    BY <1>1
  <2>2. inq'[i] = inq[i + 1] /\ inq'[j] = inq[j + 1]
    BY <1>1
  <2> QED
    BY <2>1, <2>2 DEF CalmNow, NicksFirst, NickAt
<1>6. \A i \in 1..Len(inq) : ~NickAt(i)
  <2> SUFFICES ASSUME NEW i \in 1..Len(inq), NickAt(i) PROVE FALSE
    OBVIOUS
  <2>1. ~NickAt(1)
    BY DEF IsFor
  <2>2. i # 1 /\ 1 \in 1..Len(inq)
    BY <1>1, <2>1
  <2>3. 1 < i
    BY <1>1, <2>2
  <2> QED
    BY <2>1, <2>2, <2>3 DEF CalmNow, NicksFirst
<1>7. ~up \/ me = serverMe
  BY <1>6 DEF CalmNow, NickSettled
<1> QED
  BY <1>2, <1>3, <1>4, <1>5, <1>7 DEF CalmNow, Stages, NickSettled

\* A line of a reply is the next one of the request that is going on.
LEMMA LineIsNext ==
  ASSUME TypeInv, CalmNow, inq # <<>>, Head(inq).cmd # "NICK"
  PROVE  \E r \in Requests :
           /\ ChanOf[r] = Head(inq).chan /\ IsFor(1, ChanOf[r]) /\ Answered(r) /\ Going(r)
           /\ \E d \in 0..NumOthers[ChanOf[r]] + 1 :
                /\ Block(ChanOf[r], d, 0)
                /\ Head(inq) = ReplyOf(ChanOf[r])[d + 1]
<1> DEFINE c == Head(inq).chan
<1>1. /\ Head(inq) = inq[1] /\ Len(inq) \in Nat /\ Len(inq) >= 1 /\ c \in Channels
      /\ IsFor(1, c)
  BY HeadIsLine DEF IsFor, NickAt
<1>2. PICK r \in Requests : ChanOf[r] = c /\ Going(r)
  BY <1>1 DEF CalmNow, AtRest, Resting, NoLines
<1>3. Answered(r)
  <2>1. ~NoLines(ChanOf[r])
    BY <1>1, <1>2 DEF NoLines
  <2> QED
    BY <1>2, <2>1
    DEF CalmNow, Stages, Stage, Before, Asked, Closed, Counted, Listing, Gathering, Done, Going
<1>4. PICK d \in 0..NumOthers[c] + 1, e \in 0..Len(inq) : Block(c, d, e)
  BY <1>2, <1>3 DEF Answered
<1>5. e = 0 /\ Head(inq) = ReplyOf(c)[d + 1]
  <2>1. NumOthers[c] \in Nat
    BY <1>1, WhoReportConstants
  <2>2. e < 1 /\ inq[1] = ReplyOf(c)[1 - e + d]
    BY <1>1, <1>4 DEF Block
  <2>3. e = 0 /\ 1 - e + d = d + 1
    BY <1>4, <2>1, <2>2
  <2> QED
    BY <1>1, <2>2, <2>3
<1> QED
  BY <1>1, <1>2, <1>3, <1>4, <1>5

LEMMA SeenMore ==
  ASSUME TypeInv, NEW c \in Channels, NEW d \in 0..NumOthers[c]
  PROVE  Seen(c, d + 1) =
           [Seen(c, d) EXCEPT ![IF d + 1 <= NumOthers[c] THEN Other ELSE serverMe] = @ + 1]
<1> DEFINE n == NumOthers[c]
           k == IF d + 1 <= n THEN Other ELSE serverMe
<1>1. n \in Nat /\ serverMe # Other /\ k \in Names
  BY NamesAre, WhoReportConstants DEF TypeInv, TypeOK
<1>2. \A m \in Names : Seen(c, d + 1)[m] = IF m = k THEN Seen(c, d)[m] + 1 ELSE Seen(c, d)[m]
  BY <1>1 DEF Seen
<1>3. \A x : Seen(c, x) = [m \in Names |-> Seen(c, x)[m]]
  BY DEF Seen
<1>4. DOMAIN Seen(c, d) = Names /\ DOMAIN Seen(c, d + 1) = Names
  BY DEF Seen
<1> HIDE DEF k
<1>5. [Seen(c, d) EXCEPT ![k] = @ + 1] =
        [m \in Names |-> IF m = k THEN Seen(c, d)[m] + 1 ELSE Seen(c, d)[m]]
  BY <1>1, <1>3, <1>4
<1> QED
  BY <1>2, <1>3, <1>5 DEF k

LEMMA Handle352Calm ==
  ASSUME TypeInv, CalmNow, Handle352
  PROVE  CalmNow'
<1>1. /\ inq # <<>> /\ Head(inq).cmd = "352" /\ inq' = Tail(inq)
      /\ whoResult' = [whoResult EXCEPT ![Head(inq).chan][Head(inq).nick] = @ + 1]
      /\ UNCHANGED <<pc, operand, whoChannel, closedWho, limit, who, up, me, serverMe, drops,
                     renames, report, calm>>
  BY DEF Handle352, Next352
<1>2. PICK r \in Requests :
        /\ ChanOf[r] = Head(inq).chan /\ IsFor(1, ChanOf[r]) /\ Answered(r) /\ Going(r)
        /\ \E d \in 0..NumOthers[ChanOf[r]] + 1 :
             /\ Block(ChanOf[r], d, 0)
             /\ Head(inq) = ReplyOf(ChanOf[r])[d + 1]
  BY <1>1, LineIsNext
<1> DEFINE c == ChanOf[r]
           n == NumOthers[c]
<1>3. PICK d \in 0..n + 1 : Block(c, d, 0) /\ Head(inq) = ReplyOf(c)[d + 1]
  BY <1>2
<1>4. /\ c \in Channels /\ n \in Nat
      /\ Len(inq) \in Nat /\ Len(inq) >= 1 /\ Len(inq') = Len(inq) - 1
      /\ \A i \in 1..Len(inq) - 1 : inq'[i] = inq[i + 1]
  BY <1>1, HeadIsLine, WhoReportConstants
<1>5. /\ d <= n
      /\ Head(inq).nick = IF d + 1 <= n THEN Other ELSE serverMe
  <2>1. d + 1 \in 1..n + 2
    BY <1>4
  <2>2. /\ ReplyOf(c)[d + 1].cmd = IF d + 1 = n + 2 THEN "315" ELSE "352"
        /\ ReplyOf(c)[d + 1].nick = IF d + 1 <= n THEN Other ELSE serverMe
    BY <1>4, <2>1, ReplyLines
  <2>3. d + 1 # n + 2
    BY <1>1, <1>3, <2>2
  <2> QED
    BY <1>3, <1>4, <2>2, <2>3
<1>6. whoResult'[c] = Seen(c, d + 1)
  <2>1. whoResult'[c] = [whoResult[c] EXCEPT ![Head(inq).nick] = @ + 1]
    BY <1>1, <1>2, <1>4 DEF TypeInv, TypeOK
  <2>2. d \in 0..NumOthers[c] /\ whoResult[c] = Seen(c, d)
    BY <1>3, <1>4, <1>5 DEF Block
  <2> QED
    BY <1>4, <1>5, <2>1, <2>2, SeenMore
<1>7. ASSUME NEW f \in 0..n + 1, f = d + 1 PROVE Block(c, f, 0)'
  <2>1. \A k : ReplyOf(c)'[k] = ReplyOf(c)[k] /\ Seen(c, f)' = Seen(c, f)
    BY <1>1 DEF ReplyOf, Seen
  <2>2. ASSUME NEW i \in 1..Len(inq')
        PROVE  IF 0 < i /\ i <= 0 + n + 2 - f
               THEN inq'[i] = ReplyOf(c)'[i - 0 + f] ELSE ~IsFor(i, c)'
    <3>1. i + 1 \in 1..Len(inq) /\ inq'[i] = inq[i + 1]
      BY <1>4
    <3>2. IF 0 < i + 1 /\ i + 1 <= 0 + n + 2 - d
          THEN inq[i + 1] = ReplyOf(c)[(i + 1) - 0 + d] ELSE ~IsFor(i + 1, c)
      BY <1>3, <3>1 DEF Block
    <3>3. (i + 1) - 0 + d = i - 0 + f
      BY <1>7
    <3>4. (0 < i + 1 /\ i + 1 <= 0 + n + 2 - d) <=> (0 < i /\ i <= 0 + n + 2 - f)
      <4>1. i \in Int /\ i >= 1 /\ d \in Int /\ n \in Int /\ f \in Int /\ f = d + 1
        BY <1>4, <1>7
      <4> HIDE DEF n
      <4> QED
        BY <4>1
    <3>5. IsFor(i, c)' <=> IsFor(i + 1, c)
      BY <3>1 DEF IsFor, NickAt
    <3> QED
      BY <2>1, <3>1, <3>2, <3>3, <3>4, <3>5
  <2>3. Len(inq') >= 0 + n + 2 - f /\ f <= n + 1
    BY <1>3, <1>4, <1>7 DEF Block
  <2> QED
    BY <1>6, <1>7, <2>1, <2>2, <2>3 DEF Block
<1>8. Answered(r)'
  <2>1. \E f \in 0..n + 1, g \in 0..Len(inq') : Block(c, f, g)'
    <3>1. d + 1 \in 0..n + 1 /\ 0 \in 0..Len(inq')
      BY <1>4, <1>5
    <3> QED
      BY <1>7, <3>1
  <2>2. Asking(r)' /\ who'[r] = "answered" /\ r \notin closedWho' /\ up'
    BY <1>1, <1>2 DEF Answered, Asking, Idle, report
  <2> QED
    BY <2>1, <2>2 DEF Answered
<1>9. Stage(r)' /\ Going(r)'
  BY <1>1, <1>2, <1>8 DEF Stage, Going
<1>10. \A x \in Channels \ {c} : SameChannel(x)
  BY <1>1, <1>2, <1>4 DEF SameChannel, TypeInv, TypeOK
<1> QED
  BY <1>1, <1>2, <1>9, <1>10, HandleOthers DEF report

LEMMA Handle315Calm ==
  ASSUME TypeInv, CalmNow, Next315, inq' = Tail(inq),
         UNCHANGED <<pc, operand, whoChannel, whoResult, who, up, me, serverMe, drops, renames,
                     report>>
  PROVE  /\ Closable(whoChannel[Head(inq).chan])
         /\ closedWho' = closedWho \cup {whoChannel[Head(inq).chan]} /\ limit' = limit => CalmNow'
<1>1. inq # <<>> /\ Head(inq).cmd = "315"
  BY DEF Next315
<1>2. PICK r \in Requests :
        /\ ChanOf[r] = Head(inq).chan /\ IsFor(1, ChanOf[r]) /\ Answered(r) /\ Going(r)
        /\ \E d \in 0..NumOthers[ChanOf[r]] + 1 :
             /\ Block(ChanOf[r], d, 0)
             /\ Head(inq) = ReplyOf(ChanOf[r])[d + 1]
  BY <1>1, LineIsNext
<1> DEFINE c == ChanOf[r]
           n == NumOthers[c]
<1>3. PICK d \in 0..n + 1 : Block(c, d, 0) /\ Head(inq) = ReplyOf(c)[d + 1]
  BY <1>2
<1>4. /\ c \in Channels /\ n \in Nat
      /\ Len(inq) \in Nat /\ Len(inq) >= 1 /\ Len(inq') = Len(inq) - 1
      /\ \A i \in 1..Len(inq) - 1 : inq'[i] = inq[i + 1]
  BY <1>1, HeadIsLine, WhoReportConstants
<1>5. d = n + 1
  <2>1. d + 1 \in 1..n + 2
    BY <1>4
  <2>2. ReplyOf(c)[d + 1].cmd = IF d + 1 = n + 2 THEN "315" ELSE "352"
    BY <1>4, <2>1, ReplyLines
  <2>3. d + 1 = n + 2
    BY <1>1, <1>3, <2>2
  <2> QED
    BY <1>4, <2>3
<1>6. whoChannel[c] = r /\ r \notin closedWho /\ r # NoChan
  BY <1>2, WhoReportConstants DEF Answered, Asking
<1>7. Closable(whoChannel[Head(inq).chan])
  BY <1>2, <1>6 DEF Closable
<1>8. ASSUME closedWho' = closedWho \cup {whoChannel[Head(inq).chan]}, limit' = limit
      PROVE  CalmNow'
  <2>1. closedWho' = closedWho \cup {r}
    BY <1>2, <1>6, <1>8
  <2>2. whoResult[c] = Members(c)
    <3>1. whoResult[c] = Seen(c, d)
      BY <1>3 DEF Block
    <3>2. ~(d < n) /\ d > n
      BY <1>4, <1>5
    <3> QED
      BY <3>1, <3>2 DEF Seen, Members
  <2>3. NoLines(c)'
    <3>1. \A i \in 1..Len(inq) : i > 1 => ~IsFor(i, c)
      <4> SUFFICES ASSUME NEW i \in 1..Len(inq), i > 1 PROVE ~IsFor(i, c)
        OBVIOUS
      <4>1. ~(i <= 0 + n + 2 - d)
        BY <1>4, <1>5
      <4> QED
        BY <1>3, <4>1 DEF Block
    <3>2. \A i \in 1..Len(inq') : i + 1 \in 1..Len(inq) /\ i + 1 > 1 /\ inq'[i] = inq[i + 1]
      BY <1>4
    <3> QED
      BY <3>1, <3>2 DEF NoLines, IsFor, NickAt
  <2>4. NickSettled'
    <3>1. \A i \in 1..Len(inq) : ~NickAt(i)
      <4> SUFFICES ASSUME NEW i \in 1..Len(inq), NickAt(i) PROVE FALSE
        OBVIOUS
      <4>1. ~NickAt(1) /\ 1 \in 1..Len(inq)
        BY <1>2, <1>4 DEF IsFor
      <4>2. 1 < i
        BY <1>4, <4>1
      <4> QED
        BY <4>1, <4>2 DEF CalmNow, NicksFirst
    <3> QED
      BY <1>2, <1>4, <3>1 DEF NickSettled, NickAt, Answered
  <2>5. Asking(r)' /\ Listing(r)'
    BY <1>2, <2>1, <2>2, <2>3, <2>4
    DEF Answered, Asking, Idle, Listing, Members, report
  <2>6. Stage(r)' /\ Going(r)'
    BY <1>2, <2>5 DEF Stage, Closed, Going
  <2>7. (\A x : SameChannel(x)) /\ \A q \in Requests \ {r} : q \in closedWho' <=> q \in closedWho
    BY <2>1 DEF SameChannel
  <2> QED
    BY <1>1, <1>2, <1>8, <2>6, <2>7, HandleOthers DEF report
<1> QED
  BY <1>7, <1>8

LEMMA HandleNickCalm ==
  ASSUME TypeInv, CalmNow, HandleNick, calm'
  PROVE  CalmNow'
<1>1. /\ inq # <<>> /\ Head(inq).cmd = "NICK" /\ inq' = Tail(inq) /\ me' = serverMe'
      /\ UNCHANGED <<pc, operand, handling, who, up, serverMe, report>>
  BY DEF HandleNick
<1>2. /\ Len(inq') = Len(inq) - 1 /\ Len(inq) \in Nat /\ Len(inq) >= 1 /\ Head(inq) = inq[1]
      /\ \A i \in 1..Len(inq) - 1 : inq'[i] = inq[i + 1]
  BY <1>1, HeadIsLine
<1>3. \A q \in Requests : Stage(q)' /\ (Going(q)' <=> Going(q))
  <2> SUFFICES ASSUME NEW q \in Requests PROVE Stage(q)' /\ (Going(q)' <=> Going(q))
    OBVIOUS
  <2>1. Same(q) /\ SameChannel(ChanOf[q]) /\ Stage(q)
    BY <1>1 DEF Same, SameChannel, handling, report, CalmNow, Stages
  <2>2. ~IsFor(1, ChanOf[q])
    BY <1>1, <1>2 DEF IsFor, NickAt
  <2> QED
    BY <1>1, <2>1, <2>2, KeptAhead
<1>4. OneAtATime'
  BY <1>3 DEF CalmNow, OneAtATime
<1>5. AtRest'
  <2> SUFFICES ASSUME NEW d \in Channels, \A q \in Requests : ChanOf[q] = d => ~Going(q)'
               PROVE  Resting(d)'
    BY DEF AtRest
  <2>1. Resting(d)
    BY <1>3 DEF CalmNow, AtRest
  <2>2. NoLines(d)'
    BY <1>2, <2>1 DEF Resting, NoLines, IsFor, NickAt
  <2> QED
    BY <1>1, <2>1, <2>2 DEF Resting, handling
<1>6. NicksFirst'
  <2> SUFFICES ASSUME NEW i \in 1..Len(inq'), NEW j \in 1..Len(inq'), i < j, NickAt(j)'
               PROVE  NickAt(i)'
    BY DEF NicksFirst
  <2>1. i + 1 \in 1..Len(inq) /\ j + 1 \in 1..Len(inq) /\ i + 1 < j + 1
    BY <1>2
  <2>2. inq'[i] = inq[i + 1] /\ inq'[j] = inq[j + 1]
    BY <1>2
  <2> QED
    BY <2>1, <2>2 DEF CalmNow, NicksFirst, NickAt
<1> QED
  BY <1>1, <1>3, <1>4, <1>5, <1>6 DEF CalmNow, Stages, handling, report

-----------------------------------------------------------------------------
(* The theorems.                                                           *)

LEMMA WhoInit == Init => TypeInv /\ CalmNow
<1> SUFFICES ASSUME Init PROVE TypeInv /\ CalmNow
  OBVIOUS
<1>1. TypeOK /\ inq \in Seq(Line)
  <2>1. inq \in Seq(Line) /\ inq \in Seq([cmd : {"352", "315"}, chan : Channels, nick : Names]
                                           \cup [cmd : {"NICK"}, nick : Names])
    BY DEF Init
  <2>2. /\ rateLimit \in 0..RateLimit /\ drops \in 0..MaxDrops /\ renames \in 0..MaxRenames
        /\ total \in [Requests -> Int] /\ count \in [Requests -> Nat]
        /\ reporters \in [Requests -> [waiting : Nat, busy : Nat, sending : Nat]]
    BY WhoReportConstants DEF Init
  <2>3. whoResult \in [Channels -> [Names -> Nat]]
    BY NamesAre DEF Init
  <2>4. crashed \in BOOLEAN /\ limit \in BOOLEAN /\ up \in BOOLEAN /\ calm \in BOOLEAN
    BY DEF Init
  <2>5. /\ pc \in [Requests -> {"idle", "check", "make", "range", "wait", "collect",
                                "spawn", "gather", "done", "turnedAway"}]
        /\ operand \in [Requests -> Requests \cup {NoChan}]
        /\ whoChannel \in [Channels -> Requests \cup {NoChan}] /\ closedWho \subseteq Requests
        /\ who \in [Requests -> {"none", "queued", "sent", "answered", "lost"}]
        /\ me \in {OldNick, NewNick} /\ serverMe \in {OldNick, NewNick}
    BY DEF Init
  <2> QED
    BY <2>1, <2>2, <2>3, <2>4, <2>5 DEF TypeOK
<1>2. Places
  <2>1. \A q \in Requests : Inside(q) = 0
    BY DEF Init, Inside
  <2>2. Holders = {}
    BY <2>1, HolderIs
  <2> QED
    BY <2>2, FS_EmptySet DEF Places, Init
<1>3. \A c \in Channels : Resting(c)
  BY DEF Init, Resting, NoLines
<1>4. \A r \in Requests : Before(r) /\ ~Going(r)
  BY DEF Init, Before, Idle, Going
<1>5. NicksFirst /\ me = serverMe /\ ~crashed /\ ~limit
  BY DEF Init, NicksFirst
<1> QED
  BY <1>1, <1>2, <1>3, <1>4, <1>5
  DEF TypeInv, CalmNow, Stages, Stage, OneAtATime, AtRest

LEMMA TypeStep == TypeInv /\ [Next]_vars => TypeInv'
<1> SUFFICES ASSUME TypeInv, [Next]_vars PROVE TypeInv'
  OBVIOUS
<1>1. CASE UNCHANGED vars
  <2>1. Places'
    BY <1>1, PlacesSame DEF vars, TypeInv, Inside
  <2> QED
    BY <1>1, <2>1 DEF vars, TypeInv, TypeOK
<1>2. CASE Next
  BY <1>2, ReporterTypes, RequestTypes, SpawnTypes, NetworkTypes
  DEF Next, Step, Reporter, Network
<1> QED
  BY <1>1, <1>2

LEMMA CalmStep == TypeInv /\ CalmInv /\ [Next]_vars => CalmInv'
<1> SUFFICES ASSUME TypeInv, CalmInv, [Next]_vars, calm' PROVE CalmNow'
  BY DEF CalmInv
<1>1. calm
  BY DEF Next, Start, Step, Check, Make, EvalRange, Leave, Collect, Spawn, Receive, Reporter, Begin, LookedUp,
         SendOnClosed, Network, SendWho, Reply, Handle, Handle352, Handle315, Panic315,
         HandleNick, Rename, Drop, Reconnect, vars
<1>2. CalmNow
  BY <1>1 DEF CalmInv
<1>3. CASE UNCHANGED vars
  <2>1. \A q \in Requests : Same(q) /\ SameChannel(ChanOf[q]) /\ SameNet
    BY <1>3 DEF vars, Same, SameChannel, SameNet
  <2>2. \A q \in Requests : Stage(q)' /\ (Going(q)' <=> Going(q))
    BY <1>2, <2>1, Kept DEF CalmNow, Stages
  <2>3. \A c : Resting(c)' <=> Resting(c)
    BY <1>3 DEF vars, Resting, NoLines, IsFor, NickAt
  <2>4. NicksFirst' /\ (NickSettled' <=> NickSettled)
    BY <1>2, <1>3 DEF CalmNow, NicksFirst, NickSettled, NickAt, vars
  <2> QED
    BY <1>2, <1>3, <2>2, <2>3, <2>4 DEF CalmNow, Stages, OneAtATime, AtRest, vars
<1>4. ASSUME NEW r \in Requests, Start(r) \/ Step(r) \/ Reporter(r) \/ Network(r) PROVE CalmNow'
  BY <1>2, <1>4, StartCalm, MakeCalm, EvalRangeCalm, LeaveCalm, CollectCalm, SpawnCalm, ReporterCalm,
     NoneLeftBehind, SendWhoCalm, ReplyCalm
  DEF Step, Reporter, Network
<1>5. CASE Handle
  <2>1. CASE Handle315
    BY <1>2, <2>1, Handle315Calm DEF Handle315
  <2>2. CASE Panic315
    BY <1>2, <2>2, Handle315Calm DEF Panic315
  <2> QED
    BY <1>2, <1>5, <2>1, <2>2, Handle352Calm, HandleNickCalm DEF Handle
<1>6. CASE Rename \/ Drop \/ Reconnect
  BY <1>2, <1>6, RenameDropCalm, ReconnectCalm
<1> QED
  BY <1>3, <1>4, <1>5, <1>6 DEF Next

\* Each variable keeps its type, no count of reporters goes below zero, and
\* rateLimit never holds more than its capacity: TypeOK.
THEOREM WhoTypes == Spec => []TypeOK
<1>1. TypeInv => TypeOK
  BY DEF TypeInv
<1> QED
  BY <1>1, WhoInit, TypeStep, PTL DEF Spec

\* Left alone, no request closes a channel twice or sends on a closed one,
\* however many requests, channels and members: CalmIsSafe.
THEOREM CalmNeverPanics == Spec => []CalmIsSafe
<1>1. CalmInv => CalmIsSafe
  BY DEF CalmInv, CalmNow, CalmIsSafe
<1> QED
  BY <1>1, WhoInit, TypeStep, CalmStep, PTL DEF Spec, CalmInv

\* Left alone, a request that is done has counted each member of its channel
\* but the bot once: CalmCountsEveryone.
THEOREM CalmCountsAll == Spec => []CalmCountsEveryone
<1>1. CalmInv => CalmCountsEveryone
  BY DEF CalmInv, CalmNow, Stages, Stage, Before, Asked, Answered, Closed, Counted, Gathering,
         Done, Asking, CalmCountsEveryone
<1> QED
  BY <1>1, WhoInit, TypeStep, CalmStep, PTL DEF Spec, CalmInv

=============================================================================
