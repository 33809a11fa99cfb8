---------------------------- MODULE ClientProofs ----------------------------
(***************************************************************************)
(* Proofs about Client, for any handlers, messages, scenario, capacity of  *)
(* the queue and pace: a client under the flood control is never dropped   *)
(* for excess flood, one event of the server is handled at a time, the     *)
(* handler lists are what was added to them and not removed, and what      *)
(* others read of a message is its successive parts.                       *)
(***************************************************************************)
EXTENDS Client, FiniteSetTheorems, SequenceTheorems, WellFoundedInduction, TLAPS

AllMsgs == UNION {Msgs[n] : n \in Nodes}
ShortLine == [cmd : {"PRIVMSG", "NOTICE"},
              text : {text \in Seq(Characters) : Len(text) <= LongestLine}]
Events == {Event[n] : n \in Nodes}
            \cup {Body[n].event : n \in {m \in Nodes : Body[m].do = "dispatch"}}
            \cup UNION {{task.event : task \in {t \in ToSet(c.main) : t.do = "dispatch"}} :
                          c \in Scenarios}
Goroutines == Nat \X Sets \X Nodes
ServerLine == [event : Events, by : {Loop, Main} \cup Goroutines]
Said == [by : Goroutines, msg : AllMsgs, line : ShortLine]

\* Every list leads only to handlers of its own set and event.
ListsOK ==
  /\ start \in [Lists -> Nodes \cup {Nil}] /\ end \in [Lists -> Nodes \cup {Nil}]
  /\ next \in [Nodes -> Nodes \cup {Nil}] /\ prev \in [Nodes -> Nodes \cup {Nil}]
  /\ \A l \in Lists : /\ start[l] # Nil => ListOf(start[l]) = l
                      /\ end[l] # Nil => ListOf(end[l]) = l
  /\ \A n \in Nodes : /\ next[n] # Nil => ListOf(next[n]) = ListOf(n)
                      /\ prev[n] # Nil => ListOf(prev[n]) = ListOf(n)

\* What a goroutine can be doing.
Doings == {"return", "panic", "add", "adding", "remove", "removing", "say", "saying",
           "dispatch", "waiting"}
TaskOK(g) ==
  /\ g # Main => /\ g \in (1..Len(lines)) \X Sets \X Nodes
                 /\ frames[<<g[1], g[2]>>] = "run" /\ Home[g[3]] = g[2]
  /\ tasks[g].do \in Doings
  /\ tasks[g].do \in {"add", "adding", "remove", "removing"} => tasks[g].node \in Nodes
  /\ tasks[g].do \in {"say", "saying"} => g # Main
  /\ tasks[g].do = "saying" => /\ tasks[g].msg \in AllMsgs
                               /\ tasks[g].left \in Seq(ShortLine) /\ tasks[g].left # <<>>
  /\ tasks[g].do = "dispatch" => tasks[g].event \in Events
  /\ tasks[g].do = "waiting" => /\ tasks[g].line \in 1..Len(lines)
                                /\ lines[tasks[g].line].by = g
  /\ tasks[g].do \in {"dispatch", "waiting"} => g = Main \/ Body[g[3]].do = "dispatch"

\* A handler dispatches a line of its own later than the line it got.
Ordered(seq) ==
  /\ seq \in Seq(ServerLine)
  /\ \A i \in 1..Len(seq) :
       seq[i].by \in {Loop, Main} \cup ((1..(i - 1)) \X Sets \X Nodes)
LinesOK == Ordered(lines)

\* The internal handlers come first.
FramesOK ==
  /\ frames \in [(1..Len(lines)) \X Sets -> {"idle", "want", "run", "done"}]
  /\ \A i \in 1..Len(lines) : frames[<<i, "int">>] # "done" =>
                              frames[<<i, "bg">>] = "idle" /\ frames[<<i, "fg">>] = "idle"

QueueOK ==
  /\ cfg \in Scenarios /\ toDo \in Seq(ToSet(cfg.main))
  /\ out \in Seq(Said) /\ (sending = <<>> \/ (Len(sending) = 1 /\ sending \in Seq(Said)))

TypeInv ==
  ListsOK /\ (\A g \in DOMAIN tasks : TaskOK(g)) /\ LinesOK /\ FramesOK /\ QueueOK

-----------------------------------------------------------------------------
(* The flood control.                                                      *)

Longest == LineTime(LongestLine)
Pending == IF sending = <<>> \/ cfg.Flood THEN 0 ELSE LineTime(Len(sending[1].line.text))

\* What the server counts is known from what the client does: it exceeds the
\* badness less the time elapsed by the longest line at most, twice over, and
\* write sleeps off what the badness has above the limit.
Paced ==
  /\ badness \in Nat /\ elapsed \in 0..LongIdle /\ asleep \in Nat /\ penalty \in Nat
  /\ asleep > 0 => ~cfg.Flood /\ sending # <<>> /\ elapsed + asleep <= Longest
  /\ penalty + Pending <= Longest \/ penalty + Pending <= 2 * Longest + badness - elapsed
  /\ badness <= Limit + asleep + elapsed
  /\ FloodBounded

-----------------------------------------------------------------------------
(* One event at a time.                                                    *)

OfLoop(i) == \A j \in From(i) : lines[j].by # Main
Open(i) == ~Dispatched(i)

\* Whoever dispatched a line waits for it.
Waited ==
  \A i \in 1..Len(lines) :
    Open(i) /\ lines[i].by # Loop =>
      /\ lines[i].by \in DOMAIN tasks
      /\ tasks[lines[i].by].do = "waiting" /\ tasks[lines[i].by].line = i

OneOfLoop ==
  \A i, k \in 1..Len(lines) :
    Open(i) /\ Open(k) /\ lines[i].by = Loop /\ lines[k].by = Loop => i = k

\* A later line comes from a handler of an earlier one, or of one between them.
Nested ==
  \A i, k \in 1..Len(lines) :
    i < k /\ Open(i) /\ Open(k) /\ OfLoop(i) /\ OfLoop(k) => lines[k].by[1] >= i

NestInv == TypeInv /\ Waited /\ OneOfLoop /\ Nested

-----------------------------------------------------------------------------
(* Numbers and sequences.                                                  *)

\* A set of numbers has a least one.
LEMMA Least ==
  ASSUME NEW T \in SUBSET Nat, T # {}
  PROVE  \E x \in T : \A y \in T : x <= y
<1> DEFINE R == OpToRel(<, Nat)
<1>1. IsWellFoundedOn(R, Nat)
  BY NatLessThanWellFounded
<1>2. PICK x \in T : \A y \in T : <<y, x>> \notin R
  <2> HIDE DEF R
  <2> QED
    BY <1>1, WFMin
<1>3. \A y \in T : ~(y < x)
  BY <1>2 DEF OpToRel
<1> QED
  BY <1>3

LEMMA MinIn ==
  ASSUME NEW J \in SUBSET Nat, J # {}
  PROVE  Min(J) \in J
BY Least DEF Min

LEMMA MaxIn ==
  ASSUME NEW n \in Nat, NEW J \in SUBSET (1..n), J # {}
  PROVE  Max(J) \in J
<1> DEFINE K == {n - j : j \in J}
<1>0. \A j \in J : n - j \in Nat
  OBVIOUS
<1>1. K \subseteq Nat /\ K # {}
  BY <1>0
<1>2. PICK x \in K : \A y \in K : x <= y
  <2> HIDE DEF K
  <2> QED
    BY <1>1, Least
<1>3. PICK j \in J : x = n - j
  OBVIOUS
<1>4. \A i \in J : j >= i
  <2> SUFFICES ASSUME NEW i \in J PROVE j >= i
    OBVIOUS
  <2>1. n - i \in K
    OBVIOUS
  <2> QED
    BY <1>2, <1>3, <2>1
<1> QED
  BY <1>4 DEF Max

\* The values of P and Q agree at a point if they do where the measure is smaller.
Agreeing(P, Q, S, m) ==
  \A x \in S : (\A y \in S : m[y] < m[x] => P[y] = Q[y]) => P[x] = Q[x]

LEMMA RecursionUnique ==
  ASSUME NEW S, NEW m \in [S -> Nat], NEW P, NEW Q, Agreeing(P, Q, S, m)
  PROVE  \A x \in S : P[x] = Q[x]
<1> DEFINE T == {m[x] : x \in {z \in S : P[z] # Q[z]}}
<1> SUFFICES ASSUME T # {} PROVE FALSE
  OBVIOUS
<1>1. T \in SUBSET Nat
  OBVIOUS
<1>2. PICK t \in T : \A u \in T : t <= u
  <2> HIDE DEF T
  <2> QED
    BY <1>1, Least
<1>3. PICK x \in S : P[x] # Q[x] /\ t = m[x]
  OBVIOUS
<1>4. \A y \in S : m[y] < m[x] => P[y] = Q[y]
  <2> SUFFICES ASSUME NEW y \in S, m[y] < m[x], P[y] # Q[y] PROVE FALSE
    OBVIOUS
  <2>1. m[y] \in T /\ m[y] \in Nat /\ m[x] \in Nat
    OBVIOUS
  <2>2. m[x] <= m[y]
    BY <2>1, <1>2, <1>3
  <2> HIDE DEF T
  <2> QED
    BY <2>1, <2>2
<1> HIDE DEF T
<1>5. P[x] = Q[x]
  BY <1>4, Zenon DEF Agreeing
<1> QED
  BY <1>3, <1>5

\* F[<<P, x>>] depends on P only at points of a smaller measure than that of x.
Founded(F, S, V, m) ==
  /\ F \in [[S -> V] \X S -> V]
  /\ \A P, Q \in [S -> V] : \A x \in S :
       (\A y \in S : m[y] < m[x] => P[y] = Q[y]) => F[<<P, x>>] = F[<<Q, x>>]

Solves(P, F, S) == \A x \in S : P[x] = F[<<P, x>>]

\* There is a function whose value at each point depends on its values at the
\* points of a smaller measure only.
LEMMA RecursionExists ==
  ASSUME NEW S, NEW V, V # {}, NEW n \in Nat, NEW m \in [S -> 0..n],
         NEW F, Founded(F, S, V, m)
  PROVE  \E P \in [S -> V] : Solves(P, F, S)
<1> DEFINE Upto(P, k) == \A x \in S : m[x] < k => P[x] = F[<<P, x>>]
           T == {k \in Nat : ~ \E P \in [S -> V] : Upto(P, k)}
<1>0. \A x \in S : m[x] \in Nat /\ m[x] < n + 1 /\ ~(m[x] < 0)
  <2>1. \A i \in 0..n : i \in Nat /\ i < n + 1 /\ ~(i < 0)
    OBVIOUS
  <2> QED
    BY <2>1
<1>1. ASSUME T # {} PROVE FALSE
  <2>1. T \in SUBSET Nat
    OBVIOUS
  <2>2. PICK k \in T : \A u \in T : k <= u
    <3> HIDE DEF T
    <3> QED
      BY <1>1, <2>1, Least
  <2>3. k # 0
    <3>0. PICK v \in V : TRUE
      OBVIOUS
    <3>1. [x \in S |-> v] \in [S -> V] /\ Upto([x \in S |-> v], 0)
      BY <1>0
    <3> QED
      BY <3>1
  <2>4. k \in Nat /\ k - 1 \in Nat /\ k - 1 \notin T
    <3>1. k \in Nat
      BY <2>2
    <3> HIDE DEF T
    <3> QED
      BY <3>1, <2>2, <2>3
  <2>5. PICK P \in [S -> V] : Upto(P, k - 1)
    BY <2>4
  <2> DEFINE Q == [x \in S |-> IF m[x] < k - 1 THEN P[x] ELSE F[<<P, x>>]]
  <2>6. Q \in [S -> V] /\ \A x \in S : m[x] < k - 1 => Q[x] = P[x]
    BY DEF Founded
  <2>7. ASSUME NEW x \in S, m[x] < k PROVE Q[x] = F[<<Q, x>>]
    <3>1. \A y \in S : m[y] < m[x] => P[y] = Q[y]
      <4> SUFFICES ASSUME NEW y \in S, m[y] < m[x] PROVE m[y] < k - 1
        BY <2>6
      <4> DEFINE a == m[x]
                 b == m[y]
      <4>1. a \in Nat /\ b \in Nat /\ b < a /\ a < k
        BY <1>0, <2>7
      <4> HIDE DEF a, b, Q, T
      <4>2. b < k - 1
        BY <4>1, <2>4
      <4> QED
        BY <4>2 DEF b
    <3>2. F[<<P, x>>] = F[<<Q, x>>]
      <4> HIDE DEF Q
      <4> QED
        BY <3>1, <2>6 DEF Founded
    <3>3. Q[x] = F[<<P, x>>]
      BY <2>5
    <3> QED
      BY <3>2, <3>3
  <2>8. Upto(Q, k)
    BY <2>7
  <2>9. k \notin T
    <3> HIDE DEF Q, Upto
    <3> QED
      BY <2>6, <2>8
  <2> QED
    BY <2>2, <2>9
<1>2. n + 1 \in Nat /\ n + 1 \notin T
  <2> HIDE DEF T
  <2> QED
    BY <1>1
<1>3. PICK P \in [S -> V] : Upto(P, n + 1)
  BY <1>2
<1> QED
  BY <1>0, <1>3 DEF Solves

\* A longer line does not cost the server less.
LEMMA LineTimeMonotone ==
  ASSUME NEW a \in Nat, NEW b \in Nat, a <= b
  PROVE  LineTime(a) \in Nat /\ LineTime(b) \in Nat /\ LineTime(a) <= LineTime(b)
<1> DEFINE C == CharsPerUnit
           p == a \div C
           q == b \div C
<1>0. C \in Nat \ {0} /\ LinePenalty \in Nat
  BY FloodConstants
<1> HIDE DEF C
<1>1. /\ p \in Nat /\ q \in Nat
      /\ C * p <= a /\ b < C * (q + 1)
  BY <1>0
<1> HIDE DEF p, q
<1>2. p <= q
  <2> SUFFICES ASSUME p >= q + 1 PROVE FALSE
    BY <1>1
  <2>1. C * p >= C * (q + 1)
    BY <1>0, <1>1
  <2> QED
    BY <1>0, <1>1, <2>1
<1> QED
  BY <1>0, <1>1, <1>2 DEF LineTime, p, q, C

-----------------------------------------------------------------------------
(* The lines of a message are short.                                       *)

LEMMA DotsType == Dots \in Seq(Characters) /\ Len(Dots) = 3
<1>1. "." \in Characters
  BY TextConstants
<1>2. Len(Dots) = 3 /\ DOMAIN Dots = 1..3
  BY DEF Dots
<1>3. \A i \in 1..3 : Dots[i] = "."
  BY DEF Dots
<1>4. Dots = [i \in 1..3 |-> "."]
  BY DEF Dots
<1> QED
  BY <1>1, <1>2, <1>4

LEMMA MaxPieceIsNat == MaxPiece \in Nat \ {0} /\ LongestLine = MaxPiece + 7
<1>1. MaxPiece \in Nat \ {0}
  <2>1. SplitLen \in Nat /\ MinSplit \in Nat \ {0}
    BY TextConstants
  <2> QED
    BY <2>1 DEF MaxPiece
<1> QED
  BY <1>1, DotsType DEF LongestLine

LEMMA IndexFragmentBound ==
  ASSUME NEW text \in Seq(Characters)
  PROVE  IndexFragment(text) \in 0..Len(text)
<1> DEFINE fragments == {i \in 2..(Len(text) - 1) : text[i] = "." /\ text[i + 1] = " "}
           words == Positions(text, " ") \ {1}
<1>1. Len(text) \in Nat
  OBVIOUS
<1>2. ASSUME fragments # {} PROVE Max(fragments) + 1 \in 0..Len(text)
  <2> DEFINE n == Len(text) - 1
             m == Max(fragments)
  <2>1. PICK i \in 2..(Len(text) - 1) : i \in fragments
    BY <1>2
  <2>2. n \in Nat /\ n + 1 = Len(text)
    <3> HIDE DEF fragments
    <3> QED
      BY <1>1, <2>1
  <2>5. \A j \in 2..n : j \in 1..n
    BY <2>2
  <2>6. fragments \in SUBSET (1..n)
    <3> HIDE DEF n
    <3>1. fragments \subseteq 2..n
      BY DEF n
    <3> QED
      BY <3>1, <2>5
  <2> HIDE DEF fragments, n
  <2>3. m \in fragments
    BY <2>2, <2>6, <1>2, MaxIn
  <2> HIDE DEF m
  <2>4. m + 1 \in 0..Len(text)
    BY <2>2, <2>3, <2>6
  <2> QED
    BY <2>4 DEF m
<1>3. ASSUME words # {} PROVE Max(words) \in 0..Len(text)
  <2>1. words \in SUBSET (1..Len(text))
    BY DEF Positions
  <2> DEFINE m == Max(words)
  <2> HIDE DEF words
  <2>2. m \in words
    BY <1>1, <2>1, <1>3, MaxIn
  <2> HIDE DEF m
  <2>3. m \in 0..Len(text)
    BY <1>1, <2>1, <2>2
  <2> QED
    BY <2>3 DEF m
<1>4. IndexFragment(text) = IF fragments # {} THEN Max(fragments) + 1
                            ELSE IF words # {} THEN Max(words) ELSE 0
  BY DEF IndexFragment
<1> HIDE DEF fragments, words
<1> QED
  BY <1>1, <1>2, <1>3, <1>4

LEMMA CutNewLinesShortens ==
  ASSUME NEW text \in Seq(Characters)
  PROVE  CutNewLines(text) \in Seq(Characters) /\ Len(CutNewLines(text)) <= Len(text)
<1> DEFINE breaks == Positions(text, "nl")
<1>1. CASE breaks = {}
  BY <1>1 DEF CutNewLines
<1>2. CASE breaks # {}
  <2> DEFINE m == Min(breaks)
  <2>1. breaks \in SUBSET Nat /\ breaks \subseteq 1..Len(text)
    BY DEF Positions
  <2>2. m \in breaks
    <3> HIDE DEF breaks
    <3> QED
      BY <1>2, <2>1, MinIn
  <2>3. m \in 1..Len(text)
    BY <2>1, <2>2
  <2>4. CutNewLines(text) = SubSeq(text, 1, m - 1)
    BY <1>2 DEF CutNewLines
  <2> HIDE DEF m
  <2>5. 1 \in 1..(Len(text) + 1) /\ m - 1 \in 0..Len(text)
    BY <2>3
  <2>6. SubSeq(text, 1, m - 1) \in Seq(Characters) /\ Len(SubSeq(text, 1, m - 1)) <= Len(text)
    BY <2>3, <2>5, SubSeqProperties
  <2> QED
    BY <2>4, <2>6
<1> QED
  BY <1>1, <1>2

\* What SplitMessage cuts off.
Piece == {piece \in Seq(Characters) : Len(piece) <= MaxPiece + 3}

\* What a step of SplitMessage does with the text from a place on.
SplitRest(text, from) == SubSeq(text, from, Len(text))
SplitCut(text, from) ==
  LET i == IndexFragment(SubSeq(SplitRest(text, from), 1, MaxPiece))
  IN  IF i = 0 THEN MaxPiece ELSE i
SplitStep(text, P, from) ==
  IF Len(SplitRest(text, from)) <= MaxPiece THEN <<SplitRest(text, from)>>
  ELSE <<SubSeq(SplitRest(text, from), 1, SplitCut(text, from)) \o Dots>>
         \o P[from + SplitCut(text, from)]

\* SplitMessage makes at least one piece of each rest of the text, none longer
\* than the limit and the dots.
LEMMA SplitMessageIs ==
  ASSUME NEW text \in Seq(Characters)
  PROVE  \E P : /\ SplitMessage(text) = P[1]
                /\ \A from \in 1..(Len(text) + 1) :
                     P[from] \in Seq(Piece) \ {<<>>} /\ P[from] = SplitStep(text, P, from)
<1> DEFINE N == Len(text)
           S == 1..(N + 1)
           V == Seq(Piece) \ {<<>>}
           rest(from) == SubSeq(text, from, Len(text))
           index(from) == IndexFragment(SubSeq(rest(from), 1, MaxPiece))
           cut(from) == IF index(from) = 0 THEN MaxPiece ELSE index(from)
           Cut(P, from) ==
             IF Len(rest(from)) <= MaxPiece THEN <<rest(from)>>
             ELSE <<SubSeq(rest(from), 1, cut(from)) \o Dots>> \o P[from + cut(from)]
           Pieces == CHOOSE P : P = [from \in S |-> Cut(P, from)]
           m == [from \in S |-> N + 1 - from]
           F == [p \in [S -> V] \X S |-> Cut(p[1], p[2])]
<1>1. SplitMessage(text) = Pieces[1]
  BY DEF SplitMessage
<1>2. N \in Nat /\ 1 \in S /\ m \in [S -> 0..N]
  OBVIOUS
<1>3. ASSUME NEW from \in S
      PROVE  rest(from) \in Seq(Characters) /\ Len(rest(from)) = N + 1 - from
  <2>1. \A j \in from..Len(text) : text[j] \in Characters
    OBVIOUS
  <2> QED
    BY <2>1, SubSeqProperties
<1>4. ASSUME NEW from \in S, ~(Len(rest(from)) <= MaxPiece)
      PROVE  /\ cut(from) \in 1..MaxPiece /\ from + cut(from) \in S
             /\ from + cut(from) > from
             /\ SubSeq(rest(from), 1, cut(from)) \o Dots \in Piece
  <2> DEFINE r == rest(from)
             s == SubSeq(r, 1, MaxPiece)
             c == cut(from)
  <2>1. r \in Seq(Characters) /\ Len(r) = N + 1 - from /\ Len(r) > MaxPiece
    BY <1>3, <1>4, MaxPieceIsNat
  <2> HIDE DEF r
  <2>2. \A k \in 1..MaxPiece : r[k] \in Characters
    BY <2>1, MaxPieceIsNat
  <2>3. s \in Seq(Characters) /\ Len(s) = MaxPiece
    BY <2>2, MaxPieceIsNat, SubSeqProperties
  <2>4. IndexFragment(s) \in 0..MaxPiece
    BY <2>3, IndexFragmentBound
  <2>5. c \in 1..MaxPiece
    BY <2>4, MaxPieceIsNat DEF r
  <2> HIDE DEF s, c
  <2>6. from + c \in S /\ from + c > from
    BY <2>1, <2>5, MaxPieceIsNat
  <2>7. SubSeq(r, 1, c) \in Seq(Characters) /\ Len(SubSeq(r, 1, c)) = c
    <3>1. \A k \in 1..c : r[k] \in Characters
      BY <2>2, <2>5, MaxPieceIsNat
    <3> QED
      BY <3>1, <2>5, MaxPieceIsNat, SubSeqProperties
  <2>8. /\ SubSeq(r, 1, c) \o Dots \in Seq(Characters)
        /\ Len(SubSeq(r, 1, c) \o Dots) = c + 3
    <3> DEFINE q == SubSeq(r, 1, c)
    <3>1. q \in Seq(Characters) /\ Len(q) = c /\ c \in Nat
      BY <2>5, <2>7, MaxPieceIsNat
    <3> HIDE DEF q
    <3>2. q \o Dots \in Seq(Characters) /\ Len(q \o Dots) = c + 3
      <4>1. Dots \in Seq(Characters) /\ Len(Dots) = 3
        BY DotsType
      <4>2. q \o Dots \in Seq(Characters) /\ Len(q \o Dots) = Len(q) + Len(Dots)
        BY <3>1, <4>1, ConcatProperties
      <4> QED
        BY <3>1, <4>1, <4>2
    <3> QED
      BY <3>2 DEF q
  <2>9. SubSeq(r, 1, c) \o Dots \in Piece
    BY <2>5, <2>8, MaxPieceIsNat DEF Piece
  <2> QED
    BY <2>5, <2>6, <2>9 DEF r, c
<1>5. ASSUME NEW P, NEW from \in S, \A y \in S : y > from => P[y] \in V
      PROVE  Cut(P, from) \in V
  <2>1. CASE Len(rest(from)) <= MaxPiece
    <3>1. rest(from) \in Piece
      BY <1>3, <2>1, MaxPieceIsNat DEF Piece
    <3>2. Cut(P, from) = <<rest(from)>>
      BY <2>1
    <3> HIDE DEF rest, Cut
    <3> QED
      BY <3>1, <3>2
  <2>2. CASE ~(Len(rest(from)) <= MaxPiece)
    <3> DEFINE one == SubSeq(rest(from), 1, cut(from)) \o Dots
               others == P[from + cut(from)]
    <3>1. one \in Piece /\ others \in V
      BY <1>4, <1>5, <2>2
    <3>2. Cut(P, from) = <<one>> \o others
      BY <2>2
    <3> HIDE DEF one, others, Cut
    <3>3. <<one>> \in Seq(Piece) /\ Len(<<one>>) = 1
      BY <3>1
    <3>4. <<one>> \o others \in Seq(Piece) /\ Len(<<one>> \o others) = 1 + Len(others)
      BY <3>1, <3>3, ConcatProperties
    <3>5. <<one>> \o others # <<>>
      BY <3>1, <3>4
    <3> QED
      BY <3>2, <3>4, <3>5
  <2> QED
    BY <2>1, <2>2
<1>6. ASSUME NEW P, NEW Q, NEW from \in S, \A y \in S : y > from => P[y] = Q[y]
      PROVE  Cut(P, from) = Cut(Q, from)
  <2>1. CASE Len(rest(from)) <= MaxPiece
    BY <2>1
  <2>2. CASE ~(Len(rest(from)) <= MaxPiece)
    <3>1. P[from + cut(from)] = Q[from + cut(from)]
      BY <1>4, <1>6, <2>2
    <3> HIDE DEF rest, cut
    <3> QED
      BY <3>1, <2>2
  <2> QED
    BY <2>1, <2>2
<1>7. \A x, y \in S : m[y] < m[x] <=> y > x
  BY <1>2
<1> HIDE DEF Cut
<1>8. Founded(F, S, V, m)
  <2>1. F \in [[S -> V] \X S -> V]
    <3> SUFFICES ASSUME NEW P \in [S -> V], NEW x \in S PROVE Cut(P, x) \in V
      OBVIOUS
    <3> HIDE DEF V, S
    <3> QED
      BY <1>5
  <2>2. ASSUME NEW P \in [S -> V], NEW Q \in [S -> V], NEW x \in S,
               \A y \in S : m[y] < m[x] => P[y] = Q[y]
        PROVE  F[<<P, x>>] = F[<<Q, x>>]
    <3>1. \A y \in S : y > x => P[y] = Q[y]
      BY <1>7, <2>2
    <3>2. Cut(P, x) = Cut(Q, x)
      <4> HIDE DEF S, V
      <4> QED
        BY <1>6, <3>1
    <3>3. F[<<P, x>>] = Cut(P, x) /\ F[<<Q, x>>] = Cut(Q, x)
      <4> HIDE DEF S, V
      <4> QED
        OBVIOUS
    <3> QED
      BY <3>2, <3>3
  <2> HIDE DEF S, V, F, m
  <2> QED
    BY <2>1, <2>2 DEF Founded
<1>9. <<<<>>>> \in V
  <2>1. <<>> \in Piece
    BY MaxPieceIsNat DEF Piece
  <2> QED
    BY <2>1
<1>10. PICK P \in [S -> V] : Solves(P, F, S)
  <2>1. V # {}
    BY <1>9
  <2> HIDE DEF S, V, F, m, N
  <2> QED
    BY <2>1, <1>2, <1>8, RecursionExists
<1>11. P = [from \in S |-> Cut(P, from)]
  <2>1. \A x \in S : F[<<P, x>>] = Cut(P, x)
    <3> HIDE DEF S, V
    <3> QED
      OBVIOUS
  <2> HIDE DEF S, V, F
  <2> QED
    BY <1>10, <2>1 DEF Solves
<1>12. Pieces = [from \in S |-> Cut(Pieces, from)]
  <2> HIDE DEF S
  <2> QED
    BY <1>11, Zenon
<1> HIDE DEF Pieces
<1>13. \A x \in S : P[x] = Pieces[x]
  <2>1. ASSUME NEW x \in S, \A y \in S : m[y] < m[x] => P[y] = Pieces[y]
        PROVE  P[x] = Pieces[x]
    <3>1. \A y \in S : y > x => P[y] = Pieces[y]
      BY <1>7, <2>1
    <3>2. Cut(P, x) = Cut(Pieces, x)
      <4> HIDE DEF S
      <4> QED
        BY <1>6, <3>1
    <3>3. P[x] = Cut(P, x)
      <4> HIDE DEF S
      <4> QED
        BY <1>11
    <3>4. Pieces[x] = Cut(Pieces, x)
      <4> HIDE DEF S
      <4> QED
        BY <1>12
    <3> QED
      BY <3>2, <3>3, <3>4
  <2>2. m \in [S -> Nat]
    BY <1>2
  <2>3. Agreeing(P, Pieces, S, m)
    BY <2>1 DEF Agreeing
  <2> HIDE DEF S, m
  <2> QED
    BY <2>2, <2>3, RecursionUnique
<1>14. SplitMessage(text) = P[1]
  BY <1>1, <1>2, <1>13
<1>15. ASSUME NEW from \in S PROVE P[from] \in V /\ P[from] = SplitStep(text, P, from)
  <2>1. SplitStep(text, P, from) = Cut(P, from)
    BY DEF SplitStep, SplitRest, SplitCut, Cut
  <2>2. P[from] = Cut(P, from)
    <3> HIDE DEF S
    <3> QED
      BY <1>11
  <2>3. P[from] \in V
    <3> HIDE DEF S, V
    <3> QED
      BY <1>10
  <2> HIDE DEF S, V
  <2> QED
    BY <2>1, <2>2, <2>3
<1> QED
  BY <1>14, <1>15

LEMMA SplitMessageShort ==
  ASSUME NEW text \in Seq(Characters)
  PROVE  SplitMessage(text) \in Seq(Piece) /\ SplitMessage(text) # <<>>
<1>1. 1 \in 1..(Len(text) + 1)
  OBVIOUS
<1> QED
  BY <1>1, SplitMessageIs

LEMMA ShortSequences ==
  ASSUME NEW a \in Characters, NEW b \in Characters
  PROVE  /\ <<a>> \in Seq(Characters) /\ Len(<<a>>) = 1
         /\ <<a, b>> \in Seq(Characters) /\ Len(<<a, b>>) = 2
OBVIOUS

LEMMA WrappedShort ==
  ASSUME NEW verb \in Characters, NEW piece \in Seq(Characters)
  PROVE  /\ Wrapped(verb, piece) \in Seq(Characters)
         /\ Len(Wrapped(verb, piece)) <= Len(piece) + 4
<1> DEFINE head == <<"ctl", verb>>
           last == <<"ctl">>
           space == <<" ">>
           mid == IF piece = <<>> THEN <<>> ELSE space \o piece
<1>1. "ctl" \in Characters /\ " " \in Characters
  BY TextConstants
<1>2. /\ head \in Seq(Characters) /\ Len(head) = 2
      /\ last \in Seq(Characters) /\ Len(last) = 1
      /\ space \in Seq(Characters) /\ Len(space) = 1
  BY <1>1, ShortSequences
<1> HIDE DEF space
<1>3. mid \in Seq(Characters) /\ Len(mid) <= Len(piece) + 1 /\ Len(mid) \in Nat /\ Len(piece) \in Nat
  <2>1. CASE piece = <<>>
    BY <2>1
  <2>2. CASE piece # <<>>
    <3>1. space \o piece \in Seq(Characters) /\ Len(space \o piece) = Len(space) + Len(piece)
      BY <1>2, ConcatProperties
    <3> QED
      BY <1>2, <2>2, <3>1
  <2> QED
    BY <2>1, <2>2
<1>4. Wrapped(verb, piece) = head \o mid \o last
  BY DEF Wrapped, space
<1> HIDE DEF head, mid, last
<1> DEFINE both == head \o mid
<1>5. both \in Seq(Characters) /\ Len(both) = Len(head) + Len(mid)
  BY <1>2, <1>3, ConcatProperties
<1> HIDE DEF both
<1>6. both \o last \in Seq(Characters) /\ Len(both \o last) = Len(both) + Len(last)
  BY <1>2, <1>5, ConcatProperties
<1>7. Wrapped(verb, piece) = both \o last
  BY <1>4 DEF both
<1> DEFINE a == Len(head)
           b == Len(mid)
           c == Len(last)
           k == Len(piece)
<1>8. a = 2 /\ c = 1 /\ b \in Nat /\ k \in Nat /\ b <= k + 1
  BY <1>2, <1>3
<1>9. Len(both \o last) = a + b + c
  BY <1>5, <1>6
<1> HIDE DEF a, b, c
<1>10. a + b + c <= k + 4
  BY <1>8
<1> QED
  BY <1>6, <1>7, <1>9, <1>10

\* A message becomes at least one line, and each is short.
LEMMA LinesShort ==
  ASSUME NEW msg \in AllMsgs
  PROVE  Lines(msg) \in Seq(ShortLine) /\ Lines(msg) # <<>>
<1> DEFINE pieces == SplitMessage(msg.text)
           cmd == IF msg.cmd \in {"CTCP", "PRIVMSG"} THEN "PRIVMSG" ELSE "NOTICE"
           body(i) == IF msg.cmd \in {"CTCP", "CTCPREPLY"} THEN Wrapped(msg.verb, pieces[i])
                      ELSE pieces[i]
           line(i) == [cmd |-> cmd, text |-> CutNewLines(body(i))]
<1>1. msg.text \in Seq(Characters) /\ msg.verb \in Characters
  BY ClientConstants DEF AllMsgs
<1>2. pieces \in Seq(Piece) /\ pieces # <<>>
  BY <1>1, SplitMessageShort
<1> HIDE DEF pieces
<1>3. Len(pieces) \in Nat \ {0} /\ DOMAIN pieces = 1..Len(pieces)
  BY <1>2
<1>4. ASSUME NEW i \in 1..Len(pieces) PROVE line(i) \in ShortLine
  <2>1. pieces[i] \in Seq(Characters) /\ Len(pieces[i]) <= MaxPiece + 3
    BY <1>2, <1>3 DEF Piece
  <2>2. /\ Wrapped(msg.verb, pieces[i]) \in Seq(Characters)
        /\ Len(Wrapped(msg.verb, pieces[i])) <= Len(pieces[i]) + 4
    BY <1>1, <2>1, WrappedShort
  <2>3. body(i) \in Seq(Characters) /\ Len(body(i)) <= LongestLine
    BY <2>1, <2>2, MaxPieceIsNat
  <2> HIDE DEF body
  <2>4. CutNewLines(body(i)) \in Seq(Characters) /\ Len(CutNewLines(body(i))) <= LongestLine
    BY <2>3, CutNewLinesShortens, MaxPieceIsNat
  <2> QED
    BY <2>4 DEF ShortLine
<1>5. Lines(msg) = [i \in 1..Len(pieces) |-> line(i)]
  BY <1>3 DEF Lines, pieces
<1> HIDE DEF line
<1>6. Lines(msg) \in Seq(ShortLine) /\ Len(Lines(msg)) = Len(pieces)
  BY <1>3, <1>4, <1>5
<1> QED
  BY <1>3, <1>6

-----------------------------------------------------------------------------
(* The handlers found on a list.                                           *)

LEMMA HandlerTypes ==
  /\ Cardinality(Nodes) \in Nat /\ Nil \notin Nodes
  /\ \A n \in Nodes : ListOf(n) \in Lists /\ Home[n] \in Sets
BY HandlerConstants, FS_CardinalityType DEF Lists

\* The step of a walk.
Onward(l, P, k) == IF k = 0 THEN start[l] ELSE IF P[k - 1] = Nil THEN Nil ELSE next[P[k - 1]]

LEMMA WalkIs ==
  ASSUME ListsOK, NEW l \in Lists
  PROVE  /\ Walk(l)[0] = start[l]
         /\ \A k \in 1..Cardinality(Nodes) :
              Walk(l)[k] = IF Walk(l)[k - 1] = Nil THEN Nil ELSE next[Walk(l)[k - 1]]
<1> DEFINE N == Cardinality(Nodes)
           S == 0..N
           V == {Nil} \cup {n \in Nodes : ListOf(n) = l}
           Here(P, k) == Onward(l, P, k)
           At == CHOOSE P : P = [k \in S |-> Here(P, k)]
           m == [k \in S |-> k]
           F == [p \in [S -> V] \X S |-> Here(p[1], p[2])]
<1>1. Walk(l) = At
  BY DEF Walk, Onward
<1>2. N \in Nat /\ m \in [S -> 0..N] /\ V # {}
  BY HandlerTypes
<1>3. ASSUME NEW P, NEW k \in S, \A j \in S : j < k => P[j] \in V
      PROVE  Here(P, k) \in V
  <2> USE DEF Onward
  <2>1. CASE k = 0
    BY <2>1 DEF ListsOK
  <2>2. CASE k # 0
    <3>1. k - 1 \in S /\ k - 1 < k
      BY <1>2, <2>2
    <3>2. P[k - 1] \in V
      BY <1>3, <3>1
    <3>3. ASSUME NEW n \in V, n # Nil PROVE next[n] \in V
      BY <3>3 DEF ListsOK
    <3> QED
      BY <2>2, <3>2, <3>3
  <2> QED
    BY <2>1, <2>2
<1>4. ASSUME NEW P, NEW Q, NEW k \in S, \A j \in S : j < k => P[j] = Q[j]
      PROVE  Here(P, k) = Here(Q, k)
  <2> USE DEF Onward
  <2>1. CASE k = 0
    BY <2>1
  <2>2. CASE k # 0
    <3>1. k - 1 \in S /\ k - 1 < k
      BY <1>2, <2>2
    <3>2. P[k - 1] = Q[k - 1]
      BY <1>4, <3>1
    <3> QED
      BY <2>2, <3>2
  <2> QED
    BY <2>1, <2>2
<1>5. \A x, y \in S : m[y] < m[x] <=> y < x
  BY <1>2
<1> HIDE DEF Here
<1>6. Founded(F, S, V, m)
  <2>1. F \in [[S -> V] \X S -> V]
    <3> SUFFICES ASSUME NEW P \in [S -> V], NEW x \in S PROVE Here(P, x) \in V
      OBVIOUS
    <3> HIDE DEF V, S
    <3> QED
      BY <1>3
  <2>2. ASSUME NEW P \in [S -> V], NEW Q \in [S -> V], NEW x \in S,
               \A y \in S : m[y] < m[x] => P[y] = Q[y]
        PROVE  F[<<P, x>>] = F[<<Q, x>>]
    <3>1. \A y \in S : y < x => P[y] = Q[y]
      BY <1>5, <2>2
    <3>2. Here(P, x) = Here(Q, x)
      <4> HIDE DEF S, V
      <4> QED
        BY <1>4, <3>1
    <3>3. F[<<P, x>>] = Here(P, x) /\ F[<<Q, x>>] = Here(Q, x)
      <4> HIDE DEF S, V
      <4> QED
        OBVIOUS
    <3> QED
      BY <3>2, <3>3
  <2> HIDE DEF S, V, F, m
  <2> QED
    BY <2>1, <2>2 DEF Founded
<1>7. PICK P \in [S -> V] : Solves(P, F, S)
  <2> HIDE DEF S, V, F, m, N
  <2> QED
    BY <1>2, <1>6, RecursionExists
<1>8. P = [k \in S |-> Here(P, k)]
  <2>1. \A x \in S : F[<<P, x>>] = Here(P, x)
    <3> HIDE DEF S, V
    <3> QED
      OBVIOUS
  <2> HIDE DEF S, V, F
  <2> QED
    BY <1>7, <2>1 DEF Solves
<1>9. At = [k \in S |-> Here(At, k)]
  <2> HIDE DEF S
  <2> QED
    BY <1>8, Zenon
<1>10. \A k \in S : Walk(l)[k] = Here(Walk(l), k)
  <2> HIDE DEF S, At
  <2> QED
    BY <1>1, <1>9
<1>11. 0 \in S /\ \A k \in 1..N : k \in S /\ k # 0
  BY <1>2
<1> QED
  BY <1>10, <1>11 DEF Here, Onward

\* A walk stays where the links lead.
LEMMA WalkStays ==
  ASSUME ListsOK, NEW l \in Lists, NEW V, Nil \in V, start[l] \in V,
         \A n \in V : n # Nil => next[n] \in V
  PROVE  \A k \in 0..Cardinality(Nodes) : Walk(l)[k] \in V
<1> DEFINE N == Cardinality(Nodes)
           T == {k \in 0..N : Walk(l)[k] \notin V}
<1> SUFFICES ASSUME T # {} PROVE FALSE
  OBVIOUS
<1>1. N \in Nat /\ T \in SUBSET Nat
  BY HandlerTypes
<1>2. PICK k \in T : \A j \in T : k <= j
  <2> HIDE DEF T
  <2> QED
    BY <1>1, Least
<1>3. k \in 0..N /\ Walk(l)[k] \notin V
  OBVIOUS
<1>4. k # 0
  BY <1>3, WalkIs
<1>5. k - 1 \in 0..N /\ k - 1 \notin T /\ k \in 1..N
  BY <1>1, <1>2, <1>3, <1>4
<1>6. Walk(l)[k - 1] \in V
  BY <1>5
<1> QED
  BY <1>3, <1>5, <1>6, WalkIs

\* A walk along a list finds handlers of its set and event only.
LEMMA WalkedOfList ==
  ASSUME ListsOK, NEW l \in Lists
  PROVE  Walked(l) \subseteq {n \in Nodes : ListOf(n) = l}
<1> DEFINE V == {Nil} \cup {n \in Nodes : ListOf(n) = l}
<1>1. Nil \in V /\ start[l] \in V /\ \A n \in V : n # Nil => next[n] \in V
  BY DEF ListsOK
<1>2. \A k \in 0..Cardinality(Nodes) : Walk(l)[k] \in V
  <2> HIDE DEF V
  <2> QED
    BY <1>1, WalkStays
<1> QED
  BY <1>2 DEF Walked

\* Adding and removing a handler keep the lists apart.
LEMMA AddLists ==
  ASSUME ListsOK, NEW n \in Nodes, Add(n)
  PROVE  ListsOK'
<1> DEFINE l == ListOf(n)
<1>1. l \in Lists /\ Nil \notin Nodes /\ n # Nil
  BY HandlerTypes
<1>2. end' = [end EXCEPT ![l] = n]
  BY DEF Add
<1>3. start' \in [Lists -> Nodes \cup {Nil}] /\ \A k \in Lists : start'[k] = start[k] \/ (k = l /\ start'[k] = n)
  <2>1. start' = start \/ start' = [start EXCEPT ![l] = n]
    BY DEF Add
  <2> HIDE DEF l
  <2> QED
    BY <2>1, <1>1 DEF ListsOK
<1>4. end' \in [Lists -> Nodes \cup {Nil}] /\ \A k \in Lists : end'[k] = end[k] \/ (k = l /\ end'[k] = n)
  <2> HIDE DEF l
  <2> QED
    BY <1>1, <1>2 DEF ListsOK
<1>5. /\ next' \in [Nodes -> Nodes \cup {Nil}]
      /\ \A k \in Nodes : next'[k] = next[k] \/ (k = end[l] /\ next'[k] = n)
  <2>1. next' = next \/ next' = [next EXCEPT ![end[l]] = n]
    BY DEF Add
  <2> HIDE DEF l
  <2> QED
    BY <2>1, <1>1 DEF ListsOK
<1>6. /\ prev' \in [Nodes -> Nodes \cup {Nil}]
      /\ \A k \in Nodes : prev'[k] = prev[k] \/ (k = n /\ prev'[k] \in {Nil, end[l]})
  <2>1. prev' = [prev EXCEPT ![n] = Nil] \/ prev' = [prev EXCEPT ![n] = end[l]]
    BY DEF Add
  <2>2. end[l] \in Nodes \cup {Nil}
    BY <1>1 DEF ListsOK
  <2> HIDE DEF l
  <2> QED
    BY <2>1, <2>2, <1>1 DEF ListsOK
<1>7. end[l] # Nil => ListOf(end[l]) = ListOf(n)
  BY <1>1 DEF ListsOK
<1>8. \A k \in Lists : /\ start'[k] # Nil => ListOf(start'[k]) = k
                       /\ end'[k] # Nil => ListOf(end'[k]) = k
  <2> HIDE DEF ListOf
  <2> QED
    BY <1>3, <1>4 DEF ListsOK
<1>9. \A k \in Nodes : /\ next'[k] # Nil => ListOf(next'[k]) = ListOf(k)
                       /\ prev'[k] # Nil => ListOf(prev'[k]) = ListOf(k)
  <2> DEFINE e == end[l]
  <2>1. \A k \in Nodes : next'[k] = next[k] \/ (k = e /\ next'[k] = n)
    BY <1>5
  <2>2. \A k \in Nodes : prev'[k] = prev[k] \/ (k = n /\ prev'[k] \in {Nil, e})
    BY <1>6
  <2>3. e # Nil => ListOf(e) = ListOf(n)
    BY <1>7
  <2> HIDE DEF ListOf, e
  <2> QED
    BY <1>1, <2>1, <2>2, <2>3 DEF ListsOK
<1> QED
  BY <1>3, <1>4, <1>5, <1>6, <1>8, <1>9 DEF ListsOK

LEMMA RemoveLists ==
  ASSUME ListsOK, NEW n \in Nodes, RemoveNode(n)
  PROVE  ListsOK'
<1> DEFINE l == ListOf(n)
           s == IF prev[n] = Nil THEN next[n] ELSE start[l]
           e == IF next[n] = Nil THEN prev[n] ELSE end[l]
<1> SUFFICES ASSUME start[l] # Nil PROVE ListsOK'
  BY DEF RemoveNode, ListsOK, listVars
<1>1. l \in Lists /\ Nil \notin Nodes /\ n # Nil
  BY HandlerTypes
<1>2. /\ s \in Nodes \cup {Nil} /\ (s # Nil => ListOf(s) = l)
      /\ e \in Nodes \cup {Nil} /\ (e # Nil => ListOf(e) = l)
  BY <1>1 DEF ListsOK
<1>3. \E x \in {Nil, s} : start' = [start EXCEPT ![l] = x]
  BY DEF RemoveNode
<1>4. \E x \in {Nil, e} : end' = [end EXCEPT ![l] = x]
  BY DEF RemoveNode
<1>5. /\ next' \in [Nodes -> Nodes \cup {Nil}]
      /\ \A m \in Nodes : next'[m] \in {Nil, next[m]} \/ (m = prev[n] /\ next'[m] = next[n])
  <2>1. next' = [m \in Nodes |-> IF m = n THEN Nil ELSE IF m = prev[n] THEN next[n] ELSE next[m]]
    BY DEF RemoveNode
  <2> QED
    BY <2>1 DEF ListsOK
<1>6. /\ prev' \in [Nodes -> Nodes \cup {Nil}]
      /\ \A m \in Nodes : prev'[m] \in {Nil, prev[m]} \/ (m = next[n] /\ prev'[m] = prev[n])
  <2>1. prev' = [m \in Nodes |-> IF m = n THEN Nil ELSE IF m = next[n] THEN prev[n] ELSE prev[m]]
    BY DEF RemoveNode
  <2> QED
    BY <2>1 DEF ListsOK
<1>7. /\ start' \in [Lists -> Nodes \cup {Nil}]
      /\ \A k \in Lists : start'[k] # Nil => ListOf(start'[k]) = k
  <2>1. PICK x \in {Nil, s} : start' = [start EXCEPT ![l] = x]
    BY <1>3
  <2>2. x \in Nodes \cup {Nil} /\ (x # Nil => ListOf(x) = l)
    BY <1>2, <2>1
  <2> HIDE DEF l, s, ListOf
  <2> QED
    BY <1>1, <2>1, <2>2 DEF ListsOK
<1>8. /\ end' \in [Lists -> Nodes \cup {Nil}]
      /\ \A k \in Lists : end'[k] # Nil => ListOf(end'[k]) = k
  <2>1. PICK x \in {Nil, e} : end' = [end EXCEPT ![l] = x]
    BY <1>4
  <2>2. x \in Nodes \cup {Nil} /\ (x # Nil => ListOf(x) = l)
    BY <1>2, <2>1
  <2> HIDE DEF l, e, ListOf
  <2> QED
    BY <1>1, <2>1, <2>2 DEF ListsOK
<1>9. \A k \in Nodes : /\ next'[k] # Nil => ListOf(next'[k]) = ListOf(k)
                       /\ prev'[k] # Nil => ListOf(prev'[k]) = ListOf(k)
  <2> HIDE DEF ListOf
  <2>1. /\ next[n] # Nil => ListOf(next[n]) = ListOf(n)
        /\ prev[n] # Nil => ListOf(prev[n]) = ListOf(n)
    BY DEF ListsOK
  <2>2. \A k \in Nodes : next'[k] # Nil => ListOf(next'[k]) = ListOf(k)
    BY <1>1, <1>5, <2>1 DEF ListsOK
  <2>3. \A k \in Nodes : prev'[k] # Nil => ListOf(prev'[k]) = ListOf(k)
    BY <1>1, <1>6, <2>1 DEF ListsOK
  <2> QED
    BY <2>2, <2>3
<1> QED
  BY <1>5, <1>6, <1>7, <1>8, <1>9 DEF ListsOK

\* The lists that there are at the start.
LEMMA PlaceIs ==
  ASSUME NEW s \in Seq(Nodes), NEW n \in ToSet(s)
  PROVE  Place(s, n) \in 1..Len(s) /\ s[Place(s, n)] = n
<1>1. \E k \in DOMAIN s : s[k] = n
  BY DEF ToSet
<1>2. Place(s, n) \in DOMAIN s /\ s[Place(s, n)] = n
  BY <1>1 DEF Place
<1> QED
  BY <1>2

LEMMA EntryIs ==
  ASSUME NEW s \in Seq(Nodes), NEW k \in Int
  PROVE  /\ Entry(s, k) \in Nodes \cup {Nil}
         /\ Entry(s, k) # Nil <=> k \in 1..Len(s)
         /\ k \in 1..Len(s) => Entry(s, k) = s[k]
<1>1. DOMAIN s = 1..Len(s) /\ (\A i \in 1..Len(s) : s[i] \in Nodes) /\ Nil \notin Nodes
  BY HandlerTypes
<1> QED
  BY <1>1 DEF Entry

\* The handlers that the lists have at the start.
Firsts(first) ==
  /\ first \in [Lists -> Seq(Nodes)]
  /\ \A l \in Lists : IsInjective(first[l]) /\ \A n \in ToSet(first[l]) : ListOf(n) = l

LEMMA LinkedLists ==
  ASSUME NEW first, Firsts(first), HandlersInit(first)
  PROVE  ListsOK
<1>1. ASSUME NEW l \in Lists, NEW k \in Int
      PROVE  /\ Entry(first[l], k) \in Nodes \cup {Nil}
             /\ Entry(first[l], k) # Nil => ListOf(Entry(first[l], k)) = l
  <2>1. first[l] \in Seq(Nodes) /\ \A n \in ToSet(first[l]) : ListOf(n) = l
    BY DEF Firsts
  <2>2. ASSUME Entry(first[l], k) # Nil PROVE Entry(first[l], k) \in ToSet(first[l])
    BY <2>1, <2>2, EntryIs DEF ToSet
  <2> QED
    BY <2>1, <2>2, EntryIs
<1>2. ASSUME NEW n \in Nodes, NEW d \in {1, -1}
      PROVE  /\ Beside(first[ListOf(n)], n, d) \in Nodes \cup {Nil}
             /\ Beside(first[ListOf(n)], n, d) # Nil =>
                  ListOf(Beside(first[ListOf(n)], n, d)) = ListOf(n)
  <2> DEFINE l == ListOf(n)
  <2>1. l \in Lists /\ first[l] \in Seq(Nodes)
    BY HandlerTypes DEF Firsts
  <2> HIDE DEF l
  <2>2. ASSUME n \in ToSet(first[l]) PROVE Place(first[l], n) + d \in Int
    BY <2>1, <2>2, PlaceIs
  <2> QED
    BY <2>1, <2>2, <1>1 DEF Beside, l
<1>3. /\ start = [l \in Lists |-> Entry(first[l], 1)]
      /\ end = [l \in Lists |-> Entry(first[l], Len(first[l]))]
      /\ next = [n \in Nodes |-> Beside(first[ListOf(n)], n, 1)]
      /\ prev = [n \in Nodes |-> Beside(first[ListOf(n)], n, -1)]
  BY DEF HandlersInit, Linked
<1>4. \A l \in Lists : Len(first[l]) \in Int
  BY DEF Firsts
<1> HIDE DEF ListOf
<1>5. /\ start \in [Lists -> Nodes \cup {Nil}] /\ end \in [Lists -> Nodes \cup {Nil}]
      /\ \A l \in Lists : /\ start[l] # Nil => ListOf(start[l]) = l
                          /\ end[l] # Nil => ListOf(end[l]) = l
  BY <1>1, <1>3, <1>4
<1>6. /\ next \in [Nodes -> Nodes \cup {Nil}] /\ prev \in [Nodes -> Nodes \cup {Nil}]
      /\ \A n \in Nodes : /\ next[n] # Nil => ListOf(next[n]) = ListOf(n)
                          /\ prev[n] # Nil => ListOf(prev[n]) = ListOf(n)
  BY <1>2, <1>3
<1> QED
  BY <1>5, <1>6 DEF ListsOK

-----------------------------------------------------------------------------
(* The types, step by step.                                                *)

LEMMA GoroutineIs ==
  ASSUME TypeInv, NEW g \in DOMAIN tasks, g # Main
  PROVE  /\ g[1] \in 1..Len(lines) /\ g[2] \in Sets /\ g[3] \in Nodes
         /\ g = <<g[1], g[2], g[3]>> /\ g \in Goroutines
         /\ frames[<<g[1], g[2]>>] = "run" /\ Home[g[3]] = g[2]
<1>1. Len(lines) \in Nat
  BY DEF TypeInv, LinesOK, Ordered
<1>2. g \in (1..Len(lines)) \X Sets \X Nodes
  BY DEF TypeInv, TaskOK
<1> QED
  BY <1>1, <1>2 DEF TypeInv, TaskOK, Goroutines

\* Another line has come, and its dispatch begins.
LineCame(x) ==
  /\ lines' = Append(lines, x) /\ frames' = Begun(Len(lines) + 1)
  /\ x \in ServerLine /\ x.by \in {Loop, Main} \cup ((1..Len(lines)) \X Sets \X Nodes)

LEMMA LineCameIs ==
  ASSUME TypeInv, NEW x, LineCame(x)
  PROVE  /\ LinesOK' /\ FramesOK'
         /\ Len(lines) \in Nat /\ Len(lines') = Len(lines) + 1
         /\ lines'[Len(lines) + 1] = x
         /\ \A i \in 1..Len(lines) : lines'[i] = lines[i]
         /\ \A i \in 1..Len(lines), s \in Sets : frames'[<<i, s>>] = frames[<<i, s>>]
         /\ frames'[<<Len(lines) + 1, "fg">>] = "idle"
<1> DEFINE n == Len(lines)
<1>1. /\ n \in Nat /\ lines' \in Seq(ServerLine) /\ Len(lines') = n + 1
      /\ lines'[n + 1] = x /\ \A i \in 1..n : lines'[i] = lines[i]
  BY AppendProperties DEF LineCame, TypeInv, LinesOK, Ordered
<1>2. frames' = [f \in (1..(n + 1)) \X Sets |->
                  IF f = <<n + 1, "int">> THEN "want" ELSE IF f[1] = n + 1 THEN "idle" ELSE frames[f]]
  BY DEF LineCame, Begun
<1>3. /\ \A i \in 1..n : i \in 1..(n + 1) /\ i # n + 1
      /\ \A i \in 1..(n + 1) : i \in 1..n \/ i = n + 1
      /\ n + 1 \in 1..(n + 1)
  BY <1>1
<1>4. frames \in [(1..n) \X Sets -> {"idle", "want", "run", "done"}]
  BY DEF TypeInv, FramesOK
<1> HIDE DEF n
<1>5. \A i \in 1..n, s \in Sets : frames'[<<i, s>>] = frames[<<i, s>>]
  BY <1>2, <1>3
<1>6. /\ frames'[<<n + 1, "int">>] = "want"
      /\ frames'[<<n + 1, "fg">>] = "idle" /\ frames'[<<n + 1, "bg">>] = "idle"
  BY <1>2, <1>3 DEF Sets
<1>7. frames' \in [(1..(n + 1)) \X Sets -> {"idle", "want", "run", "done"}]
  BY <1>2, <1>3, <1>4
<1>8. FramesOK'
  <2>1. \A i \in 1..n : frames[<<i, "int">>] # "done" =>
                        frames[<<i, "bg">>] = "idle" /\ frames[<<i, "fg">>] = "idle"
    BY DEF TypeInv, FramesOK, n
  <2>2. \A i \in 1..(n + 1) : frames'[<<i, "int">>] # "done" =>
                        frames'[<<i, "bg">>] = "idle" /\ frames'[<<i, "fg">>] = "idle"
    BY <1>3, <1>5, <1>6, <2>1 DEF Sets
  <2> QED
    BY <1>1, <1>7, <2>2 DEF FramesOK
<1>9. LinesOK'
  <2>1. \A i \in 1..n : lines[i].by \in {Loop, Main} \cup ((1..(i - 1)) \X Sets \X Nodes)
    BY DEF TypeInv, LinesOK, Ordered, n
  <2>2. x.by \in {Loop, Main} \cup ((1..((n + 1) - 1)) \X Sets \X Nodes)
    <3>1. (n + 1) - 1 = n
      BY <1>1
    <3> QED
      BY <3>1 DEF LineCame, n
  <2>3. \A i \in 1..(n + 1) : lines'[i].by \in {Loop, Main} \cup ((1..(i - 1)) \X Sets \X Nodes)
    <3> SUFFICES ASSUME NEW i \in 1..(n + 1)
                 PROVE  lines'[i].by \in {Loop, Main} \cup ((1..(i - 1)) \X Sets \X Nodes)
      OBVIOUS
    <3>1. CASE i = n + 1
      BY <3>1, <2>2, <1>1
    <3>2. CASE i \in 1..n
      BY <3>2, <2>1, <1>1
    <3> QED
      BY <3>1, <3>2, <1>3
  <2> QED
    BY <1>1, <2>3 DEF LinesOK, Ordered
<1> QED
  BY <1>1, <1>5, <1>6, <1>8, <1>9 DEF n

\* What has come before stays.
Grown ==
  /\ Len(lines) \in Nat /\ Len(lines') \in Nat /\ Len(lines) <= Len(lines')
  /\ \A i \in 1..Len(lines) : lines'[i] = lines[i]

\* A goroutine that goes on as it was, in a dispatch that still runs.
LEMMA TaskKept ==
  ASSUME TypeInv, Grown, NEW g \in DOMAIN tasks, tasks'[g] = tasks[g],
         g # Main => frames'[<<g[1], g[2]>>] = "run"
  PROVE  TaskOK(g)'
<1>1. TaskOK(g)
  BY DEF TypeInv
<1>2. \A i \in 1..Len(lines) : i \in 1..Len(lines') /\ lines'[i] = lines[i]
  BY DEF Grown
<1>3. g # Main => g \in (1..Len(lines')) \X Sets \X Nodes
  BY <1>1, <1>2 DEF TaskOK
<1>4. g # Main => Home[g[3]] = g[2]
  BY <1>1 DEF TaskOK
<1>5. tasks'[g].do = "waiting" => tasks'[g].line \in 1..Len(lines') /\ lines'[tasks'[g].line].by = g
  BY <1>1, <1>2 DEF TaskOK
<1> QED
  BY <1>1, <1>3, <1>4, <1>5 DEF TaskOK

LEMMA SameLines ==
  ASSUME TypeInv, UNCHANGED lines
  PROVE  Grown /\ LinesOK'
<1>1. LinesOK'
  BY DEF TypeInv, LinesOK, Ordered
<1> QED
  BY <1>1 DEF TypeInv, LinesOK, Ordered, Grown

LEMMA SameFrames ==
  ASSUME TypeInv, UNCHANGED <<lines, frames>>
  PROVE  FramesOK'
BY DEF TypeInv, FramesOK

LEMMA SameLists == ASSUME TypeInv, UNCHANGED listVars PROVE ListsOK'
BY DEF TypeInv, ListsOK, listVars

LEMMA SameQueue == ASSUME TypeInv, UNCHANGED ioVars PROVE QueueOK'
BY DEF TypeInv, QueueOK, ioVars

\* One goroutine ends or goes on with something else; the others are the same.
LEMMA OneTask ==
  ASSUME TypeInv, Grown, NEW g \in DOMAIN tasks,
         \A h \in DOMAIN tasks : h # Main => frames'[<<h[1], h[2]>>] = frames[<<h[1], h[2]>>],
         Ended(g) \/ (TaskOK(g)' /\ \E task : Goes(g, task))
  PROVE  \A h \in DOMAIN tasks' : TaskOK(h)'
<1>1. ASSUME NEW h \in DOMAIN tasks, tasks'[h] = tasks[h] PROVE TaskOK(h)'
  <2>1. h # Main => frames'[<<h[1], h[2]>>] = "run"
    BY DEF TypeInv, TaskOK
  <2> QED
    BY <1>1, <2>1, TaskKept
<1>2. CASE Ended(g)
  <2>1. tasks' = [h \in DOMAIN tasks \ {g} |-> tasks[h]]
    BY <1>2 DEF Ended, Without
  <2> QED
    BY <1>1, <2>1
<1>3. CASE TaskOK(g)' /\ \E task : Goes(g, task)
  <2>1. /\ DOMAIN tasks' = DOMAIN tasks
        /\ \A h \in DOMAIN tasks : h # g => tasks'[h] = tasks[h]
    BY <1>3 DEF Goes
  <2> QED
    BY <1>1, <1>3, <2>1
<1> QED
  BY <1>2, <1>3

LEMMA LoopTakeType ==
  ASSUME TypeInv, LoopTake(cfg.takes), UNCHANGED <<floodVars, ioVars>>
  PROVE  TypeInv' /\ \E x : LineCame(x) /\ x.by = Loop
<1>1. PICK e \in {Event[n] : n \in Nodes} : lines' = Append(lines, [event |-> e, by |-> Loop])
  BY DEF LoopTake
<1> DEFINE x == [event |-> e, by |-> Loop]
<1>2. LineCame(x) /\ x.by = Loop
  BY <1>1 DEF LoopTake, LineCame, ServerLine, Events
<1> HIDE DEF x
<1>3. /\ LinesOK' /\ FramesOK' /\ Grown
      /\ \A i \in 1..Len(lines), s \in Sets : frames'[<<i, s>>] = frames[<<i, s>>]
  BY <1>2, LineCameIs DEF Grown
<1>4. \A g \in DOMAIN tasks' : TaskOK(g)'
  <2> SUFFICES ASSUME NEW g \in DOMAIN tasks PROVE TaskOK(g)'
    BY DEF LoopTake
  <2>1. g # Main => frames'[<<g[1], g[2]>>] = "run"
    BY <1>3, GoroutineIs
  <2>2. tasks'[g] = tasks[g]
    BY DEF LoopTake
  <2> QED
    BY <1>3, <2>1, <2>2, TaskKept
<1>5. ListsOK' /\ QueueOK'
  BY SameLists, SameQueue DEF LoopTake
<1> QED
  BY <1>2, <1>3, <1>4, <1>5 DEF TypeInv

LEMMA RLockType ==
  ASSUME TypeInv, NEW i \in DOMAIN lines, NEW s \in Sets, RLock(i, s), UNCHANGED <<floodVars, ioVars>>
  PROVE  /\ TypeInv'
         /\ \A g \in DOMAIN tasks : g \in DOMAIN tasks' /\ tasks'[g] = tasks[g]
         /\ \A g \in DOMAIN tasks' \ DOMAIN tasks :
              /\ g[1] = i /\ g[2] = s /\ g[3] \in Nodes /\ Home[g[3]] = s
              /\ tasks'[g] = Body[g[3]]
<1> DEFINE l == <<s, lines[i].event>>
           found == IF l \in Lists THEN Walked(l) ELSE {}
           born == {<<i, s, n>> : n \in found}
<1>1. tasks' = [g \in DOMAIN tasks \cup born |-> IF g \in born THEN Body[g[3]] ELSE tasks[g]]
  BY DEF RLock
<1>2. ASSUME NEW n \in found PROVE n \in Nodes /\ Home[n] = s
  <2>1. l \in Lists /\ n \in Walked(l)
    BY <1>2
  <2>2. n \in Nodes /\ ListOf(n) = l
    BY <2>1, WalkedOfList DEF TypeInv
  <2> QED
    BY <2>2 DEF ListOf
<1>3. frames' = [frames EXCEPT ![<<i, s>>] = "run"] /\ frames[<<i, s>>] = "want"
  BY DEF RLock
<1>4. i \in 1..Len(lines) /\ Len(lines) \in Nat
  BY DEF TypeInv, LinesOK, Ordered
<1>5. UNCHANGED <<lines, listVars>> /\ Grown /\ LinesOK'
  BY SameLines DEF RLock
<1>6. \A h \in (1..Len(lines)) \X Sets :
        frames'[h] = IF h = <<i, s>> THEN "run" ELSE frames[h]
  BY <1>3, <1>4 DEF TypeInv, FramesOK
<1>7. FramesOK'
  <2>1. frames' \in [(1..Len(lines)) \X Sets -> {"idle", "want", "run", "done"}]
    BY <1>3 DEF TypeInv, FramesOK
  <2>2. \A k \in 1..Len(lines) : frames'[<<k, "int">>] # "done" =>
                              frames'[<<k, "bg">>] = "idle" /\ frames'[<<k, "fg">>] = "idle"
    BY <1>3, <1>4, <1>6 DEF TypeInv, FramesOK, Sets
  <2> QED
    BY <1>5, <2>1, <2>2 DEF FramesOK
<1> HIDE DEF l, found
<1>8. ASSUME NEW g \in born
      PROVE  /\ g[1] = i /\ g[2] = s /\ g[3] \in Nodes /\ Home[g[3]] = s
             /\ g \notin DOMAIN tasks /\ tasks'[g] = Body[g[3]]
             /\ g # Main /\ g \in (1..Len(lines)) \X Sets \X Nodes
  <2>1. PICK n \in found : g = <<i, s, n>>
    BY <1>8
  <2>2. g[1] = i /\ g[2] = s /\ g[3] = n
    BY <2>1
  <2>3. g # Main
    BY <1>4, <2>2 DEF Main
  <2>4. g \notin DOMAIN tasks
    BY <1>3, <2>2, <2>3, GoroutineIs
  <2>5. tasks'[g] = Body[g[3]]
    BY <1>1, <1>8
  <2> QED
    BY <1>2, <1>4, <2>1, <2>2, <2>3, <2>4, <2>5
<1>9. ASSUME NEW g \in DOMAIN tasks PROVE g \in DOMAIN tasks' /\ tasks'[g] = tasks[g] /\ TaskOK(g)'
  <2>1. g \in DOMAIN tasks' /\ tasks'[g] = tasks[g]
    BY <1>1, <1>8
  <2>2. g # Main => frames'[<<g[1], g[2]>>] = "run"
    BY <1>6, GoroutineIs
  <2> QED
    BY <1>5, <2>1, <2>2, TaskKept
<1>10. ASSUME NEW g \in born PROVE TaskOK(g)'
  <2> DEFINE n == g[3]
  <2>1. n \in Nodes /\ tasks'[g] = Body[n] /\ g # Main
    BY <1>8, <1>10
  <2>2. /\ Body[n].do \in {"return", "panic", "add", "remove", "say", "dispatch"}
        /\ Body[n].do \in {"add", "remove"} => Body[n].node \in Nodes
    BY <2>1, HandlerConstants
  <2>3. Body[n].do = "dispatch" => Body[n].event \in Events
    BY <2>1 DEF Events
  <2>4. frames'[<<g[1], g[2]>>] = "run" /\ Home[g[3]] = g[2]
        /\ g \in (1..Len(lines')) \X Sets \X Nodes
    BY <1>4, <1>5, <1>6, <1>8, <1>10
  <2> QED
    BY <2>1, <2>2, <2>3, <2>4 DEF TaskOK, Doings
<1>11. \A g \in DOMAIN tasks' : g \in DOMAIN tasks \/ g \in born
  BY <1>1
<1>12. ListsOK' /\ QueueOK'
  BY <1>5, SameLists, SameQueue
<1> HIDE DEF born
<1>13. TypeInv'
  BY <1>5, <1>7, <1>9, <1>10, <1>11, <1>12 DEF TypeInv
<1> QED
  BY <1>8, <1>9, <1>11, <1>13

LEMMA RUnlockType ==
  ASSUME TypeInv, NEW i \in DOMAIN lines, NEW s \in Sets, RUnlock(i, s), UNCHANGED <<floodVars, ioVars>>
  PROVE  /\ TypeInv'
         /\ \A k \in 1..Len(lines) : Open(k)' => Open(k)
<1>1. frames' = [f \in DOMAIN frames |->
         IF f = <<i, s>> THEN "done" ELSE IF s = "int" /\ f[1] = i THEN "want" ELSE frames[f]]
  BY DEF RUnlock
<1>2. i \in 1..Len(lines) /\ Len(lines) \in Nat
  BY DEF TypeInv, LinesOK, Ordered
<1>3. UNCHANGED <<lines, listVars, tasks>> /\ Grown /\ LinesOK'
  BY SameLines DEF RUnlock
<1>4. DOMAIN frames = (1..Len(lines)) \X Sets
      /\ frames \in [(1..Len(lines)) \X Sets -> {"idle", "want", "run", "done"}]
  BY DEF TypeInv, FramesOK
<1>5. \A k \in 1..Len(lines), r \in Sets : frames'[<<k, r>>] =
        IF k = i /\ r = s THEN "done" ELSE IF s = "int" /\ k = i THEN "want" ELSE frames[<<k, r>>]
  BY <1>1, <1>4
<1>6. s # "int" => frames[<<i, "int">>] = "done"
  BY <1>2 DEF RUnlock, TypeInv, FramesOK, Sets
<1>7. s = "int" => frames[<<i, "bg">>] = "idle" /\ frames[<<i, "fg">>] = "idle"
  BY <1>2 DEF RUnlock, TypeInv, FramesOK, Sets
<1>8. FramesOK'
  <2>1. frames' \in [(1..Len(lines)) \X Sets -> {"idle", "want", "run", "done"}]
    BY <1>1, <1>4
  <2>2. \A k \in 1..Len(lines) : frames'[<<k, "int">>] # "done" =>
                              frames'[<<k, "bg">>] = "idle" /\ frames'[<<k, "fg">>] = "idle"
    BY <1>5, <1>6 DEF TypeInv, FramesOK, Sets
  <2> QED
    BY <1>3, <2>1, <2>2 DEF FramesOK
<1>9. \A g \in DOMAIN tasks' : TaskOK(g)'
  <2> SUFFICES ASSUME NEW g \in DOMAIN tasks PROVE TaskOK(g)'
    BY <1>3
  <2>1. ASSUME g # Main PROVE frames'[<<g[1], g[2]>>] = "run"
    <3>1. /\ g[1] \in 1..Len(lines) /\ g[2] \in Sets /\ frames[<<g[1], g[2]>>] = "run"
      BY <2>1, GoroutineIs
    <3>2. ~(g[1] = i /\ g[2] = s)
      BY DEF RUnlock, RunsOf
    <3>3. s = "int" => g[1] # i
      BY <1>7, <3>1, <3>2 DEF Sets
    <3> QED
      BY <1>5, <3>1, <3>2, <3>3
  <2> QED
    BY <1>3, <2>1, TaskKept
<1>10. ListsOK' /\ QueueOK'
  BY <1>3, SameLists, SameQueue
<1>11. \A k \in 1..Len(lines) : Open(k)' => Open(k)
  <2>1. \A k \in 1..Len(lines) : frames[<<k, "fg">>] = "done" => frames'[<<k, "fg">>] = "done"
    BY <1>5, <1>7 DEF Sets
  <2> QED
    BY <2>1 DEF Open, Dispatched
<1> QED
  BY <1>3, <1>8, <1>9, <1>10, <1>11 DEF TypeInv

\* The dispatches that run are not touched.
LEMMA SameDispatches ==
  ASSUME TypeInv, UNCHANGED <<lines, frames>>
  PROVE  /\ Grown /\ LinesOK' /\ FramesOK'
         /\ \A h \in DOMAIN tasks : h # Main => frames'[<<h[1], h[2]>>] = frames[<<h[1], h[2]>>]
BY SameLines, SameFrames

LEMMA MainGoesType ==
  ASSUME TypeInv, MainGoes
  PROVE  TypeInv'
<1> DEFINE task == Head(toDo)
<1>1. cfg \in Scenarios /\ toDo \in Seq(ToSet(cfg.main)) /\ toDo # <<>>
  BY DEF TypeInv, QueueOK, MainGoes
<1>2. task \in ToSet(cfg.main) /\ Tail(toDo) \in Seq(ToSet(cfg.main))
  BY <1>1
<1>3. /\ task.do \in {"add", "remove", "dispatch"}
      /\ task.do # "dispatch" => task.node \in Nodes
      /\ task.do = "dispatch" => task.event \in Events
  <2>1. /\ task.do \in {"add", "remove", "dispatch"}
        /\ task.do # "dispatch" => task.node \in Nodes
    BY <1>1, <1>2, ClientConstants, Zenon
  <2> HIDE DEF task
  <2>2. task.do = "dispatch" => task.event \in Events
    BY <1>1, <1>2 DEF Events
  <2> QED
    BY <2>1, <2>2
<1>4. UNCHANGED <<lines, frames, listVars, cfg, out, sending>> /\ toDo' = Tail(toDo)
  BY DEF MainGoes
<1>5. tasks' = [g \in DOMAIN tasks \cup {Main} |-> IF g = Main THEN task ELSE tasks[g]]
      /\ Main \notin DOMAIN tasks
  BY DEF MainGoes
<1> HIDE DEF task
<1>6. ASSUME NEW g \in DOMAIN tasks PROVE TaskOK(g)'
  <2>1. tasks'[g] = tasks[g] /\ (g # Main => frames'[<<g[1], g[2]>>] = "run")
    BY <1>4, <1>5, GoroutineIs
  <2> QED
    BY <1>4, <2>1, SameDispatches, TaskKept
<1>7. TaskOK(Main)'
  <2>1. tasks'[Main] = task
    BY <1>5
  <2> QED
    BY <1>3, <2>1 DEF TaskOK, Doings
<1>8. \A g \in DOMAIN tasks' : TaskOK(g)'
  BY <1>5, <1>6, <1>7
<1>9. QueueOK'
  BY <1>2, <1>4 DEF TypeInv, QueueOK
<1> QED
  BY <1>4, <1>8, <1>9, SameDispatches, SameLists DEF TypeInv

LEMMA SaysType ==
  ASSUME TypeInv, NEW g \in DOMAIN tasks, Says(g)
  PROVE  TypeInv'
<1>1. /\ g # Main /\ g[3] \in Nodes /\ g \in Goroutines
      /\ TaskOK(g) /\ tasks[g].do \in {"say", "saying"}
  BY GoroutineIs DEF TypeInv, TaskOK, Says
<1>2. PICK msg \in (IF tasks[g].do = "say" THEN Msgs[g[3]] ELSE {tasks[g].msg}) :
        LET left == IF tasks[g].do = "say" THEN Lines(msg) ELSE tasks[g].left
        IN  /\ out' = Append(out, [by |-> g, msg |-> msg, line |-> Head(left)])
            /\ IF Tail(left) = <<>> THEN Ended(g)
               ELSE Goes(g, [do |-> "saying", msg |-> msg, left |-> Tail(left)])
  BY DEF Says
<1> DEFINE left == IF tasks[g].do = "say" THEN Lines(msg) ELSE tasks[g].left
           x == [by |-> g, msg |-> msg, line |-> Head(left)]
           task == [do |-> "saying", msg |-> msg, left |-> Tail(left)]
<1>3. out' = Append(out, x) /\ IF Tail(left) = <<>> THEN Ended(g) ELSE Goes(g, task)
  BY <1>2
<1>4. msg \in AllMsgs
  BY <1>1, <1>2 DEF AllMsgs, TaskOK
<1>5. left \in Seq(ShortLine) /\ left # <<>>
  BY <1>1, <1>4, LinesShort DEF TaskOK
<1> HIDE DEF left
<1>6. Head(left) \in ShortLine /\ Tail(left) \in Seq(ShortLine)
  BY <1>5
<1>7. x \in Said
  BY <1>1, <1>4, <1>6 DEF Said
<1>8. /\ UNCHANGED <<lines, frames, listVars, cfg, toDo, sending>>
  BY DEF Says
<1>9. ASSUME Goes(g, task), Tail(left) # <<>> PROVE TaskOK(g)'
  <2>1. tasks'[g] = task
    BY <1>9 DEF Goes
  <2>2. /\ task.do = "saying" /\ task.msg \in AllMsgs /\ task.left \in Seq(ShortLine)
        /\ task.left # <<>>
    BY <1>4, <1>6, <1>9
  <2> HIDE DEF task
  <2> QED
    BY <1>1, <1>8, <2>1, <2>2 DEF TaskOK, Doings
<1>10. \A h \in DOMAIN tasks' : TaskOK(h)'
  <2>1. Ended(g) \/ (TaskOK(g)' /\ \E t : Goes(g, t))
    BY <1>3, <1>9
  <2> QED
    BY <1>8, <2>1, SameDispatches, OneTask
<1>11. QueueOK'
  <2> HIDE DEF x
  <2>1. out' \in Seq(Said)
    BY <1>3, <1>7, AppendProperties DEF TypeInv, QueueOK
  <2> QED
    BY <1>8, <2>1 DEF TypeInv, QueueOK
<1> QED
  BY <1>8, <1>10, <1>11, SameDispatches, SameLists DEF TypeInv

LEMMA DispatchesType ==
  ASSUME TypeInv, NEW g \in DOMAIN tasks, Dispatches(g), UNCHANGED <<floodVars, ioVars>>
  PROVE  TypeInv' /\ \E x : LineCame(x) /\ x.by = g
<1> DEFINE x == [event |-> tasks[g].event, by |-> g]
           n == Len(lines) + 1
           task == [do |-> "waiting", line |-> n]
<1>1. TaskOK(g) /\ tasks[g].do = "dispatch" /\ tasks[g].event \in Events
      /\ (g = Main \/ Body[g[3]].do = "dispatch")
  BY DEF TypeInv, TaskOK, Dispatches
<1>2. LineCame(x) /\ x.by = g
  <2>1. x.by = g /\ x.event \in Events
    BY <1>1
  <2>2. g \in {Loop, Main} \cup Goroutines /\ g \in {Loop, Main} \cup ((1..Len(lines)) \X Sets \X Nodes)
    BY <1>1, GoroutineIs DEF TaskOK
  <2>3. x \in ServerLine
    BY <2>1, <2>2 DEF ServerLine
  <2> QED
    BY <2>1, <2>2, <2>3 DEF LineCame, Dispatches
<1> HIDE DEF x
<1>3. /\ LinesOK' /\ FramesOK' /\ Grown /\ Len(lines') = n /\ lines'[n] = x /\ n \in 1..Len(lines')
      /\ \A i \in 1..Len(lines), s \in Sets : frames'[<<i, s>>] = frames[<<i, s>>]
  BY <1>2, LineCameIs DEF Grown
<1>4. \A h \in DOMAIN tasks : h # Main => frames'[<<h[1], h[2]>>] = frames[<<h[1], h[2]>>]
  BY <1>3, GoroutineIs
<1>5. Goes(g, task)
  BY DEF Dispatches
<1> HIDE DEF n
<1>6. TaskOK(g)'
  <2>1. tasks'[g] = task /\ task.do = "waiting" /\ task.line = n
    BY <1>5 DEF Goes
  <2>2. \A i \in 1..Len(lines) : i \in 1..Len(lines')
    BY <1>3 DEF Grown
  <2>3. g # Main => /\ g \in (1..Len(lines')) \X Sets \X Nodes
                    /\ frames'[<<g[1], g[2]>>] = "run" /\ Home[g[3]] = g[2]
    BY <1>1, <1>4, <2>2 DEF TaskOK
  <2> HIDE DEF task
  <2> QED
    BY <1>1, <1>2, <1>3, <2>1, <2>3 DEF TaskOK, Doings
<1>7. \A h \in DOMAIN tasks' : TaskOK(h)'
  <2> HIDE DEF task
  <2> QED
    BY <1>3, <1>4, <1>5, <1>6, OneTask
<1>8. ListsOK' /\ QueueOK'
  BY SameLists, SameQueue DEF Dispatches
<1> QED
  BY <1>2, <1>3, <1>7, <1>8 DEF TypeInv

LEMMA TaskStepType ==
  ASSUME TypeInv, NEW g \in DOMAIN tasks, UNCHANGED <<floodVars, ioVars>>,
         Returns(g) \/ DispatchReturns(g) \/ AsksToEdit(g) \/ Edits(g)
  PROVE  TypeInv'
<1>1. UNCHANGED <<lines, frames>>
  BY DEF Returns, DispatchReturns, AsksToEdit, Edits
<1>2. QueueOK'
  BY SameQueue
<1>3. TaskOK(g)
  BY DEF TypeInv
<1>4. ListsOK'
  <2>1. CASE Edits(g)
    <3>1. tasks[g].node \in Nodes
      BY <1>3, <2>1 DEF Edits, Editing, TaskOK
    <3> QED
      BY <2>1, <3>1, AddLists, RemoveLists DEF Edits, TypeInv
  <2>2. CASE ~Edits(g)
    BY <2>2, SameLists DEF Returns, DispatchReturns, AsksToEdit
  <2> QED
    BY <2>1, <2>2
<1>5. Ended(g) \/ (TaskOK(g)' /\ \E task : Goes(g, task))
  <2>1. CASE AsksToEdit(g)
    <3>1. PICK task \in {[do |-> "adding", node |-> tasks[g].node],
                        [do |-> "removing", node |-> tasks[g].node], [do |-> "panic"]} :
            Goes(g, task) /\ tasks[g].do \in {"add", "remove"}
      BY <2>1 DEF AsksToEdit
    <3>2. tasks'[g] = task
      BY <3>1 DEF Goes
    <3>3. /\ task.do \in {"adding", "removing", "panic"}
          /\ task.do \in {"adding", "removing"} => task.node \in Nodes
      BY <1>3, <3>1 DEF TaskOK
    <3>4. TaskOK(g)'
      BY <1>1, <1>3, <3>2, <3>3 DEF TaskOK, Doings
    <3> QED
      BY <3>1, <3>4
  <2>2. CASE Returns(g) \/ DispatchReturns(g) \/ Edits(g)
    BY <2>2 DEF Returns, DispatchReturns, Edits
  <2> QED
    BY <2>1, <2>2
<1>6. \A h \in DOMAIN tasks' : TaskOK(h)'
  BY <1>1, <1>5, SameDispatches, OneTask
<1> QED
  BY <1>1, <1>2, <1>4, <1>6, SameDispatches DEF TypeInv

LEMMA SendingType ==
  ASSUME TypeInv, SendTakes \/ Writes
  PROVE  TypeInv'
<1>1. UNCHANGED <<lines, frames, tasks, listVars, cfg, toDo>>
  BY DEF SendTakes, Writes, handlerVars
<1>2. QueueOK'
  <2>1. CASE SendTakes
    <3> DEFINE x == Head(out)
    <3>1. out \in Seq(Said) /\ out # <<>>
      BY <2>1 DEF TypeInv, QueueOK, SendTakes
    <3>2. x \in Said /\ Tail(out) \in Seq(Said)
      BY <3>1
    <3> HIDE DEF x
    <3>3. <<x>> \in Seq(Said) /\ Len(<<x>>) = 1
      BY <3>2
    <3>4. sending' = <<x>> /\ out' = Tail(out)
      BY <2>1 DEF SendTakes, x
    <3> QED
      BY <1>1, <3>2, <3>3, <3>4 DEF TypeInv, QueueOK
  <2>2. CASE Writes
    BY <1>1, <2>2 DEF TypeInv, QueueOK, Writes
  <2> QED
    BY <2>1, <2>2
<1>3. \A g \in DOMAIN tasks' : TaskOK(g)'
  <2> SUFFICES ASSUME NEW g \in DOMAIN tasks PROVE TaskOK(g)'
    BY <1>1
  <2> QED
    BY <1>1 DEF TypeInv, TaskOK
<1> QED
  BY <1>1, <1>2, <1>3, SameDispatches, SameLists DEF TypeInv

LEMMA IdleType ==
  ASSUME TypeInv, UNCHANGED <<handlerVars, ioVars>>
  PROVE  TypeInv'
<1>1. UNCHANGED <<lines, frames, tasks, listVars, ioVars>>
  BY DEF handlerVars
<1>2. \A g \in DOMAIN tasks' : TaskOK(g)'
  <2> SUFFICES ASSUME NEW g \in DOMAIN tasks PROVE TaskOK(g)'
    BY <1>1
  <2> QED
    BY <1>1 DEF TypeInv, TaskOK
<1> QED
  BY <1>1, <1>2, SameDispatches, SameLists, SameQueue DEF TypeInv

LEMMA InitType == ASSUME Init PROVE TypeInv
<1>1. PICK c \in Scenarios : cfg = c /\ toDo = c.main /\ HandlersInit(c.first)
  BY DEF Init
<1>2. Firsts(c.first) /\ c.main \in Seq(ToSet(c.main))
  BY ClientConstants DEF Firsts
<1>3. ListsOK
  BY <1>1, <1>2, LinkedLists
<1>4. lines = <<>> /\ frames = <<>> /\ tasks = <<>> /\ out = <<>> /\ sending = <<>>
  BY <1>1 DEF Init, HandlersInit
<1>5. LinesOK /\ FramesOK /\ QueueOK
  <2>1. LinesOK
    BY <1>4 DEF LinesOK, Ordered
  <2>2. FramesOK
    BY <1>4 DEF FramesOK
  <2>3. QueueOK
    BY <1>1, <1>2, <1>4 DEF QueueOK
  <2> QED
    BY <2>1, <2>2, <2>3
<1>6. DOMAIN tasks = {}
  BY <1>4
<1> QED
  BY <1>3, <1>5, <1>6 DEF TypeInv

LEMMA NextType == ASSUME TypeInv, [Next]_vars PROVE TypeInv'
<1>1. CASE LoopTake(cfg.takes) /\ UNCHANGED <<floodVars, ioVars>>
  BY <1>1, LoopTakeType
<1>2. CASE Dispatching
  BY <1>2, RLockType, RUnlockType DEF Dispatching
<1>3. CASE MainGoes
  BY <1>3, MainGoesType
<1>4. CASE Task
  BY <1>4, SaysType, DispatchesType, TaskStepType DEF Task, TaskStep
<1>5. CASE Sending
  BY <1>5, SendingType DEF Sending
<1>6. CASE Clock
  BY <1>6, IdleType DEF Clock
<1>7. CASE UNCHANGED vars
  BY <1>7, IdleType DEF vars
<1> QED
  BY <1>1, <1>2, <1>3, <1>4, <1>5, <1>6, <1>7 DEF Next

-----------------------------------------------------------------------------
(* The flood control.                                                      *)

LEMMA LongestIs == Longest \in Nat /\ Longest <= LongIdle /\ Limit \in Nat /\ LongIdle \in Nat
<1>1. LongestLine \in Nat
  BY MaxPieceIsNat
<1> QED
  <2>1. LongIdle >= LineTime(LongestLine)
    BY ClientConstants, Zenon
  <2> QED
    BY <1>1, <2>1, LineTimeMonotone, FloodConstants DEF Longest

LEMMA SaidTime ==
  ASSUME NEW x \in Said
  PROVE  LineTime(Len(x.line.text)) \in 0..Longest
<1> DEFINE n == Len(x.line.text)
<1>1. n \in Nat /\ n <= LongestLine /\ LongestLine \in Nat
  BY MaxPieceIsNat DEF Said, ShortLine
<1> HIDE DEF n
<1>2. LineTime(n) \in Nat /\ Longest \in Nat /\ LineTime(n) <= Longest
  BY <1>1, LineTimeMonotone DEF Longest
<1>3. LineTime(n) \in 0..Longest
  BY <1>2
<1> QED
  BY <1>3 DEF n

LEMMA PacedTakes ==
  ASSUME TypeInv, Paced, SendTakes
  PROVE  Paced'
<1> DEFINE x == Head(out)
           t == LineTime(Len(x.line.text))
<1>1. x \in Said /\ sending = <<>> /\ sending' = <<x>> /\ cfg' = cfg
  BY DEF TypeInv, QueueOK, SendTakes
<1>2. sending'[1] = x /\ sending' # <<>>
  BY <1>1
<1> HIDE DEF x
<1>3. t \in Nat /\ t <= Longest
  BY <1>1, SaidTime
<1>4. CASE cfg.Flood
  <2>1. UNCHANGED floodVars
    BY <1>4 DEF SendTakes
  <2>2. Pending = 0 /\ Pending' = 0
    BY <1>1, <1>4 DEF Pending
  <2> QED
    BY <1>1, <1>2, <2>1, <2>2 DEF Paced, floodVars, FloodBounded
<1>5. CASE ~cfg.Flood
  <2>1. Pending = 0 /\ Pending' = t
    BY <1>1, <1>2, <1>5 DEF Pending
  <2>2. RateLimit(Len(x.line.text))
    BY <1>5 DEF SendTakes, Chars, x
  <2>3. /\ badness' = NoLess(badness + t - elapsed) /\ elapsed' = 0 /\ penalty' = penalty
        /\ asleep' = IF badness' > Limit THEN t ELSE 0
    BY <2>2 DEF RateLimit
  <2> HIDE DEF t
  <2>4. /\ badness \in Nat /\ elapsed \in Nat /\ asleep = 0 /\ penalty \in Nat
        /\ badness <= Limit + asleep + elapsed
        /\ penalty <= Longest \/ penalty <= 2 * Longest + badness - elapsed
    <3>1. /\ badness \in Nat /\ elapsed \in 0..LongIdle /\ asleep \in Nat /\ penalty \in Nat
          /\ ~(asleep > 0) /\ badness <= Limit + asleep + elapsed
          /\ penalty + 0 <= Longest \/ penalty + 0 <= 2 * Longest + badness - elapsed
      BY <1>1, <2>1 DEF Paced
    <3> QED
      BY <3>1, LongestIs
  <2>5. badness' \in Nat /\ badness' >= badness + t - elapsed
    BY <1>3, <2>3, <2>4 DEF NoLess
  <2>6. badness' = 0 \/ badness' = badness + t - elapsed
    BY <2>3 DEF NoLess
  <2>7. elapsed' \in 0..LongIdle /\ asleep' \in Nat
    BY <1>3, <2>3, LongestIs
  <2>8. elapsed' + asleep' <= Longest
    BY <1>3, <2>3, LongestIs
  <2>9. penalty' + t <= Longest \/ penalty' + t <= 2 * Longest + badness' - elapsed'
    BY <1>3, <2>3, <2>4, <2>5, LongestIs
  <2>10. badness' <= Limit + asleep' + elapsed'
    BY <1>3, <2>3, <2>4, <2>5, <2>6, LongestIs
  <2>11. FloodBounded'
    BY <2>3 DEF Paced, FloodBounded
  <2> QED
    BY <1>1, <1>2, <1>5, <2>1, <2>3, <2>4, <2>5, <2>7, <2>8, <2>9, <2>10, <2>11 DEF Paced
<1> QED
  BY <1>4, <1>5

LEMMA PacedWrites ==
  ASSUME TypeInv, Paced, Writes
  PROVE  Paced'
<1> DEFINE x == sending[1]
           t == LineTime(Len(x.line.text))
<1>1. x \in Said /\ sending # <<>> /\ sending' = <<>> /\ cfg' = cfg
  BY DEF TypeInv, QueueOK, Writes
<1>2. Pending' = 0
  BY <1>1 DEF Pending
<1> HIDE DEF x
<1>3. t \in Nat /\ t <= Longest
  BY <1>1, SaidTime
<1>4. CASE cfg.Flood
  <2>1. UNCHANGED floodVars /\ Pending = 0
    BY <1>4 DEF Writes, Pending
  <2> QED
    BY <1>1, <1>2, <1>4, <2>1 DEF Paced, floodVars, FloodBounded
<1>5. CASE ~cfg.Flood
  <2>1. Pending = t
    BY <1>1, <1>5 DEF Pending, x
  <2>2. /\ asleep = 0 /\ penalty' = penalty + t
        /\ UNCHANGED <<badness, elapsed, asleep>>
    BY <1>5 DEF Writes, Chars, x, Arrives
  <2> HIDE DEF t
  <2>3. /\ badness \in Nat /\ elapsed \in Nat /\ elapsed \in 0..LongIdle /\ penalty \in Nat
        /\ badness <= Limit + asleep + elapsed
        /\ penalty + t <= Longest \/ penalty + t <= 2 * Longest + badness - elapsed
    BY <2>1, LongestIs DEF Paced
  <2>4. penalty' \in Nat
    BY <1>3, <2>2, <2>3
  <2>5. penalty' <= Limit + 2 * Longest
    BY <1>3, <2>2, <2>3, LongestIs
  <2>6. FloodBounded'
    BY <2>5 DEF FloodBounded, Longest
  <2>7. penalty' + 0 <= Longest \/ penalty' + 0 <= 2 * Longest + badness' - elapsed'
    BY <2>2, <2>3, <2>4
  <2> QED
    BY <1>2, <2>2, <2>3, <2>4, <2>6, <2>7 DEF Paced
<1> QED
  BY <1>4, <1>5

LEMMA PacedClock ==
  ASSUME TypeInv, Paced, Clock
  PROVE  Paced'
<1> DEFINE t == Pending
<1>1. Pending' = t /\ t \in Nat /\ t <= Longest /\ UNCHANGED <<sending, cfg>>
  <2>1. UNCHANGED <<sending, cfg>>
    BY DEF Clock, ioVars
  <2>2. t \in 0..Longest
    BY SaidTime, LongestIs DEF Pending, TypeInv, QueueOK
  <2> QED
    BY <2>1, <2>2, LongestIs DEF Pending
<1> HIDE DEF t
<1>2. /\ elapsed' = IF elapsed < LongIdle THEN elapsed + 1 ELSE LongIdle
      /\ asleep' = NoLess(asleep - 1) /\ penalty' = NoLess(penalty - 1) /\ badness' = badness
  BY DEF Clock, TimePasses
<1>3. /\ badness \in Nat /\ elapsed \in 0..LongIdle /\ asleep \in Nat /\ penalty \in Nat
      /\ asleep > 0 => sending # <<>> /\ elapsed + asleep <= Longest
      /\ penalty + t <= Longest \/ penalty + t <= 2 * Longest + badness - elapsed
      /\ badness <= Limit + asleep + elapsed
  BY DEF Paced, t
<1>4. asleep' \in Nat /\ (asleep = 0 => asleep' = 0) /\ (asleep > 0 => asleep' = asleep - 1)
  BY <1>2, <1>3 DEF NoLess
<1>5. penalty' \in Nat /\ (penalty = 0 => penalty' = 0) /\ (penalty > 0 => penalty' = penalty - 1)
  BY <1>2, <1>3 DEF NoLess
<1>6. /\ elapsed' \in 0..LongIdle /\ elapsed' <= elapsed + 1
      /\ elapsed < LongIdle => elapsed' = elapsed + 1
      /\ elapsed >= LongIdle => elapsed' = elapsed
  BY <1>2, <1>3, LongestIs
<1>7. asleep > 0 => elapsed < LongIdle
  BY <1>3, LongestIs
<1>8. asleep' > 0 => ~cfg'.Flood /\ sending' # <<>> /\ elapsed' + asleep' <= Longest
  <2>1. ~cfg.Flood /\ cfg' = cfg /\ sending' = sending
    BY <1>1 DEF Clock
  <2>5. asleep > 0 => elapsed + asleep <= Longest
    BY <1>3
  <2>6. elapsed \in Nat /\ elapsed' \in Nat /\ asleep \in Nat /\ Longest \in Nat
    BY <1>3, <1>6, LongestIs
  <2>7. elapsed' <= elapsed + 1
    BY <1>6
  <2>2. asleep' > 0 => asleep > 0 /\ elapsed' + asleep' <= Longest
    <3> SUFFICES ASSUME asleep' > 0 PROVE asleep > 0 /\ elapsed' + asleep' <= Longest
      OBVIOUS
    <3>1. asleep > 0
      BY <1>4, <2>6
    <3>2. asleep' = asleep - 1 /\ elapsed + asleep <= Longest
      BY <1>4, <2>5, <3>1
    <3>3. \A d \in Nat, e \in Nat, f \in Nat :
            d <= e + 1 /\ e + f <= Longest => d + (f - 1) <= Longest
      BY <2>6
    <3>4. elapsed' + (asleep - 1) <= Longest
      BY <2>6, <2>7, <3>2, <3>3
    <3> QED
      BY <3>1, <3>2, <3>4
  <2>3. ~cfg'.Flood
    BY <2>1
  <2>4. asleep > 0 => sending' # <<>>
    BY <1>3, <2>1
  <2> HIDE <1>3
  <2> QED
    BY <2>2, <2>3, <2>4
<1>9. penalty' + t <= Longest \/ penalty' + t <= 2 * Longest + badness' - elapsed'
  BY <1>1, <1>2, <1>3, <1>5, <1>6, LongestIs
<1>10. badness' <= Limit + asleep' + elapsed'
  BY <1>2, <1>3, <1>4, <1>6, <1>7, LongestIs
<1>11. FloodBounded'
  <2>1. penalty <= Limit + 2 * Longest
    BY DEF Paced, FloodBounded, Longest
  <2>2. penalty' <= Limit + 2 * Longest
    BY <2>1, <1>3, <1>5, LongestIs
  <2> QED
    BY <2>2 DEF FloodBounded, Longest
<1> QED
  BY <1>1, <1>2, <1>3, <1>4, <1>5, <1>6, <1>8, <1>9, <1>10, <1>11 DEF Paced

LEMMA PacedIdle ==
  ASSUME Paced, UNCHANGED <<floodVars, cfg, sending>>
  PROVE  Paced'
BY DEF Paced, Pending, FloodBounded, floodVars

\* The types and the flood control, in every state.
LEMMA PacedHolds == Spec => [](TypeInv /\ Paced)
<1>1. Init => TypeInv /\ Paced
  <2>1. Init => Paced
    <3> SUFFICES ASSUME Init PROVE Paced
      OBVIOUS
    <3>1. badness = 0 /\ elapsed = 0 /\ asleep = 0 /\ penalty = 0 /\ sending = <<>>
      BY DEF Init, FloodInit
    <3>2. Pending = 0
      BY <3>1 DEF Pending
    <3>3. FloodBounded
      BY <3>1, LongestIs DEF FloodBounded, Longest
    <3> QED
      BY <3>1, <3>2, <3>3, LongestIs DEF Paced
  <2> QED
    BY <2>1, InitType
<1>2. TypeInv /\ Paced /\ [Next]_vars => TypeInv' /\ Paced'
  <2> SUFFICES ASSUME TypeInv, Paced, [Next]_vars PROVE Paced'
    BY NextType
  <2>1. CASE SendTakes
    BY <2>1, PacedTakes
  <2>2. CASE Writes
    BY <2>2, PacedWrites
  <2>3. CASE Clock
    BY <2>3, PacedClock
  <2>4. CASE ~SendTakes /\ ~Writes /\ ~Clock
    <3>1. UNCHANGED <<floodVars, cfg, sending>>
      BY <2>4 DEF Next, Dispatching, MainGoes, Task, Says, Sending, ioVars, vars
    <3> QED
      BY <3>1, PacedIdle
  <2> QED
    BY <2>1, <2>2, <2>3, <2>4
<1> QED
  BY <1>1, <1>2, PTL DEF Spec

\* The flood control does not let the server drop the client, whatever is said
\* and whenever (rateLimit, connection.go:380).
THEOREM FloodSafe == Spec => []FloodBounded
<1>1. Paced => FloodBounded
  BY DEF Paced
<1> QED
  BY <1>1, PacedHolds, PTL

-----------------------------------------------------------------------------
(* Where lines come from.                                                  *)

LEMMA OriginsAre ==
  ASSUME NEW L, Ordered(L)
  PROVE  /\ Len(L) \in Nat /\ Origins(L)[0] = {}
         /\ \A i \in 1..Len(L) : /\ L[i].by[1] \in 0..(i - 1)
                                 /\ Origins(L)[i] = {i} \cup Origins(L)[L[i].by[1]]
         /\ \A i \in 0..Len(L) : Origins(L)[i] \subseteq 1..Len(L)
<1> DEFINE N == Len(L)
           S == 0..N
           V == SUBSET (1..N)
           by(k) == L[k].by[1]
           Here(P, k) == IF k = 0 THEN {} ELSE {k} \cup P[by(k)]
           At == CHOOSE P : P = [k \in S |-> Here(P, k)]
           m == [k \in S |-> k]
           F == [p \in [S -> V] \X S |-> Here(p[1], p[2])]
<1>1. Origins(L) = At
  BY DEF Origins
<1>2. N \in Nat /\ m \in [S -> 0..N] /\ V # {}
  <2>1. N \in Nat
    BY DEF Ordered
  <2> HIDE DEF N
  <2> QED
    BY <2>1
<1>3. ASSUME NEW k \in S, k # 0 PROVE by(k) \in 0..(k - 1) /\ by(k) \in S /\ by(k) < k /\ k \in 1..N
  <2>1. k \in 1..N
    BY <1>2, <1>3
  <2>2. L[k].by \in {Loop, Main} \cup ((1..(k - 1)) \X Sets \X Nodes)
    BY <2>1 DEF Ordered
  <2>3. by(k) \in 0..(k - 1)
    BY <2>1, <2>2 DEF Loop, Main
  <2> HIDE DEF by
  <2> QED
    BY <1>2, <2>1, <2>3
<1> HIDE DEF by
<1>4. ASSUME NEW P, NEW k \in S, \A j \in S : j < k => P[j] \in V
      PROVE  Here(P, k) \in V
  <2>1. CASE k = 0
    BY <2>1
  <2>2. CASE k # 0
    BY <1>3, <1>4, <2>2
  <2> QED
    BY <2>1, <2>2
<1>5. ASSUME NEW P, NEW Q, NEW k \in S, \A j \in S : j < k => P[j] = Q[j]
      PROVE  Here(P, k) = Here(Q, k)
  <2>1. CASE k = 0
    BY <2>1
  <2>2. CASE k # 0
    BY <1>3, <1>5, <2>2
  <2> QED
    BY <2>1, <2>2
<1>6. \A x, y \in S : m[y] < m[x] <=> y < x
  BY <1>2
<1> HIDE DEF Here
<1>7. Founded(F, S, V, m)
  <2>1. F \in [[S -> V] \X S -> V]
    <3> SUFFICES ASSUME NEW P \in [S -> V], NEW x \in S PROVE Here(P, x) \in V
      OBVIOUS
    <3> HIDE DEF V, S
    <3> QED
      BY <1>4
  <2>2. ASSUME NEW P \in [S -> V], NEW Q \in [S -> V], NEW x \in S,
               \A y \in S : m[y] < m[x] => P[y] = Q[y]
        PROVE  F[<<P, x>>] = F[<<Q, x>>]
    <3>1. \A y \in S : y < x => P[y] = Q[y]
      BY <1>6, <2>2
    <3>2. Here(P, x) = Here(Q, x)
      <4> HIDE DEF S, V
      <4> QED
        BY <1>5, <3>1
    <3>3. F[<<P, x>>] = Here(P, x) /\ F[<<Q, x>>] = Here(Q, x)
      <4> HIDE DEF S, V
      <4> QED
        OBVIOUS
    <3> QED
      BY <3>2, <3>3
  <2> HIDE DEF S, V, F, m
  <2> QED
    BY <2>1, <2>2 DEF Founded
<1>8. PICK P \in [S -> V] : Solves(P, F, S)
  <2> HIDE DEF S, V, F, m, N
  <2> QED
    BY <1>2, <1>7, RecursionExists
<1>9. P = [k \in S |-> Here(P, k)]
  <2>1. \A x \in S : F[<<P, x>>] = Here(P, x)
    <3> HIDE DEF S, V
    <3> QED
      OBVIOUS
  <2> HIDE DEF S, V, F
  <2> QED
    BY <1>8, <2>1 DEF Solves
<1>10. At = [k \in S |-> Here(At, k)]
  <2> HIDE DEF S
  <2> QED
    BY <1>9, Zenon
<1> HIDE DEF At
<1>11. \A x \in S : P[x] = At[x]
  <2>1. ASSUME NEW x \in S, \A y \in S : m[y] < m[x] => P[y] = At[y]
        PROVE  P[x] = At[x]
    <3>1. \A y \in S : y < x => P[y] = At[y]
      BY <1>6, <2>1
    <3>2. Here(P, x) = Here(At, x)
      <4> HIDE DEF S
      <4> QED
        BY <1>5, <3>1
    <3>3. P[x] = Here(P, x)
      <4> HIDE DEF S
      <4> QED
        BY <1>9
    <3>4. At[x] = Here(At, x)
      <4> HIDE DEF S
      <4> QED
        BY <1>10
    <3> QED
      BY <3>2, <3>3, <3>4
  <2>2. m \in [S -> Nat]
    BY <1>2
  <2>3. Agreeing(P, At, S, m)
    BY <2>1 DEF Agreeing
  <2> HIDE DEF S, m
  <2> QED
    BY <2>2, <2>3, RecursionUnique
<1>12. \A i \in S : At[i] \in V
  <2> HIDE DEF S, V
  <2> QED
    BY <1>8, <1>11
<1>13. At[0] = {}
  BY <1>2, <1>10 DEF Here
<1>14. ASSUME NEW i \in 1..N PROVE by(i) \in 0..(i - 1) /\ At[i] = {i} \cup At[by(i)]
  <2>1. i \in S /\ i # 0
    BY <1>2
  <2>2. At[i] = Here(At, i)
    <3> HIDE DEF S
    <3> QED
      BY <1>10, <2>1
  <2> QED
    BY <1>3, <2>1, <2>2 DEF Here
<1> QED
  BY <1>1, <1>2, <1>12, <1>13, <1>14 DEF by

\* They come from where they did, however many come after them.
LEMMA OriginsKept ==
  ASSUME NEW L, NEW K, Ordered(L), Ordered(K), Len(L) <= Len(K),
         \A i \in 1..Len(L) : K[i] = L[i]
  PROVE  \A i \in 0..Len(L) : Origins(K)[i] = Origins(L)[i]
<1> DEFINE S == 0..Len(L)
           m == [k \in S |-> k]
           P == Origins(K)
           Q == Origins(L)
<1>1. Len(L) \in Nat /\ Len(K) \in Nat /\ m \in [S -> Nat]
  BY OriginsAre
<1>2. ASSUME NEW x \in S, \A y \in S : m[y] < m[x] => P[y] = Q[y]
      PROVE  P[x] = Q[x]
  <2>1. CASE x = 0
    BY <2>1, OriginsAre
  <2>2. CASE x # 0
    <3> DEFINE b == L[x].by[1]
    <3>1. x \in 1..Len(L) /\ x \in 1..Len(K)
      BY <1>1, <2>2
    <3>2. b \in 0..(x - 1) /\ Q[x] = {x} \cup Q[b] /\ P[x] = {x} \cup P[b]
      BY <3>1, OriginsAre
    <3> HIDE DEF b, P, Q
    <3>3. b \in S /\ m[b] < m[x]
      BY <1>1, <3>1, <3>2
    <3> QED
      BY <1>2, <3>2, <3>3
  <2> QED
    BY <2>1, <2>2
<1>3. Agreeing(P, Q, S, m)
  BY <1>2 DEF Agreeing
<1> HIDE DEF m, P, Q, S
<1>4. \A x \in S : P[x] = Q[x]
  BY <1>1, <1>3, RecursionUnique
<1> QED
  BY <1>4 DEF S, P, Q

-----------------------------------------------------------------------------
(* One event at a time.                                                    *)

\* An open line that came from a handler came from h_001's handler of an open
\* line, which waits for it.
LEMMA OpenOrigin ==
  ASSUME TypeInv, Waited, NEW i \in 1..Len(lines), Open(i), OfLoop(i), lines[i].by # Loop
  PROVE  LET g == lines[i].by
         IN  /\ g \in DOMAIN tasks /\ g # Main /\ tasks[g].do = "waiting"
             /\ g[1] \in 1..(i - 1) /\ g[1] \in 1..Len(lines)
             /\ g[2] = "int" /\ Body[g[3]].do = "dispatch"
             /\ Open(g[1]) /\ OfLoop(g[1]) /\ From(i) = {i} \cup From(g[1])
<1> DEFINE g == lines[i].by
<1>1. Ordered(lines) /\ Len(lines) \in Nat
  BY DEF TypeInv, LinesOK, Ordered
<1>2. g[1] \in 0..(i - 1) /\ From(i) = {i} \cup From(g[1])
  BY <1>1, OriginsAre DEF From
<1>3. g # Main
  BY <1>2 DEF OfLoop
<1>4. g \in DOMAIN tasks /\ tasks[g].do = "waiting"
  BY DEF Waited
<1>5. /\ g[1] \in 1..Len(lines) /\ g[2] \in Sets /\ g[3] \in Nodes
      /\ frames[<<g[1], g[2]>>] = "run" /\ Home[g[3]] = g[2]
  BY <1>3, <1>4, GoroutineIs
<1>6. Body[g[3]].do = "dispatch"
  BY <1>3, <1>4 DEF TypeInv, TaskOK
<1>7. g[2] = "int"
  BY <1>5, <1>6, HandlerConstants
<1>8. Open(g[1])
  BY <1>5, <1>7 DEF TypeInv, FramesOK, Open, Dispatched
<1>9. OfLoop(g[1])
  BY <1>2 DEF OfLoop
<1>10. g[1] \in 1..(i - 1)
  BY <1>1, <1>2, <1>5
<1> QED
  BY <1>2, <1>3, <1>4, <1>5, <1>6, <1>7, <1>8, <1>9, <1>10

\* While one of the server's lines, or what its handlers dispatched, is open, a
\* line of the server is.
LEMMA OpenLoopLine ==
  ASSUME TypeInv, Waited, NEW i \in 1..Len(lines), Open(i), OfLoop(i)
  PROVE  \E k \in 1..Len(lines) : k <= i /\ Open(k) /\ lines[k].by = Loop
<1> DEFINE T == {k \in 1..Len(lines) : Open(k) /\ OfLoop(k)}
<1>1. Len(lines) \in Nat /\ i \in T /\ T \subseteq Nat
  BY DEF TypeInv, LinesOK, Ordered
<1>2. PICK k \in T : \A j \in T : k <= j
  <2> HIDE DEF T
  <2> QED
    BY <1>1, Least
<1>3. k \in 1..Len(lines) /\ Open(k) /\ OfLoop(k) /\ k <= i
  BY <1>1, <1>2
<1>4. lines[k].by = Loop
  <2> SUFFICES ASSUME lines[k].by # Loop PROVE FALSE
    OBVIOUS
  <2> DEFINE b == lines[k].by[1]
  <2>1. b \in 1..(k - 1) /\ b \in T
    BY <1>3, OpenOrigin
  <2> HIDE DEF b, T
  <2>2. k <= b
    BY <1>2, <2>1
  <2> QED
    BY <1>1, <1>3, <2>1, <2>2
<1> QED
  BY <1>3, <1>4

\* What is known of the lines there were when another has come.
LEMMA OldLines ==
  ASSUME TypeInv, NEW x, LineCame(x)
  PROVE  \A i \in 1..Len(lines) :
           /\ i \in 1..Len(lines') /\ lines'[i] = lines[i]
           /\ Open(i)' <=> Open(i)
           /\ OfLoop(i)' <=> OfLoop(i)
<1>1. /\ Ordered(lines) /\ Ordered(lines') /\ Len(lines) \in Nat /\ Len(lines') = Len(lines) + 1
      /\ \A i \in 1..Len(lines) : lines'[i] = lines[i]
      /\ \A i \in 1..Len(lines), s \in Sets : frames'[<<i, s>>] = frames[<<i, s>>]
  BY LineCameIs DEF TypeInv, LinesOK
<1>2. ASSUME NEW i \in 1..Len(lines)
      PROVE  i \in 0..Len(lines) /\ i \in 1..Len(lines') /\ (Open(i)' <=> Open(i))
  <2>1. frames'[<<i, "fg">>] = frames[<<i, "fg">>]
    BY <1>1 DEF Sets
  <2>2. Open(i)' <=> Open(i)
    BY <2>1 DEF Open, Dispatched
  <2> QED
    BY <1>1, <2>2
<1>3. \A i \in 0..Len(lines) : Origins(lines')[i] = Origins(lines)[i]
  <2>1. Len(lines) <= Len(lines')
    BY <1>1
  <2> QED
    BY <1>1, <2>1, OriginsKept
<1>4. ASSUME NEW i \in 1..Len(lines)
      PROVE  OfLoop(i)' <=> OfLoop(i)
  <2>1. From(i)' = From(i)
    BY <1>2, <1>3 DEF From
  <2>2. From(i) \subseteq 1..Len(lines)
    BY <1>1, <1>2, OriginsAre DEF From
  <2> QED
    BY <1>1, <2>1, <2>2 DEF OfLoop
<1> QED
  BY <1>1, <1>2, <1>4

\* The dispatches that wait go on waiting.
LEMMA NestSame ==
  ASSUME NestInv, TypeInv', UNCHANGED lines,
         \A i \in 1..Len(lines) : Open(i)' => Open(i),
         \A i \in 1..Len(lines) : Open(i)' /\ lines[i].by # Loop =>
           lines[i].by \in DOMAIN tasks' /\ tasks'[lines[i].by] = tasks[lines[i].by]
  PROVE  NestInv'
<1>1. \A i \in 1..Len(lines) : OfLoop(i)' <=> OfLoop(i)
  BY DEF OfLoop, From
<1>2. Waited'
  <2> SUFFICES ASSUME NEW i \in 1..Len(lines), Open(i)', lines[i].by # Loop
               PROVE  /\ lines[i].by \in DOMAIN tasks' /\ tasks'[lines[i].by].do = "waiting"
                      /\ tasks'[lines[i].by].line = i
    BY DEF Waited
  <2> QED
    BY DEF NestInv, Waited
<1>3. OneOfLoop'
  BY DEF NestInv, OneOfLoop
<1>4. Nested'
  BY <1>1 DEF NestInv, Nested
<1> QED
  BY <1>2, <1>3, <1>4 DEF NestInv

LEMMA NestLoopTake ==
  ASSUME NestInv, LoopTake(cfg.takes), UNCHANGED <<floodVars, ioVars>>
  PROVE  NestInv'
<1>0. TypeInv
  BY DEF NestInv
<1>1. PICK x : LineCame(x) /\ x.by = Loop /\ TypeInv'
  BY <1>0, LoopTakeType
<1> DEFINE n == Len(lines) + 1
<1>2. /\ Len(lines) \in Nat /\ Len(lines') = n /\ lines'[n] = x
  BY <1>0, <1>1, LineCameIs
<1>3. \A i \in 1..n : i \in 1..Len(lines) \/ i = n
  BY <1>2
<1> HIDE DEF n
<1>4. \A i \in 1..Len(lines) : ~(Open(i) /\ lines[i].by = Loop)
  BY <1>2, <1>0 DEF LoopTake, Open, TypeInv, LinesOK, Ordered
<1>5. \A i \in 1..Len(lines) : ~(Open(i) /\ OfLoop(i))
  BY <1>0, <1>4, OpenLoopLine DEF NestInv
<1>6. \A i \in 1..Len(lines) :
        lines'[i] = lines[i] /\ (Open(i)' <=> Open(i)) /\ (OfLoop(i)' <=> OfLoop(i))
  BY <1>0, <1>1, OldLines
<1>7. UNCHANGED tasks
  BY DEF LoopTake
<1>8. Waited'
  <2> SUFFICES ASSUME NEW i \in 1..n, Open(i)', lines'[i].by # Loop
               PROVE  /\ lines'[i].by \in DOMAIN tasks' /\ tasks'[lines'[i].by].do = "waiting"
                      /\ tasks'[lines'[i].by].line = i
    BY <1>2 DEF Waited
  <2>1. i \in 1..Len(lines)
    BY <1>1, <1>2, <1>3
  <2> QED
    BY <2>1, <1>6, <1>7 DEF NestInv, Waited
<1>9. OneOfLoop'
  <2> SUFFICES ASSUME NEW i \in 1..n, NEW k \in 1..n, Open(i)', Open(k)',
                      lines'[i].by = Loop, lines'[k].by = Loop
               PROVE  i = k
    BY <1>2 DEF OneOfLoop
  <2> QED
    BY <1>3, <1>4, <1>6
<1>10. Nested'
  <2> SUFFICES ASSUME NEW i \in 1..n, NEW k \in 1..n, i < k, Open(i)', Open(k)',
                      OfLoop(i)', OfLoop(k)'
               PROVE  FALSE
    BY <1>2 DEF Nested
  <2>1. i \in 1..Len(lines)
    BY <1>2 DEF n
  <2> QED
    BY <2>1, <1>5, <1>6
<1> QED
  BY <1>1, <1>8, <1>9, <1>10 DEF NestInv

LEMMA NestDispatches ==
  ASSUME NestInv, NEW g \in DOMAIN tasks, Dispatches(g), UNCHANGED <<floodVars, ioVars>>
  PROVE  NestInv'
<1>0. TypeInv /\ Waited /\ OneOfLoop /\ Nested
  BY DEF NestInv
<1>1. PICK x : LineCame(x) /\ x.by = g /\ TypeInv'
  BY <1>0, DispatchesType
<1>n. PICK n \in Nat : n = Len(lines) + 1
  BY <1>0 DEF TypeInv, LinesOK, Ordered
<1>2. /\ Len(lines) \in Nat /\ Len(lines') = n /\ lines'[n] = x
  BY <1>0, <1>1, <1>n, LineCameIs
<1>3. (\A i \in 1..n : i \in 1..Len(lines) \/ i = n) /\ n \in 1..n
  BY <1>2, <1>n
<1>4. Goes(g, [do |-> "waiting", line |-> n])
  BY <1>n DEF Dispatches
<1>5. \A i \in 1..Len(lines) : i # n /\ i < n
  BY <1>2, <1>n
<1>6. \A i \in 1..Len(lines) :
        lines'[i] = lines[i] /\ (Open(i)' <=> Open(i)) /\ (OfLoop(i)' <=> OfLoop(i))
  BY <1>0, <1>1, OldLines
<1>7. /\ DOMAIN tasks' = DOMAIN tasks
      /\ tasks'[g].do = "waiting" /\ tasks'[g].line = n
      /\ \A h \in DOMAIN tasks : h # g => tasks'[h] = tasks[h]
  BY <1>4 DEF Goes
<1>8. tasks[g].do = "dispatch"
  BY DEF Dispatches
<1>9. Waited'
  <2> SUFFICES ASSUME NEW i \in 1..n, Open(i)', lines'[i].by # Loop
               PROVE  /\ lines'[i].by \in DOMAIN tasks' /\ tasks'[lines'[i].by].do = "waiting"
                      /\ tasks'[lines'[i].by].line = i
    BY <1>2 DEF Waited
  <2>1. CASE i = n
    BY <1>1, <1>2, <1>7, <2>1
  <2>2. CASE i \in 1..Len(lines)
    <3>1. /\ lines[i].by \in DOMAIN tasks /\ tasks[lines[i].by].do = "waiting"
          /\ tasks[lines[i].by].line = i /\ lines'[i] = lines[i]
      BY <1>0, <1>6, <2>2 DEF Waited
    <3>2. lines[i].by # g
      BY <1>8, <3>1
    <3> QED
      BY <1>7, <3>1, <3>2
  <2> QED
    BY <1>3, <2>1, <2>2
<1>10. g # Loop
  <2>1. g # Main => g[1] \in 1..Len(lines)
    BY <1>0, GoroutineIs
  <2>2. Loop # Main /\ Loop[1] = 0
    BY DEF Loop, Main
  <2>3. 0 \notin 1..Len(lines)
    BY <1>2
  <2> QED
    BY <2>1, <2>2, <2>3
<1>11. OneOfLoop'
  <2> SUFFICES ASSUME NEW i \in 1..n, NEW k \in 1..n, Open(i)', Open(k)',
                      lines'[i].by = Loop, lines'[k].by = Loop
               PROVE  i = k
    BY <1>2 DEF OneOfLoop
  <2>1. i # n /\ k # n
    BY <1>1, <1>2, <1>10
  <2> QED
    BY <1>0, <1>3, <1>6, <2>1 DEF OneOfLoop
\* The line that g got is the last that is open.
<1>12. ASSUME OfLoop(n)'
       PROVE  \A i \in 1..Len(lines) : Open(i) /\ OfLoop(i) => g[1] >= i
  <2> DEFINE j == g[1]
             T == {i \in 1..Len(lines) : Open(i) /\ OfLoop(i) /\ ~(j >= i)}
  <2>1. Ordered(lines') /\ n \in 1..Len(lines')
    BY <1>1, <1>2, <1>3 DEF TypeInv, LinesOK
  <2>2. From(n)' = {n} \cup From(g[1])'
    <3>1. Origins(lines')[n] = {n} \cup Origins(lines')[lines'[n].by[1]]
      BY <2>1, OriginsAre
    <3>2. lines'[n].by[1] = g[1]
      BY <1>1, <1>2
    <3> QED
      BY <3>1, <3>2 DEF From
  <2>3. g # Main
    BY <1>1, <1>2, <1>12, <2>2 DEF OfLoop
  <2>4. /\ j \in 1..Len(lines) /\ g[2] \in Sets /\ g[3] \in Nodes /\ g = <<j, g[2], g[3]>>
        /\ frames[<<j, g[2]>>] = "run" /\ Home[g[3]] = g[2]
    BY <1>0, <2>3, GoroutineIs
  <2>5. Body[g[3]].do = "dispatch"
    BY <1>0, <1>8, <2>3 DEF TypeInv, TaskOK
  <2>6. g[2] = "int"
    BY <2>4, <2>5, HandlerConstants
  <2>7. Open(j)
    BY <1>0, <2>4, <2>6 DEF TypeInv, FramesOK, Open, Dispatched
  <2>8. OfLoop(j)
    <3>1. OfLoop(j)'
      BY <1>12, <2>2 DEF OfLoop
    <3> QED
      BY <1>6, <2>4, <3>1
  <2> SUFFICES ASSUME T # {} PROVE FALSE
    OBVIOUS
  <2>9. T \in SUBSET Nat
    BY <1>2
  <2>10. PICK i \in T : \A k \in T : i <= k
    <3> HIDE DEF T
    <3> QED
      BY <2>9, Least
  <2>11. i \in 1..Len(lines) /\ Open(i) /\ OfLoop(i) /\ j < i /\ i \in Nat /\ j \in Nat
    BY <1>2, <2>4, <2>10
  <2>12. lines[i].by # Loop
    <3> SUFFICES ASSUME lines[i].by = Loop PROVE FALSE
      OBVIOUS
    <3>1. PICK k \in 1..Len(lines) : k <= j /\ Open(k) /\ lines[k].by = Loop
      BY <1>0, <2>4, <2>7, <2>8, OpenLoopLine
    <3>2. k = i
      BY <1>0, <2>11, <3>1 DEF OneOfLoop
    <3> HIDE DEF j, T
    <3> QED
      BY <2>11, <3>1, <3>2
  <2> DEFINE h == lines[i].by
             b == h[1]
  <2>13. /\ h \in DOMAIN tasks /\ h # Main /\ tasks[h].do = "waiting"
         /\ b \in 1..(i - 1) /\ b \in 1..Len(lines)
         /\ h[2] = "int" /\ Body[h[3]].do = "dispatch" /\ Open(b) /\ OfLoop(b)
    BY <1>0, <2>11, <2>12, OpenOrigin
  <2>14. b >= j
    BY <1>0, <2>4, <2>7, <2>8, <2>11 DEF Nested
  <2>15. b # j
    <3> SUFFICES ASSUME b = j PROVE FALSE
      OBVIOUS
    <3>1. h[3] \in Nodes /\ h = <<b, h[2], h[3]>>
      BY <1>0, <2>13, GoroutineIs
    <3>2. h[3] = g[3]
      BY <2>4, <2>5, <2>13, <3>1, HandlerConstants
    <3>3. h = g
      BY <2>4, <2>6, <2>13, <3>1, <3>2
    <3> QED
      BY <1>8, <2>13, <3>3
  <2> HIDE DEF b, j
  <2>16. ~(j >= b) /\ b < i /\ b \in Nat
    BY <2>11, <2>13, <2>14, <2>15
  <2>17. b \in T
    BY <2>13, <2>16
  <2> HIDE DEF T
  <2> QED
    BY <2>10, <2>11, <2>16, <2>17
<1>13. Nested'
  <2> SUFFICES ASSUME NEW i \in 1..n, NEW k \in 1..n, i < k, Open(i)', Open(k)',
                      OfLoop(i)', OfLoop(k)'
               PROVE  lines'[k].by[1] >= i
    BY <1>2 DEF Nested
  <2>1. i \in 1..Len(lines)
    BY <1>2, <1>3, <1>5
  <2>2. CASE k = n
    BY <1>1, <1>2, <1>6, <1>12, <2>1, <2>2
  <2>3. CASE k \in 1..Len(lines)
    BY <1>0, <1>6, <2>1, <2>3 DEF Nested
  <2> QED
    BY <1>3, <2>2, <2>3
<1> QED
  BY <1>1, <1>9, <1>11, <1>13 DEF NestInv

\* No goroutine that waits for an open line goes on.
LEMMA NestTask ==
  ASSUME NestInv, TypeInv', UNCHANGED <<lines, frames>>, NEW g \in DOMAIN tasks,
         tasks[g].do = "waiting" => Dispatched(tasks[g].line),
         \A h \in DOMAIN tasks : h # g => h \in DOMAIN tasks' /\ tasks'[h] = tasks[h]
  PROVE  NestInv'
<1>1. \A i \in 1..Len(lines) : Open(i)' <=> Open(i)
  BY DEF Open, Dispatched
<1>2. ASSUME NEW i \in 1..Len(lines), Open(i), lines[i].by # Loop
      PROVE  lines[i].by \in DOMAIN tasks' /\ tasks'[lines[i].by] = tasks[lines[i].by]
  <2>1. /\ lines[i].by \in DOMAIN tasks /\ tasks[lines[i].by].do = "waiting"
        /\ tasks[lines[i].by].line = i
    BY <1>2 DEF NestInv, Waited
  <2>2. lines[i].by # g
    BY <1>2, <2>1 DEF Open
  <2> QED
    BY <2>1, <2>2
<1> QED
  BY <1>1, <1>2, NestSame

LEMMA NestNext ==
  ASSUME NestInv, [Next]_vars
  PROVE  NestInv'
<1>0. TypeInv /\ TypeInv' /\ DOMAIN lines = 1..Len(lines)
  BY NextType DEF NestInv, TypeInv, LinesOK, Ordered
<1>1. CASE LoopTake(cfg.takes) /\ UNCHANGED <<floodVars, ioVars>>
  BY <1>1, NestLoopTake
<1>2. CASE Dispatching
  <2>0. PICK i \in DOMAIN lines, s \in Sets : RLock(i, s) \/ RUnlock(i, s)
    BY <1>2 DEF Dispatching
  <2>1. UNCHANGED <<floodVars, ioVars>> /\ UNCHANGED lines
    BY <1>2, <2>0 DEF Dispatching, RLock, RUnlock
  <2>2. CASE RLock(i, s)
    <3>1. \A k \in 1..Len(lines) : Open(k)' => Open(k)
      <4>1. frames' = [frames EXCEPT ![<<i, s>>] = "run"] /\ frames[<<i, s>>] = "want"
        BY <2>2 DEF RLock
      <4>2. frames \in [(1..Len(lines)) \X Sets -> {"idle", "want", "run", "done"}]
        BY <1>0 DEF TypeInv, FramesOK
      <4> QED
        BY <4>1, <4>2 DEF Open, Dispatched, Sets
    <3>2. \A g \in DOMAIN tasks : g \in DOMAIN tasks' /\ tasks'[g] = tasks[g]
      BY <1>0, <2>1, <2>2, RLockType
    <3> QED
      BY <1>0, <2>1, <3>1, <3>2, NestSame DEF NestInv, Waited
  <2>3. CASE RUnlock(i, s)
    <3>1. \A k \in 1..Len(lines) : Open(k)' => Open(k)
      BY <1>0, <2>1, <2>3, RUnlockType
    <3>2. UNCHANGED tasks
      BY <2>3 DEF RUnlock
    <3> QED
      BY <1>0, <2>1, <3>1, <3>2, NestSame DEF NestInv, Waited
  <2> QED
    BY <2>0, <2>2, <2>3
<1>3. CASE MainGoes
  <2>1. /\ UNCHANGED <<lines, frames>>
        /\ \A g \in DOMAIN tasks : g \in DOMAIN tasks' /\ tasks'[g] = tasks[g]
    BY <1>3 DEF MainGoes
  <2>2. \A k \in 1..Len(lines) : Open(k)' => Open(k)
    BY <2>1 DEF Open, Dispatched
  <2> QED
    BY <1>0, <2>1, <2>2, NestSame DEF NestInv, Waited
<1>4. CASE Task
  <2>0. PICK g \in DOMAIN tasks : Says(g) \/ (TaskStep(g) /\ UNCHANGED <<floodVars, ioVars>>)
    BY <1>4 DEF Task
  <2>1. CASE Dispatches(g) /\ UNCHANGED <<floodVars, ioVars>>
    BY <2>1, NestDispatches
  <2>2. CASE Says(g)
    <3>1. /\ UNCHANGED <<lines, frames>> /\ tasks[g].do # "waiting"
          /\ \A h \in DOMAIN tasks : h # g => h \in DOMAIN tasks' /\ tasks'[h] = tasks[h]
      BY <2>2 DEF Says, Ended, Goes, Without
    <3> QED
      BY <1>0, <3>1, NestTask
  <2>3. CASE Returns(g) \/ DispatchReturns(g) \/ AsksToEdit(g) \/ Edits(g)
    <3>1. /\ UNCHANGED <<lines, frames>>
          /\ tasks[g].do = "waiting" => Dispatched(tasks[g].line)
          /\ \A h \in DOMAIN tasks : h # g => h \in DOMAIN tasks' /\ tasks'[h] = tasks[h]
      BY <2>3 DEF Returns, DispatchReturns, AsksToEdit, Edits, Editing, Ended, Goes, Without
    <3> QED
      BY <1>0, <3>1, NestTask
  <2> QED
    BY <2>0, <2>1, <2>2, <2>3 DEF TaskStep
<1>5. CASE UNCHANGED handlerVars
  <2>1. UNCHANGED <<lines, frames, tasks>>
    BY <1>5 DEF handlerVars
  <2>2. \A k \in 1..Len(lines) : Open(k)' => Open(k)
    BY <2>1 DEF Open, Dispatched
  <2> QED
    BY <1>0, <2>1, <2>2, NestSame DEF NestInv, Waited
<1> QED
  BY <1>1, <1>2, <1>3, <1>4, <1>5 DEF Next, vars, Sending, SendTakes, Writes, Clock

\* An open line came from each that came before it and is open.
LEMMA OpenFrom ==
  ASSUME NestInv, NEW i \in 1..Len(lines), Open(i), OfLoop(i)
  PROVE  \A k \in 1..Len(lines) : i <= k /\ Open(k) /\ OfLoop(k) => i \in From(k)
<1> DEFINE T == {k \in 1..Len(lines) : i <= k /\ Open(k) /\ OfLoop(k) /\ i \notin From(k)}
<1>0. /\ TypeInv /\ Waited /\ OneOfLoop /\ Nested /\ Len(lines) \in Nat /\ Ordered(lines)
      /\ T \in SUBSET Nat
  BY DEF NestInv, TypeInv, LinesOK, Ordered
<1> SUFFICES ASSUME T # {} PROVE FALSE
  OBVIOUS
<1>1. PICK k \in T : \A j \in T : k <= j
  <2> HIDE DEF T
  <2> QED
    BY <1>0, Least
<1>2. k \in 1..Len(lines) /\ i <= k /\ Open(k) /\ OfLoop(k) /\ i \notin From(k)
  BY <1>1
<1>3. k \in From(k)
  BY <1>0, <1>2, OriginsAre DEF From
<1>4. i < k
  BY <1>0, <1>2, <1>3
<1>5. lines[k].by # Loop
  <2> SUFFICES ASSUME lines[k].by = Loop PROVE FALSE
    OBVIOUS
  <2>1. PICK j \in 1..Len(lines) : j <= i /\ Open(j) /\ lines[j].by = Loop
    BY <1>0, OpenLoopLine
  <2>2. j = k
    BY <1>0, <1>2, <2>1 DEF OneOfLoop
  <2> HIDE DEF T
  <2> QED
    BY <1>4, <2>1, <2>2
<1> DEFINE b == lines[k].by[1]
<1>6. b \in 1..(k - 1) /\ b \in 1..Len(lines) /\ Open(b) /\ OfLoop(b) /\ From(k) = {k} \cup From(b)
  BY <1>0, <1>2, <1>5, OpenOrigin
<1>7. b >= i
  BY <1>0, <1>2, <1>4 DEF Nested
<1>8. b \in T
  <2>1. i <= b
    <3> HIDE DEF b, T
    <3> QED
      BY <1>6, <1>7
  <2> QED
    BY <1>2, <1>6, <2>1
<1> HIDE DEF b, T
<1>9. k <= b
  BY <1>1, <1>8
<1> QED
  BY <1>0, <1>2, <1>6, <1>9

\* The handlers for one event have finished before those for the next start
\* (runLoop takes no line before, and h_001 waits for what it dispatches).
THEOREM OneAtATime == Spec => []OneEventAtATime
<1>1. Init => NestInv
  <2> SUFFICES ASSUME Init PROVE NestInv
    OBVIOUS
  <2>1. Len(lines) = 0 /\ TypeInv
    BY InitType DEF Init, HandlersInit
  <2> QED
    BY <2>1 DEF NestInv, Waited, OneOfLoop, Nested
<1>2. NestInv /\ [Next]_vars => NestInv'
  BY NestNext
<1>3. NestInv => OneEventAtATime
  <2> SUFFICES ASSUME NestInv, NEW g \in DOMAIN tasks \ {Main}, NEW h \in DOMAIN tasks \ {Main},
                      g[2] # "bg", h[2] # "bg", OfLoop(g[1]), OfLoop(h[1])
               PROVE  /\ g[1] \in From(h[1]) \/ h[1] \in From(g[1])
                      /\ (g[1] = h[1] => g[2] = h[2])
    BY DEF OneEventAtATime, OfLoop
  <2>1. /\ TypeInv /\ Len(lines) \in Nat
        /\ g[1] \in 1..Len(lines) /\ g[2] \in Sets /\ frames[<<g[1], g[2]>>] = "run"
        /\ h[1] \in 1..Len(lines) /\ h[2] \in Sets /\ frames[<<h[1], h[2]>>] = "run"
    BY GoroutineIs DEF NestInv, TypeInv, LinesOK, Ordered
  <2>2. FramesOK
    BY <2>1 DEF TypeInv
  <2>3. g[2] \in {"int", "fg"} /\ h[2] \in {"int", "fg"}
    BY <2>1 DEF Sets
  <2>4. Open(g[1]) /\ Open(h[1])
    BY <2>1, <2>2, <2>3 DEF FramesOK, Open, Dispatched
  <2>5. g[1] <= h[1] => g[1] \in From(h[1])
    BY <2>1, <2>4, OpenFrom
  <2>6. h[1] <= g[1] => h[1] \in From(g[1])
    BY <2>1, <2>4, OpenFrom
  <2>7. g[1] = h[1] => g[2] = h[2]
    BY <2>1, <2>2, <2>3 DEF FramesOK
  <2>8. g[1] <= h[1] \/ h[1] <= g[1]
    BY <2>1
  <2> QED
    BY <2>5, <2>6, <2>7, <2>8
<1> QED
  BY <1>1, <1>2, <1>3, PTL DEF Spec

-----------------------------------------------------------------------------
(* The handlers are in order.                                              *)

\* What the links of the lists never lose: they lead only to handlers that have
\* a set, and those forwards are those backwards, even when a handler is removed
\* twice.
Linkage ==
  /\ owned \subseteq Nodes
  /\ \A l \in Lists :
       /\ start[l] \in owned \cup {Nil} /\ end[l] \in owned \cup {Nil}
       /\ start[l] = Nil <=> end[l] = Nil
       /\ start[l] # Nil => prev[start[l]] = Nil
       /\ end[l] # Nil => next[end[l]] = Nil
  /\ \A n \in Nodes :
       /\ next[n] \in owned \cup {Nil} /\ prev[n] \in owned \cup {Nil}
       /\ n \notin owned => next[n] = Nil /\ prev[n] = Nil
       /\ next[n] # Nil => prev[next[n]] = n
       /\ prev[n] # Nil => next[prev[n]] = n

\* The links of a list are those of the sequence of its handlers.
InLine(l, s) ==
  /\ IsInjective(s)
  /\ start[l] = Entry(s, 1) /\ end[l] = Entry(s, Len(s))
  /\ \A k \in 1..Len(s) : /\ s[k] \in owned /\ ListOf(s[k]) = l
                          /\ next[s[k]] = Entry(s, k + 1) /\ prev[s[k]] = Entry(s, k - 1)

\* Each handler that has a set is in the sequence of its list.
AllListed == \A n \in owned : n \in ToSet(order[ListOf(n)])

Alive == \A g \in DOMAIN tasks \ {Main} : g[3] \in owned

Ordering ==
  /\ order \in [Lists -> Seq(Nodes)]
  /\ AllListed /\ \A l \in Lists : InLine(l, order[l])

\* Whatever happens, the history names the handlers that have a set, once.
Listing ==
  /\ order \in [Lists -> Seq(Nodes)] /\ AllListed
  /\ \A l \in Lists : /\ IsInjective(order[l]) /\ ToSet(order[l]) \subseteq owned
                      /\ \A n \in ToSet(order[l]) : ListOf(n) = l

OrderInv ==
  /\ Linkage /\ Listing /\ Alive /\ Len(out) <= OutCap
  /\ mishaps = {} => Ordering

LEMMA AddIs ==
  ASSUME ListsOK, Linkage, NEW n \in Nodes, Add(n)
  PROVE  /\ \A k \in Lists : start'[k] = IF k = ListOf(n) /\ start[k] = Nil THEN n ELSE start[k]
         /\ \A k \in Lists : end'[k] = IF k = ListOf(n) THEN n ELSE end[k]
         /\ \A m \in Nodes : next'[m] = IF m = end[ListOf(n)] THEN n ELSE next[m]
         /\ \A m \in Nodes : prev'[m] = IF m = n THEN end[ListOf(n)] ELSE prev[m]
         /\ owned' = owned \cup {n}
<1> DEFINE l == ListOf(n)
<1>1. l \in Lists /\ Nil \notin Nodes
  BY HandlerTypes
<1>2. start[l] = Nil <=> end[l] = Nil
  BY <1>1 DEF Linkage
<1>3. /\ end' = [end EXCEPT ![l] = n] /\ owned' = owned \cup {n}
      /\ start[l] = Nil => /\ start' = [start EXCEPT ![l] = n] /\ next' = next
                           /\ prev' = [prev EXCEPT ![n] = Nil]
      /\ start[l] # Nil => /\ start' = start /\ next' = [next EXCEPT ![end[l]] = n]
                           /\ prev' = [prev EXCEPT ![n] = end[l]]
  BY DEF Add
<1>4. /\ start \in [Lists -> Nodes \cup {Nil}] /\ end \in [Lists -> Nodes \cup {Nil}]
      /\ next \in [Nodes -> Nodes \cup {Nil}] /\ prev \in [Nodes -> Nodes \cup {Nil}]
  BY DEF ListsOK
<1>5. \A k \in Lists : /\ start'[k] = IF k = l /\ start[k] = Nil THEN n ELSE start[k]
                       /\ end'[k] = IF k = l THEN n ELSE end[k]
  <2> HIDE DEF l
  <2> QED
    BY <1>1, <1>3, <1>4
<1>6. \A m \in Nodes : /\ next'[m] = IF m = end[l] THEN n ELSE next[m]
                       /\ prev'[m] = IF m = n THEN end[l] ELSE prev[m]
  <2> HIDE DEF l
  <2>1. CASE start[l] = Nil
    BY <1>1, <1>2, <1>3, <1>4, <2>1
  <2>2. CASE start[l] # Nil
    BY <1>1, <1>2, <1>3, <1>4, <2>2
  <2> QED
    BY <2>1, <2>2
<1> QED
  BY <1>3, <1>5, <1>6

LEMMA AddLinks ==
  ASSUME ListsOK, Linkage, NEW n \in Nodes, n \notin owned, Add(n)
  PROVE  Linkage'
<1> DEFINE l == ListOf(n)
           e == end[l]
<1>1. l \in Lists /\ Nil \notin Nodes /\ n # Nil /\ owned \subseteq Nodes
  BY HandlerTypes DEF Linkage
<1>2. /\ e \in owned \cup {Nil} /\ (e = Nil <=> start[l] = Nil) /\ (e # Nil => next[e] = Nil)
      /\ e # n /\ e # Nil => e \in Nodes
      /\ next[n] = Nil /\ prev[n] = Nil
  BY <1>1 DEF Linkage
<1>3. /\ \A k \in Lists : start'[k] = IF k = l /\ start[k] = Nil THEN n ELSE start[k]
      /\ \A k \in Lists : end'[k] = IF k = l THEN n ELSE end[k]
      /\ \A m \in Nodes : next'[m] = IF m = e THEN n ELSE next[m]
      /\ \A m \in Nodes : prev'[m] = IF m = n THEN e ELSE prev[m]
      /\ owned' = owned \cup {n}
  BY AddIs
<1>4. \A k \in Lists : start[k] # n /\ (k # l => end[k] # e \/ e = Nil)
  BY <1>1, <1>2 DEF Linkage, ListsOK
<1>5. \A m \in Nodes : next[m] # n /\ prev[m] # n
  BY <1>1 DEF Linkage
<1> HIDE DEF l, e
<1>6. \A k \in Lists : /\ start'[k] \in owned' \cup {Nil} /\ end'[k] \in owned' \cup {Nil}
                       /\ start'[k] = Nil <=> end'[k] = Nil
  BY <1>1, <1>2, <1>3 DEF Linkage, e
<1>7. ASSUME NEW k \in Lists
      PROVE  /\ start'[k] # Nil => prev'[start'[k]] = Nil
             /\ end'[k] # Nil => next'[end'[k]] = Nil
  <2>1. start'[k] # Nil => prev'[start'[k]] = Nil
    BY <1>1, <1>2, <1>3, <1>4, <1>7 DEF Linkage
  <2>2. end'[k] # Nil => next'[end'[k]] = Nil
    BY <1>1, <1>2, <1>3, <1>4, <1>7 DEF Linkage
  <2> QED
    BY <2>1, <2>2
<1>8. \A m \in Nodes : /\ next'[m] \in owned' \cup {Nil} /\ prev'[m] \in owned' \cup {Nil}
                       /\ m \notin owned' => next'[m] = Nil /\ prev'[m] = Nil
  BY <1>1, <1>2, <1>3 DEF Linkage
<1>9. ASSUME NEW m \in Nodes
      PROVE  /\ next'[m] # Nil => prev'[next'[m]] = m
             /\ prev'[m] # Nil => next'[prev'[m]] = m
  <2>1. next'[m] # Nil => prev'[next'[m]] = m
    BY <1>1, <1>2, <1>3, <1>5, <1>9 DEF Linkage
  <2>2. prev'[m] # Nil => next'[prev'[m]] = m
    BY <1>1, <1>2, <1>3, <1>5, <1>9 DEF Linkage
  <2> QED
    BY <2>1, <2>2
<1>10. owned' \subseteq Nodes
  BY <1>1, <1>3
<1> QED
  BY <1>6, <1>7, <1>8, <1>9, <1>10 DEF Linkage

LEMMA RemoveIs ==
  ASSUME ListsOK, Linkage, NEW n \in Nodes, RemoveNode(n), start[ListOf(n)] # Nil
  PROVE  \E s, e \in Nodes \cup {Nil} :
           /\ s = IF prev[n] = Nil THEN next[n] ELSE start[ListOf(n)]
           /\ e = IF next[n] = Nil THEN prev[n] ELSE end[ListOf(n)]
           /\ \A k \in Lists :
                /\ start'[k] = IF k # ListOf(n) THEN start[k] ELSE IF e = Nil THEN Nil ELSE s
                /\ end'[k] = IF k # ListOf(n) THEN end[k] ELSE IF s = Nil THEN Nil ELSE e
           /\ \A m \in Nodes :
                /\ next'[m] = IF m = n THEN Nil ELSE IF m = prev[n] THEN next[n] ELSE next[m]
                /\ prev'[m] = IF m = n THEN Nil ELSE IF m = next[n] THEN prev[n] ELSE prev[m]
           /\ owned' = owned \ {n}
<1> DEFINE l == ListOf(n)
           s == IF prev[n] = Nil THEN next[n] ELSE start[l]
           e == IF next[n] = Nil THEN prev[n] ELSE end[l]
<1>1. l \in Lists /\ Nil \notin Nodes
  BY HandlerTypes
<1>2. s \in Nodes \cup {Nil} /\ e \in Nodes \cup {Nil}
  BY <1>1 DEF ListsOK
<1>3. /\ start' = [start EXCEPT ![l] = IF s = Nil \/ e = Nil THEN Nil ELSE s]
      /\ end' = [end EXCEPT ![l] = IF s = Nil \/ e = Nil THEN Nil ELSE e]
      /\ next' = [m \in Nodes |-> IF m = n THEN Nil ELSE IF m = prev[n] THEN next[n] ELSE next[m]]
      /\ prev' = [m \in Nodes |-> IF m = n THEN Nil ELSE IF m = next[n] THEN prev[n] ELSE prev[m]]
      /\ owned' = owned \ {n}
  BY DEF RemoveNode
<1>4. start \in [Lists -> Nodes \cup {Nil}] /\ end \in [Lists -> Nodes \cup {Nil}]
  BY DEF ListsOK
<1>5. s = (IF prev[n] = Nil THEN next[n] ELSE start[ListOf(n)])
      /\ e = (IF next[n] = Nil THEN prev[n] ELSE end[ListOf(n)])
  OBVIOUS
<1>6. \A k \in Lists :
        /\ start'[k] = IF k # ListOf(n) THEN start[k] ELSE IF e = Nil THEN Nil ELSE s
        /\ end'[k] = IF k # ListOf(n) THEN end[k] ELSE IF s = Nil THEN Nil ELSE e
  <2>1. \A k \in Lists :
          /\ start'[k] = IF k # l THEN start[k] ELSE IF e = Nil THEN Nil ELSE s
          /\ end'[k] = IF k # l THEN end[k] ELSE IF s = Nil THEN Nil ELSE e
    <3> HIDE DEF l, s, e
    <3> QED
      BY <1>1, <1>3, <1>4
  <2> QED
    BY <2>1 DEF l
<1> HIDE DEF s, e
<1> QED
  BY <1>2, <1>3, <1>5, <1>6

LEMMA RemoveLinks ==
  ASSUME ListsOK, Linkage, NEW n \in Nodes, RemoveNode(n)
  PROVE  Linkage'
<1> DEFINE l == ListOf(n)
           p == prev[n]
           x == next[n]
<1> SUFFICES ASSUME start[l] # Nil PROVE Linkage'
  BY DEF RemoveNode, Linkage, listVars
<1>1. l \in Lists /\ Nil \notin Nodes /\ n # Nil /\ owned \subseteq Nodes
  BY HandlerTypes DEF Linkage
<1>2. PICK s, e \in Nodes \cup {Nil} :
        /\ s = IF p = Nil THEN x ELSE start[l]
        /\ e = IF x = Nil THEN p ELSE end[l]
        /\ \A k \in Lists :
             /\ start'[k] = IF k # l THEN start[k] ELSE IF e = Nil THEN Nil ELSE s
             /\ end'[k] = IF k # l THEN end[k] ELSE IF s = Nil THEN Nil ELSE e
        /\ \A m \in Nodes :
             /\ next'[m] = IF m = n THEN Nil ELSE IF m = p THEN x ELSE next[m]
             /\ prev'[m] = IF m = n THEN Nil ELSE IF m = x THEN p ELSE prev[m]
        /\ owned' = owned \ {n}
  BY RemoveIs
<1>3. /\ p \in owned \cup {Nil} /\ x \in owned \cup {Nil}
      /\ p # Nil => next[p] = n /\ ListOf(p) = l
      /\ x # Nil => prev[x] = n /\ ListOf(x) = l
      /\ (p # Nil \/ x # Nil) => n \in owned
  BY <1>1 DEF Linkage, ListsOK
<1>4. /\ start[l] \in owned /\ end[l] \in owned /\ prev[start[l]] = Nil /\ next[end[l]] = Nil
  BY <1>1 DEF Linkage
<1>5. \A k \in Lists : k # l => start[k] # n /\ end[k] # n /\ (start[k] # x \/ x = Nil)
                               /\ (end[k] # p \/ p = Nil)
  BY <1>1, <1>3 DEF Linkage, ListsOK
<1>6. p = n <=> x = n
  BY <1>1, <1>3 DEF Linkage
<1> HIDE DEF l, p, x
<1>7. \A m \in Nodes : /\ next[m] = n <=> m = p
                       /\ prev[m] = n <=> m = x
  BY <1>1, <1>3 DEF Linkage, p, x
<1>8. /\ s \in owned' \cup {Nil} /\ e \in owned' \cup {Nil}
      /\ s # Nil => prev'[s] = Nil
      /\ e # Nil => next'[e] = Nil
  <2>1. s \in owned' \cup {Nil} /\ (s # Nil => prev'[s] = Nil)
    <3>1. CASE p = Nil
      <4>1. s = x /\ x # n
        BY <1>1, <1>2, <1>6, <3>1
      <4> QED
        BY <1>1, <1>2, <1>3, <3>1, <4>1
    <3>2. CASE p # Nil
      <4>1. s = start[l] /\ start[l] # n
        BY <1>2, <1>4, <3>2 DEF p
      <4>2. start[l] # x
        BY <1>1, <1>3, <1>4
      <4> QED
        BY <1>1, <1>2, <1>4, <4>1, <4>2
    <3> QED
      BY <3>1, <3>2
  <2>2. e \in owned' \cup {Nil} /\ (e # Nil => next'[e] = Nil)
    <3>1. CASE x = Nil
      <4>1. e = p /\ p # n
        BY <1>1, <1>2, <1>6, <3>1
      <4> QED
        BY <1>1, <1>2, <1>3, <3>1, <4>1
    <3>2. CASE x # Nil
      <4>1. e = end[l] /\ end[l] # n
        BY <1>2, <1>4, <3>2 DEF x
      <4>2. end[l] # p
        BY <1>1, <1>3, <1>4
      <4> QED
        BY <1>1, <1>2, <1>4, <4>1, <4>2
    <3> QED
      BY <3>1, <3>2
  <2> QED
    BY <2>1, <2>2
<1>9. ASSUME NEW k \in Lists
      PROVE  /\ start'[k] \in owned' \cup {Nil} /\ end'[k] \in owned' \cup {Nil}
             /\ start'[k] = Nil <=> end'[k] = Nil
             /\ start'[k] # Nil => prev'[start'[k]] = Nil
             /\ end'[k] # Nil => next'[end'[k]] = Nil
  <2>1. CASE k = l
    BY <1>2, <1>8, <2>1
  <2>2. CASE k # l
    <3>1. start'[k] = start[k] /\ end'[k] = end[k]
      BY <1>2, <2>2
    <3>2. /\ start[k] \in owned \cup {Nil} /\ end[k] \in owned \cup {Nil}
          /\ start[k] = Nil <=> end[k] = Nil
          /\ start[k] # Nil => prev[start[k]] = Nil
          /\ end[k] # Nil => next[end[k]] = Nil
      BY DEF Linkage
    <3> QED
      BY <1>1, <1>2, <1>5, <2>2, <3>1, <3>2
  <2> QED
    BY <2>1, <2>2
<1>10. ASSUME NEW m \in Nodes
       PROVE  /\ next'[m] \in owned' \cup {Nil} /\ prev'[m] \in owned' \cup {Nil}
              /\ m \notin owned' => next'[m] = Nil /\ prev'[m] = Nil
              /\ next'[m] # Nil => prev'[next'[m]] = m
              /\ prev'[m] # Nil => next'[prev'[m]] = m
  <2>1. /\ next[m] \in owned \cup {Nil} /\ prev[m] \in owned \cup {Nil}
        /\ m \notin owned => next[m] = Nil /\ prev[m] = Nil
        /\ next[m] # Nil => prev[next[m]] = m
        /\ prev[m] # Nil => next[prev[m]] = m
    BY DEF Linkage
  <2>2. /\ next'[m] = IF m = n THEN Nil ELSE IF m = p THEN x ELSE next[m]
        /\ prev'[m] = IF m = n THEN Nil ELSE IF m = x THEN p ELSE prev[m]
    BY <1>2
  <2>3. /\ next'[m] \in owned' \cup {Nil} /\ prev'[m] \in owned' \cup {Nil}
        /\ m \notin owned' => next'[m] = Nil /\ prev'[m] = Nil
    BY <1>2, <1>3, <1>6, <1>7, <2>1, <2>2
  <2>4. next'[m] # Nil => prev'[next'[m]] = m
    BY <1>1, <1>2, <1>3, <1>6, <1>7, <2>1, <2>2
  <2>5. prev'[m] # Nil => next'[prev'[m]] = m
    BY <1>1, <1>2, <1>3, <1>6, <1>7, <2>1, <2>2
  <2> QED
    BY <2>3, <2>4, <2>5
<1> QED
  BY <1>1, <1>2, <1>9, <1>10 DEF Linkage

\* The order of a list with a handler more, and with one less.
LEMMA AppendIs ==
  ASSUME NEW s \in Seq(Nodes), NEW n \in Nodes, IsInjective(s), n \notin ToSet(s)
  PROVE  /\ Append(s, n) \in Seq(Nodes) /\ Len(Append(s, n)) = Len(s) + 1 /\ Len(s) \in Nat
         /\ Append(s, n)[Len(s) + 1] = n /\ \A k \in 1..Len(s) : Append(s, n)[k] = s[k]
         /\ IsInjective(Append(s, n))
         /\ ToSet(Append(s, n)) = ToSet(s) \cup {n}
<1> DEFINE t == Append(s, n)
<1>1. /\ t \in Seq(Nodes) /\ Len(t) = Len(s) + 1 /\ Len(s) \in Nat
      /\ t[Len(s) + 1] = n /\ \A k \in 1..Len(s) : t[k] = s[k]
      /\ DOMAIN t = 1..(Len(s) + 1) /\ DOMAIN s = 1..Len(s)
  BY AppendProperties
<1> HIDE DEF t
<1>2. \A k \in 1..Len(s) : s[k] # n
  BY <1>1 DEF ToSet
<1>3. ASSUME NEW a \in 1..(Len(s) + 1), NEW b \in 1..(Len(s) + 1), t[a] = t[b] PROVE a = b
  <2>1. CASE a = Len(s) + 1
    BY <1>1, <1>2, <1>3, <2>1
  <2>2. CASE b = Len(s) + 1
    BY <1>1, <1>2, <1>3, <2>2
  <2>3. CASE a \in 1..Len(s) /\ b \in 1..Len(s)
    BY <1>1, <1>3, <2>3 DEF IsInjective
  <2> QED
    BY <1>1, <2>1, <2>2, <2>3
<1>4. ToSet(t) = ToSet(s) \cup {n}
  <2>1. \A k \in 1..(Len(s) + 1) : k = Len(s) + 1 \/ k \in 1..Len(s)
    BY <1>1
  <2>2. Len(s) + 1 \in 1..(Len(s) + 1) /\ \A k \in 1..Len(s) : k \in 1..(Len(s) + 1)
    BY <1>1
  <2> QED
    BY <1>1, <2>1, <2>2 DEF ToSet
<1>5. IsInjective(t)
  BY <1>1, <1>3 DEF IsInjective
<1> QED
  BY <1>1, <1>4, <1>5 DEF t

LEMMA RemoveAtIs ==
  ASSUME NEW s \in Seq(Nodes), NEW j \in 1..Len(s), IsInjective(s)
  PROVE  /\ RemoveAt(s, j) \in Seq(Nodes) /\ Len(RemoveAt(s, j)) = Len(s) - 1 /\ Len(s) \in Nat
         /\ \A k \in 1..(Len(s) - 1) : RemoveAt(s, j)[k] = IF k < j THEN s[k] ELSE s[k + 1]
         /\ IsInjective(RemoveAt(s, j))
         /\ ToSet(RemoveAt(s, j)) = ToSet(s) \ {s[j]}
<1> DEFINE a == SubSeq(s, 1, j - 1)
           b == SubSeq(s, j + 1, Len(s))
           t == RemoveAt(s, j)
<1>1. Len(s) \in Nat /\ DOMAIN s = 1..Len(s) /\ \A k \in 1..Len(s) : s[k] \in Nodes
  OBVIOUS
<1>2. a \in Seq(Nodes) /\ Len(a) = j - 1 /\ \A k \in 1..(j - 1) : a[k] = s[k]
  BY <1>1, SubSeqProperties
<1>3. b \in Seq(Nodes) /\ Len(b) = Len(s) - j /\ \A k \in 1..(Len(s) - j) : b[k] = s[j + k]
  BY <1>1, SubSeqProperties
<1>4. t = a \o b
  BY DEF RemoveAt
<1> HIDE DEF a, b, t
<1>5. /\ t \in Seq(Nodes) /\ Len(t) = Len(s) - 1
      /\ \A k \in 1..(Len(s) - 1) : t[k] = IF k < j THEN a[k] ELSE b[k - (j - 1)]
  <2>1. /\ t \in Seq(Nodes) /\ Len(t) = Len(a) + Len(b)
        /\ \A k \in 1..Len(a) + Len(b) : t[k] = IF k <= Len(a) THEN a[k] ELSE b[k - Len(a)]
    BY <1>2, <1>3, <1>4, ConcatProperties, Zenon
  <2>2. Len(a) = j - 1 /\ Len(a) + Len(b) = Len(s) - 1
    BY <1>1, <1>2, <1>3
  <2>3. \A k \in 1..(Len(s) - 1) : k <= j - 1 <=> k < j
    BY <1>1
  <2> QED
    BY <1>1, <1>2, <2>1, <2>2, <2>3
<1>6. \A k \in 1..(Len(s) - 1) : t[k] = IF k < j THEN s[k] ELSE s[k + 1]
  <2> SUFFICES ASSUME NEW k \in 1..(Len(s) - 1)
               PROVE  t[k] = IF k < j THEN s[k] ELSE s[k + 1]
    OBVIOUS
  <2>1. CASE k < j
    BY <1>1, <1>2, <1>5, <2>1
  <2>2. CASE ~(k < j)
    <3>1. k - (j - 1) \in 1..(Len(s) - j) /\ j + (k - (j - 1)) = k + 1
      BY <1>1, <2>2
    <3> QED
      BY <1>3, <1>5, <2>2, <3>1
  <2> QED
    BY <2>1, <2>2
<1>7. DOMAIN t = 1..(Len(s) - 1)
  BY <1>1, <1>5
<1>8. IsInjective(t)
  <2> SUFFICES ASSUME NEW c \in 1..(Len(s) - 1), NEW d \in 1..(Len(s) - 1), t[c] = t[d]
               PROVE  c = d
    BY <1>7 DEF IsInjective
  <2>1. \A i, k \in 1..Len(s) : s[i] = s[k] => i = k
    BY <1>1 DEF IsInjective
  <2>2. c \in 1..Len(s) /\ d \in 1..Len(s) /\ c + 1 \in 1..Len(s) /\ d + 1 \in 1..Len(s)
    BY <1>1
  <2> QED
    BY <1>1, <1>6, <2>1, <2>2
<1>9. ToSet(t) = ToSet(s) \ {s[j]}
  <2>1. \A i \in 1..(Len(s) - 1) : t[i] \in ToSet(s) /\ t[i] # s[j]
    <3> SUFFICES ASSUME NEW i \in 1..(Len(s) - 1) PROVE t[i] \in ToSet(s) /\ t[i] # s[j]
      OBVIOUS
    <3>1. PICK k \in 1..Len(s) : t[i] = s[k] /\ k # j
      <4>1. i \in 1..Len(s) /\ i + 1 \in 1..Len(s)
        BY <1>1
      <4> QED
        BY <1>1, <1>6, <4>1
    <3> QED
      BY <1>1, <3>1 DEF ToSet, IsInjective
  <2>2. ASSUME NEW k \in 1..Len(s), k # j PROVE \E i \in 1..(Len(s) - 1) : t[i] = s[k]
    <3>1. CASE k < j
      <4>1. k \in 1..(Len(s) - 1)
        BY <1>1, <3>1
      <4> QED
        BY <1>6, <3>1, <4>1
    <3>2. CASE k > j
      <4>1. k - 1 \in 1..(Len(s) - 1) /\ ~(k - 1 < j) /\ (k - 1) + 1 = k
        BY <1>1, <3>2
      <4>2. t[k - 1] = s[k]
        BY <1>6, <4>1
      <4> QED
        BY <4>1, <4>2
    <3> QED
      BY <1>1, <2>2, <3>1, <3>2
  <2>3. ToSet(t) \subseteq ToSet(s) \ {s[j]}
    BY <1>7, <2>1 DEF ToSet
  <2>4. ASSUME NEW x \in ToSet(s), x # s[j] PROVE x \in ToSet(t)
    <3>1. PICK k \in 1..Len(s) : x = s[k]
      BY <1>1 DEF ToSet
    <3>2. PICK i \in 1..(Len(s) - 1) : t[i] = s[k]
      BY <2>2, <2>4, <3>1
    <3> QED
      BY <1>7, <3>1, <3>2 DEF ToSet
  <2> QED
    BY <2>3, <2>4
<1> QED
  BY <1>1, <1>5, <1>6, <1>8, <1>9 DEF t

\* A list keeps its line when nothing of it changes.
LEMMA LineKept ==
  ASSUME Linkage, NEW l \in Lists, NEW s \in Seq(Nodes), InLine(l, s),
         start'[l] = start[l], end'[l] = end[l],
         \A k \in 1..Len(s) : /\ s[k] \in owned'
                              /\ next'[s[k]] = next[s[k]] /\ prev'[s[k]] = prev[s[k]]
  PROVE  /\ IsInjective(s)
         /\ start'[l] = Entry(s, 1) /\ end'[l] = Entry(s, Len(s))
         /\ \A k \in 1..Len(s) : /\ s[k] \in owned' /\ ListOf(s[k]) = l
                                 /\ next'[s[k]] = Entry(s, k + 1) /\ prev'[s[k]] = Entry(s, k - 1)
BY DEF InLine

LEMMA AddOrder ==
  ASSUME ListsOK, Linkage, Ordering, NEW n \in Nodes, n \notin owned, Add(n)
  PROVE  Ordering'
<1> DEFINE l == ListOf(n)
           s == order[l]
           t == Append(s, n)
           e == end[l]
           N == Len(s)
<1>1. l \in Lists /\ Nil \notin Nodes /\ n # Nil /\ owned \subseteq Nodes
  BY HandlerTypes DEF Linkage
<1>2. s \in Seq(Nodes) /\ InLine(l, s) /\ order' = [order EXCEPT ![l] = t] /\ l = ListOf(n)
  BY <1>1 DEF Ordering, Add
<1> HIDE DEF l, s
<1>3. /\ \A k \in Lists : start'[k] = IF k = l /\ start[k] = Nil THEN n ELSE start[k]
      /\ \A k \in Lists : end'[k] = IF k = l THEN n ELSE end[k]
      /\ \A m \in Nodes : next'[m] = IF m = e THEN n ELSE next[m]
      /\ \A m \in Nodes : prev'[m] = IF m = n THEN e ELSE prev[m]
      /\ owned' = owned \cup {n}
  BY AddIs DEF l
<1>4. N \in Nat /\ DOMAIN s = 1..N /\ \A k \in 1..N : s[k] \in Nodes /\ s[k] \in owned /\ s[k] # n
  BY <1>2 DEF InLine
<1>5. n \notin ToSet(s) /\ IsInjective(s)
  BY <1>2, <1>4 DEF ToSet, InLine
<1>6. /\ t \in Seq(Nodes) /\ Len(t) = N + 1 /\ t[N + 1] = n /\ \A k \in 1..N : t[k] = s[k]
      /\ IsInjective(t) /\ ToSet(t) = ToSet(s) \cup {n}
  BY <1>2, <1>5, AppendIs
<1>7. /\ start[l] = Entry(s, 1) /\ e = Entry(s, N)
      /\ \A k \in 1..N : /\ ListOf(s[k]) = l
                         /\ next[s[k]] = Entry(s, k + 1) /\ prev[s[k]] = Entry(s, k - 1)
  BY <1>2 DEF InLine
<1> HIDE DEF t, e
<1>8. \A k \in Int : /\ k \in 1..N => Entry(t, k) = s[k] /\ Entry(s, k) = s[k] /\ s[k] # Nil
                     /\ k = N + 1 => Entry(t, k) = n
                     /\ k \notin 1..N => Entry(s, k) = Nil
                     /\ k < 1 => Entry(t, k) = Nil
                     /\ k > N + 1 => Entry(t, k) = Nil
  <2> SUFFICES ASSUME NEW k \in Int
               PROVE /\ k \in 1..N => Entry(t, k) = s[k] /\ Entry(s, k) = s[k] /\ s[k] # Nil
                     /\ k = N + 1 => Entry(t, k) = n
                     /\ k \notin 1..N => Entry(s, k) = Nil
                     /\ k < 1 => Entry(t, k) = Nil
                     /\ k > N + 1 => Entry(t, k) = Nil
    OBVIOUS
  <2> QED
    BY <1>1, <1>2, <1>4, <1>6, EntryIs
<1> HIDE DEF N
<1>9. start'[l] = Entry(t, 1) /\ end'[l] = Entry(t, N + 1)
  <2>1. CASE N = 0
    BY <1>1, <1>3, <1>7, <1>8, <2>1
  <2>2. CASE N # 0
    <3>1. 1 \in 1..N
      BY <1>4, <2>2
    <3> QED
      BY <1>1, <1>3, <1>4, <1>7, <1>8, <3>1
  <2> QED
    BY <2>1, <2>2
<1>10. \A k \in 1..N : s[k] = e <=> k = N
  <2> SUFFICES ASSUME NEW k \in 1..N PROVE s[k] = e <=> k = N
    OBVIOUS
  <2>1. N \in 1..N /\ N \in Int
    BY <1>4
  <2>2. e = s[N]
    BY <1>7, <1>8, <2>1
  <2> QED
    BY <1>4, <1>5, <2>1, <2>2 DEF IsInjective
<1>11. ASSUME NEW k \in 1..(N + 1)
       PROVE  /\ t[k] \in owned' /\ ListOf(t[k]) = l
              /\ next'[t[k]] = Entry(t, k + 1) /\ prev'[t[k]] = Entry(t, k - 1)
  <2>1. CASE k = N + 1
    <3>1. t[k] = n /\ n \in owned' /\ ListOf(n) = l /\ n # e
      BY <1>1, <1>2, <1>3, <1>4, <1>6, <1>7, <1>8, <2>1
    <3>2. next'[n] = Nil
      BY <1>3, <3>1 DEF Linkage
    <3>3. prev'[n] = Entry(t, N)
      <4>1. e = Entry(t, N)
        BY <1>4, <1>7, <1>8
      <4> QED
        BY <1>3, <4>1
    <3> QED
      BY <1>4, <1>8, <2>1, <3>1, <3>2, <3>3
  <2>2. CASE k \in 1..N
    <3>1. /\ t[k] = s[k] /\ s[k] \in owned' /\ ListOf(s[k]) = l /\ s[k] \in Nodes /\ s[k] # n
      BY <1>3, <1>4, <1>6, <1>7, <2>2
    <3>2. prev'[s[k]] = Entry(t, k - 1)
      <4>1. prev'[s[k]] = Entry(s, k - 1)
        BY <1>3, <1>7, <2>2, <3>1
      <4> QED
        BY <1>4, <1>8, <2>2, <4>1
    <3>3. next'[s[k]] = Entry(t, k + 1)
      <4>1. CASE k = N
        BY <1>3, <1>4, <1>8, <1>10, <2>2, <3>1, <4>1
      <4>2. CASE k # N
        <5>1. next'[s[k]] = Entry(s, k + 1) /\ k + 1 \in 1..N
          BY <1>3, <1>4, <1>7, <1>10, <2>2, <3>1, <4>2
        <5> QED
          BY <1>8, <5>1
      <4> QED
        BY <4>1, <4>2
    <3> QED
      BY <3>1, <3>2, <3>3
  <2> QED
    BY <1>4, <2>1, <2>2
<1>12. ASSUME NEW k \in Lists PROVE InLine(k, order[k])'
  <2>1. CASE k = l
    <3>1. order'[l] = t
      BY <1>1, <1>2 DEF Ordering
    <3> QED
      BY <1>6, <1>9, <1>11, <2>1, <3>1 DEF InLine
  <2>2. CASE k # l
    <3> DEFINE r == order[k]
    <3>1. r \in Seq(Nodes) /\ InLine(k, r) /\ order'[k] = r
      BY <1>2, <2>2 DEF Ordering
    <3> HIDE DEF r
    <3>2. e # Nil => ListOf(e) = l
      BY <1>1 DEF ListsOK, e
    <3>3. \A i \in 1..Len(r) : r[i] \in Nodes /\ r[i] \in owned /\ ListOf(r[i]) = k
      BY <3>1 DEF InLine
    <3>4. \A i \in 1..Len(r) : r[i] # n /\ r[i] # e
      <4> HIDE DEF ListOf
      <4> QED
        BY <1>1, <1>2, <2>2, <3>2, <3>3
    <3>5. start'[k] = start[k] /\ end'[k] = end[k]
      BY <1>3, <2>2
    <3>6. \A i \in 1..Len(r) : /\ r[i] \in owned'
                               /\ next'[r[i]] = next[r[i]] /\ prev'[r[i]] = prev[r[i]]
      BY <1>3, <3>3, <3>4
    <3> QED
      BY <3>1, <3>5, <3>6, LineKept DEF InLine
  <2> QED
    BY <2>1, <2>2
<1>13. AllListed'
  <2> SUFFICES ASSUME NEW m \in owned' PROVE m \in ToSet(order'[ListOf(m)])
    BY DEF AllListed
  <2>1. order' = [order EXCEPT ![l] = t] /\ DOMAIN order = Lists /\ ListOf(m) \in Lists
    BY <1>1, <1>2, <1>3, HandlerTypes DEF Ordering
  <2>2. CASE m = n
    BY <1>1, <1>2, <1>6, <2>1, <2>2
  <2>3. CASE m # n
    <3>1. m \in ToSet(order[ListOf(m)])
      BY <1>3, <2>3 DEF Ordering, AllListed
    <3> HIDE DEF ListOf
    <3>2. CASE ListOf(m) = l
      BY <1>1, <1>6, <2>1, <3>1, <3>2 DEF s
    <3>3. CASE ListOf(m) # l
      BY <2>1, <3>1, <3>3
    <3> QED
      BY <3>2, <3>3
  <2> QED
    BY <2>2, <2>3
<1>14. order' \in [Lists -> Seq(Nodes)]
  BY <1>1, <1>2, <1>6 DEF Ordering
<1> QED
  BY <1>12, <1>13, <1>14 DEF Ordering

LEMMA RemoveOrder ==
  ASSUME ListsOK, Linkage, Ordering, NEW n \in Nodes, n \in owned, RemoveNode(n)
  PROVE  Ordering'
<1> DEFINE l == ListOf(n)
           s == order[l]
           j == Place(s, n)
           t == RemoveAt(s, j)
           p == prev[n]
           x == next[n]
           N == Len(s)
<1> SUFFICES ASSUME start[l] # Nil PROVE Ordering'
  BY DEF RemoveNode, Ordering, InLine, AllListed, listVars
<1>1. l \in Lists /\ Nil \notin Nodes /\ n # Nil /\ owned \subseteq Nodes
  BY HandlerTypes DEF Linkage
<1>2. /\ s \in Seq(Nodes) /\ InLine(l, s) /\ order' = [order EXCEPT ![l] = t] /\ l = ListOf(n)
      /\ n \in ToSet(s)
  BY <1>1 DEF Ordering, RemoveNode, AllListed
<1> HIDE DEF s
<1>3. PICK b, e \in Nodes \cup {Nil} :
        /\ b = IF p = Nil THEN x ELSE start[l]
        /\ e = IF x = Nil THEN p ELSE end[l]
        /\ \A k \in Lists :
             /\ start'[k] = IF k # l THEN start[k] ELSE IF e = Nil THEN Nil ELSE b
             /\ end'[k] = IF k # l THEN end[k] ELSE IF b = Nil THEN Nil ELSE e
        /\ \A m \in Nodes :
             /\ next'[m] = IF m = n THEN Nil ELSE IF m = p THEN x ELSE next[m]
             /\ prev'[m] = IF m = n THEN Nil ELSE IF m = x THEN p ELSE prev[m]
        /\ owned' = owned \ {n}
  BY RemoveIs
<1> HIDE DEF l
<1>4. /\ j \in 1..N /\ s[j] = n
  BY <1>2, PlaceIs
<1> HIDE DEF j
<1>5. N \in Nat /\ DOMAIN s = 1..N /\ \A k \in 1..N : s[k] \in Nodes /\ s[k] \in owned
  BY <1>2 DEF InLine
<1>6. IsInjective(s) /\ \A i, k \in 1..N : s[i] = s[k] => i = k
  BY <1>2, <1>5 DEF InLine, IsInjective
<1>7. /\ t \in Seq(Nodes) /\ Len(t) = N - 1
      /\ \A k \in 1..(N - 1) : t[k] = IF k < j THEN s[k] ELSE s[k + 1]
      /\ IsInjective(t) /\ ToSet(t) = ToSet(s) \ {n}
  BY <1>2, <1>4, <1>6, RemoveAtIs
<1>8. /\ start[l] = Entry(s, 1) /\ end[l] = Entry(s, N)
      /\ \A k \in 1..N : /\ ListOf(s[k]) = l
                         /\ next[s[k]] = Entry(s, k + 1) /\ prev[s[k]] = Entry(s, k - 1)
  BY <1>2 DEF InLine
<1>9. p = Entry(s, j - 1) /\ x = Entry(s, j + 1)
  BY <1>4, <1>8
<1> HIDE DEF t, p, x
<1>10. \A k \in Int : /\ k \in 1..N => Entry(s, k) = s[k] /\ s[k] # Nil
                      /\ k \notin 1..N => Entry(s, k) = Nil
  BY <1>1, <1>2, <1>5, EntryIs
<1>11. \A k \in Int : /\ k \in 1..(N - 1) => Entry(t, k) = t[k]
                      /\ k \notin 1..(N - 1) => Entry(t, k) = Nil
  BY <1>7, EntryIs
<1> HIDE DEF N
<1>12. \A k \in Int : Entry(t, k) = IF k < j THEN Entry(s, k) ELSE Entry(s, k + 1)
  <2> SUFFICES ASSUME NEW k \in Int
               PROVE  Entry(t, k) = IF k < j THEN Entry(s, k) ELSE Entry(s, k + 1)
    OBVIOUS
  <2>1. CASE k < j
    <3>1. k \in 1..(N - 1) <=> k \in 1..N
      BY <1>4, <1>5, <2>1
    <3> QED
      BY <1>7, <1>10, <1>11, <2>1, <3>1
  <2>2. CASE ~(k < j)
    <3>1. k \in 1..(N - 1) <=> k + 1 \in 1..N
      BY <1>4, <1>5, <2>2
    <3> QED
      BY <1>7, <1>10, <1>11, <2>2, <3>1
  <2> QED
    BY <2>1, <2>2
<1>13. start'[l] = Entry(t, 1) /\ end'[l] = Entry(t, N - 1)
  <2>1. p = Nil <=> j = 1
    <3>1. j - 1 \in Int /\ (j - 1 \in 1..N <=> j # 1)
      BY <1>4, <1>5
    <3> QED
      BY <1>9, <1>10, <3>1
  <2>2. x = Nil <=> j = N
    <3>1. j + 1 \in Int /\ (j + 1 \in 1..N <=> j # N)
      BY <1>4, <1>5
    <3> QED
      BY <1>9, <1>10, <3>1
  <2>3. b = Entry(t, 1)
    <3>1. CASE j = 1
      BY <1>3, <1>9, <1>12, <2>1, <3>1
    <3>2. CASE j # 1
      <4>1. 1 < j
        BY <1>4, <1>5, <3>2
      <4> QED
        BY <1>3, <1>8, <1>12, <2>1, <3>2, <4>1
    <3> QED
      BY <3>1, <3>2
  <2>4. e = Entry(t, N - 1)
    <3>1. CASE j = N
      <4>1. N - 1 < j /\ N - 1 \in Int
        BY <1>4, <1>5, <3>1
      <4> QED
        BY <1>3, <1>9, <1>12, <2>2, <3>1, <4>1
    <3>2. CASE j # N
      <4>1. ~(N - 1 < j) /\ N - 1 \in Int /\ (N - 1) + 1 = N
        BY <1>4, <1>5, <3>2
      <4> QED
        BY <1>3, <1>8, <1>12, <2>2, <3>2, <4>1
    <3> QED
      BY <3>1, <3>2
  <2>5. b = Nil <=> e = Nil
    <3>1. b = Nil <=> N = 1
      <4>1. 1 \in 1..(N - 1) <=> N # 1
        BY <1>4, <1>5
      <4>2. t[1] # Nil \/ N = 1
        BY <1>1, <1>7, <4>1
      <4> QED
        BY <1>11, <2>3, <4>1, <4>2
    <3>2. e = Nil <=> N = 1
      <4>1. N - 1 \in Int /\ (N - 1 \in 1..(N - 1) <=> N # 1)
        BY <1>4, <1>5
      <4>2. t[N - 1] # Nil \/ N = 1
        BY <1>1, <1>7, <4>1
      <4> QED
        BY <1>11, <2>4, <4>1, <4>2
    <3> QED
      BY <3>1, <3>2
  <2> QED
    BY <1>1, <1>3, <2>3, <2>4, <2>5
<1>14. \A k \in 1..N : /\ s[k] = p <=> k = j - 1
                       /\ s[k] = x <=> k = j + 1
  <2> SUFFICES ASSUME NEW k \in 1..N PROVE (s[k] = p <=> k = j - 1) /\ (s[k] = x <=> k = j + 1)
    OBVIOUS
  <2>1. s[k] = p <=> k = j - 1
    <3>1. CASE j - 1 \in 1..N
      BY <1>6, <1>9, <1>10, <3>1
    <3>2. CASE j - 1 \notin 1..N
      <4>1. p = Nil /\ s[k] # Nil
        BY <1>4, <1>5, <1>9, <1>10, <3>2
      <4> QED
        BY <3>2, <4>1
    <3> QED
      BY <3>1, <3>2
  <2>2. s[k] = x <=> k = j + 1
    <3>1. CASE j + 1 \in 1..N
      BY <1>6, <1>9, <1>10, <3>1
    <3>2. CASE j + 1 \notin 1..N
      <4>1. x = Nil /\ s[k] # Nil
        BY <1>4, <1>5, <1>9, <1>10, <3>2
      <4> QED
        BY <3>2, <4>1
    <3> QED
      BY <3>1, <3>2
  <2> QED
    BY <2>1, <2>2
<1>15. ASSUME NEW i \in 1..N, i # j
       PROVE  /\ s[i] \in owned' /\ ListOf(s[i]) = l
              /\ next'[s[i]] = Entry(s, IF i = j - 1 THEN i + 2 ELSE i + 1)
              /\ prev'[s[i]] = Entry(s, IF i = j + 1 THEN i - 2 ELSE i - 1)
  <2>1. s[i] # n /\ s[i] \in Nodes /\ s[i] \in owned /\ ListOf(s[i]) = l
    BY <1>4, <1>5, <1>6, <1>8, <1>15
  <2>2. next'[s[i]] = Entry(s, IF i = j - 1 THEN i + 2 ELSE i + 1)
    <3>1. next'[s[i]] = IF i = j - 1 THEN x ELSE Entry(s, i + 1)
      BY <1>3, <1>8, <1>14, <2>1
    <3>2. i = j - 1 => i + 2 = j + 1
      BY <1>4
    <3> QED
      BY <1>9, <3>1, <3>2
  <2>3. prev'[s[i]] = Entry(s, IF i = j + 1 THEN i - 2 ELSE i - 1)
    <3>1. prev'[s[i]] = IF i = j + 1 THEN p ELSE Entry(s, i - 1)
      BY <1>3, <1>8, <1>14, <2>1
    <3>2. i = j + 1 => i - 2 = j - 1
      BY <1>4
    <3> QED
      BY <1>9, <3>1, <3>2
  <2> QED
    BY <1>3, <2>1, <2>2, <2>3
<1>16. ASSUME NEW k \in 1..(N - 1)
       PROVE  /\ t[k] \in owned' /\ ListOf(t[k]) = l
              /\ next'[t[k]] = Entry(t, k + 1) /\ prev'[t[k]] = Entry(t, k - 1)
  <2>1. CASE k < j
    <3>1. k \in 1..N /\ k # j /\ t[k] = s[k] /\ k + 1 \in Int /\ k - 1 \in Int /\ k - 1 < j
          /\ k # j + 1
      BY <1>4, <1>5, <1>7, <2>1
    <3>2. Entry(t, k - 1) = Entry(s, k - 1)
      BY <1>12, <3>1
    <3>3. Entry(t, k + 1) = Entry(s, IF k = j - 1 THEN k + 2 ELSE k + 1)
      <4>1. CASE k = j - 1
        <5>1. ~(k + 1 < j) /\ (k + 1) + 1 = k + 2
          BY <1>4, <4>1
        <5> QED
          BY <1>12, <3>1, <4>1, <5>1
      <4>2. CASE k # j - 1
        <5>1. k + 1 < j
          BY <1>4, <2>1, <4>2
        <5> QED
          BY <1>12, <3>1, <4>2, <5>1
      <4> QED
        BY <4>1, <4>2
    <3> QED
      BY <1>15, <3>1, <3>2, <3>3
  <2>2. CASE ~(k < j)
    <3>1. /\ k + 1 \in 1..N /\ k + 1 # j /\ t[k] = s[k + 1] /\ k + 1 \in Int /\ k - 1 \in Int
          /\ k + 1 # j - 1 /\ ~(k + 1 < j) /\ (k + 1) - 1 = k /\ (k + 1) - 2 = k - 1
          /\ k + 1 = j + 1 <=> k - 1 < j
      BY <1>4, <1>5, <1>7, <2>2
    <3>2. Entry(t, k + 1) = Entry(s, (k + 1) + 1)
      BY <1>12, <3>1
    <3>3. Entry(t, k - 1) = Entry(s, IF k + 1 = j + 1 THEN (k + 1) - 2 ELSE (k + 1) - 1)
      <4>1. CASE k - 1 < j
        BY <1>12, <3>1, <4>1
      <4>2. CASE ~(k - 1 < j)
        <5>1. (k - 1) + 1 = k
          OBVIOUS
        <5> QED
          BY <1>12, <3>1, <4>2, <5>1
      <4> QED
        BY <4>1, <4>2
    <3>4. /\ s[k + 1] \in owned' /\ ListOf(s[k + 1]) = l
          /\ next'[s[k + 1]] = Entry(s, (k + 1) + 1)
          /\ prev'[s[k + 1]] = Entry(s, IF k + 1 = j + 1 THEN (k + 1) - 2 ELSE (k + 1) - 1)
      BY <1>15, <3>1
    <3> QED
      BY <3>1, <3>2, <3>3, <3>4
  <2> QED
    BY <2>1, <2>2
<1>17. ASSUME NEW k \in Lists PROVE InLine(k, order[k])'
  <2>1. CASE k = l
    <3>1. order'[l] = t
      BY <1>1, <1>2 DEF Ordering
    <3> QED
      BY <1>7, <1>13, <1>16, <2>1, <3>1 DEF InLine
  <2>2. CASE k # l
    <3> DEFINE r == order[k]
    <3>1. r \in Seq(Nodes) /\ InLine(k, r) /\ order'[k] = r
      BY <1>2, <2>2 DEF Ordering
    <3> HIDE DEF r
    <3>2. (p # Nil => ListOf(p) = l) /\ (x # Nil => ListOf(x) = l)
      BY <1>2 DEF ListsOK, p, x
    <3>3. \A i \in 1..Len(r) : r[i] \in Nodes /\ r[i] \in owned /\ ListOf(r[i]) = k
      BY <3>1 DEF InLine
    <3>4. \A i \in 1..Len(r) : r[i] # n /\ r[i] # p /\ r[i] # x
      <4> HIDE DEF ListOf
      <4> QED
        BY <1>1, <1>2, <2>2, <3>2, <3>3
    <3>5. start'[k] = start[k] /\ end'[k] = end[k]
      BY <1>3, <2>2
    <3>6. \A i \in 1..Len(r) : /\ r[i] \in owned'
                               /\ next'[r[i]] = next[r[i]] /\ prev'[r[i]] = prev[r[i]]
      BY <1>3, <3>3, <3>4
    <3> QED
      BY <3>1, <3>5, <3>6, LineKept DEF InLine
  <2> QED
    BY <2>1, <2>2
<1>18. AllListed'
  <2> SUFFICES ASSUME NEW m \in owned' PROVE m \in ToSet(order'[ListOf(m)])
    BY DEF AllListed
  <2>1. /\ order' = [order EXCEPT ![l] = t] /\ DOMAIN order = Lists /\ ListOf(m) \in Lists
        /\ m # n /\ m \in ToSet(order[ListOf(m)])
    BY <1>1, <1>2, <1>3, HandlerTypes DEF Ordering, AllListed
  <2> HIDE DEF ListOf
  <2>2. CASE ListOf(m) = l
    BY <1>1, <1>7, <2>1, <2>2 DEF s
  <2>3. CASE ListOf(m) # l
    BY <2>1, <2>3
  <2> QED
    BY <2>2, <2>3
<1>19. order' \in [Lists -> Seq(Nodes)]
  BY <1>1, <1>2, <1>7 DEF Ordering
<1> QED
  BY <1>17, <1>18, <1>19 DEF Ordering

-----------------------------------------------------------------------------
(* The order from the start, and the handlers that run.                    *)

LEMMA OrderStarts ==
  ASSUME NEW first, Firsts(first), HandlersInit(first)
  PROVE  Linkage /\ Ordering
<1>1. /\ order = first /\ owned = UNION {ToSet(first[l]) : l \in Lists}
      /\ start = [l \in Lists |-> Entry(first[l], 1)]
      /\ end = [l \in Lists |-> Entry(first[l], Len(first[l]))]
      /\ next = [n \in Nodes |-> Beside(first[ListOf(n)], n, 1)]
      /\ prev = [n \in Nodes |-> Beside(first[ListOf(n)], n, -1)]
  BY DEF HandlersInit, Linked
<1>2. ASSUME NEW l \in Lists
      PROVE  /\ first[l] \in Seq(Nodes) /\ Len(first[l]) \in Nat
             /\ IsInjective(first[l]) /\ \A n \in ToSet(first[l]) : ListOf(n) = l
             /\ \A k \in 1..Len(first[l]) : /\ first[l][k] \in ToSet(first[l])
                                            /\ first[l][k] \in owned /\ first[l][k] \in Nodes
  BY <1>1 DEF Firsts, ToSet
<1>3. Nil \notin Nodes /\ \A n \in Nodes : ListOf(n) \in Lists
  BY HandlerTypes
<1>4. ASSUME NEW l \in Lists, NEW k \in 1..Len(first[l])
      PROVE  /\ next[first[l][k]] = Entry(first[l], k + 1)
             /\ prev[first[l][k]] = Entry(first[l], k - 1)
  <2> DEFINE s == first[l]
             n == s[k]
  <2>1. s \in Seq(Nodes) /\ n \in ToSet(s) /\ n \in Nodes /\ ListOf(n) = l /\ IsInjective(s)
    BY <1>2
  <2>2. Place(s, n) \in 1..Len(s) /\ s[Place(s, n)] = n
    BY <2>1, PlaceIs
  <2>3. Place(s, n) = k
    BY <2>1, <2>2 DEF IsInjective
  <2>4. k + -1 = k - 1
    OBVIOUS
  <2> HIDE DEF s, n, ListOf
  <2>5. next[n] = Entry(s, k + 1) /\ prev[n] = Entry(s, k + -1)
    BY <1>1, <2>1, <2>3 DEF Beside, s
  <2> QED
    BY <2>4, <2>5 DEF s, n
<1>5. \A l \in Lists : InLine(l, first[l])
  <2> HIDE DEF ListOf
  <2> QED
    BY <1>1, <1>2, <1>4 DEF InLine
<1>6. \A n \in Nodes : n \in owned <=> n \in ToSet(first[ListOf(n)])
  <2> HIDE DEF ListOf
  <2> QED
    BY <1>1, <1>2, <1>3
<1>7. owned \subseteq Nodes
  <2>1. \A l \in Lists : ToSet(first[l]) \subseteq Nodes
    BY <1>2 DEF ToSet
  <2> QED
    BY <1>1, <2>1
<1>8. Ordering
  <2>1. AllListed
    BY <1>1, <1>6, <1>7 DEF AllListed
  <2> QED
    BY <1>1, <1>5, <2>1 DEF Ordering, Firsts
<1>9. ASSUME NEW l \in Lists, NEW k \in Int
      PROVE  /\ k \in 1..Len(first[l]) => Entry(first[l], k) = first[l][k]
             /\ Entry(first[l], k) \in owned \cup {Nil}
             /\ Entry(first[l], k) # Nil <=> k \in 1..Len(first[l])
  <2>1. first[l] \in Seq(Nodes)
    BY <1>2
  <2> QED
    BY <1>2, <2>1, EntryIs
<1>10. ASSUME NEW l \in Lists
       PROVE  /\ start[l] \in owned \cup {Nil} /\ end[l] \in owned \cup {Nil}
              /\ start[l] = Nil <=> end[l] = Nil
              /\ start[l] # Nil => prev[start[l]] = Nil
              /\ end[l] # Nil => next[end[l]] = Nil
  <2> DEFINE N == Len(first[l])
  <2>1. /\ N \in Nat /\ N \in Int /\ start[l] = Entry(first[l], 1) /\ end[l] = Entry(first[l], N)
        /\ 1 \in Int /\ 0 \in Int /\ N + 1 \in Int
    BY <1>1, <1>2
  <2>2. (1 \in 1..N <=> N # 0) /\ (N \in 1..N <=> N # 0) /\ 0 \notin 1..N /\ N + 1 \notin 1..N
    BY <2>1
  <2> HIDE DEF N
  <2>3. Entry(first[l], 0) = Nil /\ Entry(first[l], N + 1) = Nil
    BY <1>9, <2>1, <2>2 DEF N
  <2>4. start[l] # Nil => N # 0 /\ start[l] = first[l][1] /\ prev[first[l][1]] = Entry(first[l], 1 - 1)
    BY <1>4, <1>9, <2>1, <2>2 DEF N
  <2>5. end[l] # Nil => N # 0 /\ end[l] = first[l][N] /\ next[first[l][N]] = Entry(first[l], N + 1)
    BY <1>4, <1>9, <2>1, <2>2 DEF N
  <2>6. 1 - 1 = 0
    OBVIOUS
  <2>7. start[l] = Nil <=> end[l] = Nil
    BY <1>9, <2>1, <2>2 DEF N
  <2>8. start[l] \in owned \cup {Nil} /\ end[l] \in owned \cup {Nil}
    BY <1>9, <2>1
  <2> QED
    BY <2>3, <2>4, <2>5, <2>6, <2>7, <2>8
<1>11. ASSUME NEW n \in Nodes
       PROVE  /\ next[n] \in owned \cup {Nil} /\ prev[n] \in owned \cup {Nil}
              /\ n \notin owned => next[n] = Nil /\ prev[n] = Nil
              /\ next[n] # Nil => prev[next[n]] = n
              /\ prev[n] # Nil => next[prev[n]] = n
  <2> DEFINE l == ListOf(n)
             s == first[l]
  <2>1. l \in Lists /\ s \in Seq(Nodes)
    BY <1>2, <1>3
  <2>2. CASE n \notin ToSet(s)
    <3>1. next[n] = Nil /\ prev[n] = Nil
      BY <1>1, <2>2 DEF Beside
    <3> QED
      BY <3>1
  <2>3. CASE n \in ToSet(s)
    <3> HIDE DEF l
    <3>1. PICK k \in 1..Len(s) : s[k] = n
      BY <2>1, <2>3 DEF ToSet
    <3>2. /\ k + 1 \in Int /\ k - 1 \in Int /\ (k + 1) - 1 = k /\ (k - 1) + 1 = k
      BY <2>1
    <3>3. next[n] = Entry(s, k + 1) /\ prev[n] = Entry(s, k - 1) /\ n \in owned
      BY <1>2, <1>4, <2>1, <3>1
    <3>4. next[n] # Nil => next[n] = s[k + 1] /\ prev[s[k + 1]] = Entry(s, k)
      BY <1>4, <1>9, <2>1, <3>2, <3>3
    <3>5. prev[n] # Nil => prev[n] = s[k - 1] /\ next[s[k - 1]] = Entry(s, k)
      BY <1>4, <1>9, <2>1, <3>2, <3>3
    <3>6. Entry(s, k) = n
      BY <1>9, <2>1, <3>1
    <3>7. next[n] \in owned \cup {Nil} /\ prev[n] \in owned \cup {Nil}
      BY <1>9, <2>1, <3>2, <3>3
    <3> QED
      BY <3>3, <3>4, <3>5, <3>6, <3>7
  <2> QED
    BY <2>2, <2>3
<1> QED
  BY <1>7, <1>8, <1>10, <1>11 DEF Linkage

\* The history of the lists.
LEMMA AddListing ==
  ASSUME Listing, NEW n \in Nodes, n \notin owned, Add(n)
  PROVE  Listing'
<1> DEFINE l == ListOf(n)
           s == order[l]
           t == Append(s, n)
<1>1. /\ l \in Lists /\ s \in Seq(Nodes) /\ IsInjective(s) /\ ToSet(s) \subseteq owned
      /\ order \in [Lists -> Seq(Nodes)]
      /\ order' = [order EXCEPT ![l] = t] /\ owned' = owned \cup {n}
  BY HandlerTypes DEF Listing, Add
<1>2. t \in Seq(Nodes) /\ IsInjective(t) /\ ToSet(t) = ToSet(s) \cup {n}
  BY <1>1, AppendIs
<1> HIDE DEF t, s
<1>3. AllListed'
  <2> SUFFICES ASSUME NEW m \in owned' PROVE m \in ToSet(order'[ListOf(m)])
    BY DEF AllListed
  <2>1. m \in owned => m \in ToSet(order[ListOf(m)])
    BY DEF Listing, AllListed
  <2>2. CASE m = n
    BY <1>1, <1>2, <2>2
  <2>3. CASE m # n
    <3> HIDE DEF ListOf
    <3> QED
      BY <1>1, <1>2, <2>1, <2>3 DEF s
  <2> QED
    BY <2>2, <2>3
<1> HIDE DEF l
<1>4. order' \in [Lists -> Seq(Nodes)]
  BY <1>1, <1>2
<1>5. \A k \in Lists : /\ IsInjective(order'[k]) /\ ToSet(order'[k]) \subseteq owned'
                       /\ \A m \in ToSet(order'[k]) : ListOf(m) = k
  <2>1. \A k \in Lists : /\ IsInjective(order[k]) /\ ToSet(order[k]) \subseteq owned
                         /\ \A m \in ToSet(order[k]) : ListOf(m) = k
    BY DEF Listing
  <2>2. \A k \in Lists : order'[k] = IF k = l THEN t ELSE order[k]
    BY <1>1
  <2>3. ListOf(n) = l
    BY DEF l
  <2>4. ASSUME NEW k \in Lists, k # l
        PROVE  /\ IsInjective(order'[k]) /\ ToSet(order'[k]) \subseteq owned'
               /\ \A m \in ToSet(order'[k]) : ListOf(m) = k
    BY <1>1, <2>1, <2>2, <2>4
  <2>5. /\ IsInjective(order'[l]) /\ ToSet(order'[l]) \subseteq owned'
        /\ \A m \in ToSet(order'[l]) : ListOf(m) = l
    <3>1. order'[l] = t /\ s = order[l]
      BY <1>1, <2>2 DEF s
    <3> HIDE DEF ListOf
    <3> QED
      BY <1>1, <1>2, <2>1, <2>3, <3>1
  <2> QED
    BY <2>4, <2>5
<1> QED
  BY <1>3, <1>4, <1>5 DEF Listing

LEMMA RemoveListing ==
  ASSUME Listing, NEW n \in Nodes, n \in owned, RemoveNode(n), start[ListOf(n)] # Nil
  PROVE  Listing'
<1> DEFINE l == ListOf(n)
           s == order[l]
           j == Place(s, n)
           t == RemoveAt(s, j)
<1>1. /\ l \in Lists /\ s \in Seq(Nodes) /\ IsInjective(s) /\ ToSet(s) \subseteq owned
      /\ order \in [Lists -> Seq(Nodes)] /\ n \in ToSet(s)
      /\ order' = [order EXCEPT ![l] = t] /\ owned' = owned \ {n}
  BY HandlerTypes DEF Listing, AllListed, RemoveNode
<1>2. j \in 1..Len(s) /\ s[j] = n
  BY <1>1, PlaceIs
<1>3. t \in Seq(Nodes) /\ IsInjective(t) /\ ToSet(t) = ToSet(s) \ {n}
  BY <1>1, <1>2, RemoveAtIs
<1> HIDE DEF t, s, j
<1>4. AllListed'
  <2> SUFFICES ASSUME NEW m \in owned' PROVE m \in ToSet(order'[ListOf(m)])
    BY DEF AllListed
  <2>1. m \in ToSet(order[ListOf(m)]) /\ m # n
    BY <1>1 DEF Listing, AllListed
  <2> HIDE DEF ListOf
  <2> QED
    BY <1>1, <1>3, <2>1 DEF s
<1> HIDE DEF l
<1>5. order' \in [Lists -> Seq(Nodes)]
  BY <1>1, <1>3
<1>6. \A k \in Lists : order'[k] = IF k = l THEN t ELSE order[k]
  BY <1>1
<1>7. \A k \in Lists : /\ IsInjective(order'[k]) /\ ToSet(order'[k]) \subseteq owned'
                       /\ ToSet(order'[k]) \subseteq ToSet(order[k])
  <2> SUFFICES ASSUME NEW k \in Lists
               PROVE  /\ IsInjective(order'[k]) /\ ToSet(order'[k]) \subseteq owned'
                      /\ ToSet(order'[k]) \subseteq ToSet(order[k])
    OBVIOUS
  <2>1. IsInjective(order[k]) /\ ToSet(order[k]) \subseteq owned
    BY DEF Listing
  <2>2. CASE k = l
    BY <1>1, <1>3, <1>6, <2>2 DEF s
  <2>3. CASE k # l
    <3>1. n \notin ToSet(order[k])
      BY <2>3 DEF l, Listing
    <3> QED
      BY <1>1, <1>6, <2>1, <2>3, <3>1
  <2> QED
    BY <2>2, <2>3
<1> HIDE DEF ListOf
<1>8. \A k \in Lists : \A m \in ToSet(order'[k]) : ListOf(m) = k
  BY <1>7 DEF Listing
<1> QED
  BY <1>4, <1>5, <1>7, <1>8 DEF Listing

\* Only a handler that no dispatch has on its list is removed.
LEMMA EditsAlive ==
  ASSUME TypeInv, OrderInv, NEW g \in DOMAIN tasks, Edits(g)
  PROVE  Alive'
<1> DEFINE n == tasks[g].node
<1>1. /\ owned' = owned \/ owned' = owned \cup {n} \/ owned' = owned \ {n}
      /\ CanLock(Home[n]) /\ DOMAIN tasks' = DOMAIN tasks \ {g}
  BY DEF Edits, Add, RemoveNode, listVars, Ended, Without
<1>2. ASSUME NEW h \in DOMAIN tasks' \ {Main} PROVE h[3] \in owned'
  <2>1. h \in DOMAIN tasks \ {Main} /\ h[3] \in owned
    BY <1>1, <1>2 DEF OrderInv, Alive
  <2>2. h[1] \in 1..Len(lines) /\ frames[<<h[1], Home[h[3]]>>] = "run"
    BY <2>1, GoroutineIs
  <2>3. DOMAIN lines = 1..Len(lines)
    BY DEF TypeInv, LinesOK, Ordered
  <2>4. h[3] # n
    BY <1>1, <2>2, <2>3 DEF CanLock
  <2> HIDE DEF n
  <2> QED
    BY <1>1, <2>1, <2>4
<1> QED
  BY <1>2 DEF Alive

LEMMA EditsOrder ==
  ASSUME TypeInv, OrderInv, NEW g \in DOMAIN tasks, Edits(g)
  PROVE  /\ Linkage' /\ Listing'
         /\ (mishaps = {} => Ordering)' /\ UNCHANGED <<lines, frames>>
<1> DEFINE n == tasks[g].node
<1>1. n \in Nodes /\ ListsOK /\ Linkage /\ Listing /\ ListOf(n) \in Lists
  <2>1. n \in Nodes
    BY DEF Edits, Editing, TypeInv, TaskOK
  <2> QED
    BY <2>1, HandlerTypes DEF TypeInv, OrderInv
<1>2. /\ tasks[g].do = "adding" => n \notin owned /\ Add(n)
      /\ tasks[g].do # "adding" => RemoveNode(n)
      /\ UNCHANGED <<lines, frames>>
  BY DEF Edits, Unused
<1> HIDE DEF n
<1>3. CASE tasks[g].do = "adding"
  <2>1. mishaps' = mishaps
    BY <1>2, <1>3 DEF Add
  <2>2. Listing'
    BY <1>1, <1>2, <1>3, AddListing
  <2> QED
    BY <1>1, <1>2, <1>3, <2>1, <2>2, AddLinks, AddOrder DEF OrderInv
<1>4. CASE tasks[g].do # "adding"
  <2>1. Linkage'
    BY <1>1, <1>2, <1>4, RemoveLinks
  <2>2. CASE start[ListOf(n)] = Nil
    <3>1. UNCHANGED <<listVars, mishaps>>
      BY <1>2, <1>4, <2>2 DEF RemoveNode
    <3> QED
      BY <1>1, <1>2, <2>1, <3>1 DEF OrderInv, Listing, Ordering, AllListed, InLine, listVars
  <2>3. CASE start[ListOf(n)] # Nil /\ n \in owned
    <3>1. mishaps' = mishaps /\ (Ordering => Ordering')
      BY <1>1, <1>2, <1>4, <2>3, RemoveOrder DEF RemoveNode
    <3>2. Listing'
      BY <1>1, <1>2, <1>4, <2>3, RemoveListing
    <3> QED
      BY <1>2, <2>1, <3>1, <3>2 DEF OrderInv
  <2>4. CASE start[ListOf(n)] # Nil /\ n \notin owned
    <3>1. order' = order /\ mishaps' = mishaps \cup {"twice"} /\ owned' = owned
      BY <1>2, <1>4, <2>4 DEF RemoveNode
    <3>2. Listing'
      BY <1>1, <3>1 DEF Listing, AllListed
    <3> QED
      BY <1>2, <2>1, <3>1, <3>2
  <2> QED
    BY <2>2, <2>3, <2>4
<1> QED
  BY <1>3, <1>4

\* A handler that dispatch starts has a set.
LEMMA RLockAlive ==
  ASSUME TypeInv, OrderInv, NEW i \in DOMAIN lines, NEW s \in Sets, RLock(i, s),
         UNCHANGED <<floodVars, ioVars>>
  PROVE  Alive'
<1> DEFINE l == <<s, lines[i].event>>
           found == IF l \in Lists THEN Walked(l) ELSE {}
           born == {<<i, s, n>> : n \in found}
<1>1. /\ tasks' = [g \in DOMAIN tasks \cup born |-> IF g \in born THEN Body[g[3]] ELSE tasks[g]]
      /\ owned' = owned
  BY DEF RLock, listVars
<1>2. found \subseteq owned
  <2>1. CASE l \in Lists
    <3> DEFINE V == owned \cup {Nil}
    <3>1. Nil \in V /\ start[l] \in V /\ \A n \in V : n # Nil => next[n] \in V
      BY <2>1 DEF OrderInv, Linkage
    <3>2. \A k \in 0..Cardinality(Nodes) : Walk(l)[k] \in V
      <4> HIDE DEF V, l
      <4> QED
        BY <2>1, <3>1, WalkStays DEF TypeInv
    <3> HIDE DEF l
    <3> QED
      BY <3>2 DEF Walked
  <2>2. CASE l \notin Lists
    BY <2>2
  <2> QED
    BY <2>1, <2>2
<1>3. \A g \in DOMAIN tasks' : g \in DOMAIN tasks \/ \E n \in found : g = <<i, s, n>>
  BY <1>1
<1> HIDE DEF found
<1>4. ASSUME NEW g \in DOMAIN tasks' \ {Main} PROVE g[3] \in owned'
  <2>1. CASE g \in DOMAIN tasks
    BY <1>1, <1>4, <2>1 DEF OrderInv, Alive
  <2>2. CASE g \notin DOMAIN tasks
    <3>1. PICK n \in found : g = <<i, s, n>>
      BY <1>3, <1>4, <2>2
    <3> QED
      BY <1>1, <1>2, <3>1
  <2> QED
    BY <2>1, <2>2
<1> QED
  BY <1>4 DEF Alive

LEMMA OrderSame ==
  ASSUME OrderInv, UNCHANGED <<listVars, mishaps>>, Alive', Len(out') <= OutCap
  PROVE  OrderInv'
BY DEF OrderInv, Linkage, Listing, Ordering, AllListed, InLine, listVars

LEMMA OrderNext ==
  ASSUME TypeInv, OrderInv, [Next]_vars
  PROVE  OrderInv'
<1>1. Len(out) <= OutCap
  BY DEF OrderInv
<1>2. ASSUME UNCHANGED out PROVE Len(out') <= OutCap
  BY <1>1, <1>2
<1>3. ASSUME UNCHANGED listVars, \A g \in DOMAIN tasks' : g \in DOMAIN tasks \/ g = Main
      PROVE  Alive'
  BY <1>3 DEF OrderInv, Alive, listVars
<1>4. CASE LoopTake(cfg.takes) /\ UNCHANGED <<floodVars, ioVars>>
  BY <1>2, <1>3, <1>4, OrderSame DEF LoopTake, ioVars
<1>5. CASE Dispatching
  <2>1. PICK i \in DOMAIN lines, s \in Sets : RLock(i, s) \/ RUnlock(i, s)
    BY <1>5 DEF Dispatching
  <2>2. UNCHANGED <<listVars, mishaps, out>> /\ UNCHANGED <<floodVars, ioVars>>
    BY <1>5, <2>1 DEF Dispatching, RLock, RUnlock, ioVars
  <2>3. Alive'
    <3>1. CASE RLock(i, s)
      BY <2>2, <3>1, RLockAlive
    <3>2. CASE RUnlock(i, s)
      BY <1>3, <2>2, <3>2 DEF RUnlock
    <3> QED
      BY <2>1, <3>1, <3>2
  <2> QED
    BY <1>2, <2>2, <2>3, OrderSame
<1>6. CASE MainGoes
  <2>1. UNCHANGED <<listVars, mishaps, out>>
    BY <1>6 DEF MainGoes
  <2>2. \A g \in DOMAIN tasks' : g \in DOMAIN tasks \/ g = Main
    BY <1>6 DEF MainGoes
  <2> QED
    BY <1>2, <1>3, <2>1, <2>2, OrderSame
<1>7. ASSUME NEW g \in DOMAIN tasks, Says(g) PROVE OrderInv'
  <2>1. UNCHANGED <<listVars, mishaps>> /\ Len(out) < OutCap /\ \E x : out' = Append(out, x)
    BY <1>7 DEF Says
  <2>2. Len(out') <= OutCap
    <3>1. PICK x : out' = Append(out, x)
      BY <2>1
    <3>2. out \in Seq(Said) /\ OutCap \in Nat
      BY ClientConstants DEF TypeInv, QueueOK
    <3>3. Len(out') = Len(out) + 1 /\ Len(out) \in Nat
      BY <3>1, <3>2
    <3> QED
      BY <2>1, <3>2, <3>3
  <2>3. DOMAIN tasks' \subseteq DOMAIN tasks
    BY <1>7 DEF Says, Ended, Goes, Without
  <2> QED
    BY <1>3, <2>1, <2>2, <2>3, OrderSame
<1>8. ASSUME NEW g \in DOMAIN tasks, TaskStep(g), UNCHANGED <<floodVars, ioVars>>
      PROVE  OrderInv'
  <2>1. UNCHANGED out
    BY <1>8 DEF ioVars
  <2>2. CASE Edits(g)
    BY <1>2, <2>1, <2>2, EditsAlive, EditsOrder DEF OrderInv
  <2>3. CASE Returns(g) \/ Dispatches(g) \/ DispatchReturns(g) \/ AsksToEdit(g)
    <3>1. UNCHANGED <<listVars, mishaps>>
      BY <2>3 DEF Returns, Dispatches, DispatchReturns, AsksToEdit
    <3>2. DOMAIN tasks' \subseteq DOMAIN tasks
      BY <2>3 DEF Returns, Dispatches, DispatchReturns, AsksToEdit, Ended, Goes, Without
    <3> QED
      BY <1>2, <1>3, <2>1, <3>1, <3>2, OrderSame
  <2> QED
    BY <1>8, <2>2, <2>3 DEF TaskStep
<1>9. CASE SendTakes
  <2>1. UNCHANGED <<listVars, mishaps, tasks>> /\ out # <<>> /\ out' = Tail(out)
    BY <1>9 DEF SendTakes, handlerVars
  <2>2. Len(out') <= OutCap
    <3>1. out \in Seq(Said) /\ OutCap \in Nat
      BY ClientConstants DEF TypeInv, QueueOK
    <3>2. Len(out') = Len(out) - 1 /\ Len(out) \in Nat
      BY <2>1, <3>1
    <3> QED
      BY <1>1, <3>1, <3>2
  <2> QED
    BY <1>3, <2>1, <2>2, OrderSame
<1>10. CASE Writes \/ Clock \/ UNCHANGED vars
  <2>1. UNCHANGED <<listVars, mishaps, tasks, out>>
    BY <1>10 DEF Writes, Clock, vars, handlerVars, ioVars
  <2> QED
    BY <1>2, <1>3, <2>1, OrderSame
<1> QED
  BY <1>4, <1>5, <1>6, <1>7, <1>8, <1>9, <1>10 DEF Next, Task, Sending

\* A walk finds the handlers of a list in their order.
LEMMA WalkInLine ==
  ASSUME ListsOK, NEW l \in Lists, NEW s \in Seq(Nodes), InLine(l, s)
  PROVE  \A k \in 0..Cardinality(Nodes) : Walk(l)[k] = Entry(s, k + 1)
<1> DEFINE N == Cardinality(Nodes)
           T == {k \in 0..N : Walk(l)[k] # Entry(s, k + 1)}
<1> SUFFICES ASSUME T # {} PROVE FALSE
  OBVIOUS
<1>1. N \in Nat /\ T \in SUBSET Nat /\ Nil \notin Nodes
  BY HandlerTypes
<1>2. PICK k \in T : \A j \in T : k <= j
  <2> HIDE DEF T
  <2> QED
    BY <1>1, Least
<1>3. k \in 0..N /\ Walk(l)[k] # Entry(s, k + 1)
  OBVIOUS
<1>4. k # 0
  <2>1. Walk(l)[0] = Entry(s, 1) /\ 0 + 1 = 1
    BY WalkIs DEF InLine
  <2> QED
    BY <1>3, <2>1
<1>5. k - 1 \in 0..N /\ k - 1 \notin T /\ k \in 1..N /\ (k - 1) + 1 = k /\ k \in Int
  BY <1>1, <1>2, <1>3, <1>4
<1>6. Walk(l)[k - 1] = Entry(s, k)
  BY <1>5
<1> HIDE DEF T, N
<1>7. Walk(l)[k] = IF Entry(s, k) = Nil THEN Nil ELSE next[Entry(s, k)]
  BY <1>5, <1>6, WalkIs DEF N
<1>8. CASE k \in 1..Len(s)
  BY <1>3, <1>5, <1>7, <1>8, EntryIs DEF InLine
<1>9. CASE k \notin 1..Len(s)
  <2>1. k + 1 \notin 1..Len(s) /\ k + 1 \in Int
    BY <1>5, <1>9
  <2>2. Entry(s, k) = Nil /\ Entry(s, k + 1) = Nil
    BY <1>5, <1>9, <2>1, EntryIs
  <2> QED
    BY <1>3, <1>7, <2>2
<1> QED
  BY <1>8, <1>9

\* Forwards and backwards each list is what was added and not removed, unless a
\* handler was removed twice (dispatch.go:57, 90), and whatever handler runs has
\* a set: dispatch keeps its lock until the handlers have ended.
THEOREM ListsInOrder == Spec => []HandlersInOrder
<1>1. Init => OrderInv
  <2> SUFFICES ASSUME Init PROVE OrderInv
    OBVIOUS
  <2>1. PICK c \in Scenarios : HandlersInit(c.first)
    BY DEF Init
  <2>2. Firsts(c.first)
    BY ClientConstants DEF Firsts
  <2>3. Linkage /\ Ordering
    BY <2>1, <2>2, OrderStarts
  <2>4. tasks = <<>> /\ out = <<>> /\ OutCap \in Nat
    BY ClientConstants DEF Init, HandlersInit
  <2>5. Alive /\ Len(out) <= OutCap
    BY <2>4 DEF Alive
  <2>6. Listing
    <3>1. ASSUME NEW l \in Lists
          PROVE  /\ IsInjective(order[l]) /\ ToSet(order[l]) \subseteq owned
                 /\ \A n \in ToSet(order[l]) : ListOf(n) = l
      <4>1. order[l] \in Seq(Nodes) /\ InLine(l, order[l])
        BY <2>3 DEF Ordering
      <4>2. \A k \in DOMAIN order[l] : order[l][k] \in owned /\ ListOf(order[l][k]) = l
        BY <4>1 DEF InLine
      <4> HIDE DEF ListOf
      <4> QED
        BY <4>1, <4>2 DEF InLine, ToSet
    <3> QED
      BY <2>3, <3>1 DEF Listing, Ordering
  <2> QED
    BY <2>3, <2>5, <2>6 DEF OrderInv
<1>2. TypeInv /\ OrderInv /\ [Next]_vars => OrderInv'
  BY OrderNext
<1>3. TypeInv /\ Paced /\ OrderInv => HandlersInOrder
  <2> SUFFICES ASSUME TypeInv, Paced, OrderInv PROVE HandlersInOrder
    OBVIOUS
  <2>1. TypeOK
    <3>1. ASSUME NEW g \in DOMAIN tasks
          PROVE  g \in {Main} \cup ((1..Len(lines)) \X Sets \X Nodes)
      BY DEF TypeInv, TaskOK
    <3> QED
      BY <3>1 DEF TypeOK, OrderInv, Linkage, Listing, Paced
  <2>2. ASSUME mishaps = {}, NEW l \in Lists
        PROVE  /\ \A k \in 0..Cardinality(Nodes) : Walk(l)[k] = Entry(order[l], k + 1)
               /\ end[l] = Entry(order[l], Len(order[l]))
               /\ \A k \in DOMAIN order[l] : prev[order[l][k]] = Entry(order[l], k - 1)
    <3>1. order[l] \in Seq(Nodes) /\ InLine(l, order[l]) /\ ListsOK
      BY <2>2 DEF OrderInv, Ordering, TypeInv
    <3> DEFINE o == order[l]
    <3>2. \A k \in 0..Cardinality(Nodes) : Walk(l)[k] = Entry(o, k + 1)
      BY <3>1, WalkInLine
    <3>3. DOMAIN o = 1..Len(o)
      BY <3>1
    <3> HIDE DEF o
    <3>4. InLine(l, o)
      BY <3>1 DEF o
    <3>5. end[l] = Entry(o, Len(o)) /\ \A k \in DOMAIN o : prev[o[k]] = Entry(o, k - 1)
      BY <3>3, <3>4 DEF InLine
    <3> QED
      BY <3>2, <3>5 DEF o
  <2>3. \A g \in DOMAIN tasks \ {Main} : g[3] \in owned
    BY DEF OrderInv, Alive
  <2> QED
    BY <2>1, <2>2, <2>3 DEF HandlersInOrder
<1> QED
  BY <1>1, <1>2, <1>3, PacedHolds, PTL DEF Spec

-----------------------------------------------------------------------------
(* What others read.                                                       *)

\* The pieces of the text from a place on end at these places.
CutAt(text, pieces, from, b) ==
  /\ b \in [0..Len(pieces) -> 0..Len(text)]
  /\ b[0] = from - 1 /\ b[Len(pieces)] = Len(text)
  /\ \A j \in 1..Len(pieces) :
       /\ b[j - 1] <= b[j] /\ b[j] - b[j - 1] <= MaxPiece
       /\ from <= Len(text) => b[j - 1] < b[j]
       /\ pieces[j] = Part(text, b[j - 1], b[j])

LEMMA LastCut ==
  ASSUME NEW text \in Seq(Characters), NEW from \in 1..(Len(text) + 1),
         Len(SplitRest(text, from)) <= MaxPiece
  PROVE  \E b : CutAt(text, <<SplitRest(text, from)>>, from, b)
<1> DEFINE N == Len(text)
           rest == SplitRest(text, from)
           b == [j \in 0..1 |-> IF j = 0 THEN from - 1 ELSE N]
<1>1. N \in Nat /\ from - 1 \in 0..N /\ N \in 0..N /\ from \in 1..(N + 1)
  OBVIOUS
<1>2. rest = SubSeq(text, (from - 1) + 1, N)
  BY <1>1 DEF SplitRest
<1>3. rest \in Seq(Characters) /\ Len(rest) = N - (from - 1)
  <2>1. \A i \in from..N : text[i] \in Characters
    OBVIOUS
  <2> QED
    BY <1>1, <2>1, SubSeqProperties DEF SplitRest
<1>4. Part(text, from - 1, N) = rest
  <2>1. rest \o <<>> = rest
    BY <1>3, ConcatEmptySeq
  <2>2. Part(text, from - 1, N) = SubSeq(text, (from - 1) + 1, N) \o <<>>
    <3>1. ~(N < Len(text))
      BY <1>1
    <3> QED
      BY <3>1, Zenon DEF Part
  <2> QED
    BY <1>2, <2>1, <2>2
<1>5. b[0] = from - 1 /\ b[1] = N /\ b \in [0..1 -> 0..N]
  BY <1>1
<1> HIDE DEF b
<1>6. Len(<<rest>>) = 1 /\ <<rest>>[1] = rest
  OBVIOUS
<1>7. \A j \in 1..1 : j = 1 /\ j - 1 = 0
  OBVIOUS
<1>8. Len(rest) <= MaxPiece
  OBVIOUS
<1> HIDE DEF rest, N
<1>9. /\ b[0] <= b[1] /\ b[1] - b[0] <= MaxPiece /\ (from <= N => b[0] < b[1])
      /\ rest = Part(text, b[0], b[1])
  BY <1>1, <1>3, <1>4, <1>5, <1>8, MaxPieceIsNat
<1>10. CutAt(text, <<rest>>, from, b)
  BY <1>5, <1>6, <1>7, <1>9 DEF CutAt, N
<1> QED
  BY <1>10 DEF rest

LEMMA FirstCut ==
  ASSUME NEW text \in Seq(Characters), NEW from \in 1..(Len(text) + 1),
         ~(Len(SplitRest(text, from)) <= MaxPiece)
  PROVE  LET c == SplitCut(text, from)
         IN  /\ c \in 1..MaxPiece /\ from + c \in 1..Len(text)
             /\ SubSeq(SplitRest(text, from), 1, c) \o Dots = Part(text, from - 1, from + c - 1)
<1> DEFINE N == Len(text)
           r == SplitRest(text, from)
           s == SubSeq(r, 1, MaxPiece)
           c == SplitCut(text, from)
<1>1. r \in Seq(Characters) /\ Len(r) = N + 1 - from /\ N \in Nat
      /\ \A i \in 1..Len(r) : r[i] = text[from + i - 1]
  <2>1. \A i \in from..N : text[i] \in Characters
    OBVIOUS
  <2> QED
    BY <2>1, SubSeqProperties DEF SplitRest
<1>2. Len(r) > MaxPiece
  BY <1>1, MaxPieceIsNat
<1> HIDE DEF r, N
<1>3. \A k \in 1..MaxPiece : r[k] \in Characters
  BY <1>1, <1>2, MaxPieceIsNat
<1>4. s \in Seq(Characters) /\ Len(s) = MaxPiece
  BY <1>3, MaxPieceIsNat, SubSeqProperties
<1>5. IndexFragment(s) \in 0..MaxPiece
  BY <1>4, IndexFragmentBound
<1>6. c = IF IndexFragment(s) = 0 THEN MaxPiece ELSE IndexFragment(s)
  BY DEF SplitCut, r
<1> HIDE DEF s, c
<1>7. c \in 1..MaxPiece
  BY <1>5, <1>6, MaxPieceIsNat
<1>8. from + c \in 1..N /\ c <= Len(r) /\ c \in Nat /\ from \in Nat /\ from >= 1
  BY <1>1, <1>2, <1>7, MaxPieceIsNat DEF N
<1>9. SubSeq(r, 1, c) = SubSeq(text, (from - 1) + 1, from + c - 1)
  <2> DEFINE u == SubSeq(r, 1, c)
             v == SubSeq(text, (from - 1) + 1, from + c - 1)
  <2>1. u \in Seq(Characters) /\ Len(u) = c /\ \A i \in 1..c : u[i] = r[i]
    <3>1. \A k \in 1..c : r[k] \in Characters
      BY <1>3, <1>7, MaxPieceIsNat
    <3> QED
      BY <3>1, <1>7, <1>8, SubSeqProperties
  <2>2. v \in Seq(Characters) /\ Len(v) = c /\ \A i \in 1..c : v[i] = text[from + i - 1]
    <3>1. \A k \in ((from - 1) + 1)..(from + c - 1) : text[k] \in Characters
      BY <1>8 DEF N
    <3>2. v \in Seq(Characters) /\ Len(v) = c
          /\ \A i \in 1..((from + c - 1) - ((from - 1) + 1) + 1) : v[i] = text[(from - 1) + 1 + i - 1]
      BY <3>1, <1>7, <1>8, SubSeqProperties
    <3> QED
      BY <3>2, <1>8
  <2> HIDE DEF u, v
  <2>3. \A i \in 1..c : u[i] = v[i]
    <3>1. \A i \in 1..c : i \in 1..Len(r)
      BY <1>1, <1>8
    <3> QED
      BY <1>1, <2>1, <2>2, <3>1
  <2>4. u = v
    BY <2>1, <2>2, <2>3, SeqEqual
  <2> QED
    BY <2>4 DEF u, v
<1>10. Part(text, from - 1, from + c - 1) = SubSeq(text, (from - 1) + 1, from + c - 1) \o Dots
  <2>1. from + c - 1 < Len(text)
    BY <1>8 DEF N
  <2> QED
    BY <2>1, Zenon DEF Part
<1> QED
  BY <1>7, <1>8, <1>9, <1>10 DEF c, r, N

\* SplitMessage cuts a text in successive parts.
LEMMA SplitMessageCuts ==
  ASSUME NEW text \in Seq(Characters)
  PROVE  \E b : CutAt(text, SplitMessage(text), 1, b)
<1> DEFINE N == Len(text)
           S == 1..(N + 1)
<1>1. PICK P : /\ SplitMessage(text) = P[1]
               /\ \A from \in S : P[from] \in Seq(Piece) \ {<<>>} /\ P[from] = SplitStep(text, P, from)
  BY SplitMessageIs
<1> DEFINE T == {k \in 0..N : ~ \E b : CutAt(text, P[N + 1 - k], N + 1 - k, b)}
<1>2. N \in Nat
  OBVIOUS
<1>3. ASSUME NEW k \in T, \A j \in T : k <= j PROVE FALSE
  <2> DEFINE from == N + 1 - k
             c == SplitCut(text, from)
             one == SubSeq(SplitRest(text, from), 1, c) \o Dots
  <2>1. from \in S /\ k \in 0..N
    BY <1>2, <1>3
  <2>2. ~ \E b : CutAt(text, P[from], from, b)
    BY <1>3
  <2>3. P[from] = SplitStep(text, P, from)
    <3> HIDE DEF from, S, T
    <3> QED
      BY <1>1, <2>1
  <2>4. ~(Len(SplitRest(text, from)) <= MaxPiece)
    <3> HIDE DEF from, T
    <3> QED
      BY <2>1, <2>2, <2>3, LastCut DEF SplitStep
  <2>5. P[from] = <<one>> \o P[from + c]
    <3> HIDE DEF from, T
    <3> QED
      BY <2>3, <2>4 DEF SplitStep
  <2>6. c \in 1..MaxPiece /\ from + c \in 1..N /\ one = Part(text, from - 1, from + c - 1)
    <3> HIDE DEF from, T
    <3> QED
      BY <2>1, <2>4, FirstCut
  <2> DEFINE j == k - c
             q == P[from + c]
  <2>7. j \in 0..N /\ N + 1 - j = from + c /\ ~(k <= j) /\ from + c \in S
    <3> HIDE DEF T, c
    <3> QED
      BY <1>2, <2>1, <2>6, MaxPieceIsNat
  <2>8. j \notin T
    BY <1>3, <2>7
  <2>9. \E b : CutAt(text, q, from + c, b)
    BY <2>7, <2>8
  <2>10. q \in Seq(Piece) /\ q # <<>>
    <3> HIDE DEF from, c, S, T
    <3> QED
      BY <1>1, <2>7
  <2> HIDE DEF q, one, c, j, T, from
  <2>11. PICK d : CutAt(text, q, from + c, d)
    BY <2>9
  <2> DEFINE n == Len(q)
             b == [i \in 0..(n + 1) |-> IF i = 0 THEN from - 1 ELSE d[i - 1]]
  <2>12. n \in Nat /\ n >= 1 /\ from \in Nat /\ from - 1 \in 0..N /\ c \in Nat /\ from + c - 1 \in 0..N
    BY <1>2, <2>1, <2>6, <2>10, MaxPieceIsNat
  <2>13. /\ d \in [0..n -> 0..N] /\ d[0] = from + c - 1 /\ d[n] = N
         /\ \A i \in 1..n : /\ d[i - 1] <= d[i] /\ d[i] - d[i - 1] <= MaxPiece
                            /\ d[i - 1] < d[i] /\ q[i] = Part(text, d[i - 1], d[i])
    BY <2>6, <2>11, <2>12 DEF CutAt
  <2>14. /\ <<one>> \o q = P[from] /\ Len(<<one>> \o q) = n + 1
         /\ \A i \in 1..(n + 1) : (<<one>> \o q)[i] = IF i = 1 THEN one ELSE q[i - 1]
    <3>1. one \in Piece
      <4>1. P[from] \in Seq(Piece) \ {<<>>}
        BY <1>1, <2>1
      <4>2. one \in Seq(Characters) /\ Len(one) <= MaxPiece + 3
        <5>1. \A i \in from..(from + c - 1) : text[i] \in Characters
          BY <2>6, <2>12
        <5>2. SubSeq(text, from, from + c - 1) \in Seq(Characters) /\ Len(SubSeq(text, from, from + c - 1)) = c
          BY <2>6, <2>12, <5>1, MaxPieceIsNat, SubSeqProperties
        <5> DEFINE u == SubSeq(text, from, from + c - 1)
        <5>3. one = u \o Dots
          <6>1. from + c - 1 < Len(text) /\ (from - 1) + 1 = from
            BY <2>6, <2>12
          <6> QED
            BY <2>6, <6>1 DEF Part
        <5>4. u \in Seq(Characters) /\ Len(u) = c
          BY <5>2
        <5> HIDE DEF u
        <5>5. u \o Dots \in Seq(Characters) /\ Len(u \o Dots) = c + 3
          <6>1. u \o Dots \in Seq(Characters) /\ Len(u \o Dots) = Len(u) + Len(Dots)
            BY <5>4, DotsType, ConcatProperties
          <6> QED
            BY <5>4, <6>1, DotsType
        <5>6. c + 3 <= MaxPiece + 3
          BY <2>6, MaxPieceIsNat
        <5> QED
          BY <5>3, <5>5, <5>6
      <4> QED
        BY <4>2 DEF Piece
    <3>2. <<one>> \in Seq(Piece) /\ Len(<<one>>) = 1 /\ <<one>>[1] = one
      BY <3>1
    <3>3. /\ Len(<<one>> \o q) = 1 + n
          /\ \A i \in 1..(1 + n) : (<<one>> \o q)[i] = IF i <= 1 THEN <<one>>[i] ELSE q[i - 1]
      BY <2>10, <3>2, ConcatProperties
    <3> QED
      BY <2>5, <2>12, <3>2, <3>3 DEF q
  <2>15. /\ b \in [0..(n + 1) -> 0..N] /\ b[0] = from - 1
         /\ \A i \in 1..(n + 1) : b[i] = d[i - 1]
    <3>1. \A i \in 0..(n + 1) : i # 0 => i - 1 \in 0..n
      BY <2>12
    <3>2. \A i \in 1..(n + 1) : i \in 0..(n + 1) /\ i # 0
      BY <2>12
    <3> QED
      BY <2>12, <2>13, <3>1, <3>2
  <2> HIDE DEF b, n, N
  <2>16. b[n + 1] = N
    BY <2>12, <2>13, <2>15
  <2>17. ASSUME NEW i \in 1..(n + 1)
         PROVE  /\ b[i - 1] <= b[i] /\ b[i] - b[i - 1] <= MaxPiece /\ b[i - 1] < b[i]
                /\ (<<one>> \o q)[i] = Part(text, b[i - 1], b[i])
    <3>1. CASE i = 1
      <4>1. b[i - 1] = from - 1 /\ b[i] = from + c - 1 /\ (<<one>> \o q)[i] = one
        BY <2>12, <2>13, <2>14, <2>15, <3>1
      <4>2. /\ from - 1 <= from + c - 1 /\ (from + c - 1) - (from - 1) <= MaxPiece
            /\ from - 1 < from + c - 1
        BY <2>6, <2>12, MaxPieceIsNat
      <4> QED
        BY <2>6, <4>1, <4>2, Zenon
    <3>2. CASE i # 1
      <4>1. PICK p \in 1..n : p = i - 1 /\ p \in 1..(n + 1)
        BY <2>12, <3>2
      <4>2. b[p] = d[p - 1] /\ b[i] = d[p] /\ (<<one>> \o q)[i] = q[p]
        BY <2>14, <2>15, <3>2, <4>1
      <4>3. /\ d[p - 1] <= d[p] /\ d[p] - d[p - 1] <= MaxPiece /\ d[p - 1] < d[p]
            /\ q[p] = Part(text, d[p - 1], d[p])
        BY <2>13
      <4>4. /\ b[p] <= b[i] /\ b[i] - b[p] <= MaxPiece /\ b[p] < b[i]
            /\ (<<one>> \o q)[i] = Part(text, b[p], b[i])
        BY <4>2, <4>3, Zenon
      <4> QED
        BY <4>1, <4>4, Zenon
    <3> QED
      BY <3>1, <3>2
  <2>18. CutAt(text, P[from], from, b)
    BY <2>14, <2>15, <2>16, <2>17 DEF CutAt, N
  <2> QED
    BY <2>2, <2>18
<1>4. T = {}
  <2>1. T \in SUBSET Nat
    OBVIOUS
  <2> HIDE DEF T
  <2> QED
    BY <1>3, <2>1, Least
<1>5. N \in 0..N /\ N + 1 - N = 1 /\ N \notin T
  BY <1>2, <1>4
<1>6. \E b : CutAt(text, P[1], 1, b)
  BY <1>5
<1> QED
  BY <1>1, <1>6

\* How far a text is read.
Shows(text, k) ==
  /\ k \in 0..Len(text) /\ \A i \in 1..k : text[i] # "nl"
  /\ k < Len(text) => text[k + 1] = "nl"

LEMMA ShownOnce ==
  ASSUME NEW text, Len(text) \in Nat, NEW j, NEW k, Shows(text, j), Shows(text, k)
  PROVE  j = k
<1>1. j \in Nat /\ k \in Nat /\ j <= Len(text) /\ k <= Len(text)
  BY DEF Shows
<1>2. ASSUME j < k PROVE FALSE
  <2>1. j + 1 \in 1..k /\ j < Len(text)
    BY <1>1, <1>2
  <2> QED
    BY <2>1 DEF Shows
<1>3. ASSUME k < j PROVE FALSE
  <2>1. k + 1 \in 1..j /\ k < Len(text)
    BY <1>1, <1>3
  <2> QED
    BY <2>1 DEF Shows
<1> QED
  BY <1>1, <1>2, <1>3

\* cutNewLines leaves what is read.
LEMMA CutNewLinesShows ==
  ASSUME NEW text \in Seq(Characters)
  PROVE  \E k : Shows(text, k) /\ CutNewLines(text) = SubSeq(text, 1, k)
<1> DEFINE breaks == Positions(text, "nl")
<1>1. Len(text) \in Nat
  OBVIOUS
<1>2. CASE breaks = {}
  <2>1. \A i \in 1..Len(text) : text[i] # "nl"
    BY <1>2 DEF Positions
  <2>2. Shows(text, Len(text))
    BY <1>1, <2>1 DEF Shows
  <2>3. CutNewLines(text) = text
    BY <1>2 DEF CutNewLines
  <2>4. SubSeq(text, 1, Len(text)) = text
    BY SubSeqFull
  <2> QED
    BY <2>2, <2>3, <2>4
<1>3. CASE breaks # {}
  <2> DEFINE m == Min(breaks)
  <2>1. breaks \in SUBSET Nat /\ breaks \subseteq 1..Len(text)
    BY DEF Positions
  <2>2. CutNewLines(text) = SubSeq(text, 1, m - 1)
    BY <1>3 DEF CutNewLines
  <2>3. m \in breaks /\ \A i \in breaks : m <= i
    <3> HIDE DEF breaks
    <3>1. \E x \in breaks : \A y \in breaks : x <= y
      BY <1>3, <2>1, Least
    <3> QED
      BY <3>1, Zenon DEF Min
  <2>4. m \in 1..Len(text) /\ text[m] = "nl"
    BY <2>3 DEF Positions
  <2> HIDE DEF m
  <2>5. \A i \in 1..(m - 1) : i \in 1..Len(text) /\ ~(m <= i)
    BY <1>1, <2>4
  <2>6. \A i \in 1..(m - 1) : text[i] # "nl"
    BY <2>3, <2>5 DEF Positions
  <2>7. m - 1 \in 0..Len(text) /\ (m - 1) + 1 = m
    BY <1>1, <2>4
  <2>8. Shows(text, m - 1)
    BY <2>4, <2>6, <2>7 DEF Shows
  <2> QED
    BY <2>2, <2>8
<1> QED
  BY <1>2, <1>3

\* What is read of a message of which this text is shown.
ReadText(msg, text) ==
  CASE msg.cmd \in {"PRIVMSG", "NOTICE"} -> [cmd |-> msg.cmd, args |-> <<text>>]
    [] msg.cmd = "CTCP" /\ msg.verb = "ACTION" -> [cmd |-> "ACTION", args |-> <<text>>]
    [] OTHER -> [cmd |-> msg.cmd, args |-> <<msg.verb, text>>]

LEMMA ReadIs ==
  ASSUME NEW msg, NEW part \in Seq(Characters)
  PROVE  Read(msg, part) = ReadText(msg, CutNewLines(part))
<1> DEFINE shown == CHOOSE k \in 0..Len(part) :
                      /\ \A i \in 1..k : part[i] # "nl"
                      /\ k < Len(part) => part[k + 1] = "nl"
<1>1. Read(msg, part) = ReadText(msg, SubSeq(part, 1, shown))
  BY Zenon DEF Read, ReadText
<1>2. PICK k : Shows(part, k) /\ CutNewLines(part) = SubSeq(part, 1, k)
  BY CutNewLinesShows
<1>3. Shows(part, shown)
  BY <1>2, Zenon DEF Shows
<1> HIDE DEF shown
<1>4. shown = k
  BY <1>2, <1>3, ShownOnce
<1> QED
  BY <1>1, <1>2, <1>4

\* Nothing is cut off a text without line breaks.
LEMMA NothingCut ==
  ASSUME NEW text, Positions(text, "nl") = {}
  PROVE  CutNewLines(text) = text
BY DEF CutNewLines

\* A part holds the characters of the text, and those of the dots.
LEMMA PartIs ==
  ASSUME NEW text \in Seq(Characters), NEW a \in 0..Len(text), NEW b \in 0..Len(text), a <= b
  PROVE  LET part == Part(text, a, b)
         IN  /\ part \in Seq(Characters) /\ Len(part) >= b - a
             /\ \A c \in {"nl", "ctl"} : Positions(text, c) = {} => Positions(part, c) = {}
<1> DEFINE u == SubSeq(text, a + 1, b)
           v == IF b < Len(text) THEN Dots ELSE <<>>
           part == Part(text, a, b)
<1>1. u \in Seq(Characters) /\ Len(u) = b - a /\ \A i \in 1..(b - a) : u[i] = text[a + i]
  <2>1. \A i \in (a + 1)..b : text[i] \in Characters
    OBVIOUS
  <2>2. u \in Seq(Characters) /\ Len(u) = (IF a + 1 <= b THEN b - (a + 1) + 1 ELSE 0)
        /\ \A i \in 1..(b - (a + 1) + 1) : u[i] = text[(a + 1) + i - 1]
    BY <2>1, SubSeqProperties
  <2>3. b - (a + 1) + 1 = b - a /\ a \in Nat /\ b \in Nat
    OBVIOUS
  <2>4. \A i \in 1..(b - a) : (a + 1) + i - 1 = a + i
    OBVIOUS
  <2> HIDE DEF u
  <2> QED
    BY <2>2, <2>3, <2>4
<1>2. v \in Seq(Characters) /\ Len(v) \in Nat /\ \A i \in 1..Len(v) : v[i] = "."
  <2>1. \A i \in 1..3 : Dots[i] = "."
    BY DEF Dots
  <2>2. CASE b < Len(text)
    <3>1. v = Dots
      BY <2>2
    <3> HIDE DEF v
    <3> QED
      BY <2>1, <3>1, DotsType
  <2>3. CASE ~(b < Len(text))
    <3>1. v = <<>>
      BY <2>3
    <3>2. <<>> \in Seq(Characters) /\ Len(<<>>) = 0 /\ ~ \E i : i \in 1..0
      OBVIOUS
    <3> HIDE DEF v
    <3> QED
      BY <3>1, <3>2
  <2> QED
    BY <2>2, <2>3
<1>3. part = u \o v
  BY DEF Part
<1> HIDE DEF u, v, part
<1>4. /\ u \o v \in Seq(Characters) /\ Len(u \o v) = Len(u) + Len(v)
      /\ \A i \in 1..(Len(u) + Len(v)) : (u \o v)[i] = IF i <= Len(u) THEN u[i] ELSE v[i - Len(u)]
  BY <1>1, <1>2, ConcatProperties
<1>5. part \in Seq(Characters) /\ Len(part) >= b - a
  BY <1>1, <1>2, <1>3, <1>4
<1>6. ASSUME NEW c \in {"nl", "ctl"}, Positions(text, c) = {}, NEW i \in 1..Len(part)
      PROVE  part[i] # c
  <2>1. CASE i <= Len(u)
    <3>1. i \in 1..(b - a) /\ a + i \in 1..Len(text)
      BY <1>1, <2>1
    <3>2. part[i] = text[a + i]
      BY <1>1, <1>2, <1>3, <1>4, <2>1, <3>1
    <3> QED
      BY <1>6, <3>1, <3>2 DEF Positions
  <2>2. CASE ~(i <= Len(u))
    <3>1. i - Len(u) \in 1..Len(v)
      BY <1>1, <1>2, <1>3, <1>4, <2>2
    <3>2. part[i] = "."
      BY <1>1, <1>2, <1>3, <1>4, <2>2, <3>1
    <3> QED
      BY <3>2
  <2> QED
    BY <2>1, <2>2
<1> QED
  BY <1>5, <1>6 DEF part, Positions

\* The blank is a character like another.
Blank == " "

\* A CTCP that has an argument.
LEMMA WrappedIs ==
  ASSUME NEW verb \in Characters, NEW piece \in Seq(Characters), piece # <<>>
  PROVE  LET t == Wrapped(verb, piece)
             n == Len(piece)
         IN  /\ t \in Seq(Characters) /\ Len(t) = n + 4 /\ n \in Nat \ {0}
             /\ t[1] = "ctl" /\ t[2] = verb /\ t[3] = Blank /\ t[n + 4] = "ctl"
             /\ \A i \in 1..n : t[i + 3] = piece[i]
<1> DEFINE head == <<"ctl", verb>>
           last == <<"ctl">>
           space == <<Blank>>
           mid == space \o piece
           both == head \o mid
           n == Len(piece)
<1>1. "ctl" \in Characters /\ Blank \in Characters
  BY TextConstants, Zenon DEF Blank
<1>2. /\ head \in Seq(Characters) /\ Len(head) = 2 /\ head[1] = "ctl" /\ head[2] = verb
      /\ last \in Seq(Characters) /\ Len(last) = 1 /\ last[1] = "ctl"
      /\ space \in Seq(Characters) /\ Len(space) = 1 /\ space[1] = Blank
  <2>1. head[1] = "ctl" /\ head[2] = verb /\ last[1] = "ctl" /\ space[1] = Blank
    OBVIOUS
  <2> QED
    BY <1>1, <2>1, ShortSequences
<1>3. Wrapped(verb, piece) = both \o last
  BY Zenon DEF Wrapped, Blank
<1>4. n \in Nat \ {0}
  OBVIOUS
<1> HIDE DEF head, last, space, n
<1>5. /\ mid \in Seq(Characters) /\ Len(mid) = n + 1
      /\ \A i \in 1..(n + 1) : mid[i] = IF i <= 1 THEN space[i] ELSE piece[i - 1]
  <2>1. /\ mid \in Seq(Characters) /\ Len(mid) = Len(space) + Len(piece)
        /\ \A i \in 1..(Len(space) + Len(piece)) :
             mid[i] = IF i <= Len(space) THEN space[i] ELSE piece[i - Len(space)]
    BY <1>2, ConcatProperties
  <2>2. Len(space) + Len(piece) = n + 1
    <3>1. Len(space) + Len(piece) = 1 + n
      BY <1>2, Zenon DEF n
    <3> QED
      BY <1>4, <3>1
  <2> HIDE DEF mid
  <2> QED
    BY <1>2, <2>1, <2>2
<1> HIDE DEF mid
<1>6. /\ both \in Seq(Characters) /\ Len(both) = n + 3
      /\ \A i \in 1..(n + 3) : both[i] = IF i <= 2 THEN head[i] ELSE mid[i - 2]
  <2>1. /\ both \in Seq(Characters) /\ Len(both) = Len(head) + Len(mid)
        /\ \A i \in 1..(Len(head) + Len(mid)) :
             both[i] = IF i <= Len(head) THEN head[i] ELSE mid[i - Len(head)]
    BY <1>2, <1>5, ConcatProperties
  <2>2. Len(head) + Len(mid) = n + 3
    <3>1. Len(head) + Len(mid) = 2 + (n + 1)
      BY <1>2, <1>5, Zenon
    <3> QED
      BY <1>4, <3>1
  <2> HIDE DEF both
  <2> QED
    BY <1>2, <2>1, <2>2
<1> HIDE DEF both
<1> DEFINE t == both \o last
<1>7. /\ t \in Seq(Characters) /\ Len(t) = n + 4
      /\ \A i \in 1..(n + 4) : t[i] = IF i <= n + 3 THEN both[i] ELSE last[i - (n + 3)]
  <2>1. /\ t \in Seq(Characters) /\ Len(t) = Len(both) + Len(last)
        /\ \A i \in 1..(Len(both) + Len(last)) :
             t[i] = IF i <= Len(both) THEN both[i] ELSE last[i - Len(both)]
    BY <1>2, <1>6, ConcatProperties
  <2>2. Len(both) + Len(last) = n + 4
    <3>1. Len(both) + Len(last) = (n + 3) + 1
      BY <1>2, <1>6, Zenon
    <3> QED
      BY <1>4, <3>1
  <2> HIDE DEF t
  <2> QED
    BY <1>2, <1>6, <2>1, <2>2
<1> HIDE DEF t
<1>8. t[1] = "ctl" /\ t[2] = verb /\ t[3] = Blank
  <2>1. 1 \in 1..(n + 4) /\ 2 \in 1..(n + 4) /\ 3 \in 1..(n + 4) /\ 3 <= n + 3 /\ 3 \in 1..(n + 3)
        /\ 1 \in 1..(n + 3) /\ 2 \in 1..(n + 3) /\ 2 <= n + 3 /\ 1 <= n + 3 /\ 1 \in 1..(n + 1)
    BY <1>4
  <2>2. t[1] = both[1] /\ t[2] = both[2] /\ t[3] = both[3]
    BY <1>7, <2>1
  <2>3. both[1] = head[1] /\ both[2] = head[2] /\ both[3] = mid[1]
    <3>1. ~(3 <= 2) /\ 3 - 2 = 1
      OBVIOUS
    <3> QED
      BY <1>6, <2>1, <3>1
  <2>4. mid[1] = space[1]
    BY <1>5, <2>1
  <2> QED
    BY <1>2, <2>2, <2>3, <2>4
<1>9. t[n + 4] = "ctl"
  <2>1. n + 4 \in 1..(n + 4) /\ ~(n + 4 <= n + 3) /\ (n + 4) - (n + 3) = 1
    BY <1>4
  <2>2. t[n + 4] = last[(n + 4) - (n + 3)]
    BY <1>7, <2>1, Zenon
  <2> QED
    BY <1>2, <2>1, <2>2, Zenon
<1>10. ASSUME NEW i \in 1..n PROVE t[i + 3] = piece[i]
  <2>1. /\ i + 3 \in 1..(n + 4) /\ i + 3 <= n + 3 /\ i + 3 \in 1..(n + 3) /\ ~(i + 3 <= 2)
        /\ (i + 3) - 2 = i + 1 /\ i + 1 \in 1..(n + 1) /\ ~(i + 1 <= 1) /\ (i + 1) - 1 = i
    BY <1>4
  <2>2. t[i + 3] = both[i + 3]
    BY <1>7, <2>1
  <2>3. both[i + 3] = mid[i + 1]
    BY <1>6, <2>1
  <2>4. mid[i + 1] = piece[i]
    BY <1>5, <2>1
  <2> QED
    BY <2>2, <2>3, <2>4
<1>11. t = Wrapped(verb, piece)
  BY <1>3 DEF t
<1> QED
  BY <1>4, <1>7, <1>8, <1>9, <1>10, <1>11 DEF n

\* The line sent for a piece of a message.
LineFor(msg, piece) ==
  [cmd |-> IF msg.cmd \in {"CTCP", "PRIVMSG"} THEN "PRIVMSG" ELSE "NOTICE",
   text |-> CutNewLines(IF msg.cmd \in {"CTCP", "CTCPREPLY"} THEN Wrapped(msg.verb, piece) ELSE piece)]

\* The verb and the argument of a CTCP, as ParseLine finds them.
LEMMA WrappedArgument ==
  ASSUME NEW verb \in Characters, verb # Blank, verb # "nl", NEW piece \in Seq(Characters), piece # <<>>
  PROVE  LET t == Wrapped(verb, piece)
             Inner == SubSeq(t, 2, Len(t) - 1)
             spaces == Positions(Inner, Blank)
         IN  /\ Inner[1] = verb /\ spaces # {}
             /\ SubSeq(Inner, Min(spaces) + 1, Len(Inner)) = piece
<1> DEFINE t == Wrapped(verb, piece)
           n == Len(piece)
           Inner == SubSeq(t, 2, Len(t) - 1)
           spaces == Positions(Inner, Blank)
           arg == SubSeq(Inner, 3, n + 2)
<1>1. /\ t \in Seq(Characters) /\ Len(t) = n + 4 /\ n \in Nat \ {0}
      /\ t[1] = "ctl" /\ t[2] = verb /\ t[3] = Blank /\ t[n + 4] = "ctl"
      /\ \A i \in 1..n : t[i + 3] = piece[i]
  BY WrappedIs
<1>2. \A i \in 1..n : piece[i] \in Characters
  OBVIOUS
<1>3. piece \in Seq(Characters) /\ Len(piece) = n
  OBVIOUS
<1> HIDE DEF t, n
<1>4. Inner \in Seq(Characters) /\ Len(Inner) = n + 2 /\ \A i \in 1..(n + 2) : Inner[i] = t[i + 1]
  <2>1. Len(t) - 1 = n + 3 /\ 2 <= n + 3 /\ (n + 3) - 2 + 1 = n + 2 /\ n + 3 \in Nat
    BY <1>1
  <2>2. \A i \in 2..(n + 3) : t[i] \in Characters
    <3>1. \A i \in 2..(n + 3) : i \in 1..(n + 4)
      BY <1>1
    <3> QED
      BY <1>1, <3>1, ElementOfSeq
  <2>3. SubSeq(t, 2, n + 3) \in Seq(Characters)
        /\ Len(SubSeq(t, 2, n + 3)) = (IF 2 <= n + 3 THEN (n + 3) - 2 + 1 ELSE 0)
        /\ \A i \in 1..((n + 3) - 2 + 1) : SubSeq(t, 2, n + 3)[i] = t[2 + i - 1]
    <3> DEFINE k == n + 3
    <3>1. k \in Int /\ 2 \in Int /\ \A i \in 2..k : t[i] \in Characters
      BY <2>1, <2>2
    <3> HIDE DEF k
    <3>2. /\ SubSeq(t, 2, k) \in Seq(Characters)
          /\ Len(SubSeq(t, 2, k)) = (IF 2 <= k THEN k - 2 + 1 ELSE 0)
          /\ \A i \in 1..(k - 2 + 1) : SubSeq(t, 2, k)[i] = t[2 + i - 1]
      BY <3>1, SubSeqProperties
    <3> QED
      BY <3>2 DEF k
  <2>4. \A i \in 1..(n + 2) : 2 + i - 1 = i + 1
    BY <1>1
  <2> QED
    BY <2>1, <2>3, <2>4
<1> HIDE DEF Inner
<1>5. Inner[1] = verb /\ Inner[2] = Blank /\ \A i \in 1..n : Inner[i + 2] = piece[i]
  <2>1. 1 \in 1..(n + 2) /\ 2 \in 1..(n + 2) /\ 1 + 1 = 2 /\ 2 + 1 = 3
    BY <1>1
  <2>2. \A i \in 1..n : i + 2 \in 1..(n + 2) /\ (i + 2) + 1 = i + 3
    BY <1>1
  <2> QED
    BY <1>1, <1>4, <2>1, <2>2
<1>6. 2 \in spaces /\ spaces \in SUBSET Nat /\ \A i \in spaces : 2 <= i
  <2>1. spaces = {i \in 1..(n + 2) : Inner[i] = Blank}
    BY <1>4 DEF Positions
  <2>2. 1 \notin spaces
    BY <1>5, <2>1
  <2>3. 2 \in 1..(n + 2)
    BY <1>1
  <2> HIDE DEF spaces
  <2>4. \A i \in spaces : i \in Nat /\ i >= 1
    BY <1>1, <2>1
  <2>5. ASSUME NEW i \in spaces PROVE 2 <= i
    BY <2>2, <2>4
  <2> QED
    BY <1>5, <2>1, <2>3, <2>4, <2>5
<1> HIDE DEF spaces
<1>7. Min(spaces) = 2
  <2>1. Min(spaces) \in spaces /\ \A y \in spaces : Min(spaces) <= y
    BY <1>6, Zenon DEF Min
  <2> DEFINE m == Min(spaces)
  <2>2. m \in Nat /\ m <= 2 /\ 2 <= m
    BY <1>6, <2>1
  <2> HIDE DEF m
  <2>3. m = 2
    BY <2>2
  <2> QED
    BY <2>3 DEF m
<1>8. arg \in Seq(Characters) /\ Len(arg) = n /\ \A i \in 1..n : arg[i] = Inner[i + 2]
  <2>1. (n + 2) - 3 + 1 = n /\ 3 <= n + 2 /\ n + 2 \in Nat
    BY <1>1
  <2>2. \A i \in 3..(n + 2) : Inner[i] \in Characters
    <3>1. \A i \in 3..(n + 2) : i \in 1..(n + 2)
      BY <1>1
    <3> QED
      BY <1>4, <3>1, ElementOfSeq
  <2>3. arg \in Seq(Characters) /\ Len(arg) = (IF 3 <= n + 2 THEN (n + 2) - 3 + 1 ELSE 0)
        /\ \A i \in 1..((n + 2) - 3 + 1) : arg[i] = Inner[3 + i - 1]
    <3> DEFINE k == n + 2
    <3>1. k \in Int /\ 3 \in Int /\ \A i \in 3..k : Inner[i] \in Characters
      BY <2>1, <2>2
    <3> HIDE DEF k
    <3>2. /\ SubSeq(Inner, 3, k) \in Seq(Characters)
          /\ Len(SubSeq(Inner, 3, k)) = (IF 3 <= k THEN k - 3 + 1 ELSE 0)
          /\ \A i \in 1..(k - 3 + 1) : SubSeq(Inner, 3, k)[i] = Inner[3 + i - 1]
      BY <3>1, SubSeqProperties
    <3> QED
      BY <3>2 DEF k
  <2>4. \A i \in 1..n : 3 + i - 1 = i + 2
    BY <1>1
  <2> HIDE DEF arg
  <2> QED
    BY <2>1, <2>3, <2>4
<1>9. arg = piece
  <2> HIDE DEF arg
  <2>1. \A i \in 1..n : arg[i] = piece[i]
    BY <1>5, <1>8
  <2> QED
    BY <1>3, <1>8, <2>1, SeqEqual
<1>10. SubSeq(Inner, Min(spaces) + 1, Len(Inner)) = arg
  <2>1. Min(spaces) + 1 = 3
    BY <1>7
  <2> QED
    BY <1>4, <2>1
<1> QED
  BY <1>5, <1>6, <1>9, <1>10 DEF t, Inner, spaces

LEMMA ParsePlain ==
  ASSUME NEW line, ~(Len(line.text) > 2 /\ line.text[1] = "ctl")
  PROVE  ParseLine(line) = [cmd |-> line.cmd, args |-> <<line.text>>]
BY Zenon DEF ParseLine

LEMMA ParseWrapped ==
  ASSUME NEW line, NEW verb, NEW arg,
         LET text == line.text
             Inner == SubSeq(text, 2, Len(text) - 1)
             spaces == Positions(Inner, Blank)
         IN  /\ Len(text) > 2 /\ text[1] = "ctl" /\ text[Len(text)] = "ctl"
             /\ Inner[1] = verb /\ spaces # {} /\ SubSeq(Inner, Min(spaces) + 1, Len(Inner)) = arg
  PROVE  ParseLine(line) =
           IF line.cmd = "PRIVMSG" /\ verb = "ACTION" THEN [cmd |-> "ACTION", args |-> <<arg>>]
           ELSE [cmd |-> IF line.cmd = "PRIVMSG" THEN "CTCP" ELSE "CTCPREPLY",
                 args |-> <<verb, arg>>]
<1> DEFINE text == line.text
           Inner == SubSeq(text, 2, Len(text) - 1)
           spaces == Positions(Inner, Blank)
           Arg == IF spaces = {} THEN text ELSE SubSeq(Inner, Min(spaces) + 1, Len(Inner))
<1>1. Len(text) > 2 /\ text[1] = "ctl" /\ text[Len(text)] = "ctl"
  OBVIOUS
<1>2. Arg = arg /\ Inner[1] = verb
  <2>1. spaces # {} /\ SubSeq(Inner, Min(spaces) + 1, Len(Inner)) = arg /\ Inner[1] = verb
    OBVIOUS
  <2> QED
    BY <2>1, Zenon
<1>3. ParseLine(line) =
        IF Len(text) > 2 /\ text[1] = "ctl" /\ text[Len(text)] = "ctl"
        THEN IF line.cmd = "PRIVMSG" /\ Inner[1] = "ACTION" THEN [cmd |-> "ACTION", args |-> <<Arg>>]
             ELSE [cmd |-> IF line.cmd = "PRIVMSG" THEN "CTCP" ELSE "CTCPREPLY",
                   args |-> <<Inner[1], Arg>>]
        ELSE [cmd |-> line.cmd, args |-> <<text>>]
  BY Zenon DEF ParseLine, Blank
<1> HIDE DEF text, Inner, Arg
<1> QED
  BY <1>1, <1>2, <1>3, Zenon

\* A CTCP of which the argument has no line break is read as it was said.
LEMMA WrappedRead ==
  ASSUME NEW msg \in AllMsgs, msg.cmd \in {"CTCP", "CTCPREPLY"},
         NEW piece \in Seq(Characters), piece # <<>>, Positions(piece, "nl") = {}
  PROVE  ParseLine(LineFor(msg, piece)) = ReadText(msg, piece)
<1> DEFINE t == Wrapped(msg.verb, piece)
           n == Len(piece)
           line == LineFor(msg, piece)
<1>1. msg.verb \in Characters /\ msg.verb # Blank /\ msg.verb # "nl"
  BY ClientConstants, Zenon DEF AllMsgs, Blank
<1>2. /\ t \in Seq(Characters) /\ Len(t) = n + 4 /\ n \in Nat \ {0}
      /\ t[1] = "ctl" /\ t[2] = msg.verb /\ t[3] = Blank /\ t[n + 4] = "ctl"
      /\ \A i \in 1..n : t[i + 3] = piece[i]
  BY <1>1, WrappedIs
<1>3. Positions(t, "nl") = {}
  <2>1. Blank # "nl" /\ "ctl" # "nl"
    BY Zenon DEF Blank
  <2>2. \A i \in 1..n : piece[i] # "nl"
    BY DEF Positions
  <2> HIDE DEF t, n
  <2> SUFFICES ASSUME NEW i \in 1..Len(t) PROVE t[i] # "nl"
    BY DEF Positions
  <2>3. i \in {1, 2, 3, n + 4} \/ \E j \in 1..n : i = j + 3
    <3>1. i \in {1, 2, 3, n + 4} \/ (i - 3 \in 1..n /\ i = (i - 3) + 3)
      BY <1>2
    <3> QED
      BY <3>1
  <2> QED
    BY <1>1, <1>2, <2>1, <2>2, <2>3
<1>4. line.text = t /\ line.cmd = IF msg.cmd = "CTCP" THEN "PRIVMSG" ELSE "NOTICE"
  <2>1. CutNewLines(t) = t
    <3> HIDE DEF t
    <3> QED
      BY <1>3, NothingCut
  <2>2. line.text = CutNewLines(t)
    BY Zenon DEF LineFor
  <2>3. line.cmd = IF msg.cmd = "CTCP" THEN "PRIVMSG" ELSE "NOTICE"
    BY DEF LineFor
  <2> QED
    BY <2>1, <2>2, <2>3
<1>5. Len(t) > 2 /\ t[1] = "ctl" /\ t[Len(t)] = "ctl"
  <2> HIDE DEF t, n
  <2> QED
    BY <1>2
<1>6. LET Inner == SubSeq(t, 2, Len(t) - 1)
          spaces == Positions(Inner, Blank)
      IN  /\ Inner[1] = msg.verb /\ spaces # {}
          /\ SubSeq(Inner, Min(spaces) + 1, Len(Inner)) = piece
  BY <1>1, WrappedArgument
<1> HIDE DEF t, line
<1>7. ParseLine(line) =
        IF line.cmd = "PRIVMSG" /\ msg.verb = "ACTION" THEN [cmd |-> "ACTION", args |-> <<piece>>]
        ELSE [cmd |-> IF line.cmd = "PRIVMSG" THEN "CTCP" ELSE "CTCPREPLY",
              args |-> <<msg.verb, piece>>]
  BY <1>4, <1>5, <1>6, ParseWrapped, Zenon
<1>8. CASE msg.cmd = "CTCP"
  <2>1. line.cmd = "PRIVMSG" /\ msg.cmd \notin {"PRIVMSG", "NOTICE"}
    BY <1>4, <1>8
  <2>2. CASE msg.verb = "ACTION"
    BY <1>7, <1>8, <2>1, <2>2, Zenon DEF ReadText, line
  <2>3. CASE msg.verb # "ACTION"
    BY <1>7, <1>8, <2>1, <2>3, Zenon DEF ReadText, line
  <2> QED
    BY <2>2, <2>3
<1>9. CASE msg.cmd = "CTCPREPLY"
  <2>1. line.cmd # "PRIVMSG" /\ msg.cmd \notin {"PRIVMSG", "NOTICE"} /\ msg.cmd # "CTCP"
    BY <1>4, <1>9
  <2> QED
    BY <1>7, <1>9, <2>1, Zenon DEF ReadText, line
<1> QED
  BY <1>8, <1>9

\* A part of a message is read as that part.
LEMMA ReadAsSaid ==
  ASSUME NEW msg \in AllMsgs, Plain(msg), NEW a \in 0..Len(msg.text), NEW b \in 0..Len(msg.text),
         a <= b, a < b \/ msg.text = <<>>
  PROVE  ParseLine(LineFor(msg, Part(msg.text, a, b))) = Read(msg, Part(msg.text, a, b))
<1> DEFINE text == msg.text
           part == Part(text, a, b)
<1>1. text \in Seq(Characters) /\ msg.cmd \in {"PRIVMSG", "NOTICE", "CTCP", "CTCPREPLY"}
  BY ClientConstants DEF AllMsgs
<1>2. /\ part \in Seq(Characters) /\ Len(part) >= b - a
      /\ \A c \in {"nl", "ctl"} : Positions(text, c) = {} => Positions(part, c) = {}
  BY <1>1, PartIs
<1> HIDE DEF part
<1>3. Read(msg, part) = ReadText(msg, CutNewLines(part))
  BY <1>2, ReadIs
<1>4. CASE msg.cmd \in {"PRIVMSG", "NOTICE"}
  <2>1. Positions(part, "ctl") = {}
    BY <1>2, <1>4 DEF Plain
  <2>2. PICK k : Shows(part, k) /\ CutNewLines(part) = SubSeq(part, 1, k)
    BY <1>2, CutNewLinesShows
  <2> DEFINE cut == CutNewLines(part)
  <2>3. Len(cut) > 2 => cut[1] # "ctl"
    <3>1. k \in 0..Len(part) /\ Len(part) \in Nat
      BY <1>2, <2>2 DEF Shows
    <3>2. \A i \in 1..k : part[i] \in Characters
      BY <1>2, <3>1
    <3>3. Len(cut) = (IF 1 <= k THEN k - 1 + 1 ELSE 0) /\ \A i \in 1..(k - 1 + 1) : cut[i] = part[1 + i - 1]
      BY <2>2, <3>1, <3>2, SubSeqProperties
    <3> HIDE DEF cut
    <3>4. ASSUME Len(cut) > 2 PROVE cut[1] # "ctl"
      <4>1. 1 \in 1..(k - 1 + 1) /\ 1 + 1 - 1 = 1 /\ 1 \in 1..Len(part)
        BY <3>1, <3>3, <3>4
      <4> QED
        BY <2>1, <3>3, <4>1 DEF Positions
    <3> QED
      BY <3>4
  <2> DEFINE line == LineFor(msg, part)
  <2>4. line.text = cut /\ line.cmd = msg.cmd
    BY <1>4 DEF LineFor
  <2> HIDE DEF cut, line
  <2>5. ParseLine(line) = [cmd |-> msg.cmd, args |-> <<cut>>]
    BY <2>3, <2>4, ParsePlain, Zenon
  <2>6. ReadText(msg, cut) = [cmd |-> msg.cmd, args |-> <<cut>>]
    BY <1>4, Zenon DEF ReadText
  <2> QED
    BY <1>3, <2>5, <2>6 DEF part, cut, line
<1>5. CASE msg.cmd \notin {"PRIVMSG", "NOTICE"}
  <2>1. msg.text # <<>> /\ Positions(text, "nl") = {} /\ msg.cmd \in {"CTCP", "CTCPREPLY"}
    BY <1>1, <1>5 DEF Plain
  <2>2. part # <<>>
    <3>1. a < b /\ a \in Nat /\ b \in Nat
      BY <1>1, <2>1
    <3> QED
      BY <1>2, <3>1
  <2>3. Positions(part, "nl") = {}
    BY <1>2, <2>1
  <2>4. CutNewLines(part) = part
    BY <2>3, NothingCut
  <2>5. ParseLine(LineFor(msg, part)) = ReadText(msg, part)
    BY <1>2, <2>1, <2>2, <2>3, WrappedRead
  <2> QED
    BY <1>3, <2>4, <2>5 DEF part
<1> QED
  BY <1>4, <1>5

\* The lines sent for a message are those of its successive parts.
Parted(msg, b) ==
  LET n == Len(Lines(msg))
  IN  /\ b \in [0..n -> 0..Len(msg.text)] /\ b[0] = 0 /\ b[n] = Len(msg.text)
      /\ \A j \in 1..n :
           /\ b[j - 1] <= b[j] /\ b[j] - b[j - 1] <= MaxPiece
           /\ b[j - 1] < b[j] \/ msg.text = <<>>
           /\ Lines(msg)[j] = LineFor(msg, Part(msg.text, b[j - 1], b[j]))

LEMMA LinesParted ==
  ASSUME NEW msg \in AllMsgs
  PROVE  \E b : Parted(msg, b)
<1> DEFINE text == msg.text
           pieces == SplitMessage(text)
           n == Len(pieces)
<1>1. text \in Seq(Characters)
  BY ClientConstants DEF AllMsgs
<1>2. pieces \in Seq(Piece) /\ pieces # <<>>
  BY <1>1, SplitMessageShort
<1>3. PICK b : CutAt(text, pieces, 1, b)
  BY <1>1, SplitMessageCuts
<1>4. n \in Nat /\ DOMAIN pieces = 1..n /\ Len(text) \in Nat
  BY <1>1, <1>2
<1>5. Lines(msg) = [i \in DOMAIN pieces |-> LineFor(msg, pieces[i])]
  BY Zenon DEF Lines, LineFor
<1> HIDE DEF pieces
<1>6. Lines(msg) = [i \in 1..n |-> LineFor(msg, pieces[i])]
  BY <1>4, <1>5
<1> HIDE DEF n
<1>7. Len(Lines(msg)) = n /\ \A i \in 1..n : Lines(msg)[i] = LineFor(msg, pieces[i])
  BY <1>4, <1>6
<1>8. 1 <= Len(text) \/ text = <<>>
  <2> HIDE DEF text
  <2> QED
    BY <1>1, <1>4, EmptySeq
<1>9. /\ b \in [0..n -> 0..Len(text)] /\ b[0] = 0 /\ b[n] = Len(text)
      /\ \A j \in 1..n : /\ b[j - 1] <= b[j] /\ b[j] - b[j - 1] <= MaxPiece
                         /\ 1 <= Len(text) => b[j - 1] < b[j]
                         /\ pieces[j] = Part(text, b[j - 1], b[j])
  BY <1>3 DEF CutAt, n
<1> HIDE DEF text
<1>10. Parted(msg, b)
  <2>1. \A j \in 1..n : Lines(msg)[j] = LineFor(msg, Part(text, b[j - 1], b[j]))
    BY <1>7, <1>9
  <2>2. \A j \in 1..n : b[j - 1] < b[j] \/ text = <<>>
    BY <1>8, <1>9
  <2> QED
    BY <1>7, <1>9, <2>1, <2>2 DEF Parted, text
<1> QED
  BY <1>10

\* Where parts may end, by where the one before may.
EndsAt(msg, parts, P, j) ==
  IF j = 0 THEN {0}
  ELSE {b \in 0..Len(msg.text) :
          \E a \in P[j - 1] : /\ a <= b /\ b - a <= MaxPiece
                              /\ parts[j].got = Read(msg, Part(msg.text, a, b))}

LEMMA PartEndsAre ==
  ASSUME NEW msg \in AllMsgs, NEW parts, Len(parts) \in Nat
  PROVE  LET ends == PartEnds(msg, parts)
         IN  /\ ends[0] = {0}
             /\ \A j \in 1..Len(parts) : ends[j] = EndsAt(msg, parts, ends, j)
<1> DEFINE N == Len(parts)
           S == 0..N
           V == SUBSET (0..Len(msg.text))
           Here(P, j) == EndsAt(msg, parts, P, j)
           At == CHOOSE P : P = [j \in S |-> Here(P, j)]
           m == [j \in S |-> j]
           F == [p \in [S -> V] \X S |-> Here(p[1], p[2])]
<1>1. PartEnds(msg, parts) = At
  BY DEF PartEnds, EndsAt
<1>2. N \in Nat /\ m \in [S -> 0..N] /\ V # {}
  OBVIOUS
<1>3. ASSUME NEW P, NEW j \in S
      PROVE  Here(P, j) \in V
  <2>1. Len(msg.text) \in Nat
    <3>1. msg.text \in Seq(Characters)
      BY ClientConstants DEF AllMsgs
    <3> QED
      BY <3>1
  <2>2. 0 \in 0..Len(msg.text)
    BY <2>1
  <2>3. EndsAt(msg, parts, P, j) \subseteq 0..Len(msg.text)
    BY <2>2, Zenon DEF EndsAt
  <2> QED
    BY <2>3
<1>4. ASSUME NEW P, NEW Q, NEW j \in S, \A i \in S : i < j => P[i] = Q[i]
      PROVE  Here(P, j) = Here(Q, j)
  <2> USE DEF EndsAt
  <2>1. CASE j = 0
    BY <2>1
  <2>2. CASE j # 0
    <3>1. j - 1 \in S /\ j - 1 < j
      BY <1>2, <2>2
    <3>2. P[j - 1] = Q[j - 1]
      BY <1>4, <3>1
    <3> QED
      BY <2>2, <3>2, Zenon
  <2> QED
    BY <2>1, <2>2
<1>5. \A x, y \in S : m[y] < m[x] <=> y < x
  BY <1>2
<1> HIDE DEF Here
<1>6. Founded(F, S, V, m)
  <2>1. F \in [[S -> V] \X S -> V]
    <3> SUFFICES ASSUME NEW P \in [S -> V], NEW x \in S PROVE Here(P, x) \in V
      OBVIOUS
    <3> HIDE DEF V, S
    <3> QED
      BY <1>3
  <2>2. ASSUME NEW P \in [S -> V], NEW Q \in [S -> V], NEW x \in S,
               \A y \in S : m[y] < m[x] => P[y] = Q[y]
        PROVE  F[<<P, x>>] = F[<<Q, x>>]
    <3>1. \A y \in S : y < x => P[y] = Q[y]
      BY <1>5, <2>2
    <3>2. Here(P, x) = Here(Q, x)
      <4> HIDE DEF S, V
      <4> QED
        BY <1>4, <3>1
    <3>3. F[<<P, x>>] = Here(P, x) /\ F[<<Q, x>>] = Here(Q, x)
      <4> HIDE DEF S, V
      <4> QED
        OBVIOUS
    <3> QED
      BY <3>2, <3>3
  <2> HIDE DEF S, V, F, m
  <2> QED
    BY <2>1, <2>2 DEF Founded
<1>7. PICK P \in [S -> V] : Solves(P, F, S)
  <2> HIDE DEF S, V, F, m, N
  <2> QED
    BY <1>2, <1>6, RecursionExists
<1>8. P = [j \in S |-> Here(P, j)]
  <2>1. \A x \in S : F[<<P, x>>] = Here(P, x)
    <3> HIDE DEF S, V
    <3> QED
      OBVIOUS
  <2> HIDE DEF S, V, F
  <2> QED
    BY <1>7, <2>1 DEF Solves
<1>9. At = [j \in S |-> Here(At, j)]
  <2> HIDE DEF S
  <2> QED
    BY <1>8, Zenon
<1>10. \A j \in S : PartEnds(msg, parts)[j] = Here(PartEnds(msg, parts), j)
  <2> HIDE DEF S, At
  <2> QED
    BY <1>1, <1>9
<1>11. 0 \in S /\ \A j \in 1..N : j \in S
  BY <1>2
<1>12. PartEnds(msg, parts)[0] = {0}
  BY <1>10, <1>11 DEF Here, EndsAt
<1> QED
  BY <1>10, <1>11, <1>12 DEF Here

\* Whoever has read the first lines of a message has read its first parts, and
\* whoever has read all of them, all of it.
LEMMA LinesRead ==
  ASSUME NEW msg \in AllMsgs, Plain(msg), NEW parts, Len(parts) \in Nat,
         Len(parts) <= Len(Lines(msg)),
         \A j \in 1..Len(parts) : parts[j].got = ParseLine(Lines(msg)[j])
  PROVE  LET ends == PartEnds(msg, parts)[Len(parts)]
         IN  /\ ends # {}
             /\ Len(parts) = Len(Lines(msg)) => Len(msg.text) \in ends
<1> DEFINE text == msg.text
           all == Lines(msg)
           N == Len(parts)
           ends == PartEnds(msg, parts)
<1>1. PICK b : Parted(msg, b)
  BY LinesParted
<1>2. Len(all) \in Nat
  BY LinesShort
<1>3. N \in Nat /\ N <= Len(all)
  OBVIOUS
<1> HIDE DEF N
<1>4. \A j \in 1..N : j \in 1..Len(all) /\ j \in 0..Len(all) /\ j - 1 \in 0..Len(all) /\ j - 1 \in Nat
  BY <1>2, <1>3
<1>5. b[0] = 0 /\ b[Len(all)] = Len(text) /\ \A j \in 0..Len(all) : b[j] \in 0..Len(text)
  BY <1>1 DEF Parted
<1>6. /\ ends[0] = {0} /\ \A j \in 1..N : ends[j] = EndsAt(msg, parts, ends, j)
  BY PartEndsAre DEF N
<1> HIDE DEF ends
<1>7. ASSUME NEW j \in 1..N, b[j - 1] \in ends[j - 1] PROVE b[j] \in ends[j]
  <2> DEFINE x == b[j - 1]
             y == b[j]
  <2>1. /\ x \in 0..Len(text) /\ y \in 0..Len(text) /\ x <= y /\ y - x <= MaxPiece
        /\ x < y \/ text = <<>>
        /\ all[j] = LineFor(msg, Part(text, x, y))
    BY <1>1, <1>4, <1>5 DEF Parted
  <2>2. x \in ends[j - 1] /\ j # 0
    BY <1>4, <1>7
  <2> HIDE DEF x, y
  <2>3. ParseLine(all[j]) = Read(msg, Part(text, x, y))
    BY <2>1, ReadAsSaid
  <2>4. parts[j].got = Read(msg, Part(text, x, y))
    BY <2>3 DEF N
  <2>5. y \in EndsAt(msg, parts, ends, j)
    BY <2>1, <2>2, <2>4, Zenon DEF EndsAt
  <2> QED
    BY <1>6, <2>5 DEF y
<1> DEFINE T == {j \in 0..N : b[j] \notin ends[j]}
<1>8. T = {}
  <2> SUFFICES ASSUME T # {} PROVE FALSE
    OBVIOUS
  <2>1. T \in SUBSET Nat
    BY <1>3
  <2>2. PICK j \in T : \A i \in T : j <= i
    <3> HIDE DEF T
    <3> QED
      BY <2>1, Least
  <2>3. j # 0 /\ j \in 0..N
    BY <1>5, <1>6
  <2>4. j \in 1..N /\ j - 1 \in 0..N /\ ~(j <= j - 1)
    BY <1>3, <2>3
  <2>5. b[j - 1] \in ends[j - 1]
    BY <2>2, <2>4
  <2>6. b[j] \in ends[j]
    BY <1>7, <2>4, <2>5
  <2> QED
    BY <2>2, <2>6
<1>9. N \in 0..N
  BY <1>3
<1>10. b[N] \in ends[N]
  BY <1>8, <1>9
<1> QED
  BY <1>5, <1>10 DEF N, ends

-----------------------------------------------------------------------------
(* The lines of a message, from what was heard of it to what is left to say. *)

\* What conn.out and send have, in the order of writing.
Pipe == sending \o out
LeftOf(g) == IF g \in DOMAIN tasks /\ tasks[g].do = "saying" THEN tasks[g].left ELSE <<>>

\* The first lines have been heard, the next are in the pipe, in order, and the
\* others are left.
Speaks(g, msg, h, left, pipe, num) ==
  LET all == Lines(msg)
      said == Len(all) - Len(left)
  IN  /\ Len(h) <= said
      /\ \A k \in 1..Len(left) : left[k] = all[said + k]
      /\ \A j \in 1..Len(h) : h[j] = [msg |-> msg, got |-> ParseLine(all[j])]
      /\ \A i \in 1..Len(pipe) : pipe[i].by = g =>
           /\ num[i] \in (Len(h) + 1)..said /\ pipe[i].msg = msg /\ pipe[i].line = all[num[i]]
      /\ \A i, j \in 1..Len(pipe) : pipe[i].by = g /\ pipe[j].by = g /\ i < j => num[i] < num[j]
      /\ \A k \in (Len(h) + 1)..said : \E i \in 1..Len(pipe) : pipe[i].by = g /\ num[i] = k

LEMMA SpeaksStarts ==
  ASSUME NEW g, NEW msg \in AllMsgs, NEW pipe \in Seq(Said), \A i \in 1..Len(pipe) : pipe[i].by # g
  PROVE  \E num : Speaks(g, msg, <<>>, Lines(msg), pipe, num)
<1> DEFINE all == Lines(msg)
<1>1. Len(all) \in Nat
  BY LinesShort
<1> HIDE DEF all
<1>2. Len(all) - Len(all) = 0 /\ Len(<<>>) = 0 /\ 0 + 1 = 1 /\ \A k \in 1..Len(all) : 0 + k = k
  BY <1>1
<1>3. ~ \E k : k \in 1..0
  OBVIOUS
<1>4. Speaks(g, msg, <<>>, all, pipe, <<>>)
  BY <1>2, <1>3 DEF Speaks, all
<1> QED
  BY <1>4 DEF all

LEMMA SpeaksSays ==
  ASSUME NEW g, NEW msg \in AllMsgs, NEW h, Len(h) \in Nat, NEW left \in Seq(ShortLine), left # <<>>,
         NEW pipe \in Seq(Said), NEW num, Speaks(g, msg, h, left, pipe, num),
         NEW x \in Said, x.by = g, x.msg = msg, x.line = Head(left)
  PROVE  \E more : Speaks(g, msg, h, Tail(left), Append(pipe, x), more)
<1> DEFINE all == Lines(msg)
           said == Len(all) - Len(left)
           after == Tail(left)
           longer == Append(pipe, x)
           n == Len(pipe)
           more == [i \in 1..(n + 1) |-> IF i = n + 1 THEN said + 1 ELSE num[i]]
           a == Len(h)
           L == Len(left)
           A == Len(all)
<1>1. a \in Nat /\ L \in Nat \ {0} /\ A \in Nat /\ n \in Nat
  BY LinesShort
<1>2. Len(after) = L - 1 /\ \A k \in 1..(L - 1) : after[k] = left[k + 1]
  BY HeadTailProperties
<1>3. Len(longer) = n + 1 /\ longer[n + 1] = x /\ \A i \in 1..n : longer[i] = pipe[i]
  BY AppendProperties
<1>4. /\ a <= said /\ said = A - L
      /\ \A k \in 1..L : left[k] = all[said + k]
      /\ \A j \in 1..a : h[j] = [msg |-> msg, got |-> ParseLine(all[j])]
      /\ \A i \in 1..n : pipe[i].by = g =>
           /\ num[i] \in (a + 1)..said /\ pipe[i].msg = msg /\ pipe[i].line = all[num[i]]
      /\ \A i, j \in 1..n : pipe[i].by = g /\ pipe[j].by = g /\ i < j => num[i] < num[j]
      /\ \A k \in (a + 1)..said : \E i \in 1..n : pipe[i].by = g /\ num[i] = k
  BY DEF Speaks
<1>5. x.line = left[1]
  BY HeadTailProperties
<1> HIDE DEF all, said, after, longer, n, a, L, A
<1>6. said \in Int /\ said + 1 = A - (L - 1) /\ a <= said + 1 /\ said + 1 \in (a + 1)..(said + 1)
  BY <1>1, <1>4
<1>7. /\ \A i \in 1..n : i \in 1..(n + 1) /\ i # n + 1 /\ more[i] = num[i]
      /\ n + 1 \in 1..(n + 1) /\ more[n + 1] = said + 1
      /\ \A i \in 1..(n + 1) : i = n + 1 \/ i \in 1..n
  BY <1>1
<1> HIDE DEF more
<1>8. \A k \in 1..(L - 1) : after[k] = all[(said + 1) + k]
  <2> SUFFICES ASSUME NEW k \in 1..(L - 1) PROVE after[k] = all[(said + 1) + k]
    OBVIOUS
  <2>1. k + 1 \in 1..L /\ said + (k + 1) = (said + 1) + k
    BY <1>1, <1>6
  <2> QED
    BY <1>2, <1>4, <2>1
<1>9. x.line = all[said + 1]
  <2>1. 1 \in 1..L
    BY <1>1
  <2> QED
    BY <1>4, <1>5, <2>1
<1>10. ASSUME NEW i \in 1..(n + 1), longer[i].by = g
       PROVE  /\ more[i] \in (a + 1)..(said + 1) /\ longer[i].msg = msg /\ longer[i].line = all[more[i]]
  <2>1. CASE i = n + 1
    BY <1>3, <1>6, <1>7, <1>9, <2>1
  <2>2. CASE i \in 1..n
    <3>1. num[i] \in (a + 1)..said /\ pipe[i].msg = msg /\ pipe[i].line = all[num[i]]
      BY <1>3, <1>4, <1>10, <2>2
    <3>2. num[i] \in (a + 1)..(said + 1)
      BY <1>1, <1>6, <3>1
    <3> QED
      BY <1>3, <1>7, <2>2, <3>1, <3>2
  <2> QED
    BY <1>7, <2>1, <2>2
<1>11. ASSUME NEW i \in 1..(n + 1), NEW j \in 1..(n + 1), longer[i].by = g, longer[j].by = g, i < j
       PROVE  more[i] < more[j]
  <2>1. i \in 1..n
    BY <1>1, <1>11
  <2>2. num[i] \in (a + 1)..said
    BY <1>3, <1>4, <1>11, <2>1
  <2>3. CASE j = n + 1
    <3>1. num[i] < said + 1
      BY <1>1, <1>6, <2>2
    <3> QED
      BY <1>7, <2>1, <2>3, <3>1
  <2>4. CASE j \in 1..n
    BY <1>3, <1>4, <1>7, <1>11, <2>1, <2>4
  <2> QED
    BY <1>7, <2>3, <2>4
<1>12. ASSUME NEW k \in (a + 1)..(said + 1)
       PROVE  \E i \in 1..(n + 1) : longer[i].by = g /\ more[i] = k
  <2>1. CASE k = said + 1
    BY <1>3, <1>7, <2>1
  <2>2. CASE k # said + 1
    <3>1. k \in (a + 1)..said
      BY <1>1, <1>6, <2>2
    <3>2. PICK i \in 1..n : pipe[i].by = g /\ num[i] = k
      BY <1>4, <3>1
    <3> QED
      BY <1>3, <1>7, <3>2
  <2> QED
    BY <2>1, <2>2
<1>13. Speaks(g, msg, h, after, longer, more)
  <2>1. Len(all) - Len(after) = said + 1
    BY <1>2, <1>6 DEF A
  <2>2. Len(after) = L - 1 /\ Len(longer) = n + 1
    BY <1>2, <1>3
  <2> QED
    BY <1>4, <1>6, <1>8, <1>10, <1>11, <1>12, <2>1, <2>2 DEF Speaks, all, a
<1> QED
  BY <1>13 DEF after, longer

LEMMA SpeaksBeside ==
  ASSUME NEW g, NEW msg, NEW h, NEW left, NEW pipe \in Seq(Said), NEW num,
         Speaks(g, msg, h, left, pipe, num), NEW x \in Said, x.by # g
  PROVE  Speaks(g, msg, h, left, Append(pipe, x), num)
<1> DEFINE longer == Append(pipe, x)
           n == Len(pipe)
<1>1. n \in Nat /\ Len(longer) = n + 1 /\ longer[n + 1] = x /\ \A i \in 1..n : longer[i] = pipe[i]
  BY AppendProperties
<1> HIDE DEF longer
<1>2. \A i \in 1..(n + 1) : longer[i].by = g => i \in 1..n
  <2>1. \A i \in 1..(n + 1) : i = n + 1 \/ i \in 1..n
    BY <1>1
  <2> QED
    BY <1>1, <2>1
<1>3. \A i \in 1..n : i \in 1..(n + 1)
  BY <1>1
<1>4. Speaks(g, msg, h, left, longer, num)
  BY <1>1, <1>2, <1>3 DEF Speaks, n
<1> QED
  BY <1>4 DEF longer

\* The first of a speaker's lines is read.
LEMMA SpeaksHeard ==
  ASSUME NEW g, NEW msg \in AllMsgs, NEW S, NEW h \in Seq(S), NEW left \in Seq(ShortLine),
         NEW pipe \in Seq(Said), pipe # <<>>, NEW num, Speaks(g, msg, h, left, pipe, num),
         Head(pipe).by = g,
         [msg |-> msg, got |-> ParseLine(Head(pipe).line)] \in S
  PROVE  /\ Head(pipe).msg = msg
         /\ \E less : Speaks(g, msg, Append(h, [msg |-> msg, got |-> ParseLine(Head(pipe).line)]),
                             left, Tail(pipe), less)
<1> DEFINE all == Lines(msg)
           said == Len(all) - Len(left)
           one == [msg |-> msg, got |-> ParseLine(Head(pipe).line)]
           after == Append(h, one)
           rest == Tail(pipe)
           n == Len(pipe)
           less == [i \in 1..(n - 1) |-> num[i + 1]]
           a == Len(h)
<1>1. a \in Nat /\ Len(left) \in Nat /\ Len(all) \in Nat /\ n \in Nat \ {0}
  BY LinesShort
<1>2. Len(rest) = n - 1 /\ Head(pipe) = pipe[1] /\ \A i \in 1..(n - 1) : rest[i] = pipe[i + 1]
  BY HeadTailProperties
<1>3. Len(after) = a + 1 /\ after[a + 1] = one /\ \A j \in 1..a : after[j] = h[j]
  BY AppendProperties
<1>4. /\ a <= said
      /\ \A k \in 1..Len(left) : left[k] = all[said + k]
      /\ \A j \in 1..a : h[j] = [msg |-> msg, got |-> ParseLine(all[j])]
      /\ \A i \in 1..n : pipe[i].by = g =>
           /\ num[i] \in (a + 1)..said /\ pipe[i].msg = msg /\ pipe[i].line = all[num[i]]
      /\ \A i, j \in 1..n : pipe[i].by = g /\ pipe[j].by = g /\ i < j => num[i] < num[j]
      /\ \A k \in (a + 1)..said : \E i \in 1..n : pipe[i].by = g /\ num[i] = k
  BY DEF Speaks
<1>5. one = [msg |-> msg, got |-> ParseLine(pipe[1].line)]
  BY <1>2
<1>6. said \in Int
  BY <1>1
<1>7. pipe[1].by = g /\ 1 \in 1..n
  BY <1>1, <1>2
<1> HIDE DEF all, said, after, rest, n, a, one
<1>8. num[1] = a + 1 /\ a + 1 <= said /\ pipe[1].msg = msg /\ pipe[1].line = all[a + 1]
  <2>1. num[1] \in (a + 1)..said /\ pipe[1].msg = msg /\ pipe[1].line = all[num[1]]
    BY <1>4, <1>7
  <2>2. a + 1 \in (a + 1)..said /\ a + 1 <= num[1] /\ num[1] \in Int
    BY <1>1, <1>6, <2>1
  <2>3. PICK i \in 1..n : pipe[i].by = g /\ num[i] = a + 1
    BY <1>4, <2>2
  <2>4. i = 1
    <3>1. ASSUME i # 1 PROVE FALSE
      <4>1. 1 < i
        BY <1>1, <3>1
      <4>2. num[1] < a + 1
        BY <1>4, <1>7, <2>3, <4>1
      <4> QED
        BY <1>1, <2>2, <4>2
    <3> QED
      BY <3>1
  <2> QED
    BY <1>1, <1>6, <2>1, <2>2, <2>3, <2>4
<1>9. \A i \in 1..(n - 1) : i + 1 \in 1..n /\ less[i] = num[i + 1] /\ 1 < i + 1
  BY <1>1
<1> HIDE DEF less
<1>10. \A j \in 1..(a + 1) : after[j] = [msg |-> msg, got |-> ParseLine(all[j])]
  <2>1. \A j \in 1..(a + 1) : j = a + 1 \/ j \in 1..a
    BY <1>1
  <2>2. after[a + 1] = [msg |-> msg, got |-> ParseLine(all[a + 1])]
    BY <1>3, <1>5, <1>8
  <2> QED
    BY <1>3, <1>4, <2>1, <2>2
<1>11. ASSUME NEW i \in 1..(n - 1), rest[i].by = g
       PROVE  /\ less[i] \in ((a + 1) + 1)..said /\ rest[i].msg = msg /\ rest[i].line = all[less[i]]
  <2>1. PICK k \in 1..n : k = i + 1 /\ rest[i] = pipe[k] /\ less[i] = num[k] /\ 1 < k
    BY <1>2, <1>9
  <2>2. num[k] \in (a + 1)..said /\ pipe[k].msg = msg /\ pipe[k].line = all[num[k]]
    BY <1>4, <1>11, <2>1
  <2>3. num[1] < num[k]
    BY <1>4, <1>7, <1>11, <2>1
  <2>4. num[k] \in ((a + 1) + 1)..said
    BY <1>1, <1>6, <1>8, <2>2, <2>3
  <2> QED
    BY <2>1, <2>2, <2>4
<1>12. ASSUME NEW i \in 1..(n - 1), NEW j \in 1..(n - 1), rest[i].by = g, rest[j].by = g, i < j
       PROVE  less[i] < less[j]
  <2>1. i + 1 < j + 1
    BY <1>12
  <2>2. rest[i] = pipe[i + 1] /\ rest[j] = pipe[j + 1]
    BY <1>2
  <2>3. num[i + 1] < num[j + 1]
    BY <1>4, <1>9, <1>12, <2>1, <2>2
  <2> QED
    BY <1>9, <2>3
<1>13. ASSUME NEW k \in ((a + 1) + 1)..said
       PROVE  \E i \in 1..(n - 1) : rest[i].by = g /\ less[i] = k
  <2>1. k \in (a + 1)..said /\ k # a + 1
    BY <1>1, <1>6
  <2>2. PICK j \in 1..n : pipe[j].by = g /\ num[j] = k
    BY <1>4, <2>1
  <2>3. j # 1
    BY <1>8, <2>1, <2>2
  <2>4. PICK i \in 1..(n - 1) : i + 1 = j
    <3>1. j - 1 \in 1..(n - 1) /\ (j - 1) + 1 = j
      BY <1>1, <2>3
    <3> QED
      BY <3>1
  <2> QED
    BY <1>2, <1>9, <2>2, <2>4
<1>14. Speaks(g, msg, after, left, rest, less)
  <2>1. said = Len(all) - Len(left)
    BY DEF said
  <2> QED
    BY <1>2, <1>3, <1>4, <1>8, <1>10, <1>11, <1>12, <1>13, <2>1 DEF Speaks, all
<1> QED
  BY <1>2, <1>8, <1>14 DEF after, rest, one

\* Another's line is read.
LEMMA SpeaksPassed ==
  ASSUME NEW g, NEW msg \in AllMsgs, NEW h, NEW left, NEW pipe \in Seq(Said), pipe # <<>>,
         NEW num, Speaks(g, msg, h, left, pipe, num), Head(pipe).by # g
  PROVE  \E less : Speaks(g, msg, h, left, Tail(pipe), less)
<1> DEFINE rest == Tail(pipe)
           n == Len(pipe)
           less == [i \in 1..(n - 1) |-> num[i + 1]]
           said == Len(Lines(msg)) - Len(left)
           a == Len(h)
<1>1. n \in Nat \ {0}
  OBVIOUS
<1>2. Len(rest) = n - 1 /\ Head(pipe) = pipe[1] /\ \A i \in 1..(n - 1) : rest[i] = pipe[i + 1]
  BY HeadTailProperties
<1>3. /\ \A i \in 1..n : pipe[i].by = g =>
           /\ num[i] \in (a + 1)..said /\ pipe[i].msg = msg /\ pipe[i].line = Lines(msg)[num[i]]
      /\ \A i, j \in 1..n : pipe[i].by = g /\ pipe[j].by = g /\ i < j => num[i] < num[j]
      /\ \A k \in (a + 1)..said : \E i \in 1..n : pipe[i].by = g /\ num[i] = k
  BY DEF Speaks
<1> HIDE DEF rest, n
<1>4. \A i \in 1..(n - 1) : i + 1 \in 1..n /\ less[i] = num[i + 1]
  BY <1>1
<1> HIDE DEF less, said, a
<1>5. \A i \in 1..(n - 1) : rest[i].by = g =>
        less[i] \in (a + 1)..said /\ rest[i].msg = msg /\ rest[i].line = Lines(msg)[less[i]]
  BY <1>2, <1>3, <1>4
<1>6. ASSUME NEW i \in 1..(n - 1), NEW j \in 1..(n - 1), rest[i].by = g, rest[j].by = g, i < j
      PROVE  less[i] < less[j]
  <2>1. i + 1 < j + 1 /\ rest[i] = pipe[i + 1] /\ rest[j] = pipe[j + 1]
    BY <1>2, <1>6
  <2>2. num[i + 1] < num[j + 1]
    BY <1>3, <1>4, <1>6, <2>1
  <2> QED
    BY <1>4, <2>2
<1>7. ASSUME NEW k \in (a + 1)..said
      PROVE  \E i \in 1..(n - 1) : rest[i].by = g /\ less[i] = k
  <2>1. PICK j \in 1..n : pipe[j].by = g /\ num[j] = k
    BY <1>3
  <2>2. j # 1
    BY <1>2, <2>1
  <2>3. PICK i \in 1..(n - 1) : i + 1 = j
    <3>1. j - 1 \in 1..(n - 1) /\ (j - 1) + 1 = j
      BY <1>1, <2>2
    <3> QED
      BY <3>1
  <2> QED
    BY <1>2, <1>4, <2>1, <2>3
<1>8. Speaks(g, msg, h, left, rest, less)
  BY <1>2, <1>5, <1>6, <1>7 DEF Speaks, said, a
<1> QED
  BY <1>8 DEF rest

-----------------------------------------------------------------------------
(* Whoever has spoken says one message.                                    *)

Heard == [msg : AllMsgs, got : {ParseLine(line) : line \in ShortLine}]
HeardOK == \A g \in DOMAIN heard : g \in Goroutines /\ heard[g] \in Seq(Heard) /\ heard[g] # <<>>

\* No line of it has been said.
Silent(g) ==
  /\ g \notin DOMAIN heard /\ \A i \in 1..Len(Pipe) : Pipe[i].by # g
  /\ g \in DOMAIN tasks => tasks[g].do # "saying"

\* It says a message, or has said it; its dispatch runs, or is over.
Spoke(g, msg) ==
  /\ \E num : Speaks(g, msg, HeardOf(g), LeftOf(g), Pipe, num)
  /\ g \in DOMAIN tasks => tasks[g].do = "saying" /\ tasks[g].msg = msg
  /\ g[1] \in 1..Len(lines) /\ g[2] \in Sets /\ frames[<<g[1], g[2]>>] \in {"run", "done"}

Stream(g) == Silent(g) \/ \E msg \in AllMsgs : Spoke(g, msg)
StreamInv == HeardOK /\ \A g \in Goroutines : Stream(g)

LEMMA PipeType == ASSUME TypeInv PROVE Pipe \in Seq(Said)
<1>1. sending \in Seq(Said) /\ out \in Seq(Said)
  BY EmptySeq DEF TypeInv, QueueOK
<1> QED
  BY <1>1, ConcatProperties DEF Pipe

LEMMA OneAhead ==
  ASSUME NEW S, NEW y \in S, NEW s \in Seq(S)
  PROVE  LET t == <<y>> \o s
         IN  t \in Seq(S) /\ t # <<>> /\ Head(t) = y /\ Tail(t) = s
<1> DEFINE t == <<y>> \o s
           n == Len(s)
<1>1. <<y>> \in Seq(S) /\ Len(<<y>>) = 1 /\ <<y>>[1] = y /\ n \in Nat
  OBVIOUS
<1> HIDE DEF n
<1>2. /\ t \in Seq(S) /\ Len(t) = Len(<<y>>) + Len(s)
      /\ \A i \in 1..(Len(<<y>>) + Len(s)) : t[i] = IF i <= Len(<<y>>) THEN <<y>>[i] ELSE s[i - Len(<<y>>)]
  BY <1>1, ConcatProperties
<1> HIDE DEF t
<1>3. Len(t) = 1 + n /\ \A i \in 1..(1 + n) : t[i] = IF i <= 1 THEN <<y>>[i] ELSE s[i - 1]
  BY <1>1, <1>2, Zenon DEF n
<1>4. t[1] = y /\ \A i \in 1..n : t[i + 1] = s[i]
  <2>1. 1 \in 1..(1 + n) /\ \A i \in 1..n : i + 1 \in 1..(1 + n) /\ ~(i + 1 <= 1) /\ (i + 1) - 1 = i
    BY <1>1
  <2> QED
    BY <1>1, <1>3, <2>1
<1>5. t # <<>>
  BY <1>1, <1>3
<1>6. /\ Head(t) = t[1] /\ Tail(t) \in Seq(S) /\ Len(Tail(t)) = Len(t) - 1
      /\ \A i \in 1..(Len(t) - 1) : Tail(t)[i] = t[i + 1]
  BY <1>2, <1>5, HeadTailProperties
<1>7. Tail(t) = s
  <2>1. Len(t) - 1 = n
    BY <1>1, <1>3
  <2>2. \A i \in 1..n : Tail(t)[i] = s[i]
    BY <1>4, <1>6, <2>1
  <2>3. Len(Tail(t)) = Len(s)
    BY <1>6, <2>1 DEF n
  <2> QED
    BY <1>6, <2>1, <2>2, <2>3, SeqEqual
<1> QED
  BY <1>2, <1>4, <1>5, <1>6, <1>7 DEF t

\* What send takes it still has to write.
LEMMA PipeTakes ==
  ASSUME TypeInv, sending = <<>>, out # <<>>, sending' = <<Head(out)>>, out' = Tail(out)
  PROVE  Pipe' = Pipe
<1>1. out \in Seq(Said) /\ out # <<>>
  BY DEF TypeInv, QueueOK
<1>2. Head(out) \in Said /\ Tail(out) \in Seq(Said)
  BY <1>1
<1> DEFINE t == <<Head(out)>> \o Tail(out)
<1>3. t \in Seq(Said) /\ t # <<>> /\ Head(t) = Head(out) /\ Tail(t) = Tail(out)
  BY <1>2, OneAhead
<1> HIDE DEF t
<1>4. Len(t) = Len(out) /\ \A i \in 1..Len(t) : t[i] = out[i]
  <2> DEFINE n == Len(out)
  <2>1. n \in Nat \ {0} /\ Len(t) \in Nat \ {0}
    BY <1>1, <1>3
  <2>2. /\ Head(t) = t[1] /\ Len(Tail(t)) = Len(t) - 1
        /\ \A i \in 1..(Len(t) - 1) : Tail(t)[i] = t[i + 1]
    BY <1>3, HeadTailProperties
  <2>3. /\ Head(out) = out[1] /\ Len(Tail(out)) = n - 1
        /\ \A i \in 1..(n - 1) : Tail(out)[i] = out[i + 1]
    BY <1>1, HeadTailProperties
  <2> HIDE DEF n
  <2>4. Len(t) = n
    <3> DEFINE m == Len(t)
    <3>1. m - 1 = n - 1
      BY <1>3, <2>2, <2>3
    <3>2. m \in Nat /\ n \in Nat
      BY <2>1
    <3> HIDE DEF m
    <3>3. m = n
      BY <3>1, <3>2
    <3> QED
      BY <3>3 DEF m
  <2>5. ASSUME NEW i \in 1..n PROVE t[i] = out[i]
    <3>1. CASE i = 1
      BY <1>3, <2>2, <2>3, <3>1
    <3>2. CASE i # 1
      <4>1. PICK k \in 1..(n - 1) : k + 1 = i
        <5>1. i - 1 \in 1..(n - 1) /\ (i - 1) + 1 = i
          BY <2>1, <3>2
        <5> QED
          BY <5>1
      <4> QED
        BY <1>3, <2>2, <2>3, <2>4, <4>1
    <3> QED
      BY <3>1, <3>2
  <2> QED
    BY <2>4, <2>5 DEF n
<1>5. t = out
  BY <1>1, <1>3, <1>4, SeqEqual
<1>6. <<>> \o out = out
  BY <1>1, ConcatEmptySeq
<1> QED
  BY <1>5, <1>6 DEF Pipe, t

LEMMA PipeSays ==
  ASSUME TypeInv, NEW x \in Said, out' = Append(out, x), sending' = sending
  PROVE  Pipe' = Append(Pipe, x)
<1>1. out \in Seq(Said) /\ sending \in Seq(Said) /\ <<x>> \in Seq(Said)
  <2>1. <<x>> \in Seq(Said)
    OBVIOUS
  <2> QED
    BY <2>1, EmptySeq DEF TypeInv, QueueOK
<1>2. Append(out, x) = out \o <<x>> /\ Append(Pipe, x) = Pipe \o <<x>>
  BY <1>1, PipeType, AppendIsConcat
<1>3. (sending \o out) \o <<x>> = sending \o (out \o <<x>>)
  BY <1>1, ConcatAssociative
<1> QED
  BY <1>2, <1>3 DEF Pipe

LEMMA PipeWrites ==
  ASSUME TypeInv, sending # <<>>, sending' = <<>>, out' = out
  PROVE  Pipe # <<>> /\ Head(Pipe) = sending[1] /\ Pipe' = Tail(Pipe)
<1>1. out \in Seq(Said) /\ sending \in Seq(Said) /\ Len(sending) = 1
  BY DEF TypeInv, QueueOK
<1> DEFINE y == sending[1]
<1>2. y \in Said
  BY <1>1
<1>3. sending = <<y>>
  <2> HIDE DEF y
  <2>1. <<y>> \in Seq(Said) /\ Len(<<y>>) = 1 /\ <<y>>[1] = y
    BY <1>2
  <2>2. \A i \in 1..1 : sending[i] = <<y>>[i]
    BY <2>1 DEF y
  <2> QED
    BY <1>1, <2>1, <2>2, SeqEqual
<1> HIDE DEF y
<1>4. LET t == <<y>> \o out IN t # <<>> /\ Head(t) = y /\ Tail(t) = out
  BY <1>1, <1>2, OneAhead
<1>5. <<>> \o out = out
  BY <1>1, ConcatEmptySeq
<1>6. Pipe = <<y>> \o out /\ Pipe' = <<>> \o out
  BY <1>3 DEF Pipe
<1> QED
  BY <1>4, <1>5, <1>6 DEF y

LEMMA MainApart == \A g \in Goroutines : g # Main
BY DEF Goroutines, Main, Sets

\* A goroutine that is left alone.
LEMMA StreamKept ==
  ASSUME NEW g, Stream(g), UNCHANGED heard, Pipe' = Pipe,
         g \in DOMAIN tasks <=> g \in DOMAIN tasks', g \in DOMAIN tasks => tasks'[g] = tasks[g],
         Len(lines) \in Nat, Len(lines') \in Nat, Len(lines) <= Len(lines'),
         g[1] \in 1..Len(lines) /\ g[2] \in Sets /\ frames[<<g[1], g[2]>>] \in {"run", "done"} =>
           frames'[<<g[1], g[2]>>] \in {"run", "done"}
  PROVE  Stream(g)'
<1>1. CASE Silent(g)
  BY <1>1 DEF Stream, Silent
<1>2. ASSUME NEW msg \in AllMsgs, Spoke(g, msg) PROVE Stream(g)'
  <2>1. HeardOf(g)' = HeardOf(g) /\ LeftOf(g)' = LeftOf(g)
    BY DEF HeardOf, LeftOf
  <2>2. (\E num : Speaks(g, msg, HeardOf(g), LeftOf(g), Pipe, num))'
    BY <1>2, <2>1 DEF Spoke
  <2>3. g[1] \in 1..Len(lines')
    BY <1>2 DEF Spoke
  <2>4. Spoke(g, msg)'
    BY <1>2, <2>2, <2>3 DEF Spoke
  <2> QED
    BY <2>4 DEF Stream
<1> QED
  BY <1>1, <1>2 DEF Stream

\* One that has said nothing goes on without a word.
LEMMA SilentKept ==
  ASSUME NEW g, Silent(g), UNCHANGED heard, Pipe' = Pipe,
         g \in DOMAIN tasks' => tasks'[g].do # "saying"
  PROVE  Stream(g)'
BY DEF Stream, Silent

LEMMA HeardSame == ASSUME HeardOK, UNCHANGED heard PROVE HeardOK'
BY DEF HeardOK

\* All go on as they were.
LEMMA StreamSame ==
  ASSUME TypeInv, StreamInv, UNCHANGED <<heard, out, sending>>,
         \A g \in Goroutines : /\ g \in DOMAIN tasks <=> g \in DOMAIN tasks'
                               /\ g \in DOMAIN tasks => tasks'[g] = tasks[g],
         Grown, \A i \in 1..Len(lines), s \in Sets : frames'[<<i, s>>] = frames[<<i, s>>]
  PROVE  StreamInv'
<1>1. HeardOK'
  BY HeardSame DEF StreamInv
<1>2. Pipe' = Pipe
  BY DEF Pipe
<1>3. ASSUME NEW g \in Goroutines PROVE Stream(g)'
  <2>1. Stream(g)
    BY DEF StreamInv
  <2>2. Len(lines) \in Nat /\ Len(lines') \in Nat /\ Len(lines) <= Len(lines')
    BY DEF Grown
  <2> QED
    BY <1>2, <2>1, <2>2, StreamKept
<1> QED
  BY <1>1, <1>3 DEF StreamInv

LEMMA StreamLoopTake ==
  ASSUME TypeInv, StreamInv, LoopTake(cfg.takes), UNCHANGED <<floodVars, ioVars>>
  PROVE  StreamInv'
<1>1. PICK x : LineCame(x)
  BY LoopTakeType
<1>2. Grown /\ \A i \in 1..Len(lines), s \in Sets : frames'[<<i, s>>] = frames[<<i, s>>]
  BY <1>1, LineCameIs DEF Grown
<1>3. UNCHANGED tasks /\ UNCHANGED <<heard, out, sending>>
  BY DEF LoopTake, ioVars
<1> QED
  BY <1>2, <1>3, StreamSame

LEMMA StreamRLock ==
  ASSUME TypeInv, StreamInv, NEW i \in DOMAIN lines, NEW s \in Sets, RLock(i, s),
         UNCHANGED <<floodVars, ioVars>>
  PROVE  StreamInv'
<1>1. HeardOK' /\ UNCHANGED <<heard, out, sending, lines>>
  BY HeardSame DEF StreamInv, ioVars, RLock
<1>2. Pipe' = Pipe
  BY <1>1 DEF Pipe
<1>3. /\ \A g \in DOMAIN tasks : g \in DOMAIN tasks' /\ tasks'[g] = tasks[g]
      /\ \A g \in DOMAIN tasks' \ DOMAIN tasks :
           g[1] = i /\ g[2] = s /\ g[3] \in Nodes /\ tasks'[g] = Body[g[3]]
  BY RLockType
<1>4. frames[<<i, s>>] = "want" /\ frames' = [frames EXCEPT ![<<i, s>>] = "run"]
  BY DEF RLock
<1>5. Len(lines) \in Nat /\ Len(lines') = Len(lines)
  BY <1>1 DEF TypeInv, LinesOK, Ordered
<1>6. DOMAIN frames = (1..Len(lines)) \X Sets
  BY DEF TypeInv, FramesOK
<1>7. ASSUME NEW g \in Goroutines PROVE Stream(g)'
  <2>1. Stream(g)
    BY DEF StreamInv
  <2>2. CASE g \in DOMAIN tasks <=> g \in DOMAIN tasks'
    <3>1. g[1] \in 1..Len(lines) /\ g[2] \in Sets /\ frames[<<g[1], g[2]>>] \in {"run", "done"} =>
            frames'[<<g[1], g[2]>>] \in {"run", "done"}
      BY <1>4, <1>6
    <3> QED
      BY <1>1, <1>2, <1>3, <1>5, <2>1, <2>2, <3>1, StreamKept
  <2>3. CASE ~(g \in DOMAIN tasks <=> g \in DOMAIN tasks')
    <3>1. g[1] = i /\ g[2] = s /\ g[3] \in Nodes /\ tasks'[g] = Body[g[3]]
      BY <1>3, <2>3
    <3>2. Silent(g)
      <4>1. ASSUME NEW msg, Spoke(g, msg) PROVE FALSE
        BY <1>4, <3>1, <4>1 DEF Spoke
      <4> QED
        BY <2>1, <4>1 DEF Stream
    <3>3. tasks'[g].do # "saying"
      BY <3>1, HandlerConstants
    <3> QED
      BY <1>1, <1>2, <3>2, <3>3, SilentKept
  <2> QED
    BY <2>2, <2>3
<1> QED
  BY <1>1, <1>7 DEF StreamInv

LEMMA StreamRUnlock ==
  ASSUME TypeInv, StreamInv, NEW i \in DOMAIN lines, NEW s \in Sets, RUnlock(i, s),
         UNCHANGED <<floodVars, ioVars>>
  PROVE  StreamInv'
<1>1. HeardOK' /\ UNCHANGED <<heard, out, sending, lines, tasks>>
  BY HeardSame DEF StreamInv, ioVars, RUnlock
<1>2. Pipe' = Pipe
  BY <1>1 DEF Pipe
<1>3. frames' = [f \in DOMAIN frames |->
         IF f = <<i, s>> THEN "done" ELSE IF s = "int" /\ f[1] = i THEN "want" ELSE frames[f]]
      /\ frames[<<i, s>>] = "run"
  BY DEF RUnlock
<1>4. Len(lines) \in Nat /\ Len(lines') = Len(lines) /\ i \in 1..Len(lines)
  BY <1>1 DEF TypeInv, LinesOK, Ordered
<1>5. DOMAIN frames = (1..Len(lines)) \X Sets
  BY DEF TypeInv, FramesOK
<1>6. s = "int" => frames[<<i, "bg">>] = "idle" /\ frames[<<i, "fg">>] = "idle"
  BY <1>3, <1>4 DEF TypeInv, FramesOK
<1>7. ASSUME NEW g \in Goroutines PROVE Stream(g)'
  <2>1. ASSUME g[1] \in 1..Len(lines), g[2] \in Sets, frames[<<g[1], g[2]>>] \in {"run", "done"}
        PROVE  frames'[<<g[1], g[2]>>] \in {"run", "done"}
    <3>1. CASE g[1] = i /\ g[2] = s
      BY <1>3, <1>5, <2>1, <3>1
    <3>2. CASE ~(g[1] = i /\ g[2] = s)
      <4>1. ~(s = "int" /\ g[1] = i)
        BY <1>6, <2>1, <3>2 DEF Sets
      <4> QED
        BY <1>3, <1>5, <2>1, <3>2, <4>1
    <3> QED
      BY <3>1, <3>2
  <2>2. Stream(g)
    BY DEF StreamInv
  <2> QED
    BY <1>1, <1>2, <1>4, <2>1, <2>2, StreamKept
<1> QED
  BY <1>1, <1>7 DEF StreamInv

LEMMA StreamMainGoes ==
  ASSUME TypeInv, StreamInv, MainGoes
  PROVE  StreamInv'
<1>1. UNCHANGED <<lines, frames, heard, out, sending>>
  BY DEF MainGoes
<1>2. \A g \in Goroutines : /\ g \in DOMAIN tasks <=> g \in DOMAIN tasks'
                            /\ g \in DOMAIN tasks => tasks'[g] = tasks[g]
  BY MainApart DEF MainGoes
<1>3. Grown
  BY <1>1, SameLines
<1> QED
  BY <1>1, <1>2, <1>3, StreamSame

\* A goroutine does something else than saying.
LEMMA StreamQuiet ==
  ASSUME TypeInv, StreamInv, NEW g \in DOMAIN tasks, tasks[g].do # "saying",
         UNCHANGED <<heard, out, sending>>, Grown,
         \A i \in 1..Len(lines), s \in Sets : frames'[<<i, s>>] = frames[<<i, s>>],
         Ended(g) \/ \E task : Goes(g, task) /\ task.do # "saying"
  PROVE  StreamInv'
<1>1. /\ \A h \in DOMAIN tasks : h # g => h \in DOMAIN tasks' /\ tasks'[h] = tasks[h]
      /\ \A h \in DOMAIN tasks' : h \in DOMAIN tasks
      /\ g \in DOMAIN tasks' => tasks'[g].do # "saying"
  <2>1. CASE Ended(g)
    <3>1. tasks' = [h \in DOMAIN tasks \ {g} |-> tasks[h]]
      BY <2>1 DEF Ended, Without
    <3> QED
      BY <3>1
  <2>2. ASSUME NEW task, Goes(g, task), task.do # "saying"
        PROVE  /\ \A h \in DOMAIN tasks : h # g => h \in DOMAIN tasks' /\ tasks'[h] = tasks[h]
               /\ \A h \in DOMAIN tasks' : h \in DOMAIN tasks
               /\ tasks'[g].do # "saying"
    BY <2>2 DEF Goes
  <2> QED
    BY <2>1, <2>2
<1>2. HeardOK'
  BY HeardSame DEF StreamInv
<1>3. Pipe' = Pipe
  BY DEF Pipe
<1>4. ASSUME NEW h \in Goroutines PROVE Stream(h)'
  <2>1. Stream(h)
    BY DEF StreamInv
  <2>2. CASE h = g
    <3>1. Silent(h)
      <4>1. ASSUME NEW msg, Spoke(h, msg) PROVE FALSE
        BY <2>2, <4>1 DEF Spoke
      <4> QED
        BY <2>1, <4>1 DEF Stream
    <3> QED
      BY <1>1, <1>3, <2>2, <3>1, SilentKept
  <2>3. CASE h # g
    <3>1. h \in DOMAIN tasks <=> h \in DOMAIN tasks'
      BY <1>1, <2>3
    <3>2. h \in DOMAIN tasks => tasks'[h] = tasks[h]
      BY <1>1, <2>3
    <3>3. Len(lines) \in Nat /\ Len(lines') \in Nat /\ Len(lines) <= Len(lines')
      BY DEF Grown
    <3> QED
      BY <1>3, <2>1, <3>1, <3>2, <3>3, StreamKept
  <2> QED
    BY <2>2, <2>3
<1> QED
  BY <1>2, <1>4 DEF StreamInv

LEMMA StreamTaskStep ==
  ASSUME TypeInv, StreamInv, NEW g \in DOMAIN tasks, TaskStep(g), UNCHANGED <<floodVars, ioVars>>
  PROVE  StreamInv'
<1>1. UNCHANGED <<heard, out, sending>>
  BY DEF ioVars
<1>2. CASE Dispatches(g)
  <2>1. PICK x : LineCame(x)
    BY <1>2, DispatchesType
  <2>2. Grown /\ \A i \in 1..Len(lines), s \in Sets : frames'[<<i, s>>] = frames[<<i, s>>]
    BY <2>1, LineCameIs DEF Grown
  <2>3. tasks[g].do # "saying" /\ Goes(g, [do |-> "waiting", line |-> Len(lines) + 1])
    BY <1>2 DEF Dispatches
  <2>4. [do |-> "waiting", line |-> Len(lines) + 1].do # "saying"
    OBVIOUS
  <2> QED
    BY <1>1, <2>2, <2>3, <2>4, StreamQuiet
<1>3. CASE Returns(g) \/ DispatchReturns(g) \/ Edits(g)
  <2>1. UNCHANGED <<lines, frames>> /\ Ended(g) /\ tasks[g].do # "saying"
    BY <1>3 DEF Returns, DispatchReturns, Edits, Editing
  <2>2. Grown
    BY <2>1, SameLines
  <2> QED
    BY <1>1, <2>1, <2>2, StreamQuiet
<1>4. CASE AsksToEdit(g)
  <2>1. UNCHANGED <<lines, frames>> /\ tasks[g].do # "saying"
    BY <1>4 DEF AsksToEdit
  <2>2. Grown
    BY <2>1, SameLines
  <2>3. \E task : Goes(g, task) /\ task.do # "saying"
    <3>1. PICK task \in {[do |-> "adding", node |-> tasks[g].node],
                        [do |-> "removing", node |-> tasks[g].node], [do |-> "panic"]} :
            Goes(g, task)
      BY <1>4 DEF AsksToEdit
    <3>2. task.do # "saying"
      BY <3>1
    <3> QED
      BY <3>1, <3>2
  <2> QED
    BY <1>1, <2>1, <2>2, <2>3, StreamQuiet
<1> QED
  BY <1>2, <1>3, <1>4 DEF TaskStep

LEMMA HeardType ==
  ASSUME HeardOK, NEW g
  PROVE  HeardOf(g) \in Seq(Heard)
BY EmptySeq DEF HeardOK, HeardOf

LEMMA StreamSays ==
  ASSUME TypeInv, StreamInv, NEW g \in DOMAIN tasks, Says(g)
  PROVE  StreamInv'
<1>1. /\ g # Main /\ g[3] \in Nodes /\ g \in Goroutines /\ g[1] \in 1..Len(lines) /\ g[2] \in Sets
      /\ frames[<<g[1], g[2]>>] = "run" /\ TaskOK(g) /\ tasks[g].do \in {"say", "saying"}
  BY GoroutineIs DEF TypeInv, TaskOK, Says
<1>2. PICK msg \in (IF tasks[g].do = "say" THEN Msgs[g[3]] ELSE {tasks[g].msg}) :
        LET left == IF tasks[g].do = "say" THEN Lines(msg) ELSE tasks[g].left
        IN  /\ out' = Append(out, [by |-> g, msg |-> msg, line |-> Head(left)])
            /\ IF Tail(left) = <<>> THEN Ended(g)
               ELSE Goes(g, [do |-> "saying", msg |-> msg, left |-> Tail(left)])
  BY DEF Says
<1> DEFINE left == IF tasks[g].do = "say" THEN Lines(msg) ELSE tasks[g].left
           x == [by |-> g, msg |-> msg, line |-> Head(left)]
           after == Tail(left)
           task == [do |-> "saying", msg |-> msg, left |-> after]
<1>3. out' = Append(out, x) /\ IF after = <<>> THEN Ended(g) ELSE Goes(g, task)
  BY <1>2
<1>4. msg \in AllMsgs /\ (tasks[g].do = "saying" => msg = tasks[g].msg)
  BY <1>1, <1>2 DEF AllMsgs, TaskOK
<1>5. left \in Seq(ShortLine) /\ left # <<>>
  BY <1>1, <1>4, LinesShort DEF TaskOK
<1>6. /\ tasks[g].do = "say" => left = Lines(msg)
      /\ tasks[g].do = "saying" => left = tasks[g].left
  OBVIOUS
<1>7. x.by = g /\ x.msg = msg /\ x.line = Head(left)
  OBVIOUS
<1>8. task.do = "saying" /\ task.msg = msg /\ task.left = after
  OBVIOUS
<1> HIDE DEF left
<1>9. Head(left) \in ShortLine /\ after \in Seq(ShortLine)
  BY <1>5
<1>10. x \in Said
  BY <1>1, <1>4, <1>9 DEF Said
<1> HIDE DEF x, task
<1>11. UNCHANGED <<lines, frames, heard, sending>>
  BY DEF Says
<1>12. Pipe' = Append(Pipe, x) /\ Pipe \in Seq(Said)
  BY <1>3, <1>10, <1>11, PipeSays, PipeType
<1>13. HeardOK /\ HeardOK' /\ HeardOf(g) \in Seq(Heard) /\ Len(HeardOf(g)) \in Nat
  <2>1. HeardOK /\ HeardOf(g) \in Seq(Heard)
    BY HeardType DEF StreamInv
  <2> QED
    BY <1>11, <2>1, HeardSame
<1>14. /\ \A h \in DOMAIN tasks : h # g => h \in DOMAIN tasks' /\ tasks'[h] = tasks[h]
       /\ \A h \in DOMAIN tasks' : h \in DOMAIN tasks
       /\ after = <<>> => g \notin DOMAIN tasks'
       /\ after # <<>> => g \in DOMAIN tasks' /\ tasks'[g] = task
  <2>1. CASE after = <<>>
    <3>1. tasks' = [h \in DOMAIN tasks \ {g} |-> tasks[h]]
      BY <1>3, <2>1 DEF Ended, Without
    <3> QED
      BY <2>1, <3>1
  <2>2. CASE after # <<>>
    BY <1>3, <2>2 DEF Goes
  <2> QED
    BY <2>1, <2>2
<1>15. LeftOf(g)' = after
  <2>1. CASE after = <<>>
    BY <1>14, <2>1 DEF LeftOf
  <2>2. CASE after # <<>>
    BY <1>8, <1>14, <2>2 DEF LeftOf
  <2> QED
    BY <2>1, <2>2
<1>16. \E num : Speaks(g, msg, HeardOf(g), left, Pipe, num)
  <2>1. Stream(g)
    BY <1>1 DEF StreamInv
  <2>2. CASE tasks[g].do = "say"
    <3>1. Silent(g)
      <4>1. ASSUME NEW m, Spoke(g, m) PROVE FALSE
        BY <2>2, <4>1 DEF Spoke
      <4> QED
        BY <2>1, <4>1 DEF Stream
    <3>2. HeardOf(g) = <<>> /\ \A i \in 1..Len(Pipe) : Pipe[i].by # g
      BY <3>1 DEF Silent, HeardOf
    <3> QED
      BY <1>4, <1>6, <1>12, <2>2, <3>2, SpeaksStarts
  <2>3. CASE tasks[g].do = "saying"
    <3>1. PICK m \in AllMsgs : Spoke(g, m)
      BY <2>1, <2>3 DEF Stream, Silent
    <3>2. m = msg /\ LeftOf(g) = left
      BY <1>4, <1>6, <2>3, <3>1 DEF Spoke, LeftOf
    <3> QED
      BY <3>1, <3>2 DEF Spoke
  <2> QED
    BY <1>1, <2>2, <2>3
<1>17. Stream(g)'
  <2>1. PICK num : Speaks(g, msg, HeardOf(g), left, Pipe, num)
    BY <1>16
  <2>2. \E more : Speaks(g, msg, HeardOf(g), after, Append(Pipe, x), more)
    BY <1>4, <1>5, <1>7, <1>10, <1>12, <1>13, <2>1, SpeaksSays
  <2>3. HeardOf(g)' = HeardOf(g)
    BY <1>11 DEF HeardOf
  <2>4. (\E more : Speaks(g, msg, HeardOf(g), LeftOf(g), Pipe, more))'
    BY <1>12, <1>15, <2>2, <2>3
  <2>5. g \in DOMAIN tasks' => tasks'[g].do = "saying" /\ tasks'[g].msg = msg
    BY <1>8, <1>14
  <2>6. Spoke(g, msg)'
    BY <1>1, <1>11, <2>4, <2>5 DEF Spoke
  <2> QED
    BY <1>4, <2>6 DEF Stream
<1>18. ASSUME NEW h \in Goroutines, h # g PROVE Stream(h)'
  <2>1. Stream(h)
    BY DEF StreamInv
  <2>2. HeardOf(h)' = HeardOf(h) /\ LeftOf(h)' = LeftOf(h)
    BY <1>11, <1>14, <1>18 DEF HeardOf, LeftOf
  <2>3. CASE Silent(h)
    <3>1. Len(Append(Pipe, x)) = Len(Pipe) + 1 /\ Append(Pipe, x)[Len(Pipe) + 1] = x
          /\ Len(Pipe) \in Nat /\ \A i \in 1..Len(Pipe) : Append(Pipe, x)[i] = Pipe[i]
      BY <1>10, <1>12, AppendProperties
    <3>2. \A i \in 1..(Len(Pipe) + 1) : i = Len(Pipe) + 1 \/ i \in 1..Len(Pipe)
      BY <3>1
    <3>3. \A i \in 1..Len(Pipe') : Pipe'[i].by # h
      BY <1>7, <1>12, <1>18, <2>3, <3>1, <3>2 DEF Silent
    <3> QED
      BY <1>11, <1>14, <1>18, <2>3, <3>3 DEF Silent, Stream
  <2>4. ASSUME NEW m \in AllMsgs, Spoke(h, m) PROVE Stream(h)'
    <3>1. PICK num : Speaks(h, m, HeardOf(h), LeftOf(h), Pipe, num)
      BY <2>4 DEF Spoke
    <3>2. Speaks(h, m, HeardOf(h), LeftOf(h), Append(Pipe, x), num)
      BY <1>7, <1>10, <1>12, <1>18, <3>1, SpeaksBeside
    <3>3. (\E more : Speaks(h, m, HeardOf(h), LeftOf(h), Pipe, more))'
      BY <1>12, <2>2, <3>2
    <3>4. Spoke(h, m)'
      BY <1>11, <1>14, <1>18, <2>4, <3>3 DEF Spoke
    <3> QED
      BY <3>4 DEF Stream
  <2> QED
    BY <2>1, <2>3, <2>4 DEF Stream
<1> QED
  BY <1>13, <1>17, <1>18 DEF StreamInv

LEMMA StreamTakes ==
  ASSUME TypeInv, StreamInv, SendTakes
  PROVE  StreamInv'
<1>1. UNCHANGED <<lines, frames, tasks, heard>>
  BY DEF SendTakes, handlerVars
<1>2. Pipe' = Pipe
  BY PipeTakes DEF SendTakes
<1>3. HeardOK' /\ Len(lines) \in Nat
  BY <1>1, HeardSame DEF StreamInv, TypeInv, LinesOK, Ordered
<1>4. ASSUME NEW g \in Goroutines PROVE Stream(g)'
  <2>1. Stream(g)
    BY DEF StreamInv
  <2>2. /\ g \in DOMAIN tasks <=> g \in DOMAIN tasks'
        /\ g \in DOMAIN tasks => tasks'[g] = tasks[g]
        /\ Len(lines') \in Nat /\ Len(lines) <= Len(lines') /\ UNCHANGED <<heard, frames>>
    BY <1>1, <1>3
  <2> QED
    BY <1>2, <1>3, <2>1, <2>2, StreamKept
<1> QED
  BY <1>3, <1>4 DEF StreamInv

LEMMA StreamWrites ==
  ASSUME TypeInv, StreamInv, Writes
  PROVE  StreamInv'
<1>0. PICK y, s, one, longer :
        /\ y = sending[1] /\ s = y.by /\ one = [msg |-> y.msg, got |-> ParseLine(y.line)]
        /\ longer = Append(HeardOf(s), one)
  OBVIOUS
<1>1. UNCHANGED <<lines, frames, tasks, out>> /\ sending # <<>> /\ sending' = <<>>
  BY DEF Writes, handlerVars
<1>2. heard' = [h \in DOMAIN heard \cup {s} |-> IF h = s THEN Append(HeardOf(s), one) ELSE heard[h]]
  BY <1>0 DEF Writes
<1>3. y \in Said
  BY <1>0, <1>1 DEF TypeInv, QueueOK
<1>4. s \in Goroutines /\ y.msg \in AllMsgs /\ y.line \in ShortLine
  BY <1>0, <1>3 DEF Said
<1>5. one \in Heard
  BY <1>0, <1>4 DEF Heard
<1>6. one = [msg |-> y.msg, got |-> ParseLine(y.line)]
  BY <1>0
<1>7. Pipe \in Seq(Said) /\ Pipe # <<>> /\ Head(Pipe) = y /\ Pipe' = Tail(Pipe)
  BY <1>0, <1>1, PipeType, PipeWrites
<1>8. HeardOK
  BY DEF StreamInv
<1>9. HeardOf(s) \in Seq(Heard) /\ Append(HeardOf(s), one) \in Seq(Heard) /\ Append(HeardOf(s), one) # <<>>
  <2>1. HeardOf(s) \in Seq(Heard)
    BY <1>8, HeardType
  <2> QED
    BY <1>5, <2>1, AppendProperties
<1>10. longer \in Seq(Heard) /\ longer # <<>> /\ longer = Append(HeardOf(s), one)
  BY <1>0, <1>9
<1>11. heard' = [h \in DOMAIN heard \cup {s} |-> IF h = s THEN longer ELSE heard[h]]
  BY <1>0, <1>2
<1>12. HeardOK'
  BY <1>4, <1>8, <1>10, <1>11 DEF HeardOK
<1>13. HeardOf(s)' = longer /\ \A h : h # s => HeardOf(h)' = HeardOf(h)
  BY <1>11 DEF HeardOf
<1>14. \A h : LeftOf(h)' = LeftOf(h)
  BY <1>1 DEF LeftOf
<1>15. Stream(s)'
  <2>1. Stream(s)
    BY <1>4 DEF StreamInv
  <2>2. ~Silent(s)
    <3>1. 1 \in 1..Len(Pipe) /\ Pipe[1] = Head(Pipe)
      BY <1>7, EmptySeq, HeadTailProperties
    <3> QED
      BY <1>0, <1>7, <3>1 DEF Silent
  <2>3. PICK m \in AllMsgs : Spoke(s, m)
    BY <2>1, <2>2 DEF Stream
  <2>4. PICK num : Speaks(s, m, HeardOf(s), LeftOf(s), Pipe, num)
    BY <2>3 DEF Spoke
  <2>5. LeftOf(s) \in Seq(ShortLine)
    BY EmptySeq DEF LeftOf, TypeInv, TaskOK
  <2>6. y.by = s
    BY <1>0
  <2>7. y.msg = m
    <3>1. 1 \in 1..Len(Pipe) /\ Pipe[1] = y
      BY <1>7, EmptySeq, HeadTailProperties
    <3> QED
      BY <2>4, <2>6, <3>1 DEF Speaks
  <2>8. one = [msg |-> m, got |-> ParseLine(Head(Pipe).line)]
    BY <1>6, <1>7, <2>7
  <2>9. \E less : Speaks(s, m, Append(HeardOf(s), one), LeftOf(s), Tail(Pipe), less)
    <3>1. [msg |-> m, got |-> ParseLine(Head(Pipe).line)] \in Heard
      BY <1>5, <2>8
    <3>2. Head(Pipe).by = s
      BY <1>7, <2>6
    <3>3. \E less : Speaks(s, m, Append(HeardOf(s), [msg |-> m, got |-> ParseLine(Head(Pipe).line)]),
                           LeftOf(s), Tail(Pipe), less)
      BY <1>7, <1>9, <2>4, <2>5, <3>1, <3>2, SpeaksHeard
    <3> QED
      BY <2>8, <3>3
  <2>10. (\E less : Speaks(s, m, HeardOf(s), LeftOf(s), Pipe, less))'
    BY <1>7, <1>10, <1>13, <1>14, <2>9
  <2>11. Spoke(s, m)'
    BY <1>1, <2>3, <2>10 DEF Spoke
  <2> QED
    BY <2>11 DEF Stream
<1>16. ASSUME NEW h \in Goroutines, h # s PROVE Stream(h)'
  <2>1. Stream(h)
    BY DEF StreamInv
  <2>2. HeardOf(h)' = HeardOf(h) /\ LeftOf(h)' = LeftOf(h)
    BY <1>13, <1>14, <1>16
  <2>3. CASE Silent(h)
    <3>1. Len(Tail(Pipe)) = Len(Pipe) - 1 /\ Len(Pipe) \in Nat
          /\ \A i \in 1..(Len(Pipe) - 1) : Tail(Pipe)[i] = Pipe[i + 1]
      BY <1>7, HeadTailProperties
    <3>2. \A i \in 1..(Len(Pipe) - 1) : i + 1 \in 1..Len(Pipe)
      BY <3>1
    <3>3. \A i \in 1..Len(Pipe') : Pipe'[i].by # h
      BY <1>7, <2>3, <3>1, <3>2 DEF Silent
    <3>4. h \notin DOMAIN heard'
      BY <1>11, <1>16, <2>3 DEF Silent
    <3> QED
      BY <1>1, <2>3, <3>3, <3>4 DEF Silent, Stream
  <2>4. ASSUME NEW m \in AllMsgs, Spoke(h, m) PROVE Stream(h)'
    <3>1. PICK num : Speaks(h, m, HeardOf(h), LeftOf(h), Pipe, num)
      BY <2>4 DEF Spoke
    <3>2. Head(Pipe).by # h
      BY <1>0, <1>7, <1>16
    <3>3. \E less : Speaks(h, m, HeardOf(h), LeftOf(h), Tail(Pipe), less)
      BY <1>7, <3>1, <3>2, SpeaksPassed
    <3>4. (\E less : Speaks(h, m, HeardOf(h), LeftOf(h), Pipe, less))'
      BY <1>7, <2>2, <3>3
    <3>5. Spoke(h, m)'
      BY <1>1, <2>4, <3>4 DEF Spoke
    <3> QED
      BY <3>5 DEF Stream
  <2> QED
    BY <2>1, <2>3, <2>4 DEF Stream
<1> QED
  BY <1>12, <1>15, <1>16 DEF StreamInv

LEMMA StreamNext == ASSUME TypeInv, StreamInv, [Next]_vars PROVE StreamInv'
<1>1. CASE LoopTake(cfg.takes) /\ UNCHANGED <<floodVars, ioVars>>
  BY <1>1, StreamLoopTake
<1>2. CASE Dispatching
  BY <1>2, StreamRLock, StreamRUnlock DEF Dispatching
<1>3. CASE MainGoes
  BY <1>3, StreamMainGoes
<1>4. CASE Task
  BY <1>4, StreamSays, StreamTaskStep DEF Task
<1>5. CASE Sending
  BY <1>5, StreamTakes, StreamWrites DEF Sending
<1>6. CASE Clock \/ UNCHANGED vars
  <2>1. UNCHANGED <<lines, frames, tasks, heard, out, sending>>
    BY <1>6 DEF Clock, vars, handlerVars, ioVars
  <2>2. Grown
    BY <2>1, SameLines
  <2> QED
    BY <2>1, <2>2, StreamSame
<1> QED
  BY <1>1, <1>2, <1>3, <1>4, <1>5, <1>6 DEF Next

LEMMA StreamStarts == ASSUME Init, TypeInv PROVE StreamInv
<1>1. heard = <<>> /\ out = <<>> /\ sending = <<>> /\ tasks = <<>>
  BY DEF Init, HandlersInit
<1>2. DOMAIN heard = {} /\ DOMAIN tasks = {}
  BY <1>1
<1>3. Len(Pipe) = 0
  <2>1. <<>> \o <<>> = <<>>
    BY EmptySeq, ConcatEmptySeq
  <2> QED
    BY <1>1, <2>1 DEF Pipe
<1>4. ~ \E i : i \in 1..0
  OBVIOUS
<1> QED
  BY <1>2, <1>3, <1>4 DEF StreamInv, HeardOK, Stream, Silent

LEMMA StreamSafe == ASSUME TypeInv, StreamInv PROVE HeardAsSaid
<1> SUFFICES ASSUME NEW g \in DOMAIN heard, Plain(heard[g][1].msg)
             PROVE  LET parts == heard[g]
                        msg == parts[1].msg
                        ends == PartEnds(msg, parts)[Len(parts)]
                        over == /\ g \notin DOMAIN tasks
                                /\ \A x \in ToSet(out) \cup ToSet(sending) : x.by # g
                    IN  ends # {} /\ (over => Len(msg.text) \in ends)
  BY DEF HeardAsSaid
<1> DEFINE parts == heard[g]
           over == /\ g \notin DOMAIN tasks
                   /\ \A x \in ToSet(out) \cup ToSet(sending) : x.by # g
<1>1. g \in Goroutines /\ parts \in Seq(Heard) /\ parts # <<>> /\ Stream(g)
  BY DEF StreamInv, HeardOK
<1>2. HeardOf(g) = parts /\ ~Silent(g)
  BY DEF HeardOf, Silent
<1> HIDE DEF parts
<1>3. PICK msg \in AllMsgs : \E num : Speaks(g, msg, parts, LeftOf(g), Pipe, num)
  BY <1>1, <1>2 DEF Stream, Spoke
<1> PICK num : Speaks(g, msg, parts, LeftOf(g), Pipe, num)
  BY <1>3
<1> DEFINE all == Lines(msg)
           left == LeftOf(g)
<1>4. Len(parts) \in Nat \ {0} /\ Len(all) \in Nat /\ Len(left) \in Nat
  <2>1. left \in Seq(ShortLine)
    BY EmptySeq DEF LeftOf, TypeInv, TaskOK
  <2> QED
    BY <1>1, <2>1, LinesShort, EmptySeq
<1>5. /\ Len(parts) <= Len(all) - Len(left)
      /\ \A j \in 1..Len(parts) : parts[j] = [msg |-> msg, got |-> ParseLine(all[j])]
      /\ \A k \in (Len(parts) + 1)..(Len(all) - Len(left)) :
           \E i \in 1..Len(Pipe) : Pipe[i].by = g /\ num[i] = k
  BY DEF Speaks
<1> HIDE DEF all, left
<1>6. /\ Len(parts) <= Len(all) /\ \A j \in 1..Len(parts) : parts[j].got = ParseLine(all[j])
      /\ parts[1].msg = msg
  <2>1. Len(parts) <= Len(all) /\ 1 \in 1..Len(parts)
    BY <1>4, <1>5
  <2>2. ASSUME NEW j \in 1..Len(parts) PROVE parts[j].got = ParseLine(all[j]) /\ parts[j].msg = msg
    <3>1. parts[j] = [msg |-> msg, got |-> ParseLine(all[j])]
      BY <1>5
    <3> QED
      BY <3>1
  <2> QED
    BY <2>1, <2>2
<1>7. ASSUME over PROVE Len(parts) = Len(all)
  <2>1. left = <<>>
    BY <1>7 DEF left, LeftOf
  <2>2. \A i \in 1..Len(Pipe) : Pipe[i].by # g
    <3>1. out \in Seq(Said) /\ sending \in Seq(Said)
      BY EmptySeq DEF TypeInv, QueueOK
    <3>2. /\ Len(Pipe) = Len(sending) + Len(out)
          /\ \A i \in 1..(Len(sending) + Len(out)) :
               Pipe[i] = IF i <= Len(sending) THEN sending[i] ELSE out[i - Len(sending)]
      BY <3>1, ConcatProperties DEF Pipe
    <3>3. /\ \A i \in 1..Len(out) : out[i].by # g
          /\ \A i \in 1..Len(sending) : sending[i].by # g
      BY <1>7, <3>1 DEF ToSet
    <3>4. ASSUME NEW i \in 1..(Len(sending) + Len(out)) PROVE Pipe[i].by # g
      <4>1. CASE i <= Len(sending)
        <5>1. i \in 1..Len(sending)
          BY <3>1, <4>1
        <5> QED
          BY <3>2, <3>3, <4>1, <5>1
      <4>2. CASE ~(i <= Len(sending))
        <5>1. i - Len(sending) \in 1..Len(out)
          BY <3>1, <4>2
        <5> QED
          BY <3>2, <3>3, <4>2, <5>1
      <4> QED
        BY <4>1, <4>2
    <3> QED
      BY <3>2, <3>4
  <2>3. Len(left) = 0
    BY <2>1
  <2>4. ASSUME Len(parts) # Len(all) PROVE FALSE
    <3>1. Len(parts) + 1 \in (Len(parts) + 1)..(Len(all) - Len(left))
      BY <1>4, <1>5, <2>3, <2>4
    <3> QED
      BY <1>5, <2>2, <3>1
  <2> QED
    BY <2>4
<1>8. Plain(msg)
  BY <1>6 DEF parts
<1>9. LET ends == PartEnds(msg, parts)[Len(parts)]
      IN  ends # {} /\ (Len(parts) = Len(all) => Len(msg.text) \in ends)
  BY <1>4, <1>6, <1>8, LinesRead DEF all
<1>10. LET ends == PartEnds(msg, parts)[Len(parts)]
       IN  ends # {} /\ (over => Len(msg.text) \in ends)
  BY <1>7, <1>9, Zenon
<1> QED
  BY <1>6, <1>10, Zenon DEF parts

\* What others read of a message are its successive parts, in the order it was
\* said and with nothing left out, whatever the handlers say and do at the same
\* time, and in the end all of it (splitMessage and Privmsg in commands.go, send
\* and write in connection.go, ParseLine in line.go).
THEOREM AllIsHeard == Spec => []HeardAsSaid
<1>1. Init => TypeInv /\ StreamInv
  BY InitType, StreamStarts
<1>2. TypeInv /\ StreamInv /\ [Next]_vars => TypeInv' /\ StreamInv'
  BY NextType, StreamNext
<1>3. TypeInv /\ StreamInv => HeardAsSaid
  BY StreamSafe
<1> QED
  BY <1>1, <1>2, <1>3, PTL DEF Spec
=============================================================================
