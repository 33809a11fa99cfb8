--------------------------- MODULE TrackerProofs ---------------------------
(***************************************************************************)
(* Theorems about goirc's state tracker: its maps agree whatever lines     *)
(* come, it shows a relation that changes only as ChannelView says, and    *)
(* once the lines are handled it shows what is so at the server.           *)
(***************************************************************************)
EXTENDS Tracker, FiniteSetTheorems, SequenceTheorems, WellFoundedInduction, TLAPS

Maps(A, B) == UNION {[D -> B] : D \in SUBSET A}
NickObjects == [name : Names, chans : SUBSET Chans, known : BOOLEAN]
ChanObjects == [nicks : Maps(Objects, BOOLEAN), lookup : Maps(Names, Objects),
                mode : BOOLEAN, topic : BOOLEAN]
Trackers == [nicks : Maps(Names, Objects), nk : Maps(Objects, NickObjects),
             ch : Maps(Chans, ChanObjects)]

\* Every nick is filed under its name.
NamesAgree(s) ==
  /\ \A i \in DOMAIN s.nk : s.nk[i].name \in DOMAIN s.nicks /\ s.nicks[s.nk[i].name] = i
  /\ \A n \in DOMAIN s.nicks : s.nicks[n] \in DOMAIN s.nk /\ s.nk[s.nicks[n]].name = n

\* A nick and a channel list each other.
ChansAgree(s) ==
  /\ \A i \in DOMAIN s.nk : s.nk[i].chans \subseteq DOMAIN s.ch
  /\ \A c \in DOMAIN s.ch, i \in Objects :
       i \in DOMAIN s.ch[c].nicks <=> i \in DOMAIN s.nk /\ c \in s.nk[i].chans

\* A channel's index by name is that of its nicks.
LookupsAgree(s) ==
  \A c \in DOMAIN s.ch, n \in Names :
    /\ n \in DOMAIN s.ch[c].lookup <=> n \in DOMAIN s.nicks /\ s.nicks[n] \in DOMAIN s.ch[c].nicks
    /\ n \in DOMAIN s.ch[c].lookup => s.ch[c].lookup[n] = s.nicks[n]

Sound(s) ==
  s \in Trackers /\ Me \in DOMAIN s.nk /\ NamesAgree(s) /\ ChansAgree(s) /\ LookupsAgree(s)

\* I am on every channel, and everybody else is on one.
Whole(s) ==
  /\ \A c \in DOMAIN s.ch : c \in s.nk[Me].chans
  /\ \A i \in DOMAIN s.nk \ {Me} : s.nk[i].chans # {}

Mode == [add : BOOLEAN, letter : {"m", "o", "b"}]
Line ==
       [cmd : {"JOIN", "PART"}, nick : Names, chan : Chans]
  \cup [cmd : {"QUIT", "433"}, nick : Names]
  \cup [cmd : {"NICK"}, nick : Names, neu : Names]
  \cup [cmd : {"MODE", "324"}, chan : Chans, modes : Seq(Mode), args : Seq(Names \cup {Mask})]
  \cup [cmd : {"TOPIC", "332"}, chan : Chans, topic : BOOLEAN]
  \cup [cmd : {"353"}, chan : Chans, who : SUBSET Names, withOp : SUBSET Names]
  \cup [cmd : {"311", "352"}, who : SUBSET Names]
Asked ==
       [cmd : {"NICK", "WHOIS"}, arg : Names]
  \cup [cmd : {"WHO"}, arg : Names \cup Chans]
  \cup [cmd : {"MODE"}, arg : Chans]

ServerOK ==
  /\ link \in {"down", "registering", "up"}
  /\ mine \in Names \cup {NoName} /\ (mine = NoName <=> link # "up")
  /\ online \subseteq Names /\ mine \notin online
  /\ on \in [Chans -> SUBSET Everyone] /\ ops \in [Chans -> SUBSET Names]
  /\ \A c \in Chans : ops[c] \subseteq on[c]
  /\ mode \in [Chans -> BOOLEAN] /\ topic \in [Chans -> BOOLEAN]

LinesOK ==
  /\ lines \in Seq(Line) /\ asked \in Seq(Asked)
  /\ Len(lines) <= MaxLines /\ Len(asked) <= MaxLines

TrackerInv == tracking \in BOOLEAN /\ Sound(st) /\ Whole(st)
IInv == ServerOK /\ LinesOK /\ TrackerInv

-----------------------------------------------------------------------------
(* Numbers, loops and maps.                                                *)

\* A set of numbers has a least one.
LEMMA Least ==
  ASSUME NEW T \in SUBSET Nat, T # {}
  PROVE  \E x \in T : \A y \in T : x <= y
<1> DEFINE R == OpToRel(<, Nat)
<1>1. IsWellFoundedOn(R, Nat)
  BY NatLessThanWellFounded
<1>2. PICK x \in T : \A y \in T : <<y, x>> \notin R
  <2> HIDE DEF R
  <2> QED
    BY <1>1, WFMin
<1>3. \A y \in T : ~(y < x)
  BY <1>2 DEF OpToRel
<1> QED
  BY <1>3

\* What a loop of n rounds has made of an initial value after so many of them:
\* stage k holds what may come out of k rounds.
Climbs(P, stage, n) ==
  P[0] \in stage[0] /\ \A k \in 1..n : P[k - 1] \in stage[k - 1] => P[k] \in stage[k]
Stages(stage, base, G, n) ==
  /\ base \in stage[0]
  /\ \A k \in 1..n : \A v \in stage[k - 1] : G[<<k, v>>] \in stage[k]

LEMMA Climb ==
  ASSUME NEW n \in Nat, NEW stage, NEW P, Climbs(P, stage, n)
  PROVE  \A k \in 0..n : P[k] \in stage[k]
<1> DEFINE T == {k \in 0..n : P[k] \notin stage[k]}
<1> SUFFICES ASSUME T # {} PROVE FALSE
  OBVIOUS
<1>1. PICK k \in T : \A j \in T : k <= j
  <2>1. T \in SUBSET Nat
    OBVIOUS
  <2> HIDE DEF T
  <2> QED
    BY <2>1, Least
<1>2. k # 0
  BY <1>1 DEF Climbs
<1>3. k \in 1..n /\ k - 1 \in 0..n /\ ~(k <= k - 1)
  BY <1>1, <1>2
<1>4. P[k - 1] \in stage[k - 1]
  BY <1>1, <1>3
<1>5. P[k] \in stage[k]
  BY <1>3, <1>4 DEF Climbs
<1> QED
  BY <1>1, <1>5

Runs(P, base, G, n) ==
  P = [k \in 0..n |-> IF k = 0 THEN base ELSE G[<<k, P[k - 1]>>]]

LEMMA RoundsExist ==
  ASSUME NEW n \in Nat, NEW base, NEW G
  PROVE  \E P : Runs(P, base, G, n)
<1> DEFINE Upto(P, m) == P[0] = base /\ \A k \in 1..m : P[k] = G[<<k, P[k - 1]>>]
           T == {m \in 0..n : ~ \E P : DOMAIN P = 0..n /\ Upto(P, m)}
<1>1. ASSUME T # {} PROVE FALSE
  <2>1. T \in SUBSET Nat
    OBVIOUS
  <2>2. PICK m \in T : \A j \in T : m <= j
    <3> HIDE DEF T
    <3> QED
      BY <1>1, <2>1, Least
  <2>3. CASE m = 0
    <3> DEFINE P == [k \in 0..n |-> base]
    <3>1. DOMAIN P = 0..n /\ Upto(P, m)
      BY <2>3
    <3> HIDE DEF P
    <3> QED
      BY <2>2, <3>1
  <2>4. CASE m # 0
    <3>1. m - 1 \in 0..n /\ ~(m <= m - 1) /\ m \in 1..n
      BY <2>2, <2>4
    <3>2. PICK P : DOMAIN P = 0..n /\ Upto(P, m - 1)
      BY <2>2, <3>1
    <3> DEFINE Q == [k \in 0..n |-> IF k = m THEN G[<<m, P[m - 1]>>] ELSE P[k]]
    <3>3. \A k \in 1..m : k \in 0..n /\ k - 1 \in 0..n /\ k - 1 # m /\ (k # m => k \in 1..(m - 1))
      BY <3>1
    <3>4. Q[0] = base
      BY <2>4, <3>2
    <3>5. \A k \in 1..m : Q[k] = G[<<k, Q[k - 1]>>]
      BY <3>2, <3>3
    <3>6. DOMAIN Q = 0..n
      OBVIOUS
    <3> HIDE DEF Q
    <3> QED
      BY <2>2, <3>4, <3>5, <3>6
  <2> QED
    BY <2>3, <2>4
<1>2. n \in 0..n
  OBVIOUS
<1>3. PICK P : DOMAIN P = 0..n /\ Upto(P, n)
  BY <1>1, <1>2
<1> DEFINE Q == [k \in 0..n |-> P[k]]
<1>4. \A k \in 0..n : Q[k] = IF k = 0 THEN base ELSE G[<<k, Q[k - 1]>>]
  <2>1. \A k \in 0..n : k # 0 => k \in 1..n /\ k - 1 \in 0..n
    OBVIOUS
  <2> QED
    BY <1>3, <2>1
<1>5. Q = [k \in 0..n |-> IF k = 0 THEN base ELSE G[<<k, Q[k - 1]>>]]
  <2>1. Q = [k \in 0..n |-> Q[k]]
    OBVIOUS
  <2> HIDE DEF Q
  <2> QED
    BY <1>4, <2>1
<1> HIDE DEF Q
<1> QED
  BY <1>5 DEF Runs

LEMMA LoopRuns ==
  ASSUME NEW n \in Nat, NEW base, NEW G, NEW stage, Stages(stage, base, G, n)
  PROVE  \E P : /\ Runs(P, base, G, n)
                /\ \A k \in 0..n : P[k] \in stage[k]
<1>1. PICK P : Runs(P, base, G, n)
  BY RoundsExist
<1>2. P[0] = base /\ \A k \in 1..n : P[k] = G[<<k, P[k - 1]>>]
  <2>1. 0 \in 0..n /\ \A k \in 1..n : k \in 0..n /\ k # 0
    OBVIOUS
  <2> QED
    BY <1>1, <2>1 DEF Runs
<1>3. Climbs(P, stage, n)
  BY <1>2 DEF Stages, Climbs
<1> QED
  BY <1>1, <1>3, Climb

\* The members of a finite set one by one.
LEMMA SetToSeqIs ==
  ASSUME NEW S, IsFiniteSet(S)
  PROVE  LET s == SetToSeq(S)
         IN  /\ Len(s) \in Nat /\ DOMAIN s = 1..Len(s)
             /\ \A i \in 1..Len(s) : s[i] \in S
             /\ \A i, j \in 1..Len(s) : s[i] = s[j] => i = j
             /\ \A x \in S : \E i \in 1..Len(s) : s[i] = x
<1> DEFINE n == Cardinality(S)
           s == SetToSeq(S)
<1>1. n \in Nat /\ ExistsBijection(1..n, S)
  BY FS_CardinalityType
<1>2. PICK f \in [1..n -> S] : IsInjective(f) /\ \A x \in S : \E i \in 1..n : f[i] = x
  BY <1>1 DEF ExistsBijection, Bijection, Injection, Surjection, IsInjective
<1>3. s \in [1..n -> S] /\ IsInjective(s)
  BY <1>2 DEF SetToSeq
<1>4. s \in Seq(S) /\ Len(s) = n
  BY <1>1, <1>3
<1>5. s \in Injection(1..n, S)
  BY <1>3 DEF Injection
<1>6. IsFiniteSet(1..n) /\ Cardinality(1..n) = n
  BY <1>1, FS_Interval
<1>7. s \in Surjection(1..n, S)
  BY <1>5, <1>6, FS_Injection
<1>8. \A x \in S : \E i \in 1..n : s[i] = x
  BY <1>7 DEF Surjection
<1> QED
  BY <1>1, <1>3, <1>4, <1>8 DEF IsInjective

LEMMA MapsAre ==
  ASSUME NEW A, NEW B, NEW f
  PROVE  /\ f \in Maps(A, B) => /\ f = [x \in DOMAIN f |-> f[x]] /\ DOMAIN f \subseteq A
                                /\ \A x \in DOMAIN f : f[x] \in B
         /\ (f = [x \in DOMAIN f |-> f[x]] /\ DOMAIN f \subseteq A
              /\ \A x \in DOMAIN f : f[x] \in B) => f \in Maps(A, B)
BY DEF Maps

\* A map is known by its domain and its values.
IsMap(f, A, B) ==
  f = [x \in DOMAIN f |-> f[x]] /\ DOMAIN f \subseteq A /\ \A x \in DOMAIN f : f[x] \in B

LEMMA TrackersAre ==
  ASSUME NEW s, s \in Trackers
  PROVE  /\ IsMap(s.nicks, Names, Objects) /\ IsMap(s.nk, Objects, NickObjects)
         /\ IsMap(s.ch, Chans, ChanObjects)
         /\ \A c \in DOMAIN s.ch : /\ IsMap(s.ch[c].nicks, Objects, BOOLEAN)
                                  /\ IsMap(s.ch[c].lookup, Names, Objects)
<1>1. IsMap(s.nicks, Names, Objects)
  BY MapsAre DEF Trackers, IsMap
<1>2. IsMap(s.nk, Objects, NickObjects)
  BY MapsAre DEF Trackers, IsMap
<1>3. IsMap(s.ch, Chans, ChanObjects)
  BY MapsAre DEF Trackers, IsMap
<1>4. ASSUME NEW c \in DOMAIN s.ch
      PROVE  IsMap(s.ch[c].nicks, Objects, BOOLEAN) /\ IsMap(s.ch[c].lookup, Names, Objects)
  <2>1. s.ch[c] \in ChanObjects
    BY <1>3 DEF IsMap
  <2>2. s.ch[c].nicks \in Maps(Objects, BOOLEAN) /\ s.ch[c].lookup \in Maps(Names, Objects)
    BY <2>1 DEF ChanObjects
  <2> QED
    BY <2>2, MapsAre DEF IsMap
<1> QED
  BY <1>1, <1>2, <1>3, <1>4

\* There is an object for one nick more.
LEMMA UnusedIs ==
  ASSUME NEW s, Sound(s), NEW name \in Names, ~Tracked(s, name)
  PROVE  Unused(s) \in Objects \ DOMAIN s.nk /\ Unused(s) # Me
<1> DEFINE N == Names \ {name}
           f == [i \in DOMAIN s.nk |-> s.nk[i].name]
<1>1. DOMAIN s.nk \subseteq Objects /\ \A i \in DOMAIN s.nk : s.nk[i].name \in Names
  BY TrackersAre DEF Sound, IsMap, NickObjects
<1>2. f \in [DOMAIN s.nk -> N]
  BY <1>1 DEF Sound, NamesAgree, Tracked
<1>3. f \in Injection(DOMAIN s.nk, N)
  BY <1>2 DEF Sound, NamesAgree, Injection, IsInjective
<1>4. IsFiniteSet(N) /\ Cardinality(N) = Cardinality(Names) - 1 /\ Cardinality(Names) \in Nat
  BY FS_RemoveElement, FS_CardinalityType, TrackerConstants
<1>5. IsFiniteSet(DOMAIN s.nk) /\ Cardinality(DOMAIN s.nk) <= Cardinality(N)
  <2> HIDE DEF N, f
  <2> QED
    BY <1>3, <1>4, FS_Injection
<1>6. Cardinality(Objects) = Cardinality(Names) + 1
  BY <1>4, FS_Interval DEF Objects
<1>7. DOMAIN s.nk # Objects
  <2>1. Cardinality(DOMAIN s.nk) \in Nat
    BY <1>5, FS_CardinalityType
  <2> QED
    BY <1>4, <1>5, <1>6, <2>1
<1>8. Objects \ DOMAIN s.nk \in SUBSET Nat /\ Objects \ DOMAIN s.nk # {}
  <2>1. Objects \subseteq Nat
    BY <1>4 DEF Objects
  <2> QED
    BY <1>1, <1>7, <2>1
<1>9. Unused(s) \in Objects \ DOMAIN s.nk
  BY <1>8, Least DEF Unused
<1> QED
  BY <1>9 DEF Sound

LEMMA TrackerMade ==
  ASSUME NEW f, NEW g, NEW h, IsMap(f, Names, Objects), IsMap(g, Objects, NickObjects),
         IsMap(h, Chans, ChanObjects)
  PROVE  [nicks |-> f, nk |-> g, ch |-> h] \in Trackers
<1>1. f \in Maps(Names, Objects)
  BY MapsAre DEF IsMap
<1>2. g \in Maps(Objects, NickObjects)
  BY MapsAre DEF IsMap
<1>3. h \in Maps(Chans, ChanObjects)
  BY MapsAre DEF IsMap
<1> QED
  BY <1>1, <1>2, <1>3 DEF Trackers

LEMMA ChanMade ==
  ASSUME NEW f, NEW g, NEW m \in BOOLEAN, NEW t \in BOOLEAN,
         IsMap(f, Objects, BOOLEAN), IsMap(g, Names, Objects)
  PROVE  [nicks |-> f, lookup |-> g, mode |-> m, topic |-> t] \in ChanObjects
<1>1. f \in Maps(Objects, BOOLEAN)
  BY MapsAre DEF IsMap
<1>2. g \in Maps(Names, Objects)
  BY MapsAre DEF IsMap
<1> QED
  BY <1>1, <1>2 DEF ChanObjects

LEMMA WithIs ==
  ASSUME NEW A, NEW B, NEW f, IsMap(f, A, B), NEW x \in A, NEW v \in B
  PROVE  /\ IsMap(With(f, x, v), A, B) /\ DOMAIN With(f, x, v) = DOMAIN f \cup {x}
         /\ With(f, x, v)[x] = v
         /\ \A y \in DOMAIN f : y # x => With(f, x, v)[y] = f[y]
BY DEF With, IsMap

-----------------------------------------------------------------------------
(* The operations.                                                         *)

Has(s, c, n) == Tracked(s, n) /\ c \in s.nk[s.nicks[n]].chans

LEMMA AddNickSound ==
  ASSUME NEW s, Sound(s), NEW name \in Names, NEW known \in BOOLEAN
  PROVE  LET r == AddNick(s, name, known)
         IN  /\ Sound(r) /\ Tracked(r, name) /\ r.ch = s.ch
             /\ \A i \in DOMAIN s.nk : i \in DOMAIN r.nk /\ r.nk[i] = s.nk[i]
             /\ \A i \in DOMAIN r.nk : i \in DOMAIN s.nk \/ i = r.nicks[name]
             /\ \A c \in Chans, n \in Names : Has(r, c, n) <=> Has(s, c, n)
<1> DEFINE r == AddNick(s, name, known)
<1>1. CASE Tracked(s, name)
  BY <1>1 DEF AddNick, Sound, NamesAgree, Tracked
<1>2. CASE ~Tracked(s, name)
  <2> DEFINE i == Unused(s)
             a == With(s.nicks, name, i)
             b == With(s.nk, i, NickObject(name, known))
  <2>1. i \in Objects /\ i \notin DOMAIN s.nk /\ i # Me
    BY <1>2, UnusedIs
  <2>2. s \in Trackers /\ IsMap(s.nicks, Names, Objects) /\ IsMap(s.nk, Objects, NickObjects)
        /\ IsMap(s.ch, Chans, ChanObjects)
    BY TrackersAre DEF Sound
  <2>3. NickObject(name, known) \in NickObjects
        /\ NickObject(name, known).name = name /\ NickObject(name, known).chans = {}
    BY DEF NickObject, NickObjects
  <2>4. r = [nicks |-> a, nk |-> b, ch |-> s.ch]
    BY <1>2, <2>2 DEF AddNick, Trackers
  <2>5. /\ IsMap(a, Names, Objects) /\ DOMAIN a = DOMAIN s.nicks \cup {name} /\ a[name] = i
        /\ \A n \in DOMAIN s.nicks : a[n] = s.nicks[n]
    BY <1>2, <2>1, <2>2, WithIs DEF Tracked
  <2>6. /\ IsMap(b, Objects, NickObjects) /\ DOMAIN b = DOMAIN s.nk \cup {i}
        /\ b[i].name = name /\ b[i].chans = {}
        /\ \A j \in DOMAIN s.nk : b[j] = s.nk[j]
    BY <2>1, <2>2, <2>3, WithIs
  <2> HIDE DEF i, a, b, r
  <2>7. r \in Trackers /\ r.nicks = a /\ r.nk = b /\ r.ch = s.ch
    BY <2>2, <2>4, <2>5, <2>6, TrackerMade
  <2>8. NamesAgree(r)
    BY <1>2, <2>1, <2>5, <2>6, <2>7 DEF Sound, NamesAgree, Tracked
  <2>9. ChansAgree(r)
    BY <2>1, <2>6, <2>7 DEF Sound, ChansAgree
  <2>10. LookupsAgree(r)
    <3>1. \A c \in DOMAIN s.ch : i \notin DOMAIN s.ch[c].nicks
      BY <2>1 DEF Sound, ChansAgree
    <3> QED
      BY <1>2, <2>5, <2>7, <3>1 DEF Sound, LookupsAgree, Tracked
  <2>11. \A c \in Chans, n \in Names : Has(r, c, n) <=> Has(s, c, n)
    BY <1>2, <2>5, <2>6, <2>7 DEF Has, Tracked, Sound, NamesAgree
  <2> QED
    BY <2>5, <2>6, <2>7, <2>8, <2>9, <2>10, <2>11 DEF Sound, Tracked, r
<1> QED
  BY <1>1, <1>2

LEMMA AddChannelSound ==
  ASSUME NEW s, Sound(s), NEW c \in Chans
  PROVE  LET r == AddChannel(s, c)
         IN  /\ Sound(r) /\ r.nicks = s.nicks /\ r.nk = s.nk
             /\ DOMAIN r.ch = DOMAIN s.ch \cup {c}
<1> DEFINE r == AddChannel(s, c)
<1>1. CASE c \in DOMAIN s.ch
  BY <1>1 DEF AddChannel
<1>2. CASE c \notin DOMAIN s.ch
  <2> DEFINE a == With(s.ch, c, ChanObject)
  <2>1. s \in Trackers /\ IsMap(s.nicks, Names, Objects) /\ IsMap(s.nk, Objects, NickObjects)
        /\ IsMap(s.ch, Chans, ChanObjects)
    BY TrackersAre DEF Sound
  <2>2. ChanObject \in ChanObjects /\ DOMAIN ChanObject.nicks = {} /\ DOMAIN ChanObject.lookup = {}
    <3>1. IsMap(<<>>, Objects, BOOLEAN) /\ IsMap(<<>>, Names, Objects) /\ DOMAIN <<>> = {}
      BY DEF IsMap
    <3> QED
      BY <3>1, ChanMade DEF ChanObject
  <2>3. r = [nicks |-> s.nicks, nk |-> s.nk, ch |-> a]
    BY <1>2, <2>1 DEF AddChannel, Trackers
  <2>4. /\ IsMap(a, Chans, ChanObjects) /\ DOMAIN a = DOMAIN s.ch \cup {c}
        /\ DOMAIN a[c].nicks = {} /\ DOMAIN a[c].lookup = {}
        /\ \A d \in DOMAIN s.ch : a[d] = s.ch[d]
    BY <1>2, <2>1, <2>2, WithIs
  <2> HIDE DEF a, r
  <2>5. r \in Trackers /\ r.nicks = s.nicks /\ r.nk = s.nk /\ r.ch = a
    BY <2>1, <2>3, <2>4, TrackerMade
  <2>6. ChansAgree(r)
    BY <1>2, <2>4, <2>5 DEF Sound, ChansAgree
  <2>7. LookupsAgree(r)
    BY <2>4, <2>5 DEF Sound, LookupsAgree
  <2> QED
    BY <2>4, <2>5, <2>6, <2>7 DEF Sound, NamesAgree, r
<1> QED
  BY <1>1, <1>2

LEMMA ChanObjectsAre ==
  ASSUME NEW s \in Trackers, NEW c \in DOMAIN s.ch
  PROVE  /\ s.ch[c] = [nicks |-> s.ch[c].nicks, lookup |-> s.ch[c].lookup,
                       mode |-> s.ch[c].mode, topic |-> s.ch[c].topic]
         /\ s.ch[c].mode \in BOOLEAN /\ s.ch[c].topic \in BOOLEAN
         /\ c \in Chans /\ s.ch[c] \in ChanObjects
         /\ IsMap(s.ch[c].nicks, Objects, BOOLEAN) /\ IsMap(s.ch[c].lookup, Names, Objects)
<1>1. s.ch[c] \in ChanObjects /\ c \in Chans
  BY TrackersAre DEF IsMap
<1>2. IsMap(s.ch[c].nicks, Objects, BOOLEAN) /\ IsMap(s.ch[c].lookup, Names, Objects)
  BY TrackersAre
<1> QED
  BY <1>1, <1>2 DEF ChanObjects

LEMMA NickObjectsAre ==
  ASSUME NEW s \in Trackers, NEW i \in DOMAIN s.nk
  PROVE  /\ s.nk[i] = [name |-> s.nk[i].name, chans |-> s.nk[i].chans, known |-> s.nk[i].known]
         /\ s.nk[i].name \in Names /\ s.nk[i].chans \in SUBSET Chans /\ s.nk[i].known \in BOOLEAN
         /\ i \in Objects
<1>1. s.nk[i] \in NickObjects /\ i \in Objects
  BY TrackersAre DEF IsMap
<1> QED
  BY <1>1 DEF NickObjects

\* Nothing has changed but the channels a nick is on.
Moved(r, s, i, chans) ==
  /\ r.nicks = s.nicks /\ DOMAIN r.nk = DOMAIN s.nk /\ DOMAIN r.ch = DOMAIN s.ch
  /\ \A j \in DOMAIN s.nk : /\ r.nk[j].name = s.nk[j].name
                            /\ r.nk[j].chans = IF j = i THEN chans ELSE s.nk[j].chans

LEMMA AssociateSound ==
  ASSUME NEW s, Sound(s), NEW c \in DOMAIN s.ch, NEW i \in DOMAIN s.nk
  PROVE  LET r == Associate(s, c, i)
         IN  Sound(r) /\ Moved(r, s, i, s.nk[i].chans \cup {c})
<1> DEFINE r == Associate(s, c, i)
           name == s.nk[i].name
           x == s.ch[c]
           f == With(x.nicks, i, FALSE)
           g == With(x.lookup, name, i)
           y == [nicks |-> f, lookup |-> g, mode |-> x.mode, topic |-> x.topic]
           p == [name |-> name, chans |-> s.nk[i].chans \cup {c}, known |-> s.nk[i].known]
           b == [s.nk EXCEPT ![i] = p]
           d == [s.ch EXCEPT ![c] = y]
<1>1. /\ s \in Trackers /\ IsMap(s.nicks, Names, Objects) /\ IsMap(s.nk, Objects, NickObjects)
      /\ IsMap(s.ch, Chans, ChanObjects)
  BY TrackersAre DEF Sound
<1>2. /\ name \in Names /\ i \in Objects /\ s.nk[i].chans \in SUBSET Chans /\ s.nk[i].known \in BOOLEAN
      /\ s.nk[i] = [name |-> name, chans |-> s.nk[i].chans, known |-> s.nk[i].known]
  BY <1>1, NickObjectsAre
<1>3. /\ x = [nicks |-> x.nicks, lookup |-> x.lookup, mode |-> x.mode, topic |-> x.topic]
      /\ x.mode \in BOOLEAN /\ x.topic \in BOOLEAN /\ c \in Chans
      /\ IsMap(x.nicks, Objects, BOOLEAN) /\ IsMap(x.lookup, Names, Objects)
  BY <1>1, ChanObjectsAre
<1>4. CASE c \in s.nk[i].chans
  <2>1. r = s /\ s.nk[i].chans \cup {c} = s.nk[i].chans
    BY <1>4 DEF Associate
  <2> HIDE DEF r
  <2> QED
    BY <2>1 DEF Moved, r
<1>5. CASE c \notin s.nk[i].chans
  <2>1. r = [nicks |-> s.nicks, nk |-> b, ch |-> d]
    <3>1. s = [nicks |-> s.nicks, nk |-> s.nk, ch |-> s.ch]
      BY <1>1 DEF Trackers
    <3>2. [s.ch EXCEPT ![c].nicks = f, ![c].lookup = g] = d
      <4>1. [x EXCEPT !.nicks = f, !.lookup = g] = y
        <5> DEFINE z == [x EXCEPT !.nicks = f]
        <5> HIDE DEF f, g, x
        <5>1. z = [nicks |-> f, lookup |-> x.lookup, mode |-> x.mode, topic |-> x.topic]
          BY <1>3
        <5>2. [z EXCEPT !.lookup = g] = y
          <6> HIDE DEF z
          <6> QED
            BY <5>1
        <5> QED
          BY <5>2
      <4> QED
        BY <4>1, <1>1 DEF IsMap
    <3>3. [s.nk EXCEPT ![i].chans = @ \cup {c}] = b
      BY <1>1, <1>2 DEF IsMap
    <3>4. r = [s EXCEPT !.ch = d, !.nk = b]
      <4> HIDE DEF f, g, d, b
      <4> QED
        BY <1>5, <3>1, <3>2, <3>3 DEF Associate, f, g
    <3> QED
      BY <3>1, <3>4
  <2>2. /\ IsMap(f, Objects, BOOLEAN) /\ DOMAIN f = DOMAIN x.nicks \cup {i}
        /\ IsMap(g, Names, Objects) /\ DOMAIN g = DOMAIN x.lookup \cup {name} /\ g[name] = i
        /\ \A n \in DOMAIN x.lookup : n # name => g[n] = x.lookup[n]
    <3> HIDE DEF x, name
    <3>1. IsMap(f, Objects, BOOLEAN) /\ DOMAIN f = DOMAIN x.nicks \cup {i}
      BY <1>2, <1>3 DEF With, IsMap
    <3>2. /\ IsMap(g, Names, Objects) /\ DOMAIN g = DOMAIN x.lookup \cup {name} /\ g[name] = i
          /\ \A n \in DOMAIN x.lookup : n # name => g[n] = x.lookup[n]
      BY <1>2, <1>3 DEF With, IsMap
    <3> QED
      BY <3>1, <3>2
  <2>3. y \in ChanObjects /\ y.nicks = f /\ y.lookup = g
    <3> HIDE DEF x, f, g
    <3> QED
      BY <1>3, <2>2, ChanMade
  <2>4. IsMap(d, Chans, ChanObjects) /\ DOMAIN d = DOMAIN s.ch /\ d[c] = y
        /\ \A e \in DOMAIN s.ch : e # c => d[e] = s.ch[e]
    <3> HIDE DEF y
    <3> QED
      BY <1>1, <2>3 DEF IsMap
  <2>5. IsMap(b, Objects, NickObjects) /\ DOMAIN b = DOMAIN s.nk /\ b[i] = p
        /\ \A j \in DOMAIN s.nk : j # i => b[j] = s.nk[j]
    <3>1. p \in NickObjects
      BY <1>2, <1>3 DEF NickObjects
    <3> HIDE DEF p
    <3> QED
      BY <1>1, <3>1 DEF IsMap
  <2> HIDE DEF b, d, f, g, y
  <2>6. r \in Trackers /\ r.nicks = s.nicks /\ r.nk = b /\ r.ch = d
    BY <1>1, <2>1, <2>4, <2>5, TrackerMade
  <2> HIDE DEF r
  <2>7. \A j \in DOMAIN s.nk : /\ b[j].name = s.nk[j].name
                               /\ b[j].chans = IF j = i THEN s.nk[j].chans \cup {c} ELSE s.nk[j].chans
    BY <2>5
  <2>8. NamesAgree(r)
    BY <2>5, <2>6, <2>7 DEF Sound, NamesAgree
  <2>9. ChansAgree(r)
    BY <2>2, <2>3, <2>4, <2>5, <2>6, <2>7 DEF Sound, ChansAgree
  <2>10. LookupsAgree(r)
    <3> SUFFICES ASSUME NEW e \in DOMAIN s.ch, NEW n \in Names
                 PROVE  /\ n \in DOMAIN d[e].lookup <=> n \in DOMAIN s.nicks /\ s.nicks[n] \in DOMAIN d[e].nicks
                        /\ n \in DOMAIN d[e].lookup => d[e].lookup[n] = s.nicks[n]
      BY <2>4, <2>6 DEF LookupsAgree
    <3>1. CASE e # c
      BY <2>4, <3>1 DEF Sound, LookupsAgree
    <3>2. CASE e = c
      <4>1. name \in DOMAIN s.nicks /\ s.nicks[name] = i
        BY DEF Sound, NamesAgree
      <4>2. n \in DOMAIN s.nicks /\ s.nicks[n] = i => n = name
        BY DEF Sound, NamesAgree
      <4>3. /\ n \in DOMAIN x.lookup <=> n \in DOMAIN s.nicks /\ s.nicks[n] \in DOMAIN x.nicks
            /\ n \in DOMAIN x.lookup => x.lookup[n] = s.nicks[n]
        BY DEF Sound, LookupsAgree
      <4> HIDE DEF x, name
      <4> QED
        BY <2>2, <2>3, <2>4, <3>2, <4>1, <4>2, <4>3
    <3> QED
      BY <3>1, <3>2
  <2> QED
    BY <2>4, <2>5, <2>6, <2>7, <2>8, <2>9, <2>10 DEF Sound, Moved, r
<1> QED
  BY <1>4, <1>5

LEMMA ExpelIs ==
  ASSUME NEW s \in Trackers, NEW c \in DOMAIN s.ch, NEW i \in DOMAIN s.nk
  PROVE  LET x == s.ch[c]
             y == Expel(s, x, i)
         IN  /\ y \in ChanObjects
             /\ DOMAIN y.nicks = DOMAIN x.nicks \ {i}
             /\ DOMAIN y.lookup = DOMAIN x.lookup \ {s.nk[i].name}
             /\ \A n \in DOMAIN y.lookup : y.lookup[n] = x.lookup[n]
<1> DEFINE x == s.ch[c]
           f == Without(x.nicks, {i})
           g == Without(x.lookup, {s.nk[i].name})
           y == [nicks |-> f, lookup |-> g, mode |-> x.mode, topic |-> x.topic]
<1>1. /\ x = [nicks |-> x.nicks, lookup |-> x.lookup, mode |-> x.mode, topic |-> x.topic]
      /\ x.mode \in BOOLEAN /\ x.topic \in BOOLEAN
      /\ IsMap(x.nicks, Objects, BOOLEAN) /\ IsMap(x.lookup, Names, Objects)
  BY ChanObjectsAre
<1>2. /\ IsMap(f, Objects, BOOLEAN) /\ DOMAIN f = DOMAIN x.nicks \ {i}
      /\ IsMap(g, Names, Objects) /\ DOMAIN g = DOMAIN x.lookup \ {s.nk[i].name}
      /\ \A n \in DOMAIN g : g[n] = x.lookup[n]
  <2> HIDE DEF x
  <2>1. IsMap(f, Objects, BOOLEAN) /\ DOMAIN f = DOMAIN x.nicks \ {i}
    BY <1>1 DEF Without, IsMap
  <2>2. /\ IsMap(g, Names, Objects) /\ DOMAIN g = DOMAIN x.lookup \ {s.nk[i].name}
        /\ \A n \in DOMAIN g : g[n] = x.lookup[n]
    BY <1>1 DEF Without, IsMap
  <2> QED
    BY <2>1, <2>2
<1>3. Expel(s, x, i) = y
  <2> DEFINE z == [x EXCEPT !.nicks = f]
  <2>0. Expel(s, x, i) = [z EXCEPT !.lookup = g]
    BY DEF Expel
  <2> HIDE DEF f, g, x
  <2>1. z = [nicks |-> f, lookup |-> x.lookup, mode |-> x.mode, topic |-> x.topic]
    BY <1>1
  <2>2. [z EXCEPT !.lookup = g] = y
    <3> HIDE DEF z
    <3> QED
      BY <2>1
  <2> QED
    BY <2>0, <2>2
<1>4. y \in ChanObjects /\ y.nicks = f /\ y.lookup = g
  <2> HIDE DEF f, g, x
  <2> QED
    BY <1>1, <1>2, ChanMade
<1> HIDE DEF f, g, x, y
<1> QED
  BY <1>2, <1>3, <1>4 DEF x

LEMMA DropSound ==
  ASSUME NEW s, Sound(s), NEW i \in DOMAIN s.nk, i # Me
  PROVE  LET r == Drop(s, i)
         IN  /\ Sound(r) /\ DOMAIN r.ch = DOMAIN s.ch
             /\ DOMAIN r.nicks = DOMAIN s.nicks \ {s.nk[i].name}
             /\ \A n \in DOMAIN r.nicks : r.nicks[n] = s.nicks[n]
             /\ DOMAIN r.nk = DOMAIN s.nk \ {i} /\ \A j \in DOMAIN r.nk : r.nk[j] = s.nk[j]
<1> DEFINE r == Drop(s, i)
           a == Without(s.nicks, {s.nk[i].name})
           b == Without(s.nk, {i})
           d == [c \in DOMAIN s.ch |->
                   IF c \in s.nk[i].chans THEN Expel(s, s.ch[c], i) ELSE s.ch[c]]
<1>1. /\ s \in Trackers /\ IsMap(s.nicks, Names, Objects) /\ IsMap(s.nk, Objects, NickObjects)
      /\ IsMap(s.ch, Chans, ChanObjects)
      /\ NamesAgree(s) /\ ChansAgree(s) /\ LookupsAgree(s) /\ Me \in DOMAIN s.nk
  BY TrackersAre DEF Sound
<1>2. /\ IsMap(a, Names, Objects) /\ DOMAIN a = DOMAIN s.nicks \ {s.nk[i].name}
      /\ \A n \in DOMAIN a : a[n] = s.nicks[n]
  BY <1>1 DEF Without, IsMap
<1>3. /\ IsMap(b, Objects, NickObjects) /\ DOMAIN b = DOMAIN s.nk \ {i}
      /\ \A j \in DOMAIN b : b[j] = s.nk[j]
  BY <1>1 DEF Without, IsMap
<1>4. ASSUME NEW c \in DOMAIN s.ch
      PROVE  /\ d[c] \in ChanObjects /\ DOMAIN d[c].nicks = DOMAIN s.ch[c].nicks \ {i}
             /\ \A n \in Names :
                  /\ n \in DOMAIN d[c].lookup <=> n \in DOMAIN s.ch[c].lookup /\ n # s.nk[i].name
                  /\ n \in DOMAIN d[c].lookup => d[c].lookup[n] = s.ch[c].lookup[n]
  <2>1. CASE c \in s.nk[i].chans
    <3>1. d[c] = Expel(s, s.ch[c], i)
      BY <2>1
    <3> HIDE DEF d
    <3> QED
      BY <1>1, <3>1, ExpelIs
  <2>2. CASE c \notin s.nk[i].chans
    <3>1. d[c] = s.ch[c] /\ s.ch[c] \in ChanObjects
      BY <1>1, <2>2 DEF IsMap
    <3> HIDE DEF d
    <3>2. i \notin DOMAIN s.ch[c].nicks /\ i \in Objects
      BY <1>1, <2>2, NickObjectsAre DEF ChansAgree
    <3>3. s.nk[i].name \notin DOMAIN s.ch[c].lookup
      <4>1. s.nk[i].name \in Names /\ s.nicks[s.nk[i].name] = i
        BY <1>1, NickObjectsAre DEF NamesAgree
      <4> QED
        BY <1>1, <3>2, <4>1 DEF LookupsAgree
    <3> QED
      BY <3>1, <3>2, <3>3
  <2> QED
    BY <2>1, <2>2
<1>5. IsMap(d, Chans, ChanObjects) /\ DOMAIN d = DOMAIN s.ch
  <2>1. \A c \in DOMAIN s.ch : d[c] \in ChanObjects
    BY <1>4
  <2>2. d = [c \in DOMAIN d |-> d[c]] /\ DOMAIN d = DOMAIN s.ch
    OBVIOUS
  <2> HIDE DEF d
  <2> QED
    BY <1>1, <2>1, <2>2 DEF IsMap
<1>6. r = [nicks |-> a, nk |-> b, ch |-> d]
  BY DEF Drop
<1> HIDE DEF a, b, d, r
<1>7. r \in Trackers /\ r.nicks = a /\ r.nk = b /\ r.ch = d
  BY <1>2, <1>3, <1>5, <1>6, TrackerMade
<1>8. NamesAgree(r)
  BY <1>1, <1>2, <1>3, <1>7 DEF NamesAgree
<1>9. ChansAgree(r)
  BY <1>1, <1>3, <1>4, <1>5, <1>7 DEF ChansAgree
<1>10. LookupsAgree(r)
  <2> SUFFICES ASSUME NEW c \in DOMAIN s.ch, NEW n \in Names
               PROVE  /\ n \in DOMAIN d[c].lookup <=> n \in DOMAIN a /\ a[n] \in DOMAIN d[c].nicks
                      /\ n \in DOMAIN d[c].lookup => d[c].lookup[n] = a[n]
    BY <1>5, <1>7 DEF LookupsAgree
  <2>1. n \in DOMAIN s.nicks /\ s.nicks[n] = i => n = s.nk[i].name
    BY <1>1 DEF NamesAgree
  <2>2. /\ n \in DOMAIN s.ch[c].lookup <=> n \in DOMAIN s.nicks /\ s.nicks[n] \in DOMAIN s.ch[c].nicks
        /\ n \in DOMAIN s.ch[c].lookup => s.ch[c].lookup[n] = s.nicks[n]
    BY <1>1 DEF LookupsAgree
  <2> QED
    BY <1>2, <1>4, <2>1, <2>2
<1> QED
  BY <1>1, <1>2, <1>3, <1>5, <1>7, <1>8, <1>9, <1>10 DEF Sound, r

KnowsMe(s) == s.nk[Me].known = TRUE

LEMMA DelChannelSound ==
  ASSUME NEW s, Sound(s), Whole(s), NEW c \in DOMAIN s.ch
  PROVE  LET r == DelChannel(s, c)
         IN  /\ Sound(r) /\ Whole(r) /\ DOMAIN r.ch = DOMAIN s.ch \ {c} /\ MyName(r) = MyName(s)
             /\ \A d \in Chans, n \in Names : Has(r, d, n) <=> Has(s, d, n) /\ d # c
             /\ KnowsMe(s) => KnowsMe(r)
<1> DEFINE r == DelChannel(s, c)
           gone == {i \in DOMAIN s.ch[c].nicks \ {Me} : s.nk[i].chans = {c}}
           a == Without(s.nicks, {s.nk[i].name : i \in gone})
           b == [i \in DOMAIN s.nk \ gone |->
                   IF i \in DOMAIN s.ch[c].nicks THEN [s.nk[i] EXCEPT !.chans = @ \ {c}]
                                                 ELSE s.nk[i]]
           d == Without(s.ch, {c})
<1>1. /\ s \in Trackers /\ IsMap(s.nicks, Names, Objects) /\ IsMap(s.nk, Objects, NickObjects)
      /\ IsMap(s.ch, Chans, ChanObjects)
      /\ NamesAgree(s) /\ ChansAgree(s) /\ LookupsAgree(s) /\ Me \in DOMAIN s.nk
      /\ DOMAIN s.ch \subseteq Chans /\ DOMAIN s.nk \subseteq Objects
  BY TrackersAre DEF Sound, IsMap
<1>2. /\ IsMap(a, Names, Objects) /\ DOMAIN a = DOMAIN s.nicks \ {s.nk[i].name : i \in gone}
      /\ \A n \in DOMAIN a : a[n] = s.nicks[n]
  <2> HIDE DEF gone
  <2> QED
    BY <1>1 DEF Without, IsMap
<1>3. IsMap(d, Chans, ChanObjects) /\ DOMAIN d = DOMAIN s.ch \ {c} /\ \A e \in DOMAIN d : d[e] = s.ch[e]
  BY <1>1 DEF Without, IsMap
<1>4. ASSUME NEW i \in DOMAIN s.nk \ gone
      PROVE  /\ b[i] \in NickObjects /\ b[i].name = s.nk[i].name
             /\ b[i].chans = s.nk[i].chans \ {c} /\ b[i].known = s.nk[i].known
  <2>0. /\ s.nk[i] = [name |-> s.nk[i].name, chans |-> s.nk[i].chans, known |-> s.nk[i].known]
        /\ s.nk[i].name \in Names /\ s.nk[i].chans \in SUBSET Chans /\ s.nk[i].known \in BOOLEAN
        /\ i \in Objects /\ s.nk[i] \in NickObjects
    BY <1>1, NickObjectsAre DEF IsMap
  <2>1. CASE i \in DOMAIN s.ch[c].nicks
    <3> DEFINE x == s.nk[i]
    <3>1. b[i] = [x EXCEPT !.chans = x.chans \ {c}]
      BY <2>1
    <3> HIDE DEF b, x
    <3>2. [x EXCEPT !.chans = x.chans \ {c}]
            = [name |-> x.name, chans |-> x.chans \ {c}, known |-> x.known]
      BY <2>0 DEF x
    <3>3. b[i] = [name |-> x.name, chans |-> x.chans \ {c}, known |-> x.known]
      BY <3>1, <3>2
    <3>4. x.name \in Names /\ x.chans \ {c} \in SUBSET Chans /\ x.known \in BOOLEAN
      BY <2>0 DEF x
    <3> QED
      BY <3>3, <3>4 DEF NickObjects, x
  <2>2. CASE i \notin DOMAIN s.ch[c].nicks
    <3>1. c \notin s.nk[i].chans
      BY <1>1, <2>0, <2>2 DEF ChansAgree
    <3>2. b[i] = s.nk[i]
      BY <2>2
    <3> HIDE DEF b
    <3> QED
      BY <2>0, <3>1, <3>2
  <2> QED
    BY <2>1, <2>2
<1>5. IsMap(b, Objects, NickObjects) /\ DOMAIN b = DOMAIN s.nk \ gone
  <2>1. b = [i \in DOMAIN b |-> b[i]] /\ DOMAIN b = DOMAIN s.nk \ gone
    OBVIOUS
  <2>2. \A i \in DOMAIN s.nk \ gone : b[i] \in NickObjects
    BY <1>4
  <2> HIDE DEF b, gone
  <2> QED
    BY <1>1, <2>1, <2>2 DEF IsMap
<1>6. r = [nicks |-> a, nk |-> b, ch |-> d]
  BY DEF DelChannel
<1>7. \A i \in DOMAIN s.nk : i \in gone <=> i # Me /\ s.nk[i].chans = {c}
  BY <1>1 DEF ChansAgree
<1>8. gone \subseteq DOMAIN s.nk
  BY <1>1, ChanObjectsAre DEF ChansAgree, IsMap
<1> HIDE DEF a, b, d, r, gone
<1>9. r \in Trackers /\ r.nicks = a /\ r.nk = b /\ r.ch = d
  BY <1>2, <1>3, <1>5, <1>6, TrackerMade
<1>10. \A n \in DOMAIN s.nicks : n \in DOMAIN a <=> s.nicks[n] \notin gone
  <2> SUFFICES ASSUME NEW n \in DOMAIN s.nicks
               PROVE  n \in {s.nk[i].name : i \in gone} <=> s.nicks[n] \in gone
    BY <1>2
  <2> QED
    BY <1>1, <1>8 DEF NamesAgree
<1>11. NamesAgree(r)
  <2>1. ASSUME NEW i \in DOMAIN b PROVE b[i].name \in DOMAIN a /\ a[b[i].name] = i
    BY <1>1, <1>2, <1>4, <1>5, <1>10, <2>1 DEF NamesAgree
  <2>2. ASSUME NEW n \in DOMAIN a PROVE a[n] \in DOMAIN b /\ b[a[n]].name = n
    BY <1>1, <1>2, <1>4, <1>5, <1>10, <2>2 DEF NamesAgree
  <2> QED
    BY <1>9, <2>1, <2>2 DEF NamesAgree
<1>12. ChansAgree(r)
  <2>1. ASSUME NEW i \in DOMAIN b PROVE b[i].chans \subseteq DOMAIN d
    BY <1>1, <1>3, <1>4, <1>5 DEF ChansAgree
  <2>2. ASSUME NEW e \in DOMAIN d, NEW i \in Objects
        PROVE  i \in DOMAIN d[e].nicks <=> i \in DOMAIN b /\ e \in b[i].chans
    BY <1>1, <1>3, <1>4, <1>5, <1>7 DEF ChansAgree
  <2> QED
    BY <1>9, <2>1, <2>2 DEF ChansAgree
<1>13. LookupsAgree(r)
  <2> SUFFICES ASSUME NEW e \in DOMAIN d, NEW n \in Names
               PROVE  /\ n \in DOMAIN d[e].lookup <=> n \in DOMAIN a /\ a[n] \in DOMAIN d[e].nicks
                      /\ n \in DOMAIN d[e].lookup => d[e].lookup[n] = a[n]
    BY <1>9 DEF LookupsAgree
  <2>1. /\ n \in DOMAIN s.ch[e].lookup <=> n \in DOMAIN s.nicks /\ s.nicks[n] \in DOMAIN s.ch[e].nicks
        /\ n \in DOMAIN s.ch[e].lookup => s.ch[e].lookup[n] = s.nicks[n]
    BY <1>1, <1>3 DEF LookupsAgree
  <2>2. \A i \in gone : i \notin DOMAIN s.ch[e].nicks
    BY <1>1, <1>3, <1>7, <1>8 DEF ChansAgree
  <2>3. DOMAIN a \subseteq DOMAIN s.nicks
    BY <1>2
  <2> QED
    BY <1>2, <1>3, <1>10, <2>1, <2>2, <2>3
<1>14. Me \in DOMAIN b /\ Me \in Objects
  BY <1>1, <1>5, <1>7
<1>15. Whole(r)
  <2>1. \A e \in DOMAIN d : e \in b[Me].chans
    BY <1>3, <1>4, <1>5, <1>14 DEF Whole
  <2>2. \A i \in DOMAIN b \ {Me} : b[i].chans # {}
    BY <1>4, <1>5, <1>7 DEF Whole
  <2> QED
    BY <1>9, <2>1, <2>2 DEF Whole
<1>16. MyName(r) = MyName(s) /\ (KnowsMe(s) => KnowsMe(r))
  BY <1>4, <1>5, <1>9, <1>14 DEF MyName, KnowsMe
<1>17. ASSUME NEW e \in Chans, NEW n \in Names PROVE Has(r, e, n) <=> Has(s, e, n) /\ e # c
  <2>1. DOMAIN a \subseteq DOMAIN s.nicks
    BY <1>2
  <2>2. \A i \in gone : s.nk[i].chans = {c}
    BY <1>7, <1>8
  <2>3. n \in DOMAIN s.nicks => s.nicks[n] \in DOMAIN s.nk
    BY <1>1 DEF NamesAgree
  <2> QED
    BY <1>2, <1>4, <1>5, <1>9, <1>10, <2>1, <2>2, <2>3 DEF Has, Tracked
<1> QED
  BY <1>3, <1>9, <1>11, <1>12, <1>13, <1>14, <1>15, <1>16, <1>17 DEF Sound, r

\* I am on every channel before and after, and so who has a name is one thing
\* to know, and who is where the other.
LEMMA ReNickSound ==
  ASSUME NEW s, Sound(s), NEW old \in Names, NEW neu \in Names, Tracked(s, old), ~Tracked(s, neu)
  PROVE  LET r == ReNick(s, old, neu)
         IN  /\ Sound(r) /\ (Whole(s) => Whole(r))
             /\ MyName(r) = IF old = MyName(s) THEN neu ELSE MyName(s)
             /\ \A c \in Chans, n \in Names :
                  Has(r, c, n) <=> IF n = neu THEN Has(s, c, old) ELSE n # old /\ Has(s, c, n)
<1> DEFINE r == ReNick(s, old, neu)
           i == s.nicks[old]
           a == With(Without(s.nicks, {old}), neu, i)
           p == [name |-> neu, chans |-> s.nk[i].chans, known |-> s.nk[i].known]
           b == [s.nk EXCEPT ![i] = p]
           d == [c \in DOMAIN s.ch |->
                   IF c \notin s.nk[i].chans THEN s.ch[c]
                   ELSE [s.ch[c] EXCEPT !.lookup = With(Without(@, {old}), neu, i)]]
<1>1. /\ s \in Trackers /\ IsMap(s.nicks, Names, Objects) /\ IsMap(s.nk, Objects, NickObjects)
      /\ IsMap(s.ch, Chans, ChanObjects)
      /\ NamesAgree(s) /\ ChansAgree(s) /\ LookupsAgree(s) /\ Me \in DOMAIN s.nk
      /\ DOMAIN s.ch \subseteq Chans /\ DOMAIN s.nk \subseteq Objects
  BY TrackersAre DEF Sound, IsMap
<1>2. /\ i \in DOMAIN s.nk /\ s.nk[i].name = old /\ i \in Objects /\ old # neu
      /\ old \in DOMAIN s.nicks /\ neu \notin DOMAIN s.nicks
  BY <1>1 DEF NamesAgree, Tracked
<1> HIDE DEF i
<1>3. /\ s.nk[i] = [name |-> s.nk[i].name, chans |-> s.nk[i].chans, known |-> s.nk[i].known]
      /\ s.nk[i].chans \in SUBSET Chans /\ s.nk[i].known \in BOOLEAN
  BY <1>1, <1>2, NickObjectsAre
<1>4. /\ IsMap(a, Names, Objects) /\ DOMAIN a = (DOMAIN s.nicks \ {old}) \cup {neu} /\ a[neu] = i
      /\ \A n \in DOMAIN s.nicks \ {old} : a[n] = s.nicks[n]
  <2> DEFINE z == Without(s.nicks, {old})
  <2>1. /\ IsMap(z, Names, Objects) /\ DOMAIN z = DOMAIN s.nicks \ {old}
        /\ \A n \in DOMAIN z : z[n] = s.nicks[n]
    BY <1>1 DEF Without, IsMap
  <2> HIDE DEF z
  <2>2. a = With(z, neu, i)
    BY DEF z
  <2> QED
    BY <1>2, <2>1, <2>2 DEF With, IsMap
<1>5. /\ IsMap(b, Objects, NickObjects) /\ DOMAIN b = DOMAIN s.nk /\ b[i] = p
      /\ \A j \in DOMAIN s.nk : j # i => b[j] = s.nk[j]
  <2>1. p \in NickObjects
    BY <1>3 DEF NickObjects
  <2> HIDE DEF p
  <2> QED
    BY <1>1, <1>2, <2>1 DEF IsMap
<1>6. [s.nk EXCEPT ![i].name = neu] = b
  <2> DEFINE x == s.nk[i]
  <2>1. [x EXCEPT !.name = neu] = p
    <3> HIDE DEF x
    <3>1. x = [name |-> x.name, chans |-> x.chans, known |-> x.known]
      BY <1>3 DEF x
    <3>2. [x EXCEPT !.name = neu] = [name |-> neu, chans |-> x.chans, known |-> x.known]
      BY <3>1
    <3> QED
      BY <3>2 DEF x
  <2>2. [s.nk EXCEPT ![i].name = neu] = [s.nk EXCEPT ![i] = [x EXCEPT !.name = neu]]
    BY SMTT(30)
  <2> QED
    BY <2>1, <2>2
<1>7. ASSUME NEW c \in DOMAIN s.ch
      PROVE  /\ d[c] \in ChanObjects /\ d[c].nicks = s.ch[c].nicks
             /\ i \notin DOMAIN s.ch[c].nicks => d[c] = s.ch[c]
             /\ i \in DOMAIN s.ch[c].nicks =>
                  /\ DOMAIN d[c].lookup = (DOMAIN s.ch[c].lookup \ {old}) \cup {neu}
                  /\ d[c].lookup[neu] = i
                  /\ \A n \in DOMAIN s.ch[c].lookup \ {old} : d[c].lookup[n] = s.ch[c].lookup[n]
  <2> DEFINE x == s.ch[c]
             g == With(Without(x.lookup, {old}), neu, i)
  <2>1. /\ x = [nicks |-> x.nicks, lookup |-> x.lookup, mode |-> x.mode, topic |-> x.topic]
        /\ x.mode \in BOOLEAN /\ x.topic \in BOOLEAN /\ c \in Chans /\ x \in ChanObjects
        /\ IsMap(x.nicks, Objects, BOOLEAN) /\ IsMap(x.lookup, Names, Objects)
    BY <1>1, ChanObjectsAre
  <2>2. i \in DOMAIN x.nicks <=> c \in s.nk[i].chans
    BY <1>1, <1>2 DEF ChansAgree
  <2>3. /\ IsMap(g, Names, Objects) /\ DOMAIN g = (DOMAIN x.lookup \ {old}) \cup {neu} /\ g[neu] = i
        /\ \A n \in DOMAIN x.lookup \ {old} : n # neu => g[n] = x.lookup[n]
    <3> HIDE DEF x
    <3> DEFINE z == Without(x.lookup, {old})
    <3>1. /\ IsMap(z, Names, Objects) /\ DOMAIN z = DOMAIN x.lookup \ {old}
          /\ \A n \in DOMAIN z : z[n] = x.lookup[n]
      BY <2>1 DEF Without, IsMap
    <3>2. g = With(z, neu, i)
      OBVIOUS
    <3> HIDE DEF z, g
    <3>3. /\ IsMap(With(z, neu, i), Names, Objects) /\ DOMAIN With(z, neu, i) = DOMAIN z \cup {neu}
          /\ With(z, neu, i)[neu] = i /\ \A n \in DOMAIN z : n # neu => With(z, neu, i)[n] = z[n]
      BY <1>2, <3>1 DEF With, IsMap
    <3>4. IsMap(g, Names, Objects) /\ DOMAIN g = (DOMAIN x.lookup \ {old}) \cup {neu} /\ g[neu] = i
      BY <3>1, <3>2, <3>3
    <3> QED
      BY <3>1, <3>2, <3>3, <3>4
  <2>4. neu \notin DOMAIN x.lookup
    BY <1>1, <1>2 DEF LookupsAgree
  <2>5. CASE c \notin s.nk[i].chans
    <3>1. d[c] = x
      BY <2>5
    <3> HIDE DEF d, x, g
    <3> QED
      BY <2>1, <2>2, <2>5, <3>1 DEF x
  <2>6. CASE c \in s.nk[i].chans
    <3> DEFINE y == [nicks |-> x.nicks, lookup |-> g, mode |-> x.mode, topic |-> x.topic]
    <3>1. d[c] = [x EXCEPT !.lookup = g]
      BY <2>6
    <3> HIDE DEF d, g, x
    <3>2. [x EXCEPT !.lookup = g] = y
      BY <2>1
    <3>3. y \in ChanObjects /\ y.nicks = x.nicks /\ y.lookup = g
      BY <2>1, <2>3, ChanMade
    <3>4. d[c] = y
      BY <3>1, <3>2
    <3> HIDE DEF y
    <3> QED
      BY <2>2, <2>3, <2>4, <2>6, <3>3, <3>4 DEF x
  <2> QED
    BY <2>5, <2>6
<1>8. IsMap(d, Chans, ChanObjects) /\ DOMAIN d = DOMAIN s.ch
  <2>1. d = [c \in DOMAIN d |-> d[c]] /\ DOMAIN d = DOMAIN s.ch
    OBVIOUS
  <2>2. \A c \in DOMAIN s.ch : d[c] \in ChanObjects
    BY <1>7
  <2> HIDE DEF d
  <2> QED
    BY <1>1, <2>1, <2>2 DEF IsMap
<1>9. r = [nicks |-> a, nk |-> b, ch |-> d]
  <2>1. r = [nicks |-> a, nk |-> [s.nk EXCEPT ![i].name = neu], ch |-> d]
    BY DEF ReNick, i
  <2> HIDE DEF a, b, d
  <2> QED
    BY <1>6, <2>1
<1> HIDE DEF a, b, d, r
<1>10. r \in Trackers /\ r.nicks = a /\ r.nk = b /\ r.ch = d
  BY <1>4, <1>5, <1>8, <1>9, TrackerMade
<1>11. \A j \in DOMAIN s.nk : /\ b[j].name = (IF j = i THEN neu ELSE s.nk[j].name)
                              /\ b[j].chans = s.nk[j].chans
  BY <1>5
<1>12. NamesAgree(r)
  <2>1. ASSUME NEW j \in DOMAIN b PROVE b[j].name \in DOMAIN a /\ a[b[j].name] = j
    BY <1>1, <1>2, <1>4, <1>5, <1>11, <2>1 DEF NamesAgree
  <2>2. ASSUME NEW n \in DOMAIN a PROVE a[n] \in DOMAIN b /\ b[a[n]].name = n
    BY <1>1, <1>2, <1>4, <1>5, <1>11, <2>2 DEF NamesAgree
  <2> QED
    BY <1>10, <2>1, <2>2 DEF NamesAgree
<1>13. ChansAgree(r)
  BY <1>1, <1>5, <1>7, <1>8, <1>10, <1>11 DEF ChansAgree
<1>14. LookupsAgree(r)
  <2> SUFFICES ASSUME NEW c \in DOMAIN s.ch, NEW n \in Names
               PROVE  /\ n \in DOMAIN d[c].lookup <=> n \in DOMAIN a /\ a[n] \in DOMAIN d[c].nicks
                      /\ n \in DOMAIN d[c].lookup => d[c].lookup[n] = a[n]
    BY <1>8, <1>10 DEF LookupsAgree
  <2>1. /\ n \in DOMAIN s.ch[c].lookup <=> n \in DOMAIN s.nicks /\ s.nicks[n] \in DOMAIN s.ch[c].nicks
        /\ n \in DOMAIN s.ch[c].lookup => s.ch[c].lookup[n] = s.nicks[n]
    BY <1>1 DEF LookupsAgree
  <2>2. s.nicks[old] = i
    BY DEF i
  <2>3. CASE i \in DOMAIN s.ch[c].nicks
    BY <1>2, <1>4, <1>7, <2>1, <2>2, <2>3
  <2>4. CASE i \notin DOMAIN s.ch[c].nicks
    BY <1>2, <1>4, <1>7, <2>1, <2>2, <2>4
  <2> QED
    BY <2>3, <2>4
<1>15. Whole(s) => Whole(r)
  BY <1>1, <1>5, <1>8, <1>10, <1>11 DEF Whole
<1>16. MyName(r) = IF old = MyName(s) THEN neu ELSE MyName(s)
  <2>1. i = Me <=> old = MyName(s)
    BY <1>1, <1>2 DEF MyName, NamesAgree, i
  <2> QED
    BY <1>1, <1>10, <1>11, <2>1 DEF MyName
<1>17. ASSUME NEW c \in Chans, NEW n \in Names
       PROVE  Has(r, c, n) <=> IF n = neu THEN Has(s, c, old) ELSE n # old /\ Has(s, c, n)
  <2>1. s.nicks[old] = i
    BY DEF i
  <2>2. n \in DOMAIN s.nicks => s.nicks[n] \in DOMAIN s.nk
    BY <1>1 DEF NamesAgree
  <2> QED
    BY <1>2, <1>4, <1>5, <1>10, <1>11, <2>1, <2>2 DEF Has, Tracked
<1> QED
  BY <1>1, <1>5, <1>10, <1>12, <1>13, <1>14, <1>15, <1>16, <1>17 DEF Sound, r

LEMMA DelNickSound ==
  ASSUME NEW s, Sound(s), Whole(s), NEW name \in Names
  PROVE  LET r == DelNick(s, name)
         IN  /\ Sound(r) /\ Whole(r) /\ MyName(r) = MyName(s)
             /\ \A c \in Chans, n \in Names :
                  Has(r, c, n) <=> Has(s, c, n) /\ (n # name \/ name = MyName(s))
<1> DEFINE r == DelNick(s, name)
           i == s.nicks[name]
<1>1. Me \in DOMAIN s.nk /\ NamesAgree(s)
  BY DEF Sound
<1>2. CASE Tracked(s, name) /\ i # Me
  <2>1. i \in DOMAIN s.nk /\ s.nk[i].name = name /\ name # MyName(s)
    BY <1>1, <1>2 DEF NamesAgree, Tracked, MyName
  <2>2. r = Drop(s, i)
    BY <1>2 DEF DelNick
  <2> HIDE DEF r, i
  <2>3. /\ Sound(r) /\ DOMAIN r.ch = DOMAIN s.ch
        /\ DOMAIN r.nicks = DOMAIN s.nicks \ {name}
        /\ \A n \in DOMAIN r.nicks : r.nicks[n] = s.nicks[n]
        /\ DOMAIN r.nk = DOMAIN s.nk \ {i} /\ \A j \in DOMAIN r.nk : r.nk[j] = s.nk[j]
    BY <1>2, <2>1, <2>2, DropSound DEF i
  <2>4. NamesAgree(r)
    BY <2>3 DEF Sound
  <2>5. Whole(r) /\ MyName(r) = MyName(s)
    BY <1>1, <1>2, <2>3 DEF Whole, MyName, i
  <2>6. \A c \in Chans, n \in Names : Has(r, c, n) <=> Has(s, c, n) /\ n # name
    BY <2>3, <2>4 DEF Has, Tracked, NamesAgree
  <2> QED
    BY <2>1, <2>3, <2>5, <2>6 DEF r
<1>3. CASE ~(Tracked(s, name) /\ i # Me)
  <2>1. r = s
    BY <1>3 DEF DelNick
  <2>2. Tracked(s, name) => name = MyName(s)
    BY <1>1, <1>3 DEF NamesAgree, MyName, Tracked
  <2> HIDE DEF r
  <2> QED
    BY <2>1, <2>2 DEF Has, r
<1> QED
  BY <1>2, <1>3

\* A nick that leaves a channel is forgotten later, if that was its last.
Left(s, c, i) == [s EXCEPT !.ch[c] = Expel(s, @, i), !.nk[i].chans = @ \ {c}]

LEMMA LeftSound ==
  ASSUME NEW s, Sound(s), NEW c \in DOMAIN s.ch, NEW i \in DOMAIN s.nk
  PROVE  LET r == Left(s, c, i)
         IN  Sound(r) /\ Moved(r, s, i, s.nk[i].chans \ {c})
<1> DEFINE r == Left(s, c, i)
           x == s.ch[c]
           y == Expel(s, x, i)
           p == [name |-> s.nk[i].name, chans |-> s.nk[i].chans \ {c}, known |-> s.nk[i].known]
           b == [s.nk EXCEPT ![i] = p]
           d == [s.ch EXCEPT ![c] = y]
<1>1. /\ s \in Trackers /\ IsMap(s.nicks, Names, Objects) /\ IsMap(s.nk, Objects, NickObjects)
      /\ IsMap(s.ch, Chans, ChanObjects)
      /\ NamesAgree(s) /\ ChansAgree(s) /\ LookupsAgree(s) /\ Me \in DOMAIN s.nk
  BY TrackersAre DEF Sound
<1>2. /\ s.nk[i].name \in Names /\ i \in Objects /\ s.nk[i].chans \in SUBSET Chans
      /\ s.nk[i].known \in BOOLEAN
      /\ s.nk[i] = [name |-> s.nk[i].name, chans |-> s.nk[i].chans, known |-> s.nk[i].known]
  BY <1>1, NickObjectsAre
<1>3. /\ y \in ChanObjects /\ DOMAIN y.nicks = DOMAIN x.nicks \ {i}
      /\ DOMAIN y.lookup = DOMAIN x.lookup \ {s.nk[i].name}
      /\ \A n \in DOMAIN y.lookup : y.lookup[n] = x.lookup[n]
  <2>1. s \in Trackers
    BY <1>1
  <2> QED
    BY <2>1, ExpelIs
<1>4. r = [nicks |-> s.nicks, nk |-> b, ch |-> d]
  <2> DEFINE z == s.nk[i]
             q == [z EXCEPT !.chans = z.chans \ {c}]
  <2>1. q = p
    <3>1. z = [name |-> z.name, chans |-> z.chans, known |-> z.known]
      BY <1>2
    <3>2. q = [name |-> z.name, chans |-> z.chans \ {c}, known |-> z.known]
      <4> HIDE DEF z
      <4> QED
        BY <3>1
    <3> QED
      BY <3>2
  <2>2. r = [s EXCEPT !.ch = [s.ch EXCEPT ![c] = y], !.nk = [s.nk EXCEPT ![i] = q]]
    <3> DEFINE t == [s EXCEPT !.ch = [s.ch EXCEPT ![c] = y]]
    <3>1. r = [t EXCEPT !.nk = [t.nk EXCEPT ![i] = [t.nk[i] EXCEPT !.chans = t.nk[i].chans \ {c}]]]
      BY DEF Left
    <3>2. t.nk = s.nk
      BY <1>1 DEF Trackers
    <3>3. r = [t EXCEPT !.nk = [s.nk EXCEPT ![i] = q]]
      <4> HIDE DEF r, t
      <4> QED
        BY <3>1, <3>2
    <3> QED
      BY <3>3
  <2> HIDE DEF y, p, r
  <2>3. r = [s EXCEPT !.ch = d, !.nk = b]
    <3> HIDE DEF q
    <3> QED
      BY <2>1, <2>2
  <2> HIDE DEF b, d
  <2>4. [s EXCEPT !.ch = d, !.nk = b] = [nicks |-> s.nicks, nk |-> b, ch |-> d]
    <3> DEFINE t == [s EXCEPT !.ch = d]
    <3>1. t = [nicks |-> s.nicks, nk |-> s.nk, ch |-> d]
      BY <1>1 DEF Trackers
    <3>2. [t EXCEPT !.nk = b] = [nicks |-> s.nicks, nk |-> b, ch |-> d]
      <4> HIDE DEF t
      <4> QED
        BY <3>1
    <3> QED
      BY <3>2
  <2> QED
    BY <2>3, <2>4
<1>5. IsMap(b, Objects, NickObjects) /\ DOMAIN b = DOMAIN s.nk /\ b[i] = p
      /\ \A j \in DOMAIN s.nk : j # i => b[j] = s.nk[j]
  <2>1. p \in NickObjects
    BY <1>2 DEF NickObjects
  <2> HIDE DEF p
  <2> QED
    BY <1>1, <2>1 DEF IsMap
<1>6. IsMap(d, Chans, ChanObjects) /\ DOMAIN d = DOMAIN s.ch /\ d[c] = y
      /\ \A e \in DOMAIN s.ch : e # c => d[e] = s.ch[e]
  <2> HIDE DEF y
  <2> QED
    BY <1>1, <1>3 DEF IsMap
<1> HIDE DEF b, d, y, r
<1>7. r \in Trackers /\ r.nicks = s.nicks /\ r.nk = b /\ r.ch = d
  BY <1>1, <1>4, <1>5, <1>6, TrackerMade
<1>8. \A j \in DOMAIN s.nk : /\ b[j].name = s.nk[j].name
                             /\ b[j].chans = IF j = i THEN s.nk[j].chans \ {c} ELSE s.nk[j].chans
  BY <1>5
<1>9. NamesAgree(r)
  BY <1>1, <1>5, <1>7, <1>8 DEF NamesAgree
<1>10. ChansAgree(r)
  BY <1>1, <1>3, <1>5, <1>6, <1>7, <1>8 DEF ChansAgree
<1>11. LookupsAgree(r)
  <2> SUFFICES ASSUME NEW e \in DOMAIN s.ch, NEW n \in Names
               PROVE  /\ n \in DOMAIN d[e].lookup <=> n \in DOMAIN s.nicks /\ s.nicks[n] \in DOMAIN d[e].nicks
                      /\ n \in DOMAIN d[e].lookup => d[e].lookup[n] = s.nicks[n]
    BY <1>6, <1>7 DEF LookupsAgree
  <2>1. /\ n \in DOMAIN s.ch[e].lookup <=> n \in DOMAIN s.nicks /\ s.nicks[n] \in DOMAIN s.ch[e].nicks
        /\ n \in DOMAIN s.ch[e].lookup => s.ch[e].lookup[n] = s.nicks[n]
    BY <1>1 DEF LookupsAgree
  <2>2. n \in DOMAIN s.nicks => (s.nicks[n] = i <=> n = s.nk[i].name)
    BY <1>1 DEF NamesAgree
  <2>3. CASE e = c
    BY <1>3, <1>6, <2>1, <2>2, <2>3
  <2>4. CASE e # c
    BY <1>6, <2>1, <2>4
  <2> QED
    BY <2>3, <2>4
<1> QED
  BY <1>1, <1>5, <1>6, <1>7, <1>8, <1>9, <1>10, <1>11 DEF Sound, Moved, r

LEMMA DissociateSound ==
  ASSUME NEW s, Sound(s), Whole(s), NEW c \in Chans, NEW name \in Names
  PROVE  LET r == Dissociate(s, c, name)
         IN  /\ Sound(r) /\ Whole(r) /\ MyName(r) = MyName(s)
             /\ \A d \in Chans, n \in Names :
                  Has(r, d, n) <=> Has(s, d, n) /\ ~(d = c /\ (n = name \/ name = MyName(s)))
<1> DEFINE r == Dissociate(s, c, name)
           i == s.nicks[name]
           left == Left(s, c, i)
<1>1. /\ Me \in DOMAIN s.nk /\ NamesAgree(s) /\ ChansAgree(s)
      /\ s.nicks[MyName(s)] = Me /\ Tracked(s, MyName(s))
  BY DEF Sound, NamesAgree, MyName, Tracked
<1>2. CASE ~(c \in DOMAIN s.ch /\ Tracked(s, name) /\ c \in s.nk[i].chans)
  <2>1. r = s
    BY <1>2 DEF Dissociate
  <2>2. ~Has(s, c, name)
    BY <1>1, <1>2 DEF Has, Tracked, NamesAgree, ChansAgree
  <2>3. name = MyName(s) => \A n \in Names : ~Has(s, c, n)
    BY <1>1, <2>2 DEF Has, Whole, NamesAgree, ChansAgree, Tracked
  <2> HIDE DEF r
  <2> QED
    BY <2>1, <2>2, <2>3 DEF r
<1>3. CASE c \in DOMAIN s.ch /\ Tracked(s, name) /\ c \in s.nk[i].chans
  <2>1. i \in DOMAIN s.nk /\ s.nk[i].name = name /\ (i = Me <=> name = MyName(s))
    BY <1>1, <1>3 DEF NamesAgree, Tracked, MyName
  <2>2. r = IF i = Me THEN DelChannel(s, c)
            ELSE IF left.nk[i].chans = {} THEN Drop(left, i) ELSE left
    BY <1>3 DEF Dissociate, Left
  <2> HIDE DEF r
  <2>3. CASE i = Me
    <3>1. r = DelChannel(s, c)
      BY <2>2, <2>3
    <3> QED
      BY <1>3, <2>1, <2>3, <3>1, DelChannelSound DEF r
  <2>4. CASE i # Me
    <3>0. Sound(left) /\ Moved(left, s, i, s.nk[i].chans \ {c})
      <4> HIDE DEF i
      <4>1. i \in DOMAIN s.nk /\ c \in DOMAIN s.ch
        BY <1>3, <2>1
      <4> QED
        BY <4>1, LeftSound
    <3>1. /\ Sound(left) /\ left.nicks = s.nicks
          /\ DOMAIN left.nk = DOMAIN s.nk /\ DOMAIN left.ch = DOMAIN s.ch
          /\ \A j \in DOMAIN s.nk : /\ left.nk[j].name = s.nk[j].name
                                    /\ left.nk[j].chans = IF j = i THEN s.nk[i].chans \ {c}
                                                                   ELSE s.nk[j].chans
      <4> HIDE DEF left, i
      <4> QED
        BY <3>0 DEF Moved
    <3> HIDE DEF left, i
    <3>2. \A d \in Chans, n \in Names : Has(left, d, n) <=> Has(s, d, n) /\ ~(d = c /\ n = name)
      <4> SUFFICES ASSUME NEW d \in Chans, NEW n \in Names, n \in DOMAIN s.nicks
                   PROVE  d \in left.nk[s.nicks[n]].chans
                            <=> d \in s.nk[s.nicks[n]].chans /\ ~(d = c /\ n = name)
        BY <3>1 DEF Has, Tracked
      <4>1. s.nicks[n] \in DOMAIN s.nk /\ (s.nicks[n] = i <=> n = name)
        BY <1>1, <1>3, <2>1 DEF NamesAgree, i
      <4> QED
        BY <3>1, <4>1
    <3>3. name # MyName(s)
      BY <2>1, <2>4
    <3>4. CASE left.nk[i].chans # {}
      <4>1. r = left
        BY <2>2, <2>4, <3>4
      <4>2. Whole(left) /\ MyName(left) = MyName(s)
        BY <1>1, <2>4, <3>1, <3>4 DEF Whole, MyName
      <4> QED
        BY <3>1, <3>2, <3>3, <4>1, <4>2 DEF r
    <3>5. CASE left.nk[i].chans = {}
      <4>1. r = Drop(left, i)
        BY <2>2, <2>4, <3>5
      <4>2. /\ Sound(r) /\ DOMAIN r.ch = DOMAIN left.ch
            /\ DOMAIN r.nicks = DOMAIN left.nicks \ {left.nk[i].name}
            /\ \A n \in DOMAIN r.nicks : r.nicks[n] = left.nicks[n]
            /\ DOMAIN r.nk = DOMAIN left.nk \ {i} /\ \A j \in DOMAIN r.nk : r.nk[j] = left.nk[j]
        BY <2>1, <2>4, <3>1, <4>1, DropSound
      <4>3. Whole(r) /\ MyName(r) = MyName(s)
        BY <1>1, <2>4, <3>1, <4>2 DEF Whole, MyName
      <4>4. NamesAgree(r) /\ left.nk[i].name = name
        BY <2>1, <3>1, <4>2 DEF Sound
      <4>5. \A d \in Chans, n \in Names : Has(r, d, n) <=> Has(left, d, n) /\ n # name
        BY <4>2, <4>4 DEF Has, Tracked, NamesAgree
      <4>6. \A d \in Chans : ~Has(left, d, name)
        BY <2>1, <3>1, <3>5 DEF Has, Tracked, i
      <4> QED
        BY <3>2, <3>3, <4>2, <4>3, <4>5, <4>6 DEF r
    <3> QED
      BY <3>4, <3>5
  <2> QED
    BY <2>3, <2>4
<1> QED
  BY <1>2, <1>3

\* Nothing has changed of who is where.
Still(r, s) ==
  /\ r.nicks = s.nicks /\ DOMAIN r.nk = DOMAIN s.nk /\ DOMAIN r.ch = DOMAIN s.ch
  /\ \A j \in DOMAIN s.nk : r.nk[j].name = s.nk[j].name /\ r.nk[j].chans = s.nk[j].chans

LEMMA StillHas ==
  ASSUME NEW s, Sound(s), NEW r, Still(r, s)
  PROVE  /\ MyName(r) = MyName(s) /\ (Whole(s) => Whole(r))
         /\ \A c \in Chans, n \in Names : Has(r, c, n) <=> Has(s, c, n)
<1>1. Me \in DOMAIN s.nk /\ \A n \in DOMAIN s.nicks : s.nicks[n] \in DOMAIN s.nk
  BY DEF Sound, NamesAgree
<1>2. MyName(r) = MyName(s) /\ (Whole(s) => Whole(r))
  BY <1>1 DEF Still, MyName, Whole
<1>3. \A c \in Chans, n \in Names : Has(r, c, n) <=> Has(s, c, n)
  BY <1>1 DEF Still, Has, Tracked
<1> QED
  BY <1>2, <1>3

\* A channel with the nicks it had.
LEMMA ChanEdited ==
  ASSUME NEW s, Sound(s), NEW c \in DOMAIN s.ch, NEW y \in ChanObjects,
         DOMAIN y.nicks = DOMAIN s.ch[c].nicks, y.lookup = s.ch[c].lookup
  PROVE  LET r == [s EXCEPT !.ch = [s.ch EXCEPT ![c] = y]]
         IN  Sound(r) /\ Still(r, s)
<1> DEFINE r == [s EXCEPT !.ch = [s.ch EXCEPT ![c] = y]]
           d == [s.ch EXCEPT ![c] = y]
<1>1. /\ s \in Trackers /\ IsMap(s.nicks, Names, Objects) /\ IsMap(s.nk, Objects, NickObjects)
      /\ IsMap(s.ch, Chans, ChanObjects)
      /\ NamesAgree(s) /\ ChansAgree(s) /\ LookupsAgree(s) /\ Me \in DOMAIN s.nk
  BY TrackersAre DEF Sound
<1>2. r = [nicks |-> s.nicks, nk |-> s.nk, ch |-> d]
  BY <1>1 DEF Trackers
<1>3. IsMap(d, Chans, ChanObjects) /\ DOMAIN d = DOMAIN s.ch
      /\ \A e \in DOMAIN s.ch : DOMAIN d[e].nicks = DOMAIN s.ch[e].nicks /\ d[e].lookup = s.ch[e].lookup
  BY <1>1 DEF IsMap
<1> HIDE DEF d, r
<1>4. r \in Trackers /\ r.nicks = s.nicks /\ r.nk = s.nk /\ r.ch = d
  BY <1>1, <1>2, <1>3, TrackerMade
<1>5. NamesAgree(r)
  BY <1>1, <1>4 DEF NamesAgree
<1>6. ChansAgree(r)
  BY <1>1, <1>3, <1>4 DEF ChansAgree
<1>7. LookupsAgree(r)
  BY <1>1, <1>3, <1>4 DEF LookupsAgree
<1> QED
  BY <1>1, <1>3, <1>4, <1>5, <1>6, <1>7 DEF Sound, Still, r

\* Somebody comes to a channel there is.
Entered(s, c, n, known) ==
  LET t == AddNick(s, n, known) IN Associate(t, c, t.nicks[n])

Came(r, s, c, n) ==
  /\ Tracked(r, n) /\ DOMAIN r.ch = DOMAIN s.ch /\ r.nicks[n] \in DOMAIN r.ch[c].nicks
  /\ \A i \in DOMAIN s.nk : /\ i \in DOMAIN r.nk /\ r.nk[i].name = s.nk[i].name
                            /\ s.nk[i].chans \subseteq r.nk[i].chans
  /\ \A i \in DOMAIN r.nk : i \in DOMAIN s.nk \/ c \in r.nk[i].chans
  /\ \A d \in Chans, m \in Names : Has(r, d, m) <=> Has(s, d, m) \/ (d = c /\ m = n)

LEMMA EnteredSound ==
  ASSUME NEW s, Sound(s), NEW c \in DOMAIN s.ch, NEW n \in Names, NEW known \in BOOLEAN
  PROVE  LET r == Entered(s, c, n, known) IN Sound(r) /\ Came(r, s, c, n)
<1> DEFINE t == AddNick(s, n, known)
           i == t.nicks[n]
           r == Associate(t, c, i)
<1>1. /\ Sound(t) /\ Tracked(t, n) /\ t.ch = s.ch
      /\ \A j \in DOMAIN s.nk : j \in DOMAIN t.nk /\ t.nk[j] = s.nk[j]
      /\ \A j \in DOMAIN t.nk : j \in DOMAIN s.nk \/ j = i
      /\ \A d \in Chans, m \in Names : Has(t, d, m) <=> Has(s, d, m)
  BY AddNickSound
<1> HIDE DEF t
<1>2. c \in DOMAIN t.ch /\ i \in DOMAIN t.nk /\ t.nk[i].name = n /\ NamesAgree(t)
  BY <1>1 DEF Sound, NamesAgree, Tracked
<1> HIDE DEF i
<1>3. Sound(r) /\ Moved(r, t, i, t.nk[i].chans \cup {c})
  BY <1>1, <1>2, AssociateSound
<1> HIDE DEF r
<1>4. /\ r.nicks = t.nicks /\ DOMAIN r.nk = DOMAIN t.nk /\ DOMAIN r.ch = DOMAIN t.ch
      /\ \A j \in DOMAIN t.nk : /\ r.nk[j].name = t.nk[j].name
                                /\ r.nk[j].chans = IF j = i THEN t.nk[i].chans \cup {c}
                                                            ELSE t.nk[j].chans
  BY <1>3 DEF Moved
<1>5. ASSUME NEW d \in Chans, NEW m \in Names
      PROVE  Has(r, d, m) <=> Has(s, d, m) \/ (d = c /\ m = n)
  <2>1. CASE m \notin DOMAIN t.nicks
    BY <1>1, <1>4, <2>1 DEF Has, Tracked
  <2>2. CASE m \in DOMAIN t.nicks
    <3>1. t.nicks[m] \in DOMAIN t.nk /\ (t.nicks[m] = i <=> m = n)
      BY <1>2, <2>2 DEF NamesAgree, i
    <3>2. Has(r, d, m) <=> Has(t, d, m) \/ (d = c /\ m = n)
      BY <1>4, <2>2, <3>1 DEF Has, Tracked
    <3> QED
      BY <1>1, <3>2
  <2> QED
    BY <2>1, <2>2
<1>6. r.nicks[n] = i /\ Tracked(r, n)
  BY <1>1, <1>4 DEF Tracked, i
<1>7. i \in DOMAIN r.ch[c].nicks
  <2>1. i \in Objects /\ c \in DOMAIN r.ch
    BY <1>1, <1>2, <1>4, NickObjectsAre DEF Sound
  <2> QED
    BY <1>2, <1>3, <1>4, <2>1 DEF Sound, ChansAgree
<1>8. ASSUME NEW j \in DOMAIN s.nk
      PROVE  j \in DOMAIN r.nk /\ r.nk[j].name = s.nk[j].name /\ s.nk[j].chans \subseteq r.nk[j].chans
  BY <1>1, <1>4
<1>9. ASSUME NEW j \in DOMAIN r.nk PROVE j \in DOMAIN s.nk \/ c \in r.nk[j].chans
  BY <1>1, <1>4
<1>10. DOMAIN r.ch = DOMAIN s.ch
  BY <1>1, <1>4
<1>11. Came(r, s, c, n)
  BY <1>5, <1>6, <1>7, <1>8, <1>9, <1>10 DEF Came
<1>12. r = Entered(s, c, n, known)
  BY DEF r, t, i, Entered
<1> QED
  BY <1>3, <1>11, <1>12

LEMMA JoinedSound ==
  ASSUME NEW s, Sound(s), Whole(s), NEW l, l.nick \in Names, l.chan \in Chans
  PROVE  LET r == Joined(s, l)
         IN  /\ Sound(r) /\ Whole(r) /\ MyName(r) = MyName(s)
             /\ IF Has(s, l.chan, MyName(s)) \/ l.nick = MyName(s)
                THEN \A d \in Chans, m \in Names :
                       Has(r, d, m) <=> Has(s, d, m) \/ (d = l.chan /\ m = l.nick)
                ELSE r = s
<1> DEFINE r == Joined(s, l)
           c == l.chan
           n == l.nick
           u == AddChannel(s, c)
<1>1. CASE c \notin DOMAIN s.ch /\ n # MyName(s)
  <2>1. r = s
    BY <1>1 DEF Joined
  <2>2. ~(Has(s, c, MyName(s)) \/ n = MyName(s))
    BY <1>1 DEF Has, Tracked, Sound, NamesAgree, ChansAgree
  <2> HIDE DEF r
  <2> QED
    BY <2>1, <2>2 DEF r
<1>2. CASE c \in DOMAIN s.ch \/ n = MyName(s)
  <2>1. r = Entered(u, c, n, TRUE)
    BY <1>2 DEF Joined, Entered
  <2>2. Sound(u) /\ u.nicks = s.nicks /\ u.nk = s.nk /\ DOMAIN u.ch = DOMAIN s.ch \cup {c}
    BY AddChannelSound
  <2> HIDE DEF u, r
  <2>3. Sound(r) /\ Came(r, u, c, n)
    <3>1. n \in Names /\ c \in DOMAIN u.ch
      BY <2>2
    <3> HIDE DEF n, c
    <3> QED
      BY <2>1, <2>2, <3>1, EnteredSound
  <2> HIDE DEF c, n
  <2>4. \A d \in Chans, m \in Names : Has(u, d, m) <=> Has(s, d, m)
    BY <2>2 DEF Has, Tracked
  <2>5. /\ Me \in DOMAIN s.nk /\ NamesAgree(s) /\ Me \in DOMAIN r.nk /\ NamesAgree(r)
        /\ r.nk[Me].name = s.nk[Me].name /\ s.nk[Me].chans \subseteq r.nk[Me].chans
    BY <2>2, <2>3 DEF Sound, Came
  <2>6. MyName(r) = MyName(s)
    BY <2>5 DEF MyName
  <2>7. n = MyName(s) => c \in r.nk[Me].chans
    <3>1. c \in Chans /\ n \in Names
      BY DEF c, n
    <3>2. Has(r, c, n)
      BY <2>3, <3>1 DEF Came
    <3> QED
      BY <2>5, <3>2 DEF Has, MyName, NamesAgree
  <2>8. ASSUME NEW d \in DOMAIN r.ch PROVE d \in r.nk[Me].chans
    <3>1. d \in DOMAIN s.ch \/ (d = c /\ n = MyName(s))
      BY <1>2, <2>2, <2>3, <2>8 DEF Came, c, n
    <3> QED
      BY <2>5, <2>7, <3>1 DEF Whole
  <2>9. ASSUME NEW i \in DOMAIN r.nk \ {Me} PROVE r.nk[i].chans # {}
    <3>1. i \in DOMAIN s.nk => s.nk[i].chans \subseteq r.nk[i].chans /\ s.nk[i].chans # {}
      BY <2>2, <2>3 DEF Came, Whole
    <3>2. i \in DOMAIN s.nk \/ c \in r.nk[i].chans
      BY <2>2, <2>3 DEF Came
    <3> QED
      BY <3>1, <3>2
  <2>10. Has(s, c, MyName(s)) \/ n = MyName(s)
    <3>1. MyName(s) \in DOMAIN s.nicks /\ s.nicks[MyName(s)] = Me
      BY <2>5 DEF NamesAgree, MyName
    <3> QED
      BY <1>2, <3>1 DEF Has, Tracked, Whole, c, n
  <2>11. \A d \in Chans, m \in Names : Has(r, d, m) <=> Has(s, d, m) \/ (d = c /\ m = n)
    BY <2>3, <2>4 DEF Came
  <2> QED
    BY <2>3, <2>6, <2>8, <2>9, <2>10, <2>11 DEF Whole, r, c, n
<1> QED
  BY <1>1, <1>2

\* Wipe leaves nobody but me.
LEMMA WipeSound ==
  ASSUME NEW s, Sound(s), Whole(s)
  PROVE  LET r == Wipe(s)
         IN  /\ Sound(r) /\ Whole(r) /\ MyName(r) = MyName(s)
             /\ \A c \in Chans, n \in Names : ~Has(r, c, n)
             /\ KnowsMe(s) => KnowsMe(r)
<1> DEFINE cs == SetToSeq(DOMAIN s.ch)
           n == Len(cs)
           stage == [k \in 0..n |->
                       {t \in Trackers : /\ Sound(t) /\ Whole(t) /\ MyName(t) = MyName(s)
                                         /\ (KnowsMe(s) => KnowsMe(t))
                                         /\ DOMAIN t.ch = DOMAIN s.ch \ {cs[j] : j \in 1..k}}]
           G == [x \in (1..n) \X Trackers |-> DelChannel(x[2], cs[x[1]])]
           Gone == CHOOSE P : P = [k \in 0..n |-> IF k = 0 THEN s ELSE DelChannel(P[k - 1], cs[k])]
<1>0. IsFiniteSet(DOMAIN s.ch)
  BY TrackersAre, FS_Subset, TrackerConstants DEF Sound, IsMap
<1>1. /\ n \in Nat /\ \A i \in 1..n : cs[i] \in DOMAIN s.ch
      /\ \A i, j \in 1..n : cs[i] = cs[j] => i = j
      /\ \A x \in DOMAIN s.ch : \E i \in 1..n : cs[i] = x
  <2> HIDE DEF n, cs
  <2> QED
    BY <1>0, SetToSeqIs DEF n, cs
<1>2. Wipe(s) = Gone[n]
  BY DEF Wipe
<1> HIDE DEF cs, n
<1>3. s \in stage[0]
  <2>1. 0 \in 0..n /\ 1..0 = {}
    BY <1>1
  <2> QED
    BY <2>1 DEF Sound
<1>4. ASSUME NEW k \in 1..n, NEW t \in stage[k - 1]
      PROVE  DelChannel(t, cs[k]) \in stage[k] /\ t \in Trackers
  <2>1. k - 1 \in 0..n /\ k \in 0..n /\ 1..k = 1..(k - 1) \cup {k} /\ k \notin 1..(k - 1)
        /\ 1..(k - 1) \subseteq 1..n
    BY <1>1
  <2>2. /\ t \in Trackers /\ Sound(t) /\ Whole(t) /\ MyName(t) = MyName(s)
        /\ (KnowsMe(s) => KnowsMe(t))
        /\ DOMAIN t.ch = DOMAIN s.ch \ {cs[j] : j \in 1..(k - 1)}
    BY <2>1
  <2>3. cs[k] \in DOMAIN t.ch
    BY <1>1, <2>1, <2>2
  <2> DEFINE r == DelChannel(t, cs[k])
  <2>4. /\ Sound(r) /\ Whole(r) /\ MyName(r) = MyName(t) /\ DOMAIN r.ch = DOMAIN t.ch \ {cs[k]}
        /\ (KnowsMe(t) => KnowsMe(r))
    BY <2>2, <2>3, DelChannelSound
  <2> HIDE DEF r
  <2>5. DOMAIN r.ch = DOMAIN s.ch \ {cs[j] : j \in 1..k}
    BY <2>1, <2>2, <2>4
  <2>6. r \in stage[k]
    BY <2>1, <2>2, <2>4, <2>5 DEF Sound
  <2> QED
    BY <2>2, <2>6 DEF r
<1>5. Stages(stage, s, G, n)
  <2> SUFFICES ASSUME NEW k \in 1..n, NEW t \in stage[k - 1] PROVE G[<<k, t>>] \in stage[k]
    BY <1>3 DEF Stages
  <2>1. G[<<k, t>>] = DelChannel(t, cs[k])
    BY <1>4
  <2> QED
    BY <1>4, <2>1
<1> HIDE DEF stage
<1>6. PICK P : /\ Runs(P, s, G, n)
               /\ \A k \in 0..n : P[k] \in stage[k]
  <2> HIDE DEF G
  <2> QED
    BY <1>1, <1>5, LoopRuns
<1>7. P = [k \in 0..n |-> IF k = 0 THEN s ELSE DelChannel(P[k - 1], cs[k])]
  <2>1. ASSUME NEW k \in 0..n, k # 0
        PROVE  G[<<k, P[k - 1]>>] = DelChannel(P[k - 1], cs[k])
    <3>1. k \in 1..n /\ k - 1 \in 0..n
      BY <1>1, <2>1
    <3>2. P[k - 1] \in Trackers
      BY <1>4, <1>6, <3>1
    <3> QED
      BY <3>1, <3>2
  <2> HIDE DEF G
  <2> QED
    BY <1>6, <2>1 DEF Runs
<1>8. Gone = [k \in 0..n |-> IF k = 0 THEN s ELSE DelChannel(Gone[k - 1], cs[k])]
  BY <1>7, Zenon
<1> HIDE DEF Gone, G
<1>9. Climbs(Gone, stage, n)
  <2>1. 0 \in 0..n /\ \A k \in 1..n : k \in 0..n /\ k # 0
    BY <1>1
  <2>2. Gone[0] = s /\ \A k \in 1..n : Gone[k] = DelChannel(Gone[k - 1], cs[k])
    BY <1>8, <2>1
  <2> QED
    BY <1>3, <1>4, <2>2 DEF Climbs
<1>10. Gone[n] \in stage[n]
  <2>1. n \in 0..n
    BY <1>1
  <2> QED
    BY <1>1, <1>9, <2>1, Climb
<1> DEFINE r == Gone[n]
<1>11. Sound(r) /\ Whole(r) /\ MyName(r) = MyName(s) /\ DOMAIN r.ch = {} /\ (KnowsMe(s) => KnowsMe(r))
  <2>1. n \in 0..n /\ DOMAIN s.ch \ {cs[j] : j \in 1..n} = {}
    BY <1>1
  <2> QED
    BY <1>10, <2>1 DEF stage
<1> HIDE DEF r
<1>12. \A c \in Chans, m \in Names : ~Has(r, c, m)
  BY <1>11 DEF Sound, NamesAgree, ChansAgree, Has, Tracked
<1> QED
  BY <1>2, <1>11, <1>12 DEF r

ArgsOfModes == Seq(Names \cup {Mask})

\* One letter changes neither who is on the channel nor under which name.
LEMMA LetterSound ==
  ASSUME NEW acc \in [ch : ChanObjects, args : ArgsOfModes], NEW m \in Mode
  PROVE  LET r == Letter(acc, m)
         IN  /\ r \in [ch : ChanObjects, args : ArgsOfModes]
             /\ DOMAIN r.ch.nicks = DOMAIN acc.ch.nicks /\ r.ch.lookup = acc.ch.lookup
<1> DEFINE x == acc.ch
           r == Letter(acc, m)
<1>1. /\ acc = [ch |-> x, args |-> acc.args] /\ x \in ChanObjects /\ acc.args \in ArgsOfModes
      /\ x = [nicks |-> x.nicks, lookup |-> x.lookup, mode |-> x.mode, topic |-> x.topic]
      /\ x.mode \in BOOLEAN /\ x.topic \in BOOLEAN /\ m.add \in BOOLEAN
      /\ x.nicks \in Maps(Objects, BOOLEAN) /\ x.lookup \in Maps(Names, Objects)
  BY DEF ChanObjects, Mode
<1>2. CASE m.letter = "m"
  <2> DEFINE y == [nicks |-> x.nicks, lookup |-> x.lookup, mode |-> m.add, topic |-> x.topic]
  <2>1. r = [acc EXCEPT !.ch = [x EXCEPT !.mode = m.add]]
    BY <1>2 DEF Letter
  <2> HIDE DEF r, x
  <2>2. [x EXCEPT !.mode = m.add] = y
    BY <1>1
  <2>3. y \in ChanObjects
    BY <1>1 DEF ChanObjects
  <2>4. y.nicks = x.nicks /\ y.lookup = x.lookup
    OBVIOUS
  <2> HIDE DEF y
  <2>5. r = [ch |-> y, args |-> acc.args]
    BY <1>1, <2>1, <2>2
  <2> QED
    BY <1>1, <2>3, <2>4, <2>5 DEF r, x
<1>3. CASE m.letter # "m" /\ m.letter = "o" /\ acc.args # <<>> /\ Head(acc.args) \in DOMAIN x.lookup
  <2> DEFINE i == x.lookup[Head(acc.args)]
             f == [x.nicks EXCEPT ![i] = m.add]
             y == [nicks |-> f, lookup |-> x.lookup, mode |-> x.mode, topic |-> x.topic]
  <2>1. r = [ch |-> [x EXCEPT !.nicks = f], args |-> Tail(acc.args)]
    BY <1>3 DEF Letter
  <2> HIDE DEF r, x, i
  <2>2. IsMap(x.nicks, Objects, BOOLEAN)
    BY <1>1, MapsAre DEF IsMap
  <2>3. IsMap(f, Objects, BOOLEAN) /\ DOMAIN f = DOMAIN x.nicks
    BY <1>1, <2>2 DEF IsMap
  <2> HIDE DEF f
  <2>4. [x EXCEPT !.nicks = f] = y
    BY <1>1
  <2>5. f \in Maps(Objects, BOOLEAN)
    BY <2>3, MapsAre DEF IsMap
  <2>6. y \in ChanObjects /\ y.nicks = f /\ y.lookup = x.lookup
    BY <1>1, <2>5 DEF ChanObjects
  <2> HIDE DEF y
  <2>7. Tail(acc.args) \in ArgsOfModes
    BY <1>1, <1>3 DEF ArgsOfModes
  <2> QED
    BY <2>1, <2>3, <2>4, <2>6, <2>7 DEF r, x
<1>4. CASE m.letter # "m" /\ ~(m.letter = "o" /\ acc.args # <<>> /\ Head(acc.args) \in DOMAIN x.lookup)
  BY <1>1, <1>4 DEF Letter
<1> QED
  BY <1>2, <1>3, <1>4

LEMMA ParseModesSound ==
  ASSUME NEW ch \in ChanObjects, NEW modes \in Seq(Mode), NEW args \in ArgsOfModes
  PROVE  LET r == ParseModes(ch, modes, args)
         IN  r \in ChanObjects /\ DOMAIN r.nicks = DOMAIN ch.nicks /\ r.lookup = ch.lookup
<1> DEFINE n == Len(modes)
           V == [ch : ChanObjects, args : ArgsOfModes]
           Kept == {v \in V : DOMAIN v.ch.nicks = DOMAIN ch.nicks /\ v.ch.lookup = ch.lookup}
           stage == [k \in 0..n |-> Kept]
           base == [ch |-> ch, args |-> args]
           G == [x \in (1..n) \X V |-> Letter(x[2], modes[x[1]])]
           Read == CHOOSE P : P = [k \in 0..n |-> IF k = 0 THEN base ELSE Letter(P[k - 1], modes[k])]
<1>1. n \in Nat /\ \A k \in 1..n : modes[k] \in Mode /\ k \in 0..n /\ k - 1 \in 0..n /\ k # 0
  OBVIOUS
<1>2. ParseModes(ch, modes, args) = Read[n].ch
  BY DEF ParseModes
<1> HIDE DEF n
<1>3. base \in Kept
  OBVIOUS
<1> HIDE DEF base
<1>4. ASSUME NEW k \in 1..n, NEW v \in Kept
      PROVE  Letter(v, modes[k]) \in Kept /\ v \in V
  <2>1. modes[k] \in Mode /\ v \in V
    BY <1>1
  <2>2. DOMAIN v.ch.nicks = DOMAIN ch.nicks /\ v.ch.lookup = ch.lookup
    OBVIOUS
  <2> DEFINE r == Letter(v, modes[k])
  <2>3. r \in V /\ DOMAIN r.ch.nicks = DOMAIN v.ch.nicks /\ r.ch.lookup = v.ch.lookup
    BY <2>1, LetterSound
  <2> HIDE DEF r, V
  <2> QED
    BY <2>1, <2>2, <2>3 DEF r
<1> HIDE DEF Kept, V
<1>5. Stages(stage, base, G, n)
  <2>1. 0 \in 0..n
    BY <1>1
  <2>2. ASSUME NEW k \in 1..n, NEW v \in Kept PROVE G[<<k, v>>] \in Kept
    BY <1>4
  <2> HIDE DEF G
  <2> QED
    BY <1>1, <1>3, <2>1, <2>2 DEF Stages
<1>6. PICK P : Runs(P, base, G, n) /\ \A k \in 0..n : P[k] \in stage[k]
  <2> HIDE DEF G, stage
  <2> QED
    BY <1>1, <1>5, LoopRuns
<1>7. P = [k \in 0..n |-> IF k = 0 THEN base ELSE Letter(P[k - 1], modes[k])]
  <2>1. ASSUME NEW k \in 0..n, k # 0
        PROVE  G[<<k, P[k - 1]>>] = Letter(P[k - 1], modes[k])
    <3>1. k \in 1..n /\ k - 1 \in 0..n
      BY <1>1, <2>1
    <3>2. P[k - 1] \in V
      BY <1>4, <1>6, <3>1
    <3> QED
      BY <3>1, <3>2
  <2> HIDE DEF G
  <2> QED
    BY <1>6, <2>1 DEF Runs
<1>8. Read = [k \in 0..n |-> IF k = 0 THEN base ELSE Letter(Read[k - 1], modes[k])]
  BY <1>7, Zenon
<1> HIDE DEF Read, G
<1>9. Climbs(Read, stage, n)
  <2>1. 0 \in 0..n
    BY <1>1
  <2>2. Read[0] = base /\ \A k \in 1..n : Read[k] = Letter(Read[k - 1], modes[k])
    BY <1>1, <1>8, <2>1
  <2> QED
    BY <1>1, <1>3, <1>4, <2>1, <2>2 DEF Climbs
<1>10. Read[n] \in Kept
  <2>1. n \in 0..n
    BY <1>1
  <2>2. Read[n] \in stage[n]
    <3> HIDE DEF stage
    <3> QED
      BY <1>1, <1>9, <2>1, Climb
  <2> QED
    BY <2>1, <2>2
<1> QED
  BY <1>2, <1>10 DEF Kept, V

LEMMA CameWhole ==
  ASSUME NEW s, Sound(s), Whole(s), NEW c \in DOMAIN s.ch, NEW r, NEW n, Sound(r), Came(r, s, c, n)
  PROVE  Whole(r) /\ MyName(r) = MyName(s)
<1>1. Me \in DOMAIN s.nk
  BY DEF Sound
<1>2. \A d \in DOMAIN r.ch : d \in r.nk[Me].chans
  BY <1>1 DEF Came, Whole
<1>3. \A i \in DOMAIN r.nk \ {Me} : r.nk[i].chans # {}
  BY DEF Came, Whole
<1> QED
  BY <1>1, <1>2, <1>3 DEF Whole, Came, MyName

LEMMA ListedSound ==
  ASSUME NEW s, Sound(s), Whole(s), NEW c \in DOMAIN s.ch, NEW n \in Names, NEW withOp
  PROVE  LET r == Listed(s, c, n, withOp)
         IN  /\ Sound(r) /\ Whole(r) /\ MyName(r) = MyName(s) /\ DOMAIN r.ch = DOMAIN s.ch
             /\ \A d \in Chans, m \in Names : Has(r, d, m) <=> Has(s, d, m) \/ (d = c /\ m = n)
<1> DEFINE r == Listed(s, c, n, withOp)
           u == Entered(s, c, n, FALSE)
           x == u.ch[c]
           i == u.nicks[n]
           f == [x.nicks EXCEPT ![i] = TRUE]
           y == [nicks |-> f, lookup |-> x.lookup, mode |-> x.mode, topic |-> x.topic]
<1>1. Sound(u) /\ Came(u, s, c, n)
  BY EnteredSound
<1>2. r = IF n \in withOp THEN [u EXCEPT !.ch[c].nicks[i] = TRUE] ELSE u
  BY DEF Listed, Entered
<1> HIDE DEF u, r
<1>3. Whole(u) /\ MyName(u) = MyName(s) /\ DOMAIN u.ch = DOMAIN s.ch
  BY <1>1, CameWhole DEF Came
<1>4. CASE n \notin withOp
  BY <1>1, <1>2, <1>3, <1>4 DEF Came, r
<1>5. CASE n \in withOp
  <2>1. /\ x = [nicks |-> x.nicks, lookup |-> x.lookup, mode |-> x.mode, topic |-> x.topic]
        /\ x.mode \in BOOLEAN /\ x.topic \in BOOLEAN
        /\ IsMap(x.nicks, Objects, BOOLEAN) /\ IsMap(x.lookup, Names, Objects)
    BY <1>1, <1>3, ChanObjectsAre DEF Sound
  <2>2. r = [u EXCEPT !.ch = [u.ch EXCEPT ![c] = [x EXCEPT !.nicks = f]]]
    BY <1>2, <1>5
  <2> HIDE DEF x, i
  <2>3. IsMap(f, Objects, BOOLEAN) /\ DOMAIN f = DOMAIN x.nicks
    BY <2>1 DEF IsMap
  <2> HIDE DEF f
  <2>4. [x EXCEPT !.nicks = f] = y
    BY <2>1
  <2>5. y \in ChanObjects /\ y.nicks = f /\ y.lookup = x.lookup
    BY <2>1, <2>3, ChanMade
  <2> HIDE DEF y
  <2>6. r = [u EXCEPT !.ch = [u.ch EXCEPT ![c] = y]]
    BY <2>2, <2>4
  <2>7. Sound(r) /\ Still(r, u)
    <3>1. c \in DOMAIN u.ch /\ DOMAIN y.nicks = DOMAIN u.ch[c].nicks /\ y.lookup = u.ch[c].lookup
      BY <1>3, <2>3, <2>5 DEF x
    <3> QED
      BY <1>1, <2>5, <2>6, <3>1, ChanEdited
  <2>8. /\ MyName(r) = MyName(u) /\ Whole(r) /\ DOMAIN r.ch = DOMAIN u.ch
        /\ \A d \in Chans, m \in Names : Has(r, d, m) <=> Has(u, d, m)
    BY <1>1, <1>3, <2>7, StillHas DEF Still
  <2> QED
    BY <1>1, <1>3, <2>7, <2>8 DEF Came, r
<1> QED
  BY <1>4, <1>5

\* A 353 line brings those it names to its channel, and nobody else anywhere.
LEMMA NamesListedSound ==
  ASSUME NEW s, Sound(s), Whole(s), NEW l, l.chan \in DOMAIN s.ch, l.who \in SUBSET Names
  PROVE  LET r == NamesListed(s, l)
         IN  /\ Sound(r) /\ Whole(r) /\ MyName(r) = MyName(s)
             /\ \A d \in Chans, m \in Names :
                  Has(r, d, m) <=> Has(s, d, m) \/ (d = l.chan /\ m \in l.who)
<1> DEFINE names == SetToSeq(l.who)
           n == Len(names)
           c == l.chan
           Told(t, k) == \A d \in Chans, m \in Names :
                           Has(t, d, m) <=> Has(s, d, m) \/ (d = c /\ \E j \in 1..k : m = names[j])
           stage == [k \in 0..n |->
                       {t \in Trackers : /\ Sound(t) /\ Whole(t) /\ MyName(t) = MyName(s)
                                         /\ DOMAIN t.ch = DOMAIN s.ch /\ Told(t, k)}]
           G == [x \in (1..n) \X Trackers |-> Listed(x[2], c, names[x[1]], l.withOp)]
           Got == CHOOSE P : P = [k \in 0..n |-> IF k = 0 THEN s
                                                ELSE Listed(P[k - 1], c, names[k], l.withOp)]
<1>0. IsFiniteSet(l.who)
  BY FS_Subset, TrackerConstants
<1>1. /\ n \in Nat /\ \A i \in 1..n : names[i] \in l.who /\ names[i] \in Names
      /\ \A x \in l.who : \E i \in 1..n : names[i] = x
  <2> HIDE DEF n, names
  <2> QED
    BY <1>0, SetToSeqIs DEF n, names
<1>2. NamesListed(s, l) = Got[n]
  BY DEF NamesListed
<1>c. c \in DOMAIN s.ch
  OBVIOUS
<1> HIDE DEF names, n, c
<1>3. s \in stage[0]
  <2>1. 0 \in 0..n /\ 1..0 = {}
    BY <1>1
  <2>2. Told(s, 0)
    BY <2>1
  <2> HIDE DEF Told
  <2> QED
    BY <2>1, <2>2 DEF Sound
<1>4. ASSUME NEW k \in 1..n, NEW t \in stage[k - 1]
      PROVE  Listed(t, c, names[k], l.withOp) \in stage[k] /\ t \in Trackers
  <2>1. k - 1 \in 0..n /\ k \in 0..n /\ 1..k = 1..(k - 1) \cup {k}
    BY <1>1
  <2>2. /\ t \in Trackers /\ Sound(t) /\ Whole(t) /\ MyName(t) = MyName(s)
        /\ DOMAIN t.ch = DOMAIN s.ch /\ Told(t, k - 1)
    <3> HIDE DEF Told
    <3> QED
      BY <2>1
  <2> DEFINE r == Listed(t, c, names[k], l.withOp)
  <2>3. /\ Sound(r) /\ Whole(r) /\ MyName(r) = MyName(t) /\ DOMAIN r.ch = DOMAIN t.ch
        /\ \A d \in Chans, m \in Names : Has(r, d, m) <=> Has(t, d, m) \/ (d = c /\ m = names[k])
    BY <1>1, <1>c, <2>2, ListedSound
  <2> HIDE DEF r
  <2>4. Told(r, k)
    BY <2>1, <2>2, <2>3
  <2> HIDE DEF Told
  <2>5. r \in stage[k]
    BY <2>1, <2>2, <2>3, <2>4 DEF Sound
  <2> QED
    BY <2>2, <2>5 DEF r
<1> HIDE DEF Told
<1>5. Stages(stage, s, G, n)
  <2> SUFFICES ASSUME NEW k \in 1..n, NEW t \in stage[k - 1] PROVE G[<<k, t>>] \in stage[k]
    BY <1>3 DEF Stages
  <2>1. G[<<k, t>>] = Listed(t, c, names[k], l.withOp)
    BY <1>4
  <2> QED
    BY <1>4, <2>1
<1> HIDE DEF stage
<1>6. PICK P : Runs(P, s, G, n) /\ \A k \in 0..n : P[k] \in stage[k]
  <2> HIDE DEF G
  <2> QED
    BY <1>1, <1>5, LoopRuns
<1>7. P = [k \in 0..n |-> IF k = 0 THEN s ELSE Listed(P[k - 1], c, names[k], l.withOp)]
  <2>1. ASSUME NEW k \in 0..n, k # 0
        PROVE  G[<<k, P[k - 1]>>] = Listed(P[k - 1], c, names[k], l.withOp)
    <3>1. k \in 1..n /\ k - 1 \in 0..n
      BY <1>1, <2>1
    <3>2. P[k - 1] \in Trackers
      BY <1>4, <1>6, <3>1
    <3> QED
      BY <3>1, <3>2
  <2> HIDE DEF G
  <2> QED
    BY <1>6, <2>1 DEF Runs
<1>8. Got = [k \in 0..n |-> IF k = 0 THEN s ELSE Listed(Got[k - 1], c, names[k], l.withOp)]
  BY <1>7, Zenon
<1> HIDE DEF Got, G
<1>9. Climbs(Got, stage, n)
  <2>1. 0 \in 0..n /\ \A k \in 1..n : k \in 0..n /\ k # 0
    BY <1>1
  <2>2. Got[0] = s /\ \A k \in 1..n : Got[k] = Listed(Got[k - 1], c, names[k], l.withOp)
    BY <1>8, <2>1
  <2> QED
    BY <1>3, <1>4, <2>2 DEF Climbs
<1>10. n \in 0..n /\ Got[n] \in stage[n]
  <2>1. n \in 0..n
    BY <1>1
  <2> QED
    BY <1>1, <1>9, <2>1, Climb
<1> DEFINE r == Got[n]
<1>11. Sound(r) /\ Whole(r) /\ MyName(r) = MyName(s) /\ Told(r, n)
  BY <1>10 DEF stage
<1> HIDE DEF r
<1>12. \A m \in Names : (\E j \in 1..n : m = names[j]) <=> m \in l.who
  BY <1>1
<1>13. \A d \in Chans, m \in Names : Has(r, d, m) <=> Has(s, d, m) \/ (d = c /\ m \in l.who)
  BY <1>11, <1>12 DEF Told
<1> QED
  BY <1>2, <1>11, <1>13 DEF r, c

\* h_MODE and h_TOPIC: the modes and the topic of a channel.
LEMMA ModesSound ==
  ASSUME NEW s, Sound(s), NEW c \in DOMAIN s.ch, NEW modes \in Seq(Mode), NEW args \in ArgsOfModes
  PROVE  LET r == [s EXCEPT !.ch[c] = ParseModes(@, modes, args)] IN Sound(r) /\ Still(r, s)
<1> DEFINE r == [s EXCEPT !.ch[c] = ParseModes(@, modes, args)]
           x == s.ch[c]
           y == ParseModes(x, modes, args)
<1>1. x \in ChanObjects
  BY ChanObjectsAre DEF Sound
<1>2. y \in ChanObjects /\ DOMAIN y.nicks = DOMAIN x.nicks /\ y.lookup = x.lookup
  <2> HIDE DEF x
  <2> QED
    BY <1>1, ParseModesSound
<1>3. r = [s EXCEPT !.ch = [s.ch EXCEPT ![c] = y]]
  OBVIOUS
<1> HIDE DEF y, r
<1>4. Sound(r) /\ Still(r, s)
  BY <1>2, <1>3, ChanEdited
<1> QED
  BY <1>4 DEF r

LEMMA TopicSound ==
  ASSUME NEW s, Sound(s), NEW c \in DOMAIN s.ch, NEW t \in BOOLEAN
  PROVE  LET r == [s EXCEPT !.ch[c].topic = t] IN Sound(r) /\ Still(r, s)
<1> DEFINE r == [s EXCEPT !.ch[c].topic = t]
           x == s.ch[c]
           y == [nicks |-> x.nicks, lookup |-> x.lookup, mode |-> x.mode, topic |-> t]
<1>1. /\ x = [nicks |-> x.nicks, lookup |-> x.lookup, mode |-> x.mode, topic |-> x.topic]
      /\ x \in ChanObjects /\ x.nicks \in Maps(Objects, BOOLEAN) /\ x.lookup \in Maps(Names, Objects)
      /\ x.mode \in BOOLEAN
  <2>1. x \in ChanObjects
    BY ChanObjectsAre DEF Sound
  <2> HIDE DEF x
  <2> QED
    BY <2>1 DEF ChanObjects
<1>2. r = [s EXCEPT !.ch = [s.ch EXCEPT ![c] = [x EXCEPT !.topic = t]]]
  OBVIOUS
<1>3. [x EXCEPT !.topic = t] = y
  <2> HIDE DEF x
  <2> QED
    BY <1>1
<1>4. y \in ChanObjects /\ y.nicks = x.nicks /\ y.lookup = x.lookup
  <2> HIDE DEF x
  <2> QED
    BY <1>1 DEF ChanObjects
<1> HIDE DEF y, r
<1>5. r = [s EXCEPT !.ch = [s.ch EXCEPT ![c] = y]]
  BY <1>2, <1>3
<1>6. Sound(r) /\ Still(r, s)
  BY <1>4, <1>5, ChanEdited
<1> QED
  BY <1>6 DEF r

\* 311 and 352.
LEMMA KnownSound ==
  ASSUME NEW s, Sound(s), NEW told
  PROVE  LET r == [s EXCEPT !.nk = [i \in DOMAIN s.nk |->
                      [s.nk[i] EXCEPT !.known = @ \/ i \in told]]]
         IN  Sound(r) /\ Still(r, s)
<1> DEFINE r == [s EXCEPT !.nk = [i \in DOMAIN s.nk |->
                                  [s.nk[i] EXCEPT !.known = @ \/ i \in told]]]
           b == [i \in DOMAIN s.nk |-> [s.nk[i] EXCEPT !.known = s.nk[i].known \/ i \in told]]
<1>1. /\ s \in Trackers /\ IsMap(s.nicks, Names, Objects) /\ IsMap(s.nk, Objects, NickObjects)
      /\ IsMap(s.ch, Chans, ChanObjects)
      /\ NamesAgree(s) /\ ChansAgree(s) /\ LookupsAgree(s) /\ Me \in DOMAIN s.nk
  BY TrackersAre DEF Sound
<1>2. r = [nicks |-> s.nicks, nk |-> b, ch |-> s.ch]
  <2>1. r = [s EXCEPT !.nk = b]
    OBVIOUS
  <2> HIDE DEF b
  <2> QED
    BY <1>1, <2>1 DEF Trackers
<1>3. ASSUME NEW i \in DOMAIN s.nk
      PROVE  b[i] \in NickObjects /\ b[i].name = s.nk[i].name /\ b[i].chans = s.nk[i].chans
  <2> DEFINE x == s.nk[i]
             known == x.known \/ i \in told
  <2>1. /\ x = [name |-> x.name, chans |-> x.chans, known |-> x.known]
        /\ x.name \in Names /\ x.chans \in SUBSET Chans
    BY <1>1, NickObjectsAre
  <2>2. b[i] = [x EXCEPT !.known = known]
    OBVIOUS
  <2>3. known \in BOOLEAN
    BY <1>1, NickObjectsAre
  <2> HIDE DEF b, x, known
  <2>4. [x EXCEPT !.known = known] = [name |-> x.name, chans |-> x.chans, known |-> known]
    BY <2>1
  <2> QED
    BY <2>1, <2>2, <2>3, <2>4 DEF NickObjects, x
<1>4. IsMap(b, Objects, NickObjects) /\ DOMAIN b = DOMAIN s.nk
  <2>1. b = [i \in DOMAIN b |-> b[i]] /\ DOMAIN b = DOMAIN s.nk
    OBVIOUS
  <2>2. \A i \in DOMAIN s.nk : b[i] \in NickObjects
    BY <1>3
  <2> HIDE DEF b
  <2> QED
    BY <1>1, <2>1, <2>2 DEF IsMap
<1> HIDE DEF b, r
<1>5. r \in Trackers /\ r.nicks = s.nicks /\ r.nk = b /\ r.ch = s.ch
  BY <1>1, <1>2, <1>4, TrackerMade
<1>6. NamesAgree(r)
  BY <1>1, <1>3, <1>4, <1>5 DEF NamesAgree
<1>7. ChansAgree(r)
  BY <1>1, <1>3, <1>4, <1>5 DEF ChansAgree
<1>8. LookupsAgree(r)
  BY <1>1, <1>5 DEF LookupsAgree
<1> QED
  BY <1>1, <1>3, <1>4, <1>5, <1>6, <1>7, <1>8 DEF Sound, Still, r

LEMMA NewTrackerSound ==
  ASSUME NEW name \in Names
  PROVE  LET r == NewTracker(name)
         IN  /\ Sound(r) /\ Whole(r) /\ MyName(r) = name
             /\ \A c \in Chans, n \in Names : ~Has(r, c, n)
             /\ KnowsMe(r)
<1> DEFINE r == NewTracker(name)
           a == With(<<>>, name, Me)
           x == NickObject(name, TRUE)
           b == With(<<>>, Me, x)
<1>0. Me \in Objects /\ DOMAIN <<>> = {}
  BY FS_CardinalityType, TrackerConstants DEF Me, Objects
<1>1. x \in NickObjects /\ x.name = name /\ x.chans = {} /\ x.known = TRUE
  BY DEF NickObject, NickObjects
<1>2. IsMap(a, Names, Objects) /\ DOMAIN a = {name} /\ a[name] = Me
  BY <1>0 DEF With, IsMap
<1>3. IsMap(b, Objects, NickObjects) /\ DOMAIN b = {Me} /\ b[Me] = x
  <2> HIDE DEF x
  <2> QED
    BY <1>0, <1>1 DEF With, IsMap
<1>4. IsMap(<<>>, Chans, ChanObjects)
  BY <1>0 DEF IsMap
<1>5. r = [nicks |-> a, nk |-> b, ch |-> <<>>]
  BY DEF NewTracker
<1> HIDE DEF a, b, r, x
<1>6. r \in Trackers /\ r.nicks = a /\ r.nk = b /\ r.ch = <<>>
  BY <1>2, <1>3, <1>4, <1>5, TrackerMade
<1>7. Sound(r)
  BY <1>0, <1>1, <1>2, <1>3, <1>6 DEF Sound, NamesAgree, ChansAgree, LookupsAgree
<1>8. Whole(r) /\ MyName(r) = name /\ KnowsMe(r)
  BY <1>0, <1>1, <1>3, <1>6 DEF Whole, MyName, KnowsMe
<1>9. \A c \in Chans, n \in Names : ~Has(r, c, n)
  BY <1>1, <1>2, <1>3, <1>6 DEF Has, Tracked
<1> QED
  BY <1>7, <1>8, <1>9 DEF r

-----------------------------------------------------------------------------
(* The lines on their way.                                                 *)

LEMMA LineIs ==
  ASSUME NEW l \in Line
  PROVE  /\ l.cmd \in {"JOIN", "PART"} => l.nick \in Names /\ l.chan \in Chans
         /\ l.cmd \in {"QUIT", "433"} => l.nick \in Names
         /\ l.cmd = "NICK" => l.nick \in Names /\ l.neu \in Names
         /\ l.cmd \in {"MODE", "324"} =>
              l.chan \in Chans /\ l.modes \in Seq(Mode) /\ l.args \in ArgsOfModes
         /\ l.cmd \in {"TOPIC", "332"} => l.chan \in Chans /\ l.topic \in BOOLEAN
         /\ l.cmd = "353" => l.chan \in Chans /\ l.who \in SUBSET Names
BY DEF Line, ArgsOfModes

LEMMA LinesAre ==
  /\ \A n \in Names, c \in Chans : JoinLine(n, c) \in Line /\ PartLine(n, c) \in Line
  /\ \A n, m \in Names : QuitLine(n) \in Line /\ NickLine(n, m) \in Line /\ InUse(n) \in Line
                         /\ WhoisLine(n) \in Line
  /\ \A c \in Chans, t \in BOOLEAN : /\ TopicLine("332", c, t) \in Line
                                     /\ TopicLine("TOPIC", c, t) \in Line
  /\ \A c \in Chans, modes \in Seq(Mode), args \in ArgsOfModes :
       ModeLine("MODE", c, modes, args) \in Line /\ ModeLine("324", c, modes, args) \in Line
  /\ \A c \in Chans, who, withOp \in SUBSET Names :
       NamesLine(c, who, withOp) \in Line /\ WhoLine(who) \in Line
<1>1. \A n \in Names, c \in Chans : JoinLine(n, c) \in Line /\ PartLine(n, c) \in Line
  BY DEF JoinLine, PartLine, Line
<1>2. \A n, m \in Names : QuitLine(n) \in Line /\ NickLine(n, m) \in Line /\ InUse(n) \in Line
                          /\ WhoisLine(n) \in Line
  BY DEF QuitLine, NickLine, InUse, WhoisLine, Line
<1>3. \A c \in Chans, t \in BOOLEAN : /\ TopicLine("332", c, t) \in Line
                                      /\ TopicLine("TOPIC", c, t) \in Line
  BY DEF TopicLine, Line
<1>4. \A c \in Chans, modes \in Seq(Mode), args \in ArgsOfModes :
        ModeLine("MODE", c, modes, args) \in Line /\ ModeLine("324", c, modes, args) \in Line
  BY DEF ModeLine, Line, ArgsOfModes
<1>5. \A c \in Chans, who, withOp \in SUBSET Names :
        NamesLine(c, who, withOp) \in Line /\ WhoLine(who) \in Line
  BY DEF NamesLine, WhoLine, Line
<1> QED
  BY <1>1, <1>2, <1>3, <1>4, <1>5

LEMMA AskedAre ==
  /\ \A n \in Names : /\ Ask("NICK", n) \in Asked /\ Ask("WHOIS", n) \in Asked
                      /\ Ask("WHO", n) \in Asked
  /\ \A c \in Chans : Ask("WHO", c) \in Asked /\ Ask("MODE", c) \in Asked
BY DEF Ask, Asked

LEMMA WantedAre ==
  ASSUME NEW s, NEW l, l.nick \in Names, l.chan \in Chans
  PROVE  Wanted(s, l) \in Seq(Asked)
<1> DEFINE a == IF l.chan \in DOMAIN s.ch THEN <<>>
                ELSE <<Ask("MODE", l.chan), Ask("WHO", l.chan)>>
           b == IF Tracked(s, l.nick) THEN <<>> ELSE <<Ask("WHO", l.nick)>>
<1>1. a \in Seq(Asked)
  BY AskedAre
<1>2. b \in Seq(Asked)
  BY AskedAre
<1>3. Wanted(s, l) = IF Joined(s, l) = s THEN <<>> ELSE a \o b
  BY DEF Wanted
<1> HIDE DEF a, b
<1>4. a \o b \in Seq(Asked)
  BY <1>1, <1>2, ConcatProperties
<1>5. <<>> \in Seq(Asked)
  OBVIOUS
<1> QED
  BY <1>3, <1>4, <1>5, Zenon

LEMMA NameIs ==
  ASSUME Sound(st)
  PROVE  /\ MyName(st) \in Names /\ Tracked(st, MyName(st)) /\ DOMAIN st.nicks \subseteq Names
         /\ DOMAIN st.ch \subseteq Chans
<1>1. st \in Trackers /\ Me \in DOMAIN st.nk /\ NamesAgree(st)
  BY DEF Sound
<1> QED
  BY <1>1, NickObjectsAre, TrackersAre DEF NamesAgree, MyName, Tracked, IsMap

\* A handler takes the first line away, and asks the server what it may.
LEMMA HandleLines ==
  ASSUME IInv, Handle
  PROVE  ServerOK' /\ LinesOK' /\ tracking' = tracking /\ Head(lines) \in Line
<1> DEFINE l == Head(lines)
<1>1. lines # <<>> /\ lines' = Tail(lines) /\ UNCHANGED <<tracking, server, link>>
  BY DEF Handle, h_JOIN, h_PART, h_QUIT, h_NICK, h_433, h_MODE, h_TOPIC, h_353, h_352, Dispatched
<1>2. lines \in Seq(Line) /\ Len(lines) <= MaxLines /\ asked \in Seq(Asked) /\ Len(asked) <= MaxLines
      /\ MaxLines \in Nat
  BY TrackerConstants DEF IInv, LinesOK
<1>3. l \in Line /\ lines' \in Seq(Line) /\ Len(lines') <= MaxLines
  BY <1>1, <1>2
<1>4. ServerOK'
  BY <1>1 DEF IInv, ServerOK, server, Everyone
<1> HIDE DEF l
<1>5. asked' \in Seq(Asked) /\ Len(asked') <= MaxLines
  <2>1. CASE h_JOIN
    <3>1. CASE ~tracking
      BY <1>2, <2>1, <3>1 DEF h_JOIN
    <3>2. CASE tracking
      <4>1. asked' = asked \o Wanted(st, l) /\ Len(asked') <= MaxLines
        BY <2>1, <3>2 DEF h_JOIN, l
      <4>2. l.nick \in Names /\ l.chan \in Chans
        BY <1>3, <2>1, LineIs DEF h_JOIN, Dispatched, l
      <4>3. Wanted(st, l) \in Seq(Asked)
        BY <4>2, WantedAre
      <4> QED
        BY <1>2, <4>1, <4>3, ConcatProperties
    <3> QED
      BY <3>1, <3>2
  <2>2. CASE h_433
    <3>1. asked' = Append(asked, Ask("NICK", NewNick[l.nick])) /\ Len(asked') <= MaxLines
      BY <2>2 DEF h_433, l
    <3>2. l.nick \in Names
      BY <1>3, <2>2, LineIs DEF h_433, Dispatched, l
    <3>3. Ask("NICK", NewNick[l.nick]) \in Asked
      BY <3>2, AskedAre, TrackerConstants
    <3> QED
      BY <1>2, <3>1, <3>3
  <2>3. CASE ~h_JOIN /\ ~h_433
    <3>1. asked' = asked
      BY <2>3 DEF Handle, h_PART, h_QUIT, h_NICK, h_MODE, h_TOPIC, h_353, h_352, Track
    <3> QED
      BY <1>2, <3>1
  <2> QED
    BY <2>1, <2>2, <2>3
<1> QED
  BY <1>1, <1>3, <1>4, <1>5 DEF LinesOK, l

LEMMA AskIs ==
  ASSUME NEW a \in Asked
  PROVE  /\ a.cmd = "MODE" => a.arg \in Chans
         /\ a.cmd \in {"NICK", "WHOIS"} => a.arg \in Names
         /\ a.cmd = "WHO" => a.arg \in Names \cup Chans
BY DEF Asked

\* What the server sends keeps the lines lines.
LEMMA SendsLines ==
  ASSUME LinesOK, NEW ls \in Seq(Line), lines' = lines \o ls, Len(lines') <= MaxLines,
         asked' = asked \/ (asked # <<>> /\ asked' = Tail(asked))
  PROVE  LinesOK'
<1>1. lines' \in Seq(Line)
  BY ConcatProperties DEF LinesOK
<1>2. asked' \in Seq(Asked) /\ Len(asked') <= MaxLines
  <2>1. asked \in Seq(Asked) /\ Len(asked) <= MaxLines /\ MaxLines \in Nat
    BY TrackerConstants DEF LinesOK
  <2>2. CASE asked' = asked
    BY <2>1, <2>2
  <2>3. CASE asked # <<>> /\ asked' = Tail(asked)
    BY <2>1, <2>3
  <2> QED
    BY <2>2, <2>3
<1> QED
  BY <1>1, <1>2 DEF LinesOK

LEMMA EveryoneIs ==
  ASSUME ServerOK
  PROVE  Everyone \subseteq Names /\ (link = "up" => mine \in Names)
BY TrackerConstants DEF ServerOK, Everyone

LEMMA TakenOff ==
  ASSUME ServerOK, NEW n, NEW cs \in SUBSET Chans, TakeOff(n, cs)
  PROVE  /\ mode' \in [Chans -> BOOLEAN] /\ topic' \in [Chans -> BOOLEAN]
         /\ on' \in [Chans -> SUBSET Everyone] /\ ops' \in [Chans -> SUBSET Names]
         /\ \A c \in Chans : /\ ops'[c] \subseteq on'[c]
                             /\ on'[c] = (IF c \in cs THEN on[c] \ {n} ELSE on[c])
<1>1. on' = [c \in Chans |-> IF c \in cs THEN on[c] \ {n} ELSE on[c]]
      /\ ops' = [c \in Chans |-> IF c \in cs THEN ops[c] \ {n} ELSE ops[c]]
  BY DEF TakeOff
<1>2. mode' \in [Chans -> BOOLEAN] /\ topic' \in [Chans -> BOOLEAN]
  <2> DEFINE gone == {c \in cs : on[c] \subseteq {n}}
  <2>1. /\ mode' = [c \in Chans |-> mode[c] /\ c \notin gone]
        /\ topic' = [c \in Chans |-> topic[c] /\ c \notin gone]
    BY DEF TakeOff
  <2> HIDE DEF gone
  <2>2. mode' \in [Chans -> BOOLEAN]
    BY <2>1, Zenon
  <2>3. topic' \in [Chans -> BOOLEAN]
    BY <2>1, Zenon
  <2> QED
    BY <2>2, <2>3
<1>3. on \in [Chans -> SUBSET Everyone] /\ ops \in [Chans -> SUBSET Names]
      /\ \A c \in Chans : ops[c] \subseteq on[c]
  BY DEF ServerOK
<1>4. \A c \in Chans : on'[c] = (IF c \in cs THEN on[c] \ {n} ELSE on[c])
                       /\ ops'[c] = (IF c \in cs THEN ops[c] \ {n} ELSE ops[c])
  BY <1>1
<1>5. \A c \in Chans : ops'[c] \subseteq on'[c] /\ on'[c] \subseteq on[c] /\ ops'[c] \subseteq ops[c]
  BY <1>3, <1>4
<1>6. on' \in [Chans -> SUBSET Everyone] /\ ops' \in [Chans -> SUBSET Names]
  BY <1>1, <1>3
<1> QED
  BY <1>2, <1>4, <1>5, <1>6

\* A rename at the server to a name nobody has.
LEMMA RenamedAtServer ==
  ASSUME ServerOK, NEW n \in Everyone, NEW m \in Names \ Everyone, RenameAtServer(n, m),
         link' = link
  PROVE  ServerOK'
<1> DEFINE moved(ns) == {IF x = n THEN m ELSE x : x \in ns}
<1>1. /\ online' = moved(online) /\ mine' = (IF n = mine THEN m ELSE mine)
      /\ on' = [c \in Chans |-> moved(on[c])] /\ ops' = [c \in Chans |-> moved(ops[c])]
      /\ mode' = mode /\ topic' = topic
  BY DEF RenameAtServer
<1>2. m # NoName /\ n # NoName /\ n \in Names /\ m \in Names /\ m \notin online /\ m # mine
  BY EveryoneIs, TrackerConstants DEF Everyone
<1>3. /\ link \in {"down", "registering", "up"} /\ mine \in Names \cup {NoName}
      /\ (mine = NoName <=> link # "up") /\ online \subseteq Names /\ mine \notin online
  BY DEF ServerOK
<1>4. mine' \in Names \cup {NoName} /\ (mine' = NoName <=> link' # "up") /\ online' \subseteq Names
      /\ mine' \notin online'
  BY <1>1, <1>2, <1>3
<1>5. \A c \in Chans : on[c] \subseteq Everyone /\ ops[c] \subseteq on[c] /\ ops[c] \subseteq Names
  BY DEF ServerOK
<1>6. \A c \in Chans : on'[c] = moved(on[c]) /\ ops'[c] = moved(ops[c])
  BY <1>1
<1>7. \A c \in Chans : on'[c] \subseteq Everyone' /\ ops'[c] \subseteq on'[c] /\ ops'[c] \subseteq Names
  <2> TAKE c \in Chans
  <2>1. ops'[c] \subseteq on'[c] /\ ops'[c] \subseteq Names
    BY <1>2, <1>5, <1>6
  <2>2. Everyone' = online' \cup ({mine'} \ {NoName}) /\ Everyone = online \cup ({mine} \ {NoName})
    BY DEF Everyone
  <2>3. m \in Everyone'
    BY <1>1, <1>2, <2>2
  <2>4. \A x \in Everyone \ {n} : x \in Everyone'
    BY <1>1, <2>2
  <2>5. on'[c] \subseteq Everyone'
    BY <1>5, <1>6, <2>3, <2>4
  <2> QED
    BY <2>1, <2>5
<1>8. on' \in [Chans -> SUBSET Everyone'] /\ ops' \in [Chans -> SUBSET Names]
  <2>1. DOMAIN on' = Chans /\ DOMAIN ops' = Chans /\ on' = [c \in Chans |-> on'[c]]
        /\ ops' = [c \in Chans |-> ops'[c]]
    BY <1>1
  <2> QED
    BY <1>7, <2>1
<1>9. mode' \in [Chans -> BOOLEAN] /\ topic' \in [Chans -> BOOLEAN]
  BY <1>1 DEF ServerOK
<1> HIDE DEF moved
<1> QED
  BY <1>3, <1>4, <1>7, <1>8, <1>9 DEF ServerOK

LEMMA JoinKeeps ==
  ASSUME ServerOK, LinesOK, NEW n \in Names, NEW c \in Chans, Join(n, c)
  PROVE  ServerOK' /\ LinesOK' /\ UNCHANGED client
<1>1. /\ link = "up" /\ n \in Everyone \ on[c]
      /\ on' = [on EXCEPT ![c] = @ \cup {n}]
      /\ ops' = [ops EXCEPT ![c] = IF on[c] = {} THEN {n} ELSE @]
      /\ UNCHANGED <<mine, online, mode, topic, client, link, asked>> /\ Len(lines') <= MaxLines
  BY DEF Join, Sends
<1>2. ServerOK'
  <2>1. \A d \in Chans : on[d] \subseteq Everyone /\ ops[d] \subseteq on[d] /\ ops[d] \subseteq Names
    BY DEF ServerOK
  <2>2. DOMAIN on = Chans /\ DOMAIN ops = Chans /\ Everyone \subseteq Names
    BY EveryoneIs DEF ServerOK
  <2>3. \A d \in Chans : /\ on'[d] = (IF d = c THEN on[c] \cup {n} ELSE on[d])
                         /\ ops'[d] = (IF d = c THEN IF on[c] = {} THEN {n} ELSE ops[c] ELSE ops[d])
    BY <1>1, <2>2
  <2>4. \A d \in Chans : on'[d] \subseteq Everyone /\ ops'[d] \subseteq on'[d] /\ ops'[d] \subseteq Names
    BY <1>1, <2>1, <2>2, <2>3
  <2>5. on' \in [Chans -> SUBSET Everyone] /\ ops' \in [Chans -> SUBSET Names]
    <3>1. on' = [d \in Chans |-> on'[d]] /\ ops' = [d \in Chans |-> ops'[d]]
      BY <1>1, <2>2
    <3> QED
      BY <2>4, <3>1
  <2>6. Everyone' = Everyone
    BY <1>1 DEF Everyone
  <2> QED
    BY <1>1, <2>4, <2>5, <2>6 DEF ServerOK
<1>3. LinesOK'
  <2> DEFINE t == IF topic[c] THEN <<TopicLine("332", c, TRUE)>> ELSE <<>>
             ls == IF n = mine THEN <<JoinLine(n, c)>> \o t \o <<NamesLine(c, on'[c], ops'[c])>>
                   ELSE IF OnIt(c) THEN <<JoinLine(n, c)>> ELSE <<>>
  <2>1. lines' = lines \o ls
    BY DEF Join, Sends
  <2>2. <<JoinLine(n, c)>> \in Seq(Line) /\ t \in Seq(Line) /\ <<>> \in Seq(Line)
    <3>1. JoinLine(n, c) \in Line /\ TopicLine("332", c, TRUE) \in Line
      BY LinesAre
    <3>2. t = <<>> \/ t = <<TopicLine("332", c, TRUE)>>
      OBVIOUS
    <3>3. \A x \in Line : <<x>> \in Seq(Line)
      OBVIOUS
    <3>4. <<>> \in Seq(Line)
      OBVIOUS
    <3> HIDE DEF t
    <3> QED
      BY <3>1, <3>2, <3>3, <3>4, Zenon
  <2>3. on'[c] \in SUBSET Names /\ ops'[c] \in SUBSET Names
    BY <1>1, <1>2, EveryoneIs DEF ServerOK, Everyone
  <2>4. <<NamesLine(c, on'[c], ops'[c])>> \in Seq(Line)
    BY <2>3, LinesAre
  <2>5. ls \in Seq(Line)
    <3> HIDE DEF t
    <3>1. <<JoinLine(n, c)>> \o t \in Seq(Line)
      BY <2>2, ConcatProperties
    <3>2. (<<JoinLine(n, c)>> \o t) \o <<NamesLine(c, on'[c], ops'[c])>> \in Seq(Line)
      BY <2>4, <3>1, ConcatProperties
    <3> QED
      BY <2>2, <3>2, Zenon
  <2> HIDE DEF ls
  <2> QED
    BY <1>1, <2>1, <2>5, SendsLines
<1> QED
  BY <1>1, <1>2, <1>3

LEMMA LeaveKeeps ==
  ASSUME ServerOK, LinesOK, NEW n \in Names, NEW c \in Chans, Leave(n, c)
  PROVE  ServerOK' /\ LinesOK' /\ UNCHANGED client
<1> DEFINE ls == IF OnIt(c) THEN <<PartLine(n, c)>> ELSE <<>>
<1>1. TakeOff(n, {c}) /\ UNCHANGED <<mine, online, client, link, asked>>
      /\ Len(lines') <= MaxLines /\ lines' = lines \o ls
  BY DEF Leave, Sends
<1>2. ls \in Seq(Line)
  BY LinesAre
<1>3. Everyone' = Everyone
  BY <1>1 DEF Everyone
<1>4. ServerOK'
  <2>1. /\ mode' \in [Chans -> BOOLEAN] /\ topic' \in [Chans -> BOOLEAN]
        /\ on' \in [Chans -> SUBSET Everyone] /\ ops' \in [Chans -> SUBSET Names]
        /\ \A d \in Chans : ops'[d] \subseteq on'[d]
    BY <1>1, TakenOff
  <2> QED
    BY <1>1, <1>3, <2>1 DEF ServerOK
<1> HIDE DEF ls
<1>5. LinesOK'
  BY <1>1, <1>2, SendsLines
<1> QED
  BY <1>1, <1>4, <1>5

LEMMA QuitKeeps ==
  ASSUME ServerOK, LinesOK, NEW n \in Names, Quit(n)
  PROVE  ServerOK' /\ LinesOK' /\ UNCHANGED client
<1> DEFINE ls == IF SeenByUs(n) THEN <<QuitLine(n)>> ELSE <<>>
<1>1. /\ TakeOff(n, Chans) /\ UNCHANGED <<mine, client, link, asked>>
      /\ Len(lines') <= MaxLines /\ lines' = lines \o ls /\ n \in online /\ online' = online \ {n}
  BY DEF Quit, Sends
<1>2. ls \in Seq(Line)
  BY LinesAre
<1>3. ServerOK'
  <2>1. /\ mode' \in [Chans -> BOOLEAN] /\ topic' \in [Chans -> BOOLEAN]
        /\ on' \in [Chans -> SUBSET Everyone] /\ ops' \in [Chans -> SUBSET Names]
        /\ \A d \in Chans : ops'[d] \subseteq on'[d] /\ on'[d] = on[d] \ {n}
    BY <1>1, TakenOff
  <2>2. \A d \in Chans : on'[d] \subseteq Everyone'
    BY <1>1, <2>1 DEF Everyone
  <2>3. on' \in [Chans -> SUBSET Everyone']
    BY <2>1, <2>2
  <2> QED
    BY <1>1, <2>1, <2>3 DEF ServerOK
<1> HIDE DEF ls
<1>4. LinesOK'
  BY <1>1, <1>2, SendsLines
<1> QED
  BY <1>1, <1>3, <1>4

LEMMA ArriveKeeps ==
  ASSUME ServerOK, LinesOK, NEW n \in Names, Arrive(n)
  PROVE  ServerOK' /\ LinesOK' /\ UNCHANGED client
<1>1. /\ UNCHANGED <<mine, on, ops, mode, topic, client, link, asked>>
      /\ lines' = lines \o <<>> /\ Len(lines') <= MaxLines /\ n \notin Everyone
      /\ online' = online \cup {n}
  BY DEF Arrive, Sends
<1>2. <<>> \in Seq(Line)
  OBVIOUS
<1>3. LinesOK'
  BY <1>1, <1>2, SendsLines
<1>4. Everyone \subseteq Everyone' /\ mine \notin online' /\ online' \subseteq Names
  BY <1>1, TrackerConstants DEF ServerOK, Everyone
<1>5. ServerOK'
  BY <1>1, <1>4 DEF ServerOK
<1> QED
  BY <1>1, <1>3, <1>5

LEMMA RenameKeeps ==
  ASSUME ServerOK, LinesOK, NEW n \in Names, NEW m \in Names, Rename(n, m)
  PROVE  ServerOK' /\ LinesOK' /\ UNCHANGED client
<1> DEFINE ls == IF SeenByUs(n) THEN <<NickLine(n, m)>> ELSE <<>>
<1>1. /\ RenameAtServer(n, m) /\ UNCHANGED <<client, link, asked>>
      /\ Len(lines') <= MaxLines /\ lines' = lines \o ls /\ n \in Everyone /\ m \in Names \ Everyone
  BY DEF Rename, Sends, Everyone
<1>2. ls \in Seq(Line)
  BY LinesAre
<1>3. ServerOK'
  BY <1>1, RenamedAtServer
<1> HIDE DEF ls
<1>4. LinesOK'
  BY <1>1, <1>2, SendsLines
<1> QED
  BY <1>1, <1>3, <1>4

LEMMA SetModesKeeps ==
  ASSUME ServerOK, LinesOK, NEW n \in Names, NEW c \in Chans, NEW add \in BOOLEAN,
         NEW how \in {"flag", "op", "banAndOp"}, SetModes(c, n, add, how)
  PROVE  ServerOK' /\ LinesOK' /\ UNCHANGED client
<1> DEFINE sign(letter) == IF add THEN Plus(letter) ELSE Minus(letter)
           letters == CASE how = "flag" -> <<sign("m")>>
                        [] how = "op" -> <<sign("o")>>
                        [] how = "banAndOp" -> <<Plus("b"), sign("o")>>
           args == CASE how = "flag" -> <<>>
                     [] how = "op" -> <<n>>
                     [] how = "banAndOp" -> <<Mask, n>>
           ls == IF OnIt(c) THEN <<ModeLine("MODE", c, letters, args)>> ELSE <<>>
<1>1. /\ n \in on[c] /\ UNCHANGED <<mine, online, on, topic, client, link, asked>>
      /\ Len(lines') <= MaxLines /\ lines' = lines \o ls
      /\ mode' = (IF how = "flag" THEN [mode EXCEPT ![c] = add] ELSE mode)
      /\ ops' = (IF how = "flag" THEN ops
                 ELSE [ops EXCEPT ![c] = IF add THEN @ \cup {n} ELSE @ \ {n}])
  BY DEF SetModes, Sends
<1>2. ls \in Seq(Line)
  <2>1. sign("m") \in Mode /\ sign("o") \in Mode /\ Plus("b") \in Mode
    BY DEF Plus, Minus, Mode
  <2> HIDE DEF sign
  <2>2. letters \in Seq(Mode)
    BY <2>1
  <2>3. args \in ArgsOfModes
    <3>1. <<>> \in ArgsOfModes /\ <<n>> \in ArgsOfModes /\ <<Mask, n>> \in ArgsOfModes
      BY DEF ArgsOfModes
    <3> QED
      BY <3>1, Zenon
  <2> HIDE DEF letters, args
  <2> QED
    BY <2>2, <2>3, LinesAre
<1> HIDE DEF ls
<1>3. LinesOK'
  BY <1>1, <1>2, SendsLines
<1>4. mode' \in [Chans -> BOOLEAN]
  BY <1>1 DEF ServerOK
<1>5. ops' \in [Chans -> SUBSET Names] /\ \A d \in Chans : ops'[d] \subseteq on[d]
  <2>1. ops \in [Chans -> SUBSET Names] /\ \A d \in Chans : ops[d] \subseteq on[d]
    BY DEF ServerOK
  <2> QED
    BY <1>1, <2>1
<1>6. Everyone' = Everyone
  BY <1>1 DEF Everyone
<1>7. ServerOK'
  BY <1>1, <1>4, <1>5, <1>6 DEF ServerOK
<1> QED
  BY <1>1, <1>3, <1>7

LEMMA SetTopicKeeps ==
  ASSUME ServerOK, LinesOK, NEW c \in Chans, SetTopic(c)
  PROVE  ServerOK' /\ LinesOK' /\ UNCHANGED client
<1> DEFINE ls == IF OnIt(c) THEN <<TopicLine("TOPIC", c, topic'[c])>> ELSE <<>>
<1>1. /\ UNCHANGED <<mine, online, on, ops, mode, client, link, asked>>
      /\ Len(lines') <= MaxLines /\ lines' = lines \o ls
      /\ topic' = [topic EXCEPT ![c] = ~@]
  BY DEF SetTopic, Sends
<1>2. topic' \in [Chans -> BOOLEAN]
  BY <1>1 DEF ServerOK
<1>3. ls \in Seq(Line)
  <2>1. topic'[c] \in BOOLEAN
    BY <1>2
  <2> QED
    BY <2>1, LinesAre
<1> HIDE DEF ls
<1>4. LinesOK'
  BY <1>1, <1>3, SendsLines
<1>5. Everyone' = Everyone
  BY <1>1 DEF Everyone
<1>6. ServerOK'
  BY <1>1, <1>2, <1>5 DEF ServerOK
<1> QED
  BY <1>1, <1>4, <1>6

LEMMA WorldKeeps ==
  ASSUME ServerOK, LinesOK, World
  PROVE  ServerOK' /\ LinesOK' /\ UNCHANGED client
<1>1. CASE \E n \in Names, c \in Chans : Join(n, c) \/ Leave(n, c)
  BY <1>1, JoinKeeps, LeaveKeeps
<1>2. CASE \E n \in Names : Quit(n) \/ Arrive(n)
  BY <1>2, QuitKeeps, ArriveKeeps
<1>3. CASE \E n, m \in Names : Rename(n, m)
  BY <1>3, RenameKeeps
<1>4. CASE \E n \in Names, c \in Chans, add \in BOOLEAN, how \in {"flag", "op", "banAndOp"} :
             SetModes(c, n, add, how)
  BY <1>4, SetModesKeeps
<1>5. CASE \E c \in Chans : SetTopic(c)
  BY <1>5, SetTopicKeeps
<1> QED
  BY <1>1, <1>2, <1>3, <1>4, <1>5 DEF World

\* The server's answers.
LEMMA ServerKeeps ==
  ASSUME ServerOK, LinesOK, Server
  PROVE  ServerOK' /\ LinesOK' /\ UNCHANGED client
<1> DEFINE a == Head(asked)
<1>1. /\ asked # <<>> /\ asked' = Tail(asked) /\ UNCHANGED client /\ Len(lines') <= MaxLines
      /\ a \in Asked
  <2>1. /\ asked # <<>> /\ asked' = Tail(asked) /\ UNCHANGED client /\ Len(lines') <= MaxLines
    BY DEF Server, AnswerWho, AnswerMode, AnswerWhois, AnswerNick, Answers
  <2> QED
    BY <2>1 DEF LinesOK
<1> HIDE DEF a
<1>2. ASSUME NEW ls \in Seq(Line), lines' = lines \o ls PROVE LinesOK'
  <2>1. asked \in Seq(Asked) /\ lines \in Seq(Line) /\ Len(asked) <= MaxLines
    BY DEF LinesOK
  <2>2. lines' \in Seq(Line)
    BY <1>2, <2>1, ConcatProperties
  <2>3. asked' \in Seq(Asked) /\ Len(asked') <= MaxLines
    BY <1>1, <2>1, TrackerConstants
  <2> QED
    BY <1>1, <2>2, <2>3 DEF LinesOK
<1>3. \A x \in Line : <<x>> \in Seq(Line)
  OBVIOUS
<1>4. <<>> \in Seq(Line)
  OBVIOUS
<1>5. ASSUME UNCHANGED <<server, link>> PROVE ServerOK'
  BY <1>5 DEF ServerOK, server, Everyone
<1>6. CASE AnswerWho
  <2> DEFINE who == IF a.arg \in Chans THEN on[a.arg] ELSE {a.arg} \cap Everyone
             ls == IF link = "up" /\ who # {} THEN <<WhoLine(who)>> ELSE <<>>
  <2>1. lines' = lines \o ls /\ UNCHANGED <<server, link>>
    BY <1>6 DEF AnswerWho, Answers, a
  <2>2. who \in SUBSET Names
    BY EveryoneIs DEF ServerOK
  <2> HIDE DEF who
  <2>3. ls \in Seq(Line)
    <3>1. WhoLine(who) \in Line
      BY <2>2 DEF WhoLine, Line
    <3> QED
      BY <1>3, <1>4, <3>1, Zenon
  <2> HIDE DEF ls
  <2> QED
    BY <1>1, <1>2, <1>5, <2>1, <2>3
<1>7. CASE AnswerMode
  <2> DEFINE ms == IF mode[a.arg] THEN <<Plus("m")>> ELSE <<>>
             ls == IF link = "up" /\ on[a.arg] # {} THEN <<ModeLine("324", a.arg, ms, <<>>)>>
                   ELSE <<>>
  <2>1. lines' = lines \o ls /\ UNCHANGED <<server, link>>
    BY <1>7 DEF AnswerMode, Answers, a
  <2>2. a.arg \in Chans
    BY <1>1, <1>7, AskIs DEF AnswerMode, Answers, a
  <2>3. ms \in Seq(Mode)
    <3>1. <<Plus("m")>> \in Seq(Mode)
      BY DEF Plus, Mode
    <3>2. <<>> \in Seq(Mode)
      OBVIOUS
    <3> QED
      BY <3>1, <3>2, Zenon
  <2>4. <<>> \in ArgsOfModes
    BY DEF ArgsOfModes
  <2> HIDE DEF ms
  <2>5. ModeLine("324", a.arg, ms, <<>>) \in Line
    BY <2>2, <2>3, <2>4, LinesAre
  <2>6. ls \in Seq(Line)
    BY <1>3, <1>4, <2>5, Zenon
  <2> HIDE DEF ls
  <2> QED
    BY <1>1, <1>2, <1>5, <2>1, <2>6
<1>8. CASE AnswerWhois
  <2> DEFINE ls == IF link = "up" /\ a.arg \in Everyone THEN <<WhoisLine(a.arg)>> ELSE <<>>
  <2>1. lines' = lines \o ls /\ UNCHANGED <<server, link>>
    BY <1>8 DEF AnswerWhois, Answers, a
  <2>2. a.arg \in Names
    BY <1>1, <1>8, AskIs DEF AnswerWhois, Answers, a
  <2>3. ls \in Seq(Line)
    BY <1>3, <1>4, <2>2, LinesAre, Zenon
  <2> HIDE DEF ls
  <2> QED
    BY <1>1, <1>2, <1>5, <2>1, <2>3
<1>9. CASE AnswerNick
  <2> DEFINE n == a.arg
             free == n \notin Everyone
             ls == IF n \in online THEN <<InUse(n)>>
                   ELSE IF link = "up" /\ free THEN <<NickLine(mine, n)>> ELSE <<>>
  <2>1. lines' = lines \o ls
    BY <1>9 DEF AnswerNick, Answers, a
  <2>2. n \in Names
    BY <1>1, <1>9, AskIs DEF AnswerNick, Answers, a
  <2>3. ls \in Seq(Line)
    <3>1. InUse(n) \in Line /\ (link = "up" => NickLine(mine, n) \in Line)
      BY <2>2, EveryoneIs, LinesAre
    <3> HIDE DEF n, free
    <3> QED
      BY <1>3, <1>4, <3>1, Zenon
  <2>4. LinesOK'
    <3> HIDE DEF ls
    <3> QED
      BY <1>2, <2>1, <2>3
  <2>5. ServerOK'
    <3>1. CASE ~free
      <4>1. UNCHANGED <<server, link>>
        BY <1>9, <3>1 DEF AnswerNick, a, server
      <4> QED
        BY <1>5, <4>1
    <3>2. CASE free /\ link = "up"
      <4>1. RenameAtServer(mine, n) /\ link' = link
        BY <1>9, <3>2 DEF AnswerNick, a
      <4>2. mine \in Everyone
        BY <3>2, TrackerConstants DEF ServerOK, Everyone
      <4> QED
        BY <2>2, <3>2, <4>1, <4>2, RenamedAtServer
    <3>3. CASE free /\ link # "up"
      <4>1. mine' = n /\ link' = "up" /\ UNCHANGED <<online, on, ops, mode, topic>>
        BY <1>9, <3>3 DEF AnswerNick, a
      <4>2. n # NoName /\ n \notin online
        BY <2>2, <3>3, TrackerConstants DEF Everyone
      <4>3. Everyone \subseteq Everyone'
        BY <3>3, <4>1 DEF Everyone, ServerOK
      <4> QED
        BY <2>2, <4>1, <4>2, <4>3 DEF ServerOK
    <3> QED
      BY <3>1, <3>2, <3>3
  <2> QED
    BY <1>1, <2>4, <2>5
<1> QED
  BY <1>6, <1>7, <1>8, <1>9 DEF Server

LEMMA AppAsksKeeps ==
  ASSUME ServerOK, LinesOK, NEW a \in Asked, AppAsks(a)
  PROVE  ServerOK' /\ LinesOK' /\ UNCHANGED client
<1>1. /\ UNCHANGED <<client, server, link, lines>> /\ Len(asked) < MaxLines
      /\ asked' = Append(asked, a)
  BY DEF AppAsks
<1>2. asked' \in Seq(Asked) /\ Len(asked') <= MaxLines
  BY <1>1, AppendProperties, TrackerConstants DEF LinesOK
<1> QED
  BY <1>1, <1>2 DEF ServerOK, LinesOK, server, Everyone

LEMMA ConnectKeeps ==
  ASSUME ServerOK, LinesOK, Sound(st), Connect
  PROVE  ServerOK' /\ LinesOK' /\ UNCHANGED client
<1>1. /\ UNCHANGED <<client, server, lines>> /\ Len(asked) < MaxLines
      /\ asked' = Append(asked, Ask("NICK", MyName(st))) /\ link = "down" /\ link' = "registering"
  BY DEF Connect
<1>2. Ask("NICK", MyName(st)) \in Asked
  BY NameIs, AskedAre
<1>3. asked' \in Seq(Asked) /\ Len(asked') <= MaxLines
  BY <1>1, <1>2, AppendProperties, TrackerConstants DEF LinesOK
<1>4. LinesOK'
  BY <1>1, <1>3 DEF LinesOK
<1>5. Everyone' = Everyone
  BY <1>1 DEF Everyone, server
<1> QED
  BY <1>1, <1>4, <1>5 DEF ServerOK, server

LEMMA LoseKeeps ==
  ASSUME ServerOK, LinesOK, Lose
  PROVE  ServerOK' /\ LinesOK'
<1>1. /\ link' = "down" /\ mine' = NoName /\ online' = online
      /\ TakeOff(mine, {c \in Chans : mine \in on[c]})
  BY DEF Lose
<1>2. PICK k \in 0..Len(lines) : lines' = SubSeq(lines, 1, k)
  BY DEF Lose
<1>3. PICK j \in 1..Len(asked) + 1 : asked' = SubSeq(asked, j, Len(asked))
  BY DEF Lose
<1>4. lines \in Seq(Line) /\ Len(lines) \in Nat /\ Len(lines) <= MaxLines /\ MaxLines \in Nat
      /\ asked \in Seq(Asked) /\ Len(asked) \in Nat /\ Len(asked) <= MaxLines
  BY TrackerConstants DEF LinesOK
<1>5. lines' \in Seq(Line) /\ Len(lines') <= MaxLines
  BY <1>2, <1>4, SubSeqProperties
<1>6. asked' \in Seq(Asked) /\ Len(asked') <= MaxLines
  BY <1>3, <1>4, SubSeqProperties
<1>7. LinesOK'
  BY <1>5, <1>6 DEF LinesOK
<1>8. /\ mode' \in [Chans -> BOOLEAN] /\ topic' \in [Chans -> BOOLEAN]
      /\ on' \in [Chans -> SUBSET Everyone] /\ ops' \in [Chans -> SUBSET Names]
      /\ \A c \in Chans : ops'[c] \subseteq on'[c]
                          /\ on'[c] = (IF mine \in on[c] THEN on[c] \ {mine} ELSE on[c])
  <2> DEFINE cs == {c \in Chans : mine \in on[c]}
  <2>1. cs \in SUBSET Chans /\ \A c \in Chans : c \in cs <=> mine \in on[c]
    OBVIOUS
  <2>2. TakeOff(mine, cs)
    BY <1>1
  <2> HIDE DEF cs
  <2> QED
    BY <2>1, <2>2, TakenOff
<1>9. \A c \in Chans : on'[c] \subseteq Everyone'
  BY <1>1, <1>8 DEF Everyone
<1>10. on' \in [Chans -> SUBSET Everyone']
  BY <1>8, <1>9
<1>11. ServerOK'
  BY <1>1, <1>8, <1>10, TrackerConstants DEF ServerOK
<1> QED
  BY <1>7, <1>11

-----------------------------------------------------------------------------
(* What a step shows, as ChannelView has it.                               *)

Same(r, s) ==
  /\ MyName(r) = MyName(s)
  /\ \A d \in Chans, m \in Names : Has(r, d, m) <=> Has(s, d, m)
Enters(r, s, c, who) ==
  /\ Has(s, c, MyName(s)) \/ MyName(s) \in who
  /\ MyName(r) = MyName(s)
  /\ \A d \in Chans, m \in Names : Has(r, d, m) <=> Has(s, d, m) \/ (d = c /\ m \in who)
Leaves(r, s, c, n) ==
  /\ MyName(r) = MyName(s)
  /\ \A d \in Chans, m \in Names :
       Has(r, d, m) <=> Has(s, d, m) /\ ~(d = c /\ (m = n \/ n = MyName(s)))
Quits(r, s, n) ==
  /\ n # MyName(s) /\ MyName(r) = MyName(s)
  /\ \A d \in Chans, m \in Names : Has(r, d, m) <=> Has(s, d, m) /\ m # n
Renames(r, s, old, neu) ==
  /\ ~Tracked(s, neu)
  /\ MyName(r) = IF old = MyName(s) THEN neu ELSE MyName(s)
  /\ \A d \in Chans, m \in Names :
       Has(r, d, m) <=> IF m = neu THEN Has(s, d, old) ELSE m # old /\ Has(s, d, m)
Wipes(r, s) == MyName(r) = MyName(s) /\ \A d \in Chans, m \in Names : ~Has(r, d, m)

Shows(r, s) ==
  \/ Same(r, s)
  \/ \E c \in Chans : \E who \in SUBSET Names : Enters(r, s, c, who)
  \/ \E c \in Chans, n \in Names : Leaves(r, s, c, n)
  \/ \E n \in Names : Quits(r, s, n)
  \/ \E old, neu \in Names : Renames(r, s, old, neu)
  \/ Wipes(r, s)

Kept(r, s) == Sound(r) /\ Whole(r) /\ Shows(r, s)

LEMMA StillKept ==
  ASSUME NEW s, Sound(s), Whole(s), NEW r, Sound(r), Still(r, s)
  PROVE  Kept(r, s)
<1>1. Same(r, s) /\ Whole(r)
  BY StillHas DEF Same
<1> QED
  BY <1>1 DEF Kept, Shows

LEMMA UnchangedKept ==
  ASSUME NEW s, Sound(s), Whole(s)
  PROVE  Kept(s, s)
BY DEF Kept, Shows, Same

LEMMA JoinedKept ==
  ASSUME NEW s, Sound(s), Whole(s), NEW l, l.nick \in Names, l.chan \in Chans
  PROVE  Kept(Joined(s, l), s)
<1> DEFINE r == Joined(s, l)
<1>1. /\ Sound(r) /\ Whole(r) /\ MyName(r) = MyName(s)
      /\ IF Has(s, l.chan, MyName(s)) \/ l.nick = MyName(s)
         THEN \A d \in Chans, m \in Names :
                Has(r, d, m) <=> Has(s, d, m) \/ (d = l.chan /\ m = l.nick)
         ELSE r = s
  BY JoinedSound
<1> HIDE DEF r
<1>2. ASSUME r = s PROVE Kept(r, s)
  BY <1>2, UnchangedKept
<1>3. ASSUME r # s PROVE Kept(r, s)
  <2>1. PICK c \in Chans, n \in Names : c = l.chan /\ n = l.nick
    OBVIOUS
  <2>2. Has(s, c, MyName(s)) \/ n = MyName(s)
    BY <1>1, <1>3, <2>1
  <2>3. \A d \in Chans, m \in Names : Has(r, d, m) <=> Has(s, d, m) \/ (d = c /\ m = n)
    BY <1>1, <1>3, <2>1
  <2>4. Enters(r, s, c, {n})
    BY <1>1, <2>2, <2>3 DEF Enters
  <2>5. {n} \in SUBSET Names
    OBVIOUS
  <2> QED
    BY <1>1, <2>4, <2>5 DEF Kept, Shows
<1> QED
  BY <1>2, <1>3 DEF r

LEMMA DissociateKept ==
  ASSUME NEW s, Sound(s), Whole(s), NEW c \in Chans, NEW name \in Names
  PROVE  Kept(Dissociate(s, c, name), s)
<1> DEFINE r == Dissociate(s, c, name)
<1>1. /\ Sound(r) /\ Whole(r) /\ MyName(r) = MyName(s)
      /\ \A d \in Chans, n \in Names :
           Has(r, d, n) <=> Has(s, d, n) /\ ~(d = c /\ (n = name \/ name = MyName(s)))
  BY DissociateSound
<1> HIDE DEF r
<1>2. Leaves(r, s, c, name)
  BY <1>1 DEF Leaves
<1>3. Kept(r, s)
  BY <1>1, <1>2 DEF Kept, Shows
<1> QED
  BY <1>3 DEF r

LEMMA DelNickKept ==
  ASSUME NEW s, Sound(s), Whole(s), NEW name \in Names
  PROVE  Kept(DelNick(s, name), s)
<1> DEFINE r == DelNick(s, name)
<1>1. /\ Sound(r) /\ Whole(r) /\ MyName(r) = MyName(s)
      /\ \A c \in Chans, n \in Names :
           Has(r, c, n) <=> Has(s, c, n) /\ (n # name \/ name = MyName(s))
  BY DelNickSound
<1> HIDE DEF r
<1>2. CASE name = MyName(s)
  <2>1. Same(r, s)
    BY <1>1, <1>2 DEF Same
  <2> QED
    BY <1>1, <2>1 DEF Kept, Shows, r
<1>3. CASE name # MyName(s)
  <2>1. Quits(r, s, name)
    BY <1>1, <1>3 DEF Quits
  <2> QED
    BY <1>1, <2>1 DEF Kept, Shows, r
<1> QED
  BY <1>2, <1>3

LEMMA ReNickKept ==
  ASSUME NEW s, Sound(s), Whole(s), NEW old \in Names, NEW neu \in Names
  PROVE  Kept(ReNick(s, old, neu), s)
<1> DEFINE r == ReNick(s, old, neu)
<1>1. CASE ~Tracked(s, old) \/ Tracked(s, neu)
  <2>1. r = s
    BY <1>1 DEF ReNick
  <2> QED
    BY <2>1, UnchangedKept
<1>2. CASE Tracked(s, old) /\ ~Tracked(s, neu)
  <2>1. /\ Sound(r) /\ Whole(r)
        /\ MyName(r) = IF old = MyName(s) THEN neu ELSE MyName(s)
        /\ \A c \in Chans, n \in Names :
             Has(r, c, n) <=> IF n = neu THEN Has(s, c, old) ELSE n # old /\ Has(s, c, n)
    BY <1>2, ReNickSound
  <2> HIDE DEF r
  <2>2. Renames(r, s, old, neu)
    BY <1>2, <2>1 DEF Renames
  <2> QED
    BY <2>1, <2>2 DEF Kept, Shows, r
<1> QED
  BY <1>1, <1>2

LEMMA NamesListedKept ==
  ASSUME NEW s, Sound(s), Whole(s), NEW l, l.chan \in DOMAIN s.ch, l.who \in SUBSET Names
  PROVE  Kept(NamesListed(s, l), s)
<1> DEFINE r == NamesListed(s, l)
<1>1. /\ Sound(r) /\ Whole(r) /\ MyName(r) = MyName(s)
      /\ \A d \in Chans, m \in Names :
           Has(r, d, m) <=> Has(s, d, m) \/ (d = l.chan /\ m \in l.who)
  BY NamesListedSound
<1> HIDE DEF r
<1>2. l.chan \in Chans
  BY TrackersAre DEF Sound, IsMap
<1>3. Has(s, l.chan, MyName(s))
  <2>1. Me \in DOMAIN s.nk /\ NamesAgree(s)
    BY DEF Sound
  <2> QED
    BY <2>1 DEF Whole, NamesAgree, Has, Tracked, MyName
<1>4. Enters(r, s, l.chan, l.who)
  BY <1>1, <1>3 DEF Enters
<1> QED
  BY <1>1, <1>2, <1>4 DEF Kept, Shows, r

LEMMA WipeKept ==
  ASSUME NEW s, Sound(s), Whole(s)
  PROVE  Kept(Wipe(s), s)
<1> DEFINE r == Wipe(s)
<1>1. Sound(r) /\ Whole(r) /\ Wipes(r, s)
  BY WipeSound DEF Wipes
<1> HIDE DEF r
<1> QED
  BY <1>1 DEF Kept, Shows, r

LEMMA NewTrackerKept ==
  ASSUME NEW s, Sound(s)
  PROVE  Kept(NewTracker(MyName(s)), s)
<1> DEFINE r == NewTracker(MyName(s))
<1>1. MyName(s) \in Names
  <2>1. s \in Trackers /\ Me \in DOMAIN s.nk
    BY DEF Sound
  <2> QED
    BY <2>1, NickObjectsAre, TrackersAre DEF MyName, IsMap
<1>2. Sound(r) /\ Whole(r) /\ Wipes(r, s)
  BY <1>1, NewTrackerSound DEF Wipes
<1> HIDE DEF r
<1> QED
  BY <1>2 DEF Kept, Shows, r

LEMMA ModesKept ==
  ASSUME NEW s, Sound(s), Whole(s), NEW c \in DOMAIN s.ch, NEW modes \in Seq(Mode),
         NEW args \in ArgsOfModes
  PROVE  Kept([s EXCEPT !.ch[c] = ParseModes(@, modes, args)], s)
<1> DEFINE r == [s EXCEPT !.ch[c] = ParseModes(@, modes, args)]
<1>1. Sound(r) /\ Still(r, s)
  BY ModesSound
<1> HIDE DEF r
<1>2. Kept(r, s)
  BY <1>1, StillKept
<1> QED
  BY <1>2 DEF r

LEMMA TopicKept ==
  ASSUME NEW s, Sound(s), Whole(s), NEW c \in DOMAIN s.ch, NEW t \in BOOLEAN
  PROVE  Kept([s EXCEPT !.ch[c].topic = t], s)
<1> DEFINE r == [s EXCEPT !.ch[c].topic = t]
<1>1. Sound(r) /\ Still(r, s)
  BY TopicSound
<1> HIDE DEF r
<1>2. Kept(r, s)
  BY <1>1, StillKept
<1> QED
  BY <1>2 DEF r

LEMMA KnownKept ==
  ASSUME NEW s, Sound(s), Whole(s), NEW told
  PROVE  Kept([s EXCEPT !.nk = [i \in DOMAIN s.nk |-> [s.nk[i] EXCEPT !.known = @ \/ i \in told]]], s)
<1> DEFINE r == [s EXCEPT !.nk = [i \in DOMAIN s.nk |-> [s.nk[i] EXCEPT !.known = @ \/ i \in told]]]
<1>1. Sound(r) /\ Still(r, s)
  BY KnownSound
<1> HIDE DEF r
<1>2. Kept(r, s)
  BY <1>1, StillKept
<1> QED
  BY <1>2 DEF r

\* Every handler leaves the maps in order and takes a step of ChannelView.
LEMMA HandleKept ==
  ASSUME IInv, Handle
  PROVE  Kept(st', st)
<1> DEFINE l == Head(lines)
<1>1. l \in Line /\ Sound(st) /\ Whole(st) /\ MyName(st) \in Names
  BY HandleLines, NameIs DEF IInv, TrackerInv
<1>2. Kept(st, st)
  BY <1>1, UnchangedKept
<1>3. DOMAIN st.ch \subseteq Chans
  BY <1>1, NameIs
<1> HIDE DEF l
<1>4. CASE h_JOIN
  <2>1. l.nick \in Names /\ l.chan \in Chans
    BY <1>1, <1>4, LineIs DEF h_JOIN, Dispatched, l
  <2>2. st' = st \/ st' = Joined(st, l)
    BY <1>4 DEF h_JOIN, l
  <2>3. Kept(Joined(st, l), st)
    BY <1>1, <2>1, JoinedKept
  <2> QED
    BY <1>2, <2>2, <2>3
<1>5. CASE h_PART
  <2>1. l.nick \in Names /\ l.chan \in Chans
    BY <1>1, <1>5, LineIs DEF h_PART, Dispatched, l
  <2>2. st' = st \/ st' = Dissociate(st, l.chan, l.nick)
    BY <1>5 DEF h_PART, Track, l
  <2>3. Kept(Dissociate(st, l.chan, l.nick), st)
    BY <1>1, <2>1, DissociateKept
  <2> QED
    BY <1>2, <2>2, <2>3
<1>6. CASE h_QUIT
  <2>1. l.nick \in Names
    BY <1>1, <1>6, LineIs DEF h_QUIT, Dispatched, l
  <2>2. st' = st \/ st' = DelNick(st, l.nick)
    BY <1>6 DEF h_QUIT, Track, l
  <2>3. Kept(DelNick(st, l.nick), st)
    BY <1>1, <2>1, DelNickKept
  <2> QED
    BY <1>2, <2>2, <2>3
<1>7. CASE h_NICK
  <2>1. l.nick \in Names /\ l.neu \in Names
    BY <1>1, <1>7, LineIs DEF h_NICK, Dispatched, l
  <2>2. st' = ReNick(st, l.nick, l.neu)
    BY <1>7 DEF h_NICK, l
  <2>3. Kept(ReNick(st, l.nick, l.neu), st)
    BY <1>1, <2>1, ReNickKept
  <2> QED
    BY <2>2, <2>3
<1>8. CASE h_433
  <2>1. st' = st \/ st' = ReNick(st, MyName(st), NewNick[MyName(st)])
    BY <1>8 DEF h_433
  <2>2. NewNick[MyName(st)] \in Names
    BY <1>1, TrackerConstants
  <2>3. Kept(ReNick(st, MyName(st), NewNick[MyName(st)]), st)
    BY <1>1, <2>2, ReNickKept
  <2> QED
    BY <1>2, <2>1, <2>3
<1>9. CASE h_MODE
  <2>1. l.modes \in Seq(Mode) /\ l.args \in ArgsOfModes
    BY <1>1, <1>9, LineIs DEF h_MODE, Dispatched, l
  <2>2. st' = st \/ (l.chan \in DOMAIN st.ch
                     /\ st' = [st EXCEPT !.ch[l.chan] = ParseModes(@, l.modes, l.args)])
    BY <1>9 DEF h_MODE, Track, l
  <2>3. l.chan \in DOMAIN st.ch =>
          Kept([st EXCEPT !.ch[l.chan] = ParseModes(@, l.modes, l.args)], st)
    BY <1>1, <2>1, ModesKept
  <2> QED
    BY <1>2, <2>2, <2>3
<1>10. CASE h_TOPIC
  <2>1. l.topic \in BOOLEAN
    BY <1>1, <1>10, LineIs DEF h_TOPIC, Dispatched, l
  <2>2. st' = st \/ (l.chan \in DOMAIN st.ch /\ st' = [st EXCEPT !.ch[l.chan].topic = l.topic])
    BY <1>10 DEF h_TOPIC, Track, l
  <2>3. l.chan \in DOMAIN st.ch => Kept([st EXCEPT !.ch[l.chan].topic = l.topic], st)
    BY <1>1, <2>1, TopicKept
  <2> QED
    BY <1>2, <2>2, <2>3
<1>11. CASE h_353
  <2>1. l.who \in SUBSET Names
    BY <1>1, <1>11, LineIs DEF h_353, Dispatched, l
  <2>2. st' = st \/ (l.chan \in DOMAIN st.ch /\ st' = NamesListed(st, l))
    BY <1>11 DEF h_353, Track, l
  <2>3. l.chan \in DOMAIN st.ch => Kept(NamesListed(st, l), st)
    BY <1>1, <2>1, NamesListedKept
  <2> QED
    BY <1>2, <2>2, <2>3
<1>12. CASE h_352
  <2> DEFINE told == {st.nicks[n] : n \in Head(lines).who \cap DOMAIN st.nicks}
             r == [st EXCEPT !.nk = [i \in DOMAIN st.nk |->
                       [st.nk[i] EXCEPT !.known = @ \/ i \in told]]]
  <2>1. st' = (IF tracking THEN r ELSE st)
    BY <1>12 DEF h_352, Track
  <2>2. Kept(r, st)
    <3> HIDE DEF told
    <3> QED
      BY <1>1, KnownKept
  <2> HIDE DEF r
  <2> QED
    BY <1>2, <2>1, <2>2
<1> QED
  BY <1>4, <1>5, <1>6, <1>7, <1>8, <1>9, <1>10, <1>11, <1>12 DEF Handle

LEMMA InvPrimed ==
  ASSUME tracking' \in BOOLEAN, Kept(st', st), ServerOK', LinesOK'
  PROVE  IInv'
<1>1. TrackerInv'
  BY DEF TrackerInv, Kept
<1> QED
  BY <1>1 DEF IInv

\* And so does every step.
LEMMA StepKept ==
  ASSUME IInv, [Next]_vars
  PROVE  IInv' /\ Kept(st', st)
<1>1. /\ ServerOK /\ LinesOK /\ tracking \in BOOLEAN /\ Sound(st) /\ Whole(st)
      /\ MyName(st) \in Names /\ DOMAIN st.nicks \subseteq Names
  BY NameIs DEF IInv, TrackerInv
<1>2. Kept(st, st)
  BY <1>1, UnchangedKept
<1>3. ASSUME UNCHANGED client, ServerOK', LinesOK' PROVE IInv' /\ Kept(st', st)
  <2>1. tracking' = tracking /\ st' = st
    BY <1>3 DEF client
  <2>2. Kept(st', st) /\ tracking' \in BOOLEAN
    BY <1>1, <1>2, <2>1
  <2> QED
    BY <1>3, <2>2, InvPrimed
<1>4. CASE Handle
  <2>1. ServerOK' /\ LinesOK' /\ tracking' = tracking /\ Kept(st', st)
    BY <1>4, HandleLines, HandleKept
  <2>2. tracking' \in BOOLEAN
    BY <1>1, <2>1
  <2> QED
    BY <2>1, <2>2, InvPrimed
<1>5. CASE World
  BY <1>1, <1>3, <1>5, WorldKeeps
<1>6. CASE Server
  BY <1>1, <1>3, <1>6, ServerKeeps
<1>7. CASE \E n \in Names \ Reserved : AppAsks(Ask("NICK", n))
  <2>1. PICK n \in Names : AppAsks(Ask("NICK", n))
    BY <1>7
  <2> QED
    BY <1>1, <1>3, <2>1, AskedAre, AppAsksKeeps
<1>8. CASE \E n \in DOMAIN st.nicks \ {MyName(st)} : AppAsks(Ask("WHOIS", n))
  <2>1. PICK n \in Names : AppAsks(Ask("WHOIS", n))
    BY <1>1, <1>8
  <2> QED
    BY <1>1, <1>3, <2>1, AskedAre, AppAsksKeeps
<1>9. CASE Connect
  BY <1>1, <1>3, <1>9, ConnectKeeps
<1>10. CASE Lose
  <2>1. ServerOK' /\ LinesOK' /\ tracking' = tracking
    BY <1>1, <1>10, LoseKeeps DEF Lose
  <2>2. st' = st \/ st' = Wipe(st)
    BY <1>10 DEF Lose
  <2>3. Kept(st', st)
    BY <1>1, <1>2, <2>2, WipeKept
  <2> QED
    BY <1>1, <2>1, <2>3, InvPrimed
<1>11. ASSUME UNCHANGED <<server, link, lines, asked>> PROVE ServerOK' /\ LinesOK'
  BY <1>1, <1>11 DEF ServerOK, LinesOK, server, Everyone
<1>12. CASE EnableStateTracking
  <2>1. tracking' = TRUE /\ st' = NewTracker(MyName(st)) /\ ServerOK' /\ LinesOK'
    BY <1>11, <1>12 DEF EnableStateTracking
  <2>2. Kept(st', st) /\ tracking' \in BOOLEAN
    BY <1>1, <2>1, NewTrackerKept
  <2> QED
    BY <2>1, <2>2, InvPrimed
<1>13. CASE DisableStateTracking
  <2>1. tracking' = FALSE /\ st' = Wipe(st) /\ ServerOK' /\ LinesOK'
    BY <1>11, <1>13 DEF DisableStateTracking
  <2>2. Kept(st', st) /\ tracking' \in BOOLEAN
    BY <1>1, <2>1, WipeKept
  <2> QED
    BY <2>1, <2>2, InvPrimed
<1>14. CASE UNCHANGED vars
  <2>1. UNCHANGED client /\ UNCHANGED <<server, link, lines, asked>>
    BY <1>14 DEF vars, client, server
  <2> QED
    BY <1>3, <1>11, <2>1
<1> QED
  BY <1>4, <1>5, <1>6, <1>7, <1>8, <1>9, <1>10, <1>12, <1>13, <1>14 DEF Next

LEMMA InitInv ==
  ASSUME Init
  PROVE  IInv /\ MyName(st) = Bot /\ \A c \in Chans, n \in Names : ~Has(st, c, n)
<1>1. /\ tracking = TRUE /\ st = NewTracker(Bot) /\ Bot \in Names
      /\ link = "down" /\ lines = <<>> /\ asked = <<>> /\ mine = NoName
      /\ online \in SUBSET (Names \ Reserved)
      /\ on \in [Chans -> SUBSET (online \ {Bot})] /\ ops = [c \in Chans |-> {}]
      /\ mode = [c \in Chans |-> FALSE] /\ topic = [c \in Chans |-> on[c] # {}]
  BY TrackerConstants DEF Init
<1>2. /\ Sound(st) /\ Whole(st) /\ MyName(st) = Bot
      /\ \A c \in Chans, n \in Names : ~Has(st, c, n)
  BY <1>1, NewTrackerSound
<1>3. LinesOK
  BY <1>1, TrackerConstants DEF LinesOK
<1>4. ops \in [Chans -> SUBSET Names] /\ \A c \in Chans : ops[c] \subseteq on[c]
  BY <1>1
<1>5. mode \in [Chans -> BOOLEAN]
  BY <1>1
<1>6. topic \in [Chans -> BOOLEAN]
  BY <1>1, Zenon
<1>7. on \in [Chans -> SUBSET Everyone]
  BY <1>1 DEF Everyone
<1>8. ServerOK
  BY <1>1, <1>4, <1>5, <1>6, <1>7, TrackerConstants DEF ServerOK
<1> QED
  BY <1>1, <1>2, <1>3, <1>8 DEF IInv, TrackerInv

-----------------------------------------------------------------------------
(* The theorems.                                                           *)

ViewOf(s) ==
  UNION {{c} \X {s.nk[i].name : i \in DOMAIN s.ch[c].nicks} : c \in DOMAIN s.ch}

LEMMA ViewIs ==
  ASSUME NEW s, Sound(s)
  PROVE  /\ ViewOf(s) \subseteq Chans \X Names
         /\ \A c \in Chans, n \in Names : <<c, n>> \in ViewOf(s) <=> Has(s, c, n)
<1>1. /\ s \in Trackers /\ NamesAgree(s) /\ ChansAgree(s)
      /\ DOMAIN s.ch \subseteq Chans /\ DOMAIN s.nk \subseteq Objects /\ DOMAIN s.nicks \subseteq Names
  BY TrackersAre DEF Sound, IsMap
<1>2. \A c \in DOMAIN s.ch : DOMAIN s.ch[c].nicks = {i \in DOMAIN s.nk : c \in s.nk[i].chans}
  <2> TAKE c \in DOMAIN s.ch
  <2>1. DOMAIN s.ch[c].nicks \subseteq Objects
    BY <1>1, TrackersAre, ChanObjectsAre DEF IsMap
  <2> QED
    BY <1>1, <2>1 DEF ChansAgree
<1>3. \A i \in DOMAIN s.nk : s.nk[i].name \in Names
  BY <1>1 DEF NamesAgree
<1>4. ViewOf(s) \subseteq Chans \X Names
  BY <1>1, <1>2, <1>3 DEF ViewOf
<1>5. ASSUME NEW c \in Chans, NEW n \in Names
      PROVE  <<c, n>> \in ViewOf(s) <=>
               c \in DOMAIN s.ch /\ \E i \in DOMAIN s.ch[c].nicks : s.nk[i].name = n
  BY DEF ViewOf
<1>6. ASSUME NEW c \in Chans, NEW n \in Names
      PROVE  <<c, n>> \in ViewOf(s) <=> Has(s, c, n)
  BY <1>1, <1>2, <1>5, <1>6 DEF Has, Tracked, NamesAgree, ChansAgree
<1> QED
  BY <1>4, <1>6

\* Two relations between channels and names with the same pairs are one.
LEMMA PairsEqual ==
  ASSUME NEW v \in SUBSET (Chans \X Names), NEW w \in SUBSET (Chans \X Names),
         \A c \in Chans, n \in Names : <<c, n>> \in v <=> <<c, n>> \in w
  PROVE  v = w
OBVIOUS

LEMMA PromiseStep ==
  ASSUME Sound(st), Kept(st', st)
  PROVE  [Promise!Next]_Promise!cvVars
<1>1. PICK s, r, v, w, a, b :
        /\ s = st /\ r = st' /\ v = View /\ w = View' /\ a = MyName(st) /\ b = MyName(st)'
  OBVIOUS
<1>2. v = ViewOf(s) /\ w = ViewOf(r) /\ a = MyName(s) /\ b = MyName(r)
  BY <1>1 DEF View, ViewOf, MyName
<1>3. Sound(s) /\ Sound(r) /\ Shows(r, s)
  BY <1>1 DEF Kept
<1>4. /\ v \in SUBSET (Chans \X Names) /\ w \in SUBSET (Chans \X Names)
      /\ \A c \in Chans, n \in Names : /\ <<c, n>> \in v <=> Has(s, c, n)
                                       /\ <<c, n>> \in w <=> Has(r, c, n)
  BY <1>2, <1>3, ViewIs
<1>5. CASE Same(r, s)
  <2>1. w = v /\ b = a
    BY <1>2, <1>4, <1>5, PairsEqual DEF Same
  <2> QED
    BY <1>1, <2>1 DEF Promise!cvVars
<1>6. CASE \E c \in Chans : \E who \in SUBSET Names : Enters(r, s, c, who)
  <2>1. PICK c \in Chans, who \in SUBSET Names : Enters(r, s, c, who)
    BY <1>6
  <2> DEFINE z == v \cup ({c} \X who)
  <2>2. w = z
    <3>1. z \in SUBSET (Chans \X Names)
      BY <1>4
    <3>2. \A d \in Chans, n \in Names : <<d, n>> \in z <=> <<d, n>> \in v \/ (d = c /\ n \in who)
      OBVIOUS
    <3> HIDE DEF z
    <3>3. \A d \in Chans, m \in Names : <<d, m>> \in z <=> <<d, m>> \in w
      BY <1>4, <2>1, <3>2 DEF Enters
    <3> QED
      BY <1>4, <3>1, <3>3, PairsEqual
  <2>3. b = a
    BY <1>2, <2>1 DEF Enters
  <2>4. a \in {n \in Names : <<c, n>> \in v} \cup who
    <3>1. a \in Names
      BY <1>1, NameIs
    <3> QED
      BY <1>2, <1>4, <2>1, <3>1 DEF Enters
  <2>5. Promise!Enter(c, who)
    BY <1>1, <2>2, <2>3, <2>4 DEF Promise!Enter, Promise!Members
  <2> QED
    BY <2>5 DEF Promise!Next
<1>7. CASE \E c \in Chans, n \in Names : Leaves(r, s, c, n)
  <2>1. PICK c \in Chans, n \in Names : Leaves(r, s, c, n)
    BY <1>7
  <2> DEFINE z == IF n = a THEN v \ ({c} \X Names) ELSE v \ {<<c, n>>}
  <2>2. w = z
    <3>1. z \in SUBSET (Chans \X Names)
      BY <1>4
    <3>2. \A d \in Chans, m \in Names :
            <<d, m>> \in z <=> <<d, m>> \in v /\ ~(d = c /\ (m = n \/ n = a))
      OBVIOUS
    <3> HIDE DEF z
    <3>3. \A d \in Chans, m \in Names : <<d, m>> \in z <=> <<d, m>> \in w
      BY <1>2, <1>4, <2>1, <3>2 DEF Leaves
    <3> QED
      BY <1>4, <3>1, <3>3, PairsEqual
  <2>3. b = a
    BY <1>2, <2>1 DEF Leaves
  <2>4. Promise!Leave(c, n)
    BY <1>1, <2>2, <2>3 DEF Promise!Leave
  <2> QED
    BY <2>4 DEF Promise!Next
<1>8. CASE \E n \in Names : Quits(r, s, n)
  <2>1. PICK n \in Names : Quits(r, s, n)
    BY <1>8
  <2> DEFINE z == v \ (Chans \X {n})
  <2>2. w = z
    <3>1. z \in SUBSET (Chans \X Names)
      BY <1>4
    <3>2. \A d \in Chans, m \in Names : <<d, m>> \in z <=> <<d, m>> \in v /\ m # n
      OBVIOUS
    <3> HIDE DEF z
    <3>3. \A d \in Chans, m \in Names : <<d, m>> \in z <=> <<d, m>> \in w
      BY <1>4, <2>1, <3>2 DEF Quits
    <3> QED
      BY <1>4, <3>1, <3>3, PairsEqual
  <2>3. b = a /\ n # a
    BY <1>2, <2>1 DEF Quits
  <2>4. Promise!Quit(n)
    BY <1>1, <2>2, <2>3 DEF Promise!Quit
  <2> QED
    BY <2>4 DEF Promise!Next
<1>9. CASE \E old, neu \in Names : Renames(r, s, old, neu)
  <2>1. PICK old \in Names, neu \in Names : Renames(r, s, old, neu)
    BY <1>9
  <2> DEFINE z == {p \in Chans \X Names :
                     IF p[2] = neu THEN <<p[1], old>> \in v ELSE p[2] # old /\ p \in v}
  <2>2. w = z
    <3>1. z \in SUBSET (Chans \X Names)
      OBVIOUS
    <3>2. \A d \in Chans, m \in Names :
            <<d, m>> \in z <=> IF m = neu THEN <<d, old>> \in v ELSE m # old /\ <<d, m>> \in v
      OBVIOUS
    <3> HIDE DEF z
    <3>3. \A d \in Chans, m \in Names : <<d, m>> \in z <=> <<d, m>> \in w
      BY <1>4, <2>1, <3>2 DEF Renames
    <3> QED
      BY <1>4, <3>1, <3>3, PairsEqual
  <2>3. b = (IF old = a THEN neu ELSE a)
    BY <1>2, <2>1 DEF Renames
  <2>4. neu \notin {n \in Names : \E c \in Chans : n \in {m \in Names : <<c, m>> \in v}} \cup {a}
    <3>1. neu # a
      BY <1>1, <2>1, NameIs DEF Renames
    <3>2. \A c \in Chans : <<c, neu>> \notin v
      BY <1>4, <2>1 DEF Renames, Has
    <3> QED
      BY <3>1, <3>2
  <2>5. Promise!Rename(old, neu)
    BY <1>1, <2>2, <2>3, <2>4 DEF Promise!Rename, Promise!Seen, Promise!Members
  <2> QED
    BY <2>5 DEF Promise!Next
<1>10. CASE Wipes(r, s)
  <2>1. w = {}
    <3>1. {} \in SUBSET (Chans \X Names)
      OBVIOUS
    <3> QED
      BY <1>4, <1>10, <3>1, PairsEqual DEF Wipes
  <2>2. b = a
    BY <1>2, <1>10 DEF Wipes
  <2>3. Promise!Wipe
    BY <1>1, <2>1, <2>2 DEF Promise!Wipe
  <2> QED
    BY <2>3 DEF Promise!Next
<1> QED
  BY <1>3, <1>5, <1>6, <1>7, <1>8, <1>9, <1>10 DEF Shows

LEMMA ConsistentIs ==
  ASSUME IInv
  PROVE  Consistent
<1>1. /\ ServerOK /\ LinesOK /\ tracking \in BOOLEAN /\ Whole(st)
      /\ st \in Trackers /\ Me \in DOMAIN st.nk /\ NamesAgree(st) /\ ChansAgree(st)
      /\ LookupsAgree(st)
  BY DEF IInv, TrackerInv, Sound
<1>2. /\ DOMAIN st.ch \subseteq Chans /\ DOMAIN st.nk \subseteq Objects
      /\ DOMAIN st.nicks \subseteq Names
  BY <1>1, TrackersAre DEF IsMap
<1>3. TypeOK
  BY <1>1, <1>2 DEF TypeOK, ServerOK, LinesOK
<1>4. \A c \in DOMAIN st.ch : DOMAIN st.ch[c].nicks \subseteq Objects
                              /\ DOMAIN st.ch[c].lookup \subseteq Names
  BY <1>1, TrackersAre, ChanObjectsAre DEF IsMap
<1>5. DOMAIN st.nicks = {st.nk[i].name : i \in DOMAIN st.nk}
  BY <1>1 DEF NamesAgree
<1>6. \A n \in DOMAIN st.nicks : st.nicks[n] \in DOMAIN st.nk /\ st.nk[st.nicks[n]].name = n
  BY <1>1 DEF NamesAgree
<1>7. ASSUME NEW c \in DOMAIN st.ch
      PROVE  /\ DOMAIN st.ch[c].nicks = {i \in DOMAIN st.nk : c \in st.nk[i].chans}
             /\ Me \in DOMAIN st.ch[c].nicks
             /\ DOMAIN st.ch[c].lookup = {st.nk[i].name : i \in DOMAIN st.ch[c].nicks}
             /\ \A n \in DOMAIN st.ch[c].lookup : st.ch[c].lookup[n] = st.nicks[n]
  <2>1. DOMAIN st.ch[c].nicks = {i \in DOMAIN st.nk : c \in st.nk[i].chans}
    BY <1>1, <1>2, <1>4 DEF ChansAgree
  <2>2. Me \in DOMAIN st.ch[c].nicks
    BY <1>1, <2>1 DEF Whole
  <2>3. \A n \in DOMAIN st.ch[c].lookup : st.ch[c].lookup[n] = st.nicks[n]
    BY <1>1, <1>4 DEF LookupsAgree
  <2>4. DOMAIN st.ch[c].lookup \subseteq {st.nk[i].name : i \in DOMAIN st.ch[c].nicks}
    BY <1>1, <1>4, <1>6 DEF LookupsAgree
  <2>5. \A i \in DOMAIN st.ch[c].nicks : st.nk[i].name \in DOMAIN st.ch[c].lookup
    BY <1>1, <1>2, <2>1 DEF LookupsAgree, NamesAgree
  <2> QED
    BY <2>1, <2>2, <2>3, <2>4, <2>5
<1>8. \A i \in DOMAIN st.nk : /\ st.nk[i].chans \subseteq DOMAIN st.ch
                              /\ i # Me => st.nk[i].chans # {}
  BY <1>1 DEF ChansAgree, Whole
<1> QED
  BY <1>3, <1>5, <1>6, <1>7, <1>8 DEF Consistent

LEMMA TrackerInvariant == Spec => []IInv
<1>1. Init => IInv
  BY InitInv
<1>2. IInv /\ [Next]_vars => IInv'
  BY StepKept
<1> QED
  BY <1>1, <1>2, PTL DEF Spec

\* Whatever lines the server sends and whenever the connection is lost, the
\* tracker's maps agree with each other: the panics and "state tracking code
\* is fubar" of tracker.go do not come from the tracker itself: Consistent.
THEOREM MapsAlwaysAgree == Spec => []Consistent
<1>1. IInv => Consistent
  BY ConsistentIs
<1> QED
  BY <1>1, TrackerInvariant, PTL

\* What the tracker shows its user changes only as a relation of channels and
\* names may: somebody enters, leaves, quits or is renamed to a free name, or
\* everything is forgotten: KeepsPromise, ChannelView's specification.
THEOREM TrackerKeepsPromise == Spec => KeepsPromise
<1>1. Init => Promise!Init
  <2> SUFFICES ASSUME Init PROVE Promise!Init
    OBVIOUS
  <2>1. IInv /\ MyName(st) = Bot /\ Bot \in Names /\ \A c \in Chans, n \in Names : ~Has(st, c, n)
    BY InitInv, TrackerConstants
  <2>2. Sound(st)
    BY <2>1 DEF IInv, TrackerInv
  <2>3. ViewOf(st) \subseteq Chans \X Names
        /\ \A c \in Chans, n \in Names : <<c, n>> \notin ViewOf(st)
    BY <2>1, <2>2, ViewIs
  <2>4. View = {}
    <3>1. ViewOf(st) = {}
      BY <2>3
    <3> QED
      BY <3>1 DEF View, ViewOf
  <2> QED
    BY <2>1, <2>4 DEF Promise!Init
<1>2. IInv /\ [Next]_vars => [Promise!Next]_Promise!cvVars
  <2> SUFFICES ASSUME IInv, [Next]_vars PROVE [Promise!Next]_Promise!cvVars
    OBVIOUS
  <2>1. Sound(st) /\ Kept(st', st)
    BY StepKept DEF IInv, TrackerInv
  <2> QED
    BY <2>1, PromiseStep
<1> QED
  BY <1>1, <1>2, TrackerInvariant, PTL DEF Spec, KeepsPromise, Promise!Spec

-----------------------------------------------------------------------------
(* What the operations do to privileges, modes, topics and idents.         *)

OpOn(s, c, n) == Has(s, c, n) /\ s.ch[c].nicks[s.nicks[n]] = TRUE
Moded(s, c) == c \in DOMAIN s.ch /\ s.ch[c].mode = TRUE
Topical(s, c) == c \in DOMAIN s.ch /\ s.ch[c].topic = TRUE
Unknown(s, n) == Tracked(s, n) /\ s.nk[s.nicks[n]].known = FALSE

\* Who and what is still there is as it was, and who is new has no privilege.
RanksKept(r, s) ==
  /\ \A c \in Chans, n \in Names : OpOn(r, c, n) <=> OpOn(s, c, n) /\ Has(r, c, n)
  /\ \A c \in Chans : /\ Moded(r, c) <=> Moded(s, c) /\ c \in DOMAIN r.ch
                      /\ Topical(r, c) <=> Topical(s, c) /\ c \in DOMAIN r.ch
\* And so are the idents, if nobody comes of whom only the name is known.
Thins(r, s) ==
  RanksKept(r, s) /\ \A n \in Names : Unknown(r, n) <=> Unknown(s, n) /\ Tracked(r, n)

\* Where the tracker has somebody is among its objects.
LEMMA HasThere ==
  ASSUME NEW s, Sound(s), NEW c, NEW n, Has(s, c, n)
  PROVE  c \in DOMAIN s.ch /\ s.nicks[n] \in DOMAIN s.nk /\ s.nicks[n] \in DOMAIN s.ch[c].nicks
<1>1. NamesAgree(s) /\ ChansAgree(s) /\ s \in Trackers
  BY DEF Sound
<1>2. s.nicks[n] \in DOMAIN s.nk /\ c \in s.nk[s.nicks[n]].chans
  BY <1>1 DEF Has, Tracked, NamesAgree
<1>3. s.nicks[n] \in Objects
  BY <1>1, <1>2, NickObjectsAre
<1>4. c \in DOMAIN s.ch
  BY <1>1, <1>2 DEF ChansAgree
<1> QED
  BY <1>1, <1>2, <1>3, <1>4 DEF ChansAgree

LEMMA AddNickRanks ==
  ASSUME NEW s, Sound(s), NEW name \in Names, NEW known \in BOOLEAN
  PROVE  LET r == AddNick(s, name, known)
         IN  /\ RanksKept(r, s)
             /\ \A n \in Names : Tracked(r, n) <=> Tracked(s, n) \/ n = name
             /\ \A n \in Names :
                  Unknown(r, n) <=> Unknown(s, n) \/ (n = name /\ ~Tracked(s, n) /\ known = FALSE)
<1> DEFINE r == AddNick(s, name, known)
<1>1. CASE Tracked(s, name)
  <2>1. r = s
    BY <1>1 DEF AddNick
  <2> HIDE DEF r
  <2> QED
    BY <1>1, <2>1 DEF RanksKept, OpOn, Moded, Topical, r
<1>2. CASE ~Tracked(s, name)
  <2> DEFINE i == Unused(s)
             a == With(s.nicks, name, i)
             b == With(s.nk, i, NickObject(name, known))
  <2>1. i \in Objects /\ i \notin DOMAIN s.nk /\ i # Me
    BY <1>2, UnusedIs
  <2>2. s \in Trackers /\ IsMap(s.nicks, Names, Objects) /\ IsMap(s.nk, Objects, NickObjects)
        /\ IsMap(s.ch, Chans, ChanObjects) /\ NamesAgree(s) /\ ChansAgree(s)
    BY TrackersAre DEF Sound
  <2>3. NickObject(name, known) \in NickObjects
        /\ NickObject(name, known).known = known /\ NickObject(name, known).chans = {}
    BY DEF NickObject, NickObjects
  <2>4. r = [nicks |-> a, nk |-> b, ch |-> s.ch]
    BY <1>2, <2>2 DEF AddNick, Trackers
  <2>5. /\ DOMAIN a = DOMAIN s.nicks \cup {name} /\ a[name] = i
        /\ \A n \in DOMAIN s.nicks : a[n] = s.nicks[n]
    BY <1>2, <2>1, <2>2, WithIs DEF Tracked
  <2>6. /\ b[i].known = known /\ b[i].chans = {} /\ \A j \in DOMAIN s.nk : b[j] = s.nk[j]
    <3>1. b[i] = NickObject(name, known) /\ \A j \in DOMAIN s.nk : b[j] = s.nk[j]
      BY <2>1 DEF With
    <3> QED
      BY <2>3, <3>1
  <2> HIDE DEF i, a, b, r
  <2>7. r.nicks = a /\ r.nk = b /\ r.ch = s.ch
    BY <2>4
  <2>8. \A n \in Names : Tracked(r, n) <=> Tracked(s, n) \/ n = name
    BY <2>5, <2>7 DEF Tracked
  <2>9. \A n \in Names : Tracked(s, n) => r.nicks[n] = s.nicks[n] /\ r.nk[r.nicks[n]] = s.nk[s.nicks[n]]
    BY <2>2, <2>5, <2>6, <2>7 DEF Tracked, NamesAgree
  <2>10. r.nk[r.nicks[name]].known = known /\ r.nk[r.nicks[name]].chans = {}
    BY <2>5, <2>6, <2>7
  <2>11. \A c \in Chans, n \in Names : Has(r, c, n) <=> Has(s, c, n)
    BY <1>2, <2>8, <2>9, <2>10 DEF Has
  <2>12. \A c \in Chans, n \in Names : OpOn(r, c, n) <=> OpOn(s, c, n)
    BY <2>7, <2>9, <2>11 DEF OpOn, Has
  <2>13. \A n \in Names :
           Unknown(r, n) <=> Unknown(s, n) \/ (n = name /\ ~Tracked(s, n) /\ known = FALSE)
    BY <1>2, <2>8, <2>9, <2>10 DEF Unknown
  <2>14. RanksKept(r, s)
    BY <2>7, <2>11, <2>12 DEF RanksKept, Moded, Topical, OpOn
  <2> QED
    BY <2>8, <2>13, <2>14 DEF r
<1> QED
  BY <1>1, <1>2

LEMMA AddChannelRanks ==
  ASSUME NEW s, Sound(s), NEW c \in Chans
  PROVE  RanksKept(AddChannel(s, c), s)
<1> DEFINE r == AddChannel(s, c)
<1>1. CASE c \in DOMAIN s.ch
  <2>1. r = s
    BY <1>1 DEF AddChannel
  <2> HIDE DEF r
  <2> QED
    BY <2>1 DEF RanksKept, OpOn, Moded, Topical, r
<1>2. CASE c \notin DOMAIN s.ch
  <2> DEFINE a == With(s.ch, c, ChanObject)
  <2>1. r = [nicks |-> s.nicks, nk |-> s.nk, ch |-> a]
    BY <1>2 DEF AddChannel, Sound, Trackers
  <2>2. /\ DOMAIN a = DOMAIN s.ch \cup {c} /\ a[c] = ChanObject
        /\ \A d \in DOMAIN s.ch : a[d] = s.ch[d]
    BY <1>2 DEF With
  <2>3. ChanObject.mode = FALSE /\ ChanObject.topic = FALSE
    BY DEF ChanObject
  <2> HIDE DEF a, r
  <2>4. r.nicks = s.nicks /\ r.nk = s.nk /\ r.ch = a
    BY <2>1
  <2>5. \A d \in Chans, n \in Names : (Has(r, d, n) <=> Has(s, d, n)) /\ (Has(s, d, n) => d \in DOMAIN s.ch)
    BY <2>4 DEF Has, Tracked, Sound, NamesAgree, ChansAgree
  <2>6. \A d \in Chans, n \in Names : OpOn(r, d, n) <=> OpOn(s, d, n)
    BY <2>2, <2>4, <2>5 DEF OpOn
  <2>7. \A d \in Chans : (Moded(r, d) <=> Moded(s, d)) /\ (Topical(r, d) <=> Topical(s, d))
    BY <1>2, <2>2, <2>3, <2>4 DEF Moded, Topical
  <2> QED
    BY <2>5, <2>6, <2>7 DEF RanksKept, OpOn, Moded, Topical, r
<1> QED
  BY <1>1, <1>2

LEMMA AssociateRanks ==
  ASSUME NEW s, Sound(s), NEW c \in DOMAIN s.ch, NEW i \in DOMAIN s.nk
  PROVE  Thins(Associate(s, c, i), s)
<1> DEFINE r == Associate(s, c, i)
           x == s.ch[c]
           f == With(x.nicks, i, FALSE)
           g == With(x.lookup, s.nk[i].name, i)
           y == [x EXCEPT !.nicks = f, !.lookup = g]
           p == [s.nk[i] EXCEPT !.chans = @ \cup {c}]
<1>1. /\ s \in Trackers /\ NamesAgree(s) /\ ChansAgree(s) /\ DOMAIN s.ch \subseteq Chans
  BY TrackersAre DEF Sound, IsMap
<1>2. /\ x = [nicks |-> x.nicks, lookup |-> x.lookup, mode |-> x.mode, topic |-> x.topic]
  BY <1>1, ChanObjectsAre
<1>3. CASE c \in s.nk[i].chans
  <2>1. r = s
    BY <1>3 DEF Associate
  <2> HIDE DEF r
  <2> QED
    BY <2>1 DEF Thins, RanksKept, OpOn, Moded, Topical, Unknown, r
<1>4. CASE c \notin s.nk[i].chans
  <2>1. r = [s EXCEPT !.ch = [s.ch EXCEPT ![c] = y], !.nk = [s.nk EXCEPT ![i] = p]]
    BY <1>4 DEF Associate
  <2>2. y.nicks = f /\ y.mode = x.mode /\ y.topic = x.topic
    <3> HIDE DEF x, f, g
    <3> QED
      BY <1>2
  <2>3. p.known = s.nk[i].known /\ p.chans = s.nk[i].chans \cup {c}
    BY <1>1, NickObjectsAre
  <2>4. f[i] = FALSE /\ \A j \in DOMAIN x.nicks : j # i => f[j] = x.nicks[j]
    BY DEF With
  <2> HIDE DEF y, p, f, g, r
  <2>5. /\ r.nicks = s.nicks /\ r.ch = [s.ch EXCEPT ![c] = y] /\ r.nk = [s.nk EXCEPT ![i] = p]
    BY <1>1, <2>1 DEF Trackers
  <2>6. /\ \A d \in DOMAIN s.ch : d # c => r.ch[d] = s.ch[d]
        /\ r.ch[c] = y /\ DOMAIN r.ch = DOMAIN s.ch
        /\ \A j \in DOMAIN s.nk : j # i => r.nk[j] = s.nk[j]
        /\ r.nk[i] = p
    BY <1>1, <2>5, TrackersAre DEF IsMap
  <2>7. \A d \in Chans : (Moded(r, d) <=> Moded(s, d)) /\ (Topical(r, d) <=> Topical(s, d))
    BY <2>2, <2>6 DEF Moded, Topical, x
  <2>8. \A n \in Names : Unknown(r, n) <=> Unknown(s, n) /\ Tracked(r, n)
    BY <1>1, <2>3, <2>5, <2>6 DEF Unknown, Tracked, NamesAgree
  <2>9. ASSUME NEW d \in Chans, NEW n \in Names PROVE OpOn(r, d, n) <=> OpOn(s, d, n) /\ Has(r, d, n)
    <3>1. CASE ~Tracked(s, n)
      BY <2>5, <3>1 DEF OpOn, Has, Tracked
    <3>2. CASE Tracked(s, n)
      <4> DEFINE j == s.nicks[n]
      <4>1. j \in DOMAIN s.nk /\ r.nicks[n] = j /\ Tracked(r, n)
        BY <1>1, <2>5, <3>2 DEF NamesAgree, Tracked
      <4> HIDE DEF j
      <4>2. CASE d # c
        <5>1. Has(s, d, n) => d \in DOMAIN s.ch
          BY <1>1, <3>2, <4>1 DEF Has, ChansAgree, j
        <5>2. r.nk[j].chans \ {c} = s.nk[j].chans \ {c}
          BY <2>3, <2>6, <4>1
        <5>3. Has(r, d, n) <=> Has(s, d, n)
          BY <3>2, <4>1, <4>2, <5>2 DEF Has, j
        <5> QED
          BY <2>6, <4>1, <4>2, <5>1, <5>3 DEF OpOn, j
      <4>3. CASE d = c /\ j # i
        <5>1. Has(r, c, n) <=> Has(s, c, n)
          BY <2>6, <3>2, <4>1, <4>3 DEF Has, j
        <5>2. Has(s, c, n) => j \in DOMAIN x.nicks
          BY <1>1, <4>1, NickObjectsAre DEF Has, ChansAgree, j, x
        <5> QED
          BY <2>2, <2>4, <2>6, <4>1, <4>3, <5>1, <5>2 DEF OpOn, j, x
      <4>4. CASE d = c /\ j = i
        <5>1. ~Has(s, c, n)
          BY <1>4, <4>4 DEF Has, j
        <5>2. r.ch[c].nicks[r.nicks[n]] = FALSE
          BY <2>2, <2>4, <2>6, <4>1, <4>4
        <5> QED
          BY <4>4, <5>1, <5>2 DEF OpOn
      <4> QED
        BY <4>2, <4>3, <4>4
    <3> QED
      BY <3>1, <3>2
  <2>10. RanksKept(r, s)
    BY <2>6, <2>7, <2>9 DEF RanksKept, Moded, Topical
  <2> QED
    BY <2>8, <2>10 DEF Thins, r
<1> QED
  BY <1>3, <1>4

\* What leaving a channel does to its object.
LEMMA ExpelRanks ==
  ASSUME NEW s \in Trackers, NEW c \in DOMAIN s.ch, NEW i
  PROVE  LET x == s.ch[c]
             y == Expel(s, x, i)
         IN  y.mode = x.mode /\ y.topic = x.topic /\ \A j \in DOMAIN x.nicks : j # i => y.nicks[j] = x.nicks[j]
<1> DEFINE x == s.ch[c]
           f == Without(x.nicks, {i})
           g == Without(x.lookup, {s.nk[i].name})
<1>1. x = [nicks |-> x.nicks, lookup |-> x.lookup, mode |-> x.mode, topic |-> x.topic]
  BY ChanObjectsAre
<1>2. \A j \in DOMAIN x.nicks : j # i => f[j] = x.nicks[j]
  BY DEF Without
<1>3. Expel(s, x, i) = [x EXCEPT !.nicks = f, !.lookup = g]
  BY DEF Expel
<1> HIDE DEF x, f, g
<1> DEFINE y == [x EXCEPT !.nicks = f, !.lookup = g]
<1>4. y.nicks = f /\ y.mode = x.mode /\ y.topic = x.topic
  BY <1>1
<1> HIDE DEF y
<1> QED
  BY <1>2, <1>3, <1>4 DEF x, y

LEMMA DropRanks ==
  ASSUME NEW s, Sound(s), NEW i \in DOMAIN s.nk, i # Me
  PROVE  Thins(Drop(s, i), s)
<1> DEFINE r == Drop(s, i)
<1>1. /\ s \in Trackers /\ NamesAgree(s) /\ ChansAgree(s)
  BY DEF Sound
<1>2. /\ Sound(r) /\ DOMAIN r.ch = DOMAIN s.ch
      /\ DOMAIN r.nicks = DOMAIN s.nicks \ {s.nk[i].name}
      /\ \A n \in DOMAIN r.nicks : r.nicks[n] = s.nicks[n]
      /\ DOMAIN r.nk = DOMAIN s.nk \ {i} /\ \A j \in DOMAIN r.nk : r.nk[j] = s.nk[j]
  BY DropSound
<1>3. \A c \in DOMAIN s.ch : r.ch[c] = IF c \in s.nk[i].chans THEN Expel(s, s.ch[c], i) ELSE s.ch[c]
  BY DEF Drop
<1> HIDE DEF r
<1>4. \A c \in DOMAIN s.ch : /\ r.ch[c].mode = s.ch[c].mode /\ r.ch[c].topic = s.ch[c].topic
                             /\ \A j \in DOMAIN s.ch[c].nicks : j # i => r.ch[c].nicks[j] = s.ch[c].nicks[j]
  BY <1>1, <1>3, ExpelRanks
<1>5. \A n \in Names : Tracked(r, n) => /\ Tracked(s, n) /\ r.nicks[n] = s.nicks[n] /\ s.nicks[n] # i
                                        /\ s.nicks[n] \in DOMAIN s.nk
                                        /\ r.nk[r.nicks[n]] = s.nk[s.nicks[n]]
  <2>1. NamesAgree(r)
    BY <1>2 DEF Sound
  <2> QED
    BY <1>1, <1>2, <2>1 DEF Tracked, NamesAgree
<1>6. \A c \in Chans, n \in Names : Has(r, c, n) => /\ Has(s, c, n) /\ c \in DOMAIN s.ch
                                                    /\ s.nicks[n] \in DOMAIN s.ch[c].nicks
  BY <1>5, HasThere DEF Has
<1>7. \A c \in Chans, n \in Names : OpOn(r, c, n) <=> OpOn(s, c, n) /\ Has(r, c, n)
  BY <1>4, <1>5, <1>6 DEF OpOn, Has
<1>8. RanksKept(r, s)
  BY <1>2, <1>4, <1>7 DEF RanksKept, Moded, Topical
<1>9. \A n \in Names : Unknown(r, n) <=> Unknown(s, n) /\ Tracked(r, n)
  BY <1>5 DEF Unknown
<1> QED
  BY <1>8, <1>9 DEF Thins, r

LEMMA LeftRanks ==
  ASSUME NEW s, Sound(s), NEW c \in DOMAIN s.ch, NEW i \in DOMAIN s.nk
  PROVE  Thins(Left(s, c, i), s)
<1> DEFINE r == Left(s, c, i)
           y == Expel(s, s.ch[c], i)
           p == [s.nk[i] EXCEPT !.chans = @ \ {c}]
<1>1. /\ s \in Trackers /\ NamesAgree(s) /\ ChansAgree(s)
  BY DEF Sound
<1>2. Moved(r, s, i, s.nk[i].chans \ {c})
  BY LeftSound
<1>3. r = [s EXCEPT !.ch = [s.ch EXCEPT ![c] = y], !.nk = [s.nk EXCEPT ![i] = p]]
  BY DEF Left
<1>4. p.known = s.nk[i].known
  BY <1>1, NickObjectsAre
<1>5. /\ y.mode = s.ch[c].mode /\ y.topic = s.ch[c].topic
      /\ \A j \in DOMAIN s.ch[c].nicks : j # i => y.nicks[j] = s.ch[c].nicks[j]
  BY <1>1, ExpelRanks
<1> HIDE DEF y, p, r
<1>6. /\ \A d \in DOMAIN s.ch : d # c => r.ch[d] = s.ch[d]
      /\ r.ch[c] = y
      /\ \A j \in DOMAIN s.nk : r.nk[j].known = s.nk[j].known
  <2>1. r.ch = [s.ch EXCEPT ![c] = y] /\ r.nk = [s.nk EXCEPT ![i] = p]
    BY <1>1, <1>3 DEF Trackers
  <2> QED
    BY <1>1, <1>4, <2>1, TrackersAre DEF IsMap
<1>7. \A n \in Names : Tracked(s, n) => s.nicks[n] \in DOMAIN s.nk
  BY <1>1 DEF Tracked, NamesAgree
<1>8. \A d \in Chans, n \in Names : Has(r, d, n) => /\ Has(s, d, n) /\ d \in DOMAIN s.ch
                                                    /\ s.nicks[n] \in DOMAIN s.ch[d].nicks
                                                    /\ ~(d = c /\ s.nicks[n] = i)
  <2>1. \A d \in Chans, n \in Names : Has(r, d, n) => Has(s, d, n) /\ ~(d = c /\ s.nicks[n] = i)
    BY <1>2, <1>7 DEF Has, Tracked, Moved
  <2> QED
    BY <2>1, HasThere
<1>9. \A d \in Chans, n \in Names : OpOn(r, d, n) <=> OpOn(s, d, n) /\ Has(r, d, n)
  BY <1>2, <1>5, <1>6, <1>8 DEF OpOn, Moved
<1>10. RanksKept(r, s)
  BY <1>2, <1>5, <1>6, <1>9 DEF RanksKept, Moded, Topical, Moved
<1>11. \A n \in Names : Unknown(r, n) <=> Unknown(s, n) /\ Tracked(r, n)
  BY <1>2, <1>6, <1>7 DEF Unknown, Tracked, Moved
<1> QED
  BY <1>10, <1>11 DEF Thins, r

LEMMA DelChannelRanks ==
  ASSUME NEW s, Sound(s), Whole(s), NEW c \in DOMAIN s.ch
  PROVE  Thins(DelChannel(s, c), s)
<1> DEFINE r == DelChannel(s, c)
           gone == {i \in DOMAIN s.ch[c].nicks \ {Me} : s.nk[i].chans = {c}}
           names == {s.nk[i].name : i \in gone}
           b == [i \in DOMAIN s.nk \ gone |->
                   IF i \in DOMAIN s.ch[c].nicks THEN [s.nk[i] EXCEPT !.chans = @ \ {c}]
                                                 ELSE s.nk[i]]
<1>1. /\ s \in Trackers /\ NamesAgree(s) /\ ChansAgree(s)
  BY DEF Sound
<1>2. /\ Sound(r) /\ DOMAIN r.ch = DOMAIN s.ch \ {c}
      /\ \A d \in Chans, n \in Names : Has(r, d, n) <=> Has(s, d, n) /\ d # c
  BY DelChannelSound
<1>3. r.nicks = Without(s.nicks, names) /\ r.ch = Without(s.ch, {c}) /\ r.nk = b
  BY DEF DelChannel
<1>4. \A i \in DOMAIN b : i \in DOMAIN s.nk /\ b[i].known = s.nk[i].known
  <2>1. ASSUME NEW i \in DOMAIN s.nk PROVE [s.nk[i] EXCEPT !.chans = @ \ {c}].known = s.nk[i].known
    BY <1>1, NickObjectsAre
  <2> HIDE DEF gone
  <2> QED
    BY <2>1
<1> HIDE DEF r, gone, names, b
<1>5. /\ \A d \in DOMAIN r.ch : r.ch[d] = s.ch[d]
      /\ \A n \in DOMAIN r.nicks : n \in DOMAIN s.nicks /\ r.nicks[n] = s.nicks[n]
  BY <1>2, <1>3 DEF Without
<1>6. \A n \in Names : Tracked(r, n) => r.nicks[n] \in DOMAIN r.nk
  BY <1>2 DEF Tracked, Sound, NamesAgree
<1>7. \A n \in Names : Unknown(r, n) <=> Unknown(s, n) /\ Tracked(r, n)
  BY <1>3, <1>4, <1>5, <1>6 DEF Unknown, Tracked
<1>8. ASSUME NEW d \in Chans, NEW n \in Names PROVE OpOn(r, d, n) <=> OpOn(s, d, n) /\ Has(r, d, n)
  <2>1. Has(r, d, n) => Has(s, d, n) /\ r.ch[d] = s.ch[d] /\ r.nicks[n] = s.nicks[n]
    BY <1>2, <1>5, HasThere DEF Has, Tracked
  <2> QED
    BY <2>1 DEF OpOn
<1>9. RanksKept(r, s)
  BY <1>2, <1>5, <1>8 DEF RanksKept, Moded, Topical
<1> QED
  BY <1>7, <1>9 DEF Thins, r

LEMMA ThinsSame ==
  ASSUME NEW s
  PROVE  Thins(s, s)
BY DEF Thins, RanksKept, OpOn, Moded, Topical, Unknown

\* Leaving twice is leaving.
LEMMA ThinsTwice ==
  ASSUME NEW s, NEW t, NEW r, Thins(t, s), Thins(r, t),
         \A c \in Chans, n \in Names : Has(r, c, n) => Has(t, c, n),
         DOMAIN r.ch \subseteq DOMAIN t.ch, \A n \in Names : Tracked(r, n) => Tracked(t, n)
  PROVE  Thins(r, s)
<1>1. RanksKept(t, s) /\ RanksKept(r, t)
  BY DEF Thins
<1>2. \A c \in Chans, n \in Names : OpOn(r, c, n) <=> OpOn(s, c, n) /\ Has(r, c, n)
  BY <1>1 DEF RanksKept
<1>3. \A c \in Chans : /\ Moded(r, c) <=> Moded(s, c) /\ c \in DOMAIN r.ch
                       /\ Topical(r, c) <=> Topical(s, c) /\ c \in DOMAIN r.ch
  BY <1>1 DEF RanksKept
<1>4. \A n \in Names : Unknown(r, n) <=> Unknown(s, n) /\ Tracked(r, n)
  BY DEF Thins
<1> QED
  BY <1>2, <1>3, <1>4 DEF Thins, RanksKept

LEMMA DelNickRanks ==
  ASSUME NEW s, Sound(s), NEW name \in Names
  PROVE  Thins(DelNick(s, name), s)
<1> DEFINE r == DelNick(s, name)
           i == s.nicks[name]
<1>1. CASE Tracked(s, name) /\ i # Me
  <2>1. i \in DOMAIN s.nk /\ r = Drop(s, i)
    BY <1>1 DEF DelNick, Sound, NamesAgree, Tracked
  <2> HIDE DEF r, i
  <2>2. Thins(r, s)
    BY <1>1, <2>1, DropRanks DEF i
  <2> QED
    BY <2>2 DEF r
<1>2. CASE ~(Tracked(s, name) /\ i # Me)
  <2>1. r = s
    BY <1>2 DEF DelNick
  <2> QED
    BY <2>1, ThinsSame
<1> QED
  BY <1>1, <1>2

LEMMA DissociateRanks ==
  ASSUME NEW s, Sound(s), Whole(s), NEW c \in Chans, NEW name \in Names
  PROVE  Thins(Dissociate(s, c, name), s)
<1> DEFINE r == Dissociate(s, c, name)
           i == s.nicks[name]
           left == Left(s, c, i)
<1>1. CASE ~(c \in DOMAIN s.ch /\ Tracked(s, name) /\ c \in s.nk[i].chans)
  <2>1. r = s
    BY <1>1 DEF Dissociate
  <2> QED
    BY <2>1, ThinsSame
<1>2. CASE c \in DOMAIN s.ch /\ Tracked(s, name) /\ c \in s.nk[i].chans
  <2>1. r = CASE i = Me -> DelChannel(s, c)
             [] i # Me /\ left.nk[i].chans = {} -> Drop(left, i)
             [] OTHER -> left
    BY <1>2 DEF Dissociate, Left
  <2>2. i \in DOMAIN s.nk
    BY <1>2 DEF Sound, NamesAgree, Tracked
  <2> HIDE DEF i, left, r
  <2>3. CASE i = Me
    <3>1. r = DelChannel(s, c)
      BY <2>1, <2>3
    <3>2. Thins(r, s)
      BY <1>2, <3>1, DelChannelRanks
    <3> QED
      BY <3>2 DEF r
  <2>4. Sound(left) /\ Moved(left, s, i, s.nk[i].chans \ {c}) /\ Thins(left, s)
    BY <1>2, <2>2, LeftSound, LeftRanks DEF left
  <2>5. CASE i # Me /\ left.nk[i].chans = {}
    <3>1. r = Drop(left, i) /\ i \in DOMAIN left.nk
      BY <2>1, <2>2, <2>4, <2>5 DEF Moved
    <3>2. /\ Thins(r, left) /\ Sound(r) /\ DOMAIN r.ch = DOMAIN left.ch
          /\ DOMAIN r.nicks = DOMAIN left.nicks \ {left.nk[i].name}
          /\ \A n \in DOMAIN r.nicks : r.nicks[n] = left.nicks[n]
          /\ DOMAIN r.nk = DOMAIN left.nk \ {i} /\ \A j \in DOMAIN r.nk : r.nk[j] = left.nk[j]
      BY <2>4, <2>5, <3>1, DropRanks, DropSound
    <3>3. \A n \in Names : Tracked(r, n) => Tracked(left, n)
      BY <3>2 DEF Tracked
    <3>4. \A d \in Chans, n \in Names : Has(r, d, n) => Has(left, d, n)
      BY <3>2 DEF Has, Tracked, Sound, NamesAgree
    <3>5. Thins(r, s)
      BY <2>4, <3>2, <3>3, <3>4, ThinsTwice
    <3> QED
      BY <3>5 DEF r
  <2>6. CASE i # Me /\ left.nk[i].chans # {}
    <3>1. r = left
      BY <2>1, <2>6
    <3> QED
      BY <2>4, <3>1 DEF r
  <2> QED
    BY <2>3, <2>5, <2>6
<1> QED
  BY <1>1, <1>2

\* Coming twice is coming.
LEMMA RanksTwice ==
  ASSUME NEW s, NEW t, NEW r, RanksKept(t, s), RanksKept(r, t),
         \A c \in Chans, n \in Names : (Has(s, c, n) => Has(t, c, n)) /\ (Has(t, c, n) => Has(r, c, n)),
         DOMAIN s.ch \subseteq DOMAIN t.ch, DOMAIN t.ch \subseteq DOMAIN r.ch
  PROVE  RanksKept(r, s)
<1>1. \A c \in Chans, n \in Names : OpOn(s, c, n) => Has(s, c, n)
  BY DEF OpOn
<1>2. \A c \in Chans, n \in Names : OpOn(r, c, n) <=> OpOn(s, c, n) /\ Has(r, c, n)
  BY <1>1 DEF RanksKept
<1>3. \A c \in Chans : /\ Moded(r, c) <=> Moded(s, c) /\ c \in DOMAIN r.ch
                       /\ Topical(r, c) <=> Topical(s, c) /\ c \in DOMAIN r.ch
  <2>1. \A c \in Chans : (Moded(s, c) => c \in DOMAIN s.ch) /\ (Topical(s, c) => c \in DOMAIN s.ch)
    BY DEF Moded, Topical
  <2> QED
    BY <2>1 DEF RanksKept
<1> QED
  BY <1>2, <1>3 DEF RanksKept

LEMMA EnteredRanks ==
  ASSUME NEW s, Sound(s), NEW c \in DOMAIN s.ch, NEW n \in Names, NEW known \in BOOLEAN
  PROVE  LET r == Entered(s, c, n, known)
         IN  /\ RanksKept(r, s)
             /\ \A m \in Names : Tracked(r, m) <=> Tracked(s, m) \/ m = n
             /\ \A m \in Names :
                  Unknown(r, m) <=> Unknown(s, m) \/ (m = n /\ ~Tracked(s, m) /\ known = FALSE)
<1> DEFINE t == AddNick(s, n, known)
           i == t.nicks[n]
           r == Associate(t, c, i)
<1>1. /\ Sound(t) /\ Tracked(t, n) /\ t.ch = s.ch
      /\ \A d \in Chans, m \in Names : Has(t, d, m) <=> Has(s, d, m)
  BY AddNickSound
<1>2. /\ RanksKept(t, s)
      /\ \A m \in Names : Tracked(t, m) <=> Tracked(s, m) \/ m = n
      /\ \A m \in Names :
           Unknown(t, m) <=> Unknown(s, m) \/ (m = n /\ ~Tracked(s, m) /\ known = FALSE)
  BY AddNickRanks
<1>3. r = Entered(s, c, n, known)
  BY DEF Entered
<1> HIDE DEF t
<1>4. c \in DOMAIN t.ch /\ i \in DOMAIN t.nk
  BY <1>1 DEF Sound, NamesAgree, Tracked
<1> HIDE DEF i
<1>5. Moved(r, t, i, t.nk[i].chans \cup {c}) /\ Thins(r, t)
  BY <1>1, <1>4, AssociateSound, AssociateRanks
<1> HIDE DEF r
<1>6. DOMAIN r.ch = DOMAIN t.ch /\ r.nicks = t.nicks
  BY <1>5 DEF Moved
<1>7. \A m \in Names : Tracked(r, m) <=> Tracked(s, m) \/ m = n
  BY <1>2, <1>6 DEF Tracked
<1>8. \A d \in Chans, m \in Names : Has(t, d, m) => Has(r, d, m)
  <2>1. \A m \in DOMAIN t.nicks : t.nicks[m] \in DOMAIN t.nk
    BY <1>1 DEF Sound, NamesAgree
  <2>2. \A j \in DOMAIN t.nk : t.nk[j].chans \subseteq r.nk[j].chans
    BY <1>5 DEF Moved
  <2> QED
    BY <1>6, <2>1, <2>2 DEF Has, Tracked
<1>9. RanksKept(r, s)
  BY <1>1, <1>2, <1>5, <1>6, <1>8, RanksTwice DEF Thins
<1>10. \A m \in Names : Unknown(r, m) <=> Unknown(t, m)
  BY <1>5, <1>6 DEF Thins, Unknown, Tracked
<1> QED
  BY <1>2, <1>3, <1>7, <1>9, <1>10

LEMMA JoinedRanks ==
  ASSUME NEW s, Sound(s), Whole(s), NEW l, l.nick \in Names, l.chan \in Chans
  PROVE  Thins(Joined(s, l), s)
<1> DEFINE r == Joined(s, l)
           u == AddChannel(s, l.chan)
<1>1. CASE l.chan \notin DOMAIN s.ch /\ l.nick # MyName(s)
  <2>1. r = s
    BY <1>1 DEF Joined
  <2> QED
    BY <2>1, ThinsSame
<1>2. CASE l.chan \in DOMAIN s.ch \/ l.nick = MyName(s)
  <2>1. r = Entered(u, l.chan, l.nick, TRUE)
    BY <1>2 DEF Joined, Entered
  <2>2. /\ Sound(u) /\ u.nicks = s.nicks /\ u.nk = s.nk /\ DOMAIN u.ch = DOMAIN s.ch \cup {l.chan}
        /\ RanksKept(u, s)
    BY AddChannelSound, AddChannelRanks
  <2> HIDE DEF u, r
  <2>3. /\ Came(r, u, l.chan, l.nick) /\ RanksKept(r, u)
        /\ \A m \in Names : Tracked(r, m) <=> Tracked(u, m) \/ m = l.nick
        /\ \A m \in Names : Unknown(r, m) <=> Unknown(u, m)
    <3> DEFINE c == l.chan
               n == l.nick
    <3>1. c \in DOMAIN u.ch /\ n \in Names /\ TRUE \in BOOLEAN
      BY <2>2
    <3> HIDE DEF c, n
    <3>2. Came(r, u, c, n)
      BY <2>1, <2>2, <3>1, EnteredSound DEF c, n
    <3>3. /\ RanksKept(r, u)
          /\ \A m \in Names : Tracked(r, m) <=> Tracked(u, m) \/ m = n
          /\ \A m \in Names : Unknown(r, m) <=> Unknown(u, m)
      <4>1. PICK k \in BOOLEAN : k = TRUE
        OBVIOUS
      <4>2. r = Entered(u, c, n, k) /\ k # FALSE
        BY <2>1, <4>1 DEF c, n
      <4> QED
        BY <2>2, <3>1, <4>2, EnteredRanks
    <3> QED
      BY <3>2, <3>3 DEF c, n
  <2>4. \A d \in Chans, m \in Names : Has(u, d, m) <=> Has(s, d, m)
    BY <2>2 DEF Has, Tracked
  <2>5. RanksKept(r, s)
    BY <2>2, <2>3, <2>4, RanksTwice DEF Came
  <2>6. \A m \in Names : Unknown(r, m) <=> Unknown(s, m) /\ Tracked(r, m)
    BY <2>2, <2>3 DEF Unknown, Tracked
  <2> QED
    BY <2>5, <2>6 DEF Thins, r
<1> QED
  BY <1>1, <1>2

\* An edited channel has the privileges and modes it was given.
LEMMA EditedRanks ==
  ASSUME NEW s, Sound(s), NEW c \in DOMAIN s.ch, NEW y
  PROVE  LET r == [s EXCEPT !.ch = [s.ch EXCEPT ![c] = y]]
         IN  /\ \A d \in Chans, n \in Names :
                  OpOn(r, d, n) <=> IF d = c THEN Has(s, c, n) /\ y.nicks[s.nicks[n]] = TRUE
                                    ELSE OpOn(s, d, n)
             /\ \A d \in Chans : Moded(r, d) <=> IF d = c THEN y.mode = TRUE ELSE Moded(s, d)
             /\ \A d \in Chans : Topical(r, d) <=> IF d = c THEN y.topic = TRUE ELSE Topical(s, d)
             /\ \A n \in Names : (Unknown(r, n) <=> Unknown(s, n)) /\ (Tracked(r, n) <=> Tracked(s, n))
<1> DEFINE r == [s EXCEPT !.ch = [s.ch EXCEPT ![c] = y]]
<1>1. r.nicks = s.nicks /\ r.nk = s.nk /\ r.ch = [s.ch EXCEPT ![c] = y]
  BY DEF Sound, Trackers
<1> HIDE DEF r
<1>2. /\ DOMAIN r.ch = DOMAIN s.ch /\ r.ch[c] = y /\ \A d \in DOMAIN s.ch : d # c => r.ch[d] = s.ch[d]
  BY <1>1, TrackersAre DEF Sound, IsMap
<1>3. \A d \in Chans, n \in Names : (Has(r, d, n) <=> Has(s, d, n)) /\ (Has(s, d, n) => d \in DOMAIN s.ch)
  BY <1>1, HasThere DEF Has, Tracked
<1>4. \A d \in Chans, n \in Names :
        OpOn(r, d, n) <=> IF d = c THEN Has(s, c, n) /\ y.nicks[s.nicks[n]] = TRUE ELSE OpOn(s, d, n)
  BY <1>1, <1>2, <1>3 DEF OpOn
<1>5. \A d \in Chans : Moded(r, d) <=> IF d = c THEN y.mode = TRUE ELSE Moded(s, d)
  BY <1>2 DEF Moded
<1>6. \A d \in Chans : Topical(r, d) <=> IF d = c THEN y.topic = TRUE ELSE Topical(s, d)
  BY <1>2 DEF Topical
<1>7. \A n \in Names : (Unknown(r, n) <=> Unknown(s, n)) /\ (Tracked(r, n) <=> Tracked(s, n))
  BY <1>1 DEF Unknown, Tracked
<1> QED
  BY <1>4, <1>5, <1>6, <1>7 DEF r

\* Who is listed is given +o if the list says so; who was not tracked is unknown.
Lists353(r, s, c, who, withOp) ==
  /\ \A d \in Chans, m \in Names :
       OpOn(r, d, m) <=> OpOn(s, d, m) \/ (d = c /\ m \in who /\ m \in withOp)
  /\ \A d \in Chans : (Moded(r, d) <=> Moded(s, d)) /\ (Topical(r, d) <=> Topical(s, d))
  /\ \A m \in Names : Tracked(r, m) <=> Tracked(s, m) \/ m \in who
  /\ \A m \in Names : Unknown(r, m) <=> Unknown(s, m) \/ (m \in who /\ ~Tracked(s, m))

LEMMA ListedRanks ==
  ASSUME NEW s, Sound(s), Whole(s), NEW c \in DOMAIN s.ch, NEW n \in Names, NEW withOp
  PROVE  Lists353(Listed(s, c, n, withOp), s, c, {n}, withOp)
<1> DEFINE r == Listed(s, c, n, withOp)
           u == Entered(s, c, n, FALSE)
           x == u.ch[c]
           i == u.nicks[n]
           f == [x.nicks EXCEPT ![i] = TRUE]
           y == [x EXCEPT !.nicks = f]
<1>1. /\ Sound(u) /\ Came(u, s, c, n) /\ RanksKept(u, s)
      /\ \A m \in Names : Tracked(u, m) <=> Tracked(s, m) \/ m = n
      /\ \A m \in Names : Unknown(u, m) <=> Unknown(s, m) \/ (m = n /\ ~Tracked(s, m))
  BY EnteredSound, EnteredRanks
<1>2. r = IF n \in withOp THEN [u EXCEPT !.ch[c].nicks[i] = TRUE] ELSE u
  BY DEF Listed, Entered
<1> HIDE DEF u, r
<1>3. /\ DOMAIN u.ch = DOMAIN s.ch /\ Tracked(u, n) /\ i \in DOMAIN x.nicks
      /\ \A d \in Chans, m \in Names : Has(u, d, m) <=> Has(s, d, m) \/ (d = c /\ m = n)
  BY <1>1 DEF Came
<1>4. /\ \A d \in Chans, m \in Names : OpOn(u, d, m) <=> OpOn(s, d, m)
      /\ \A d \in Chans : (Moded(u, d) <=> Moded(s, d)) /\ (Topical(u, d) <=> Topical(s, d))
  BY <1>1, <1>3 DEF RanksKept, OpOn, Moded, Topical
<1>5. CASE n \notin withOp
  BY <1>1, <1>2, <1>4, <1>5 DEF Lists353, r
<1>6. CASE n \in withOp
  <2>1. /\ x = [nicks |-> x.nicks, lookup |-> x.lookup, mode |-> x.mode, topic |-> x.topic]
        /\ x.mode \in BOOLEAN /\ x.topic \in BOOLEAN /\ c \in Chans
    BY <1>1, <1>3, ChanObjectsAre DEF Sound
  <2>2. r = [u EXCEPT !.ch = [u.ch EXCEPT ![c] = y]]
    BY <1>2, <1>6
  <2>3. f[i] = TRUE /\ \A j \in DOMAIN x.nicks : j # i => f[j] = x.nicks[j]
    BY <1>3
  <2> HIDE DEF f
  <2>4. y.nicks = f /\ y.mode = x.mode /\ y.topic = x.topic
    <3> HIDE DEF x
    <3> QED
      BY <2>1
  <2> HIDE DEF y
  <2>5. /\ \A d \in Chans, m \in Names :
             OpOn(r, d, m) <=> IF d = c THEN Has(u, c, m) /\ y.nicks[u.nicks[m]] = TRUE
                               ELSE OpOn(u, d, m)
        /\ \A d \in Chans : Moded(r, d) <=> IF d = c THEN y.mode = TRUE ELSE Moded(u, d)
        /\ \A d \in Chans : Topical(r, d) <=> IF d = c THEN y.topic = TRUE ELSE Topical(u, d)
        /\ \A m \in Names : (Unknown(r, m) <=> Unknown(u, m)) /\ (Tracked(r, m) <=> Tracked(u, m))
    BY <1>1, <1>3, <2>2, EditedRanks
  <2>6. \A d \in Chans : (Moded(r, d) <=> Moded(u, d)) /\ (Topical(r, d) <=> Topical(u, d))
    BY <1>3, <2>4, <2>5 DEF Moded, Topical, x
  <2>7. ASSUME NEW m \in Names PROVE OpOn(r, c, m) <=> OpOn(u, c, m) \/ m = n
    <3>1. CASE m = n
      <4>1. Has(u, c, n) /\ y.nicks[u.nicks[n]] = TRUE
        BY <1>3, <2>1, <2>3, <2>4 DEF i
      <4> QED
        BY <2>1, <2>5, <3>1, <4>1
    <3>2. CASE m # n /\ ~Has(u, c, m)
      BY <2>1, <2>5, <3>2 DEF OpOn
    <3>3. CASE m # n /\ Has(u, c, m)
      <4>1. u.nicks[m] \in DOMAIN x.nicks
        BY <1>1, <3>3, HasThere DEF x
      <4>2. u.nicks[m] # i
        BY <1>1, <1>3, <3>3 DEF Has, Tracked, Sound, NamesAgree, i
      <4>3. y.nicks[u.nicks[m]] = x.nicks[u.nicks[m]]
        BY <2>3, <2>4, <4>1, <4>2
      <4> QED
        BY <2>1, <2>5, <3>3, <4>3 DEF OpOn, x
    <3> QED
      BY <3>1, <3>2, <3>3
  <2>8. \A d \in Chans, m \in Names : OpOn(r, d, m) <=> OpOn(u, d, m) \/ (d = c /\ m = n)
    BY <2>5, <2>7
  <2>9. Lists353(r, s, c, {n}, withOp)
    BY <1>1, <1>4, <1>6, <2>5, <2>6, <2>8 DEF Lists353
  <2> QED
    BY <2>9 DEF r
<1> QED
  BY <1>5, <1>6

LEMMA NamesListedRanks ==
  ASSUME NEW s, Sound(s), Whole(s), NEW l, l.chan \in DOMAIN s.ch, l.who \in SUBSET Names
  PROVE  Lists353(NamesListed(s, l), s, l.chan, l.who, l.withOp)
<1> DEFINE names == SetToSeq(l.who)
           n == Len(names)
           c == l.chan
           Told(t, k) == Lists353(t, s, c, {names[j] : j \in 1..k}, l.withOp)
           stage == [k \in 0..n |->
                       {t \in Trackers : /\ Sound(t) /\ Whole(t) /\ DOMAIN t.ch = DOMAIN s.ch
                                         /\ Told(t, k)}]
           G == [x \in (1..n) \X Trackers |-> Listed(x[2], c, names[x[1]], l.withOp)]
           Got == CHOOSE P : P = [k \in 0..n |-> IF k = 0 THEN s
                                                ELSE Listed(P[k - 1], c, names[k], l.withOp)]
<1>0. IsFiniteSet(l.who)
  BY FS_Subset, TrackerConstants
<1>1. /\ n \in Nat /\ \A i \in 1..n : names[i] \in l.who /\ names[i] \in Names
      /\ \A x \in l.who : \E i \in 1..n : names[i] = x
  <2> HIDE DEF n, names
  <2> QED
    BY <1>0, SetToSeqIs DEF n, names
<1>2. NamesListed(s, l) = Got[n]
  BY DEF NamesListed
<1>c. c \in DOMAIN s.ch /\ c \in Chans
  BY TrackersAre DEF Sound, IsMap
<1> HIDE DEF names, n, c
<1>3. s \in stage[0]
  <2>1. 0 \in 0..n /\ {names[j] : j \in 1..0} = {}
    BY <1>1
  <2>2. Told(s, 0)
    BY <2>1 DEF Lists353
  <2> HIDE DEF Told
  <2> QED
    BY <2>1, <2>2 DEF Sound
<1>4. ASSUME NEW k \in 1..n, NEW t \in stage[k - 1]
      PROVE  Listed(t, c, names[k], l.withOp) \in stage[k] /\ t \in Trackers
  <2>1. k - 1 \in 0..n /\ k \in 0..n
        /\ {names[j] : j \in 1..k} = {names[j] : j \in 1..(k - 1)} \cup {names[k]}
    BY <1>1
  <2>2. /\ t \in Trackers /\ Sound(t) /\ Whole(t) /\ DOMAIN t.ch = DOMAIN s.ch /\ Told(t, k - 1)
    <3> HIDE DEF Told
    <3> QED
      BY <2>1
  <2> DEFINE r == Listed(t, c, names[k], l.withOp)
  <2>3. Sound(r) /\ Whole(r) /\ DOMAIN r.ch = DOMAIN t.ch /\ Lists353(r, t, c, {names[k]}, l.withOp)
    BY <1>1, <1>c, <2>2, ListedSound, ListedRanks
  <2> HIDE DEF r
  <2>4. Told(r, k)
    <3> DEFINE A == {names[j] : j \in 1..(k - 1)}
               B == {names[j] : j \in 1..k}
               x == names[k]
    <3>1. Lists353(t, s, c, A, l.withOp) /\ Lists353(r, t, c, {x}, l.withOp) /\ B = A \cup {x}
      BY <2>1, <2>2, <2>3
    <3> HIDE DEF A, B, x
    <3>2. Lists353(r, s, c, B, l.withOp)
      BY <3>1 DEF Lists353
    <3> QED
      BY <3>2 DEF B
  <2> HIDE DEF Told
  <2>5. r \in stage[k]
    BY <2>1, <2>2, <2>3, <2>4 DEF Sound
  <2> QED
    BY <2>2, <2>5 DEF r
<1> HIDE DEF Told
<1>5. Stages(stage, s, G, n)
  <2> SUFFICES ASSUME NEW k \in 1..n, NEW t \in stage[k - 1] PROVE G[<<k, t>>] \in stage[k]
    BY <1>3 DEF Stages
  <2>1. G[<<k, t>>] = Listed(t, c, names[k], l.withOp)
    BY <1>4
  <2> QED
    BY <1>4, <2>1
<1> HIDE DEF stage
<1>6. PICK P : Runs(P, s, G, n) /\ \A k \in 0..n : P[k] \in stage[k]
  <2> HIDE DEF G
  <2> QED
    BY <1>1, <1>5, LoopRuns
<1>7. P = [k \in 0..n |-> IF k = 0 THEN s ELSE Listed(P[k - 1], c, names[k], l.withOp)]
  <2>1. ASSUME NEW k \in 0..n, k # 0
        PROVE  G[<<k, P[k - 1]>>] = Listed(P[k - 1], c, names[k], l.withOp)
    <3>1. k \in 1..n /\ k - 1 \in 0..n
      BY <1>1, <2>1
    <3>2. P[k - 1] \in Trackers
      BY <1>4, <1>6, <3>1
    <3> QED
      BY <3>1, <3>2
  <2> HIDE DEF G
  <2> QED
    BY <1>6, <2>1 DEF Runs
<1>8. Got = [k \in 0..n |-> IF k = 0 THEN s ELSE Listed(Got[k - 1], c, names[k], l.withOp)]
  BY <1>7, Zenon
<1> HIDE DEF Got, G
<1>9. Climbs(Got, stage, n)
  <2>1. 0 \in 0..n /\ \A k \in 1..n : k \in 0..n /\ k # 0
    BY <1>1
  <2>2. Got[0] = s /\ \A k \in 1..n : Got[k] = Listed(Got[k - 1], c, names[k], l.withOp)
    BY <1>8, <2>1
  <2> QED
    BY <1>3, <1>4, <2>2 DEF Climbs
<1>10. n \in 0..n /\ Got[n] \in stage[n]
  <2>1. n \in 0..n
    BY <1>1
  <2> QED
    BY <1>1, <1>9, <2>1, Climb
<1> DEFINE r == Got[n]
<1>11. Told(r, n)
  BY <1>10 DEF stage
<1> HIDE DEF r
<1>12. {names[j] : j \in 1..n} = l.who
  BY <1>1
<1>13. Lists353(r, s, c, l.who, l.withOp)
  BY <1>11, <1>12 DEF Told
<1> QED
  BY <1>2, <1>13 DEF r, c

\* One letter, with its argument.
OneMode(add, letter) == [add |-> add, letter |-> letter]

LEMMA ParseNone ==
  ASSUME NEW ch, NEW args
  PROVE  ParseModes(ch, <<>>, args) = ch
<1> DEFINE Read == CHOOSE P : P = [k \in 0..0 |-> IF k = 0 THEN [ch |-> ch, args |-> args]
                                                  ELSE Letter(P[k - 1], <<>>[k])]
<1>1. \E P : P = [k \in 0..0 |-> IF k = 0 THEN [ch |-> ch, args |-> args]
                                 ELSE Letter(P[k - 1], <<>>[k])]
  <2> DEFINE P == [k \in 0..0 |-> [ch |-> ch, args |-> args]]
  <2>1. P = [k \in 0..0 |-> IF k = 0 THEN [ch |-> ch, args |-> args]
                            ELSE Letter(P[k - 1], <<>>[k])]
    OBVIOUS
  <2> QED
    BY <2>1, Zenon
<1>2. Read = [k \in 0..0 |-> IF k = 0 THEN [ch |-> ch, args |-> args]
                             ELSE Letter(Read[k - 1], <<>>[k])]
  BY <1>1, Zenon
<1>3. ParseModes(ch, <<>>, args) = Read[0].ch
  BY DEF ParseModes
<1> HIDE DEF Read
<1>4. 0 \in 0..0
  OBVIOUS
<1>5. Read[0] = [ch |-> ch, args |-> args]
  BY <1>2, <1>4
<1> QED
  BY <1>3, <1>5

LEMMA ParseOne ==
  ASSUME NEW ch, NEW args, NEW m
  PROVE  ParseModes(ch, <<m>>, args) = Letter([ch |-> ch, args |-> args], m).ch
<1> DEFINE b == [ch |-> ch, args |-> args]
           ms == <<m>>
           Read == CHOOSE P : P = [k \in 0..1 |-> IF k = 0 THEN b ELSE Letter(P[k - 1], ms[k])]
<1>1. Len(ms) = 1 /\ ms[1] = m
  OBVIOUS
<1>2. ParseModes(ch, ms, args) = Read[1].ch
  BY <1>1, Zenon DEF ParseModes
<1> HIDE DEF ms, b
<1> DEFINE P == [k \in 0..1 |-> IF k = 0 THEN b ELSE Letter(b, m)]
<1>3. P[0] = b
  OBVIOUS
<1>4. P = [k \in 0..1 |-> IF k = 0 THEN b ELSE Letter(P[k - 1], ms[k])]
  <2>1. ASSUME NEW k \in 0..1 PROVE P[k] = IF k = 0 THEN b ELSE Letter(P[k - 1], ms[k])
    <3>1. CASE k = 0
      BY <3>1
    <3>2. CASE k = 1
      <4>1. k - 1 = 0 /\ P[k - 1] = b
        BY <1>3, <3>2
      <4> HIDE DEF P
      <4>2. P[k] = Letter(b, m)
        BY <3>2 DEF P
      <4> QED
        BY <1>1, <3>2, <4>1, <4>2
    <3> QED
      BY <3>1, <3>2
  <2> QED
    BY <2>1
<1> HIDE DEF P
<1>5. Read = [k \in 0..1 |-> IF k = 0 THEN b ELSE Letter(Read[k - 1], ms[k])]
  BY <1>4, Zenon
<1> HIDE DEF Read
<1>6. Read[0] = b
  BY <1>5
<1>7. Read[1] = Letter(Read[1 - 1], ms[1])
  <2>1. 1 \in 0..1 /\ 1 # 0
    OBVIOUS
  <2> QED
    BY <1>5, <2>1
<1>8. Read[1] = Letter(b, m)
  <2>1. 1 - 1 = 0
    OBVIOUS
  <2> QED
    BY <1>1, <1>6, <1>7, <2>1
<1> QED
  BY <1>2, <1>8 DEF ms, b

\* Of privileges, topics, modes and idents nothing but what the rest says.
SameNews(r, s) == \A n \in Names : (Unknown(r, n) <=> Unknown(s, n)) /\ (Tracked(r, n) <=> Tracked(s, n))
SameOps(r, s) == \A d \in Chans, n \in Names : OpOn(r, d, n) <=> OpOn(s, d, n)
SameModes(r, s) == \A d \in Chans : Moded(r, d) <=> Moded(s, d)
SameTopics(r, s) == \A d \in Chans : Topical(r, d) <=> Topical(s, d)

LEMMA NoModeRanks ==
  ASSUME NEW s, Sound(s), NEW c \in DOMAIN s.ch, NEW args
  PROVE  LET r == [s EXCEPT !.ch[c] = ParseModes(@, <<>>, args)]
         IN  SameOps(r, s) /\ SameModes(r, s) /\ SameTopics(r, s) /\ SameNews(r, s)
<1> DEFINE r == [s EXCEPT !.ch[c] = ParseModes(@, <<>>, args)]
           x == s.ch[c]
           y == ParseModes(x, <<>>, args)
<1>1. y = x
  BY ParseNone
<1>2. r = [s EXCEPT !.ch = [s.ch EXCEPT ![c] = y]]
  OBVIOUS
<1> HIDE DEF y, r
<1>3. r.nicks = s.nicks /\ r.nk = s.nk /\ r.ch = [s.ch EXCEPT ![c] = y]
  BY <1>2 DEF Sound, Trackers
<1>4. r.ch = s.ch
  BY <1>1, <1>3, TrackersAre DEF Sound, IsMap, x
<1> QED
  BY <1>3, <1>4 DEF SameOps, SameModes, SameTopics, SameNews, OpOn, Has, Tracked, Moded, Topical, Unknown, r

LEMMA FlagRanks ==
  ASSUME NEW s, Sound(s), NEW c \in DOMAIN s.ch, NEW args, NEW add \in BOOLEAN
  PROVE  LET r == [s EXCEPT !.ch[c] = ParseModes(@, <<OneMode(add, "m")>>, args)]
         IN  /\ SameOps(r, s) /\ SameTopics(r, s) /\ SameNews(r, s)
             /\ \A d \in Chans : Moded(r, d) <=> IF d = c THEN add = TRUE ELSE Moded(s, d)
<1> DEFINE m == OneMode(add, "m")
           r == [s EXCEPT !.ch[c] = ParseModes(@, <<m>>, args)]
           x == s.ch[c]
           acc == [ch |-> x, args |-> args]
           z == ParseModes(x, <<m>>, args)
           y == [x EXCEPT !.mode = add]
<1>1. m.letter = "m" /\ m.add = add
  BY DEF OneMode
<1>2. z = Letter(acc, m).ch
  BY ParseOne
<1>3. Letter(acc, m) = [acc EXCEPT !.ch.mode = m.add]
  BY <1>1 DEF Letter
<1>4. [acc EXCEPT !.ch.mode = m.add].ch = [x EXCEPT !.mode = m.add]
  <2> HIDE DEF x, m
  <2> QED
    OBVIOUS
<1>5. z = y
  BY <1>1, <1>2, <1>3, <1>4
<1>6. r = [s EXCEPT !.ch = [s.ch EXCEPT ![c] = z]]
  OBVIOUS
<1>7. x = [nicks |-> x.nicks, lookup |-> x.lookup, mode |-> x.mode, topic |-> x.topic] /\ c \in Chans
  BY ChanObjectsAre DEF Sound
<1>8. y.nicks = x.nicks /\ y.mode = add /\ y.topic = x.topic
  <2> HIDE DEF x
  <2> QED
    BY <1>7
<1> HIDE DEF r, m, z, y
<1>9. /\ \A d \in Chans, n \in Names :
           OpOn(r, d, n) <=> IF d = c THEN Has(s, c, n) /\ y.nicks[s.nicks[n]] = TRUE ELSE OpOn(s, d, n)
      /\ \A d \in Chans : Moded(r, d) <=> IF d = c THEN y.mode = TRUE ELSE Moded(s, d)
      /\ \A d \in Chans : Topical(r, d) <=> IF d = c THEN y.topic = TRUE ELSE Topical(s, d)
      /\ \A n \in Names : (Unknown(r, n) <=> Unknown(s, n)) /\ (Tracked(r, n) <=> Tracked(s, n))
  BY <1>5, <1>6, EditedRanks
<1>10. SameOps(r, s)
  BY <1>8, <1>9 DEF SameOps, OpOn, x
<1>11. SameTopics(r, s)
  BY <1>8, <1>9 DEF SameTopics, Topical, x
<1> QED
  BY <1>8, <1>9, <1>10, <1>11 DEF SameNews, r, m

LEMMA PrivilegeRanks ==
  ASSUME NEW s, Sound(s), NEW c \in DOMAIN s.ch, NEW n \in Names, Has(s, c, n), NEW add \in BOOLEAN
  PROVE  LET r == [s EXCEPT !.ch[c] = ParseModes(@, <<OneMode(add, "o")>>, <<n>>)]
         IN  /\ SameModes(r, s) /\ SameTopics(r, s) /\ SameNews(r, s)
             /\ \A d \in Chans, k \in Names :
                  OpOn(r, d, k) <=> IF d = c /\ k = n THEN add = TRUE ELSE OpOn(s, d, k)
<1> DEFINE m == OneMode(add, "o")
           r == [s EXCEPT !.ch[c] = ParseModes(@, <<m>>, <<n>>)]
           x == s.ch[c]
           i == s.nicks[n]
           acc == [ch |-> x, args |-> <<n>>]
           z == ParseModes(x, <<m>>, <<n>>)
           f == [x.nicks EXCEPT ![i] = add]
           y == [x EXCEPT !.nicks = f]
<1>1. m.letter = "o" /\ m.add = add /\ acc.args = <<n>> /\ <<n>> # <<>> /\ Head(<<n>>) = n /\ acc.ch = x
  BY DEF OneMode
<1>2. z = Letter(acc, m).ch
  BY ParseOne
<1>3. i \in DOMAIN x.nicks /\ n \in DOMAIN x.lookup /\ x.lookup[n] = i
  BY HasThere DEF Sound, LookupsAgree, Has, Tracked
<1>7. x = [nicks |-> x.nicks, lookup |-> x.lookup, mode |-> x.mode, topic |-> x.topic] /\ c \in Chans
  BY ChanObjectsAre DEF Sound
<1>4. Letter(acc, m).ch = [acc.ch EXCEPT !.nicks[acc.ch.lookup[Head(acc.args)]] = m.add]
  <2>1. m.letter # "m" /\ m.letter = "o" /\ acc.args # <<>> /\ Head(acc.args) \in DOMAIN acc.ch.lookup
    BY <1>1, <1>3
  <2> HIDE DEF acc, m, x
  <2>2. Letter(acc, m) = [ch |-> [acc.ch EXCEPT !.nicks[acc.ch.lookup[Head(acc.args)]] = m.add],
                          args |-> Tail(acc.args)]
    BY <2>1 DEF Letter
  <2> QED
    BY <2>2
<1>5. z = y
  <2>1. acc.ch.lookup[Head(acc.args)] = i /\ acc.ch = x /\ m.add = add
    BY <1>1, <1>3
  <2>2. z = [x EXCEPT !.nicks[i] = add]
    BY <1>2, <1>4, <2>1
  <2> HIDE DEF x, z, i
  <2> QED
    BY <2>2
<1>6. r = [s EXCEPT !.ch = [s.ch EXCEPT ![c] = z]]
  OBVIOUS
<1>8. y.nicks = f /\ y.mode = x.mode /\ y.topic = x.topic
  <2> HIDE DEF x, f
  <2> QED
    BY <1>7
<1>9. f[i] = add /\ \A j \in DOMAIN x.nicks : j # i => f[j] = x.nicks[j]
  BY <1>3
<1> HIDE DEF r, m, z, y, f, i
<1>10. /\ \A d \in Chans, k \in Names :
            OpOn(r, d, k) <=> IF d = c THEN Has(s, c, k) /\ y.nicks[s.nicks[k]] = TRUE ELSE OpOn(s, d, k)
       /\ \A d \in Chans : Moded(r, d) <=> IF d = c THEN y.mode = TRUE ELSE Moded(s, d)
       /\ \A d \in Chans : Topical(r, d) <=> IF d = c THEN y.topic = TRUE ELSE Topical(s, d)
       /\ \A k \in Names : (Unknown(r, k) <=> Unknown(s, k)) /\ (Tracked(r, k) <=> Tracked(s, k))
  BY <1>5, <1>6, EditedRanks
<1>11. SameModes(r, s) /\ SameTopics(r, s)
  BY <1>8, <1>10 DEF SameTopics, Topical, SameModes, Moded, x
<1>12. ASSUME NEW k \in Names PROVE OpOn(r, c, k) <=> IF k = n THEN add = TRUE ELSE OpOn(s, c, k)
  <2>1. CASE k = n
    BY <1>7, <1>8, <1>9, <1>10, <2>1 DEF i
  <2>2. CASE k # n /\ ~Has(s, c, k)
    BY <1>7, <1>10, <2>2 DEF OpOn
  <2>3. CASE k # n /\ Has(s, c, k)
    <3>1. s.nicks[k] \in DOMAIN x.nicks
      BY <2>3, HasThere DEF x
    <3>2. s.nicks[k] # i
      BY <2>3 DEF Has, Tracked, Sound, NamesAgree, i
    <3>3. y.nicks[s.nicks[k]] = x.nicks[s.nicks[k]]
      BY <1>8, <1>9, <3>1, <3>2
    <3> QED
      BY <1>7, <1>10, <2>3, <3>3 DEF OpOn, x
  <2> QED
    BY <2>1, <2>2, <2>3
<1>13. \A d \in Chans, k \in Names :
         OpOn(r, d, k) <=> IF d = c /\ k = n THEN add = TRUE ELSE OpOn(s, d, k)
  <2> SUFFICES ASSUME NEW d \in Chans, NEW k \in Names
               PROVE  OpOn(r, d, k) <=> IF d = c /\ k = n THEN add = TRUE ELSE OpOn(s, d, k)
    OBVIOUS
  <2>1. CASE d = c
    BY <1>12, <2>1
  <2>2. CASE d # c
    BY <1>10, <2>2
  <2> QED
    BY <2>1, <2>2
<1> QED
  BY <1>10, <1>11, <1>13 DEF SameNews, r, m

LEMMA TopicRanks ==
  ASSUME NEW s, Sound(s), NEW c \in DOMAIN s.ch, NEW t \in BOOLEAN
  PROVE  LET r == [s EXCEPT !.ch[c].topic = t]
         IN  /\ SameOps(r, s) /\ SameModes(r, s) /\ SameNews(r, s)
             /\ \A d \in Chans : Topical(r, d) <=> IF d = c THEN t = TRUE ELSE Topical(s, d)
<1> DEFINE r == [s EXCEPT !.ch[c].topic = t]
           x == s.ch[c]
           y == [x EXCEPT !.topic = t]
<1>1. r = [s EXCEPT !.ch = [s.ch EXCEPT ![c] = y]]
  OBVIOUS
<1>2. x = [nicks |-> x.nicks, lookup |-> x.lookup, mode |-> x.mode, topic |-> x.topic] /\ c \in Chans
  BY ChanObjectsAre DEF Sound
<1>3. y.nicks = x.nicks /\ y.mode = x.mode /\ y.topic = t
  <2> HIDE DEF x
  <2> QED
    BY <1>2
<1> HIDE DEF r, y
<1>4. /\ \A d \in Chans, n \in Names :
           OpOn(r, d, n) <=> IF d = c THEN Has(s, c, n) /\ y.nicks[s.nicks[n]] = TRUE ELSE OpOn(s, d, n)
      /\ \A d \in Chans : Moded(r, d) <=> IF d = c THEN y.mode = TRUE ELSE Moded(s, d)
      /\ \A d \in Chans : Topical(r, d) <=> IF d = c THEN y.topic = TRUE ELSE Topical(s, d)
      /\ \A n \in Names : (Unknown(r, n) <=> Unknown(s, n)) /\ (Tracked(r, n) <=> Tracked(s, n))
  BY <1>1, EditedRanks
<1>5. SameOps(r, s)
  BY <1>3, <1>4 DEF SameOps, OpOn, x
<1>6. SameModes(r, s)
  BY <1>3, <1>4 DEF SameModes, Moded, x
<1> QED
  BY <1>3, <1>4, <1>5, <1>6 DEF SameNews, r

LEMMA KnownRanks ==
  ASSUME NEW s, Sound(s), NEW who \in SUBSET Names
  PROVE  LET told == {s.nicks[n] : n \in who \cap DOMAIN s.nicks}
             r == [s EXCEPT !.nk = [i \in DOMAIN s.nk |->
                      [s.nk[i] EXCEPT !.known = @ \/ i \in told]]]
         IN  /\ SameOps(r, s) /\ SameModes(r, s) /\ SameTopics(r, s)
             /\ \A n \in Names : Unknown(r, n) <=> Unknown(s, n) /\ n \notin who
<1> DEFINE told == {s.nicks[n] : n \in who \cap DOMAIN s.nicks}
           b == [i \in DOMAIN s.nk |-> [s.nk[i] EXCEPT !.known = s.nk[i].known \/ i \in told]]
           r == [s EXCEPT !.nk = [i \in DOMAIN s.nk |->
                      [s.nk[i] EXCEPT !.known = @ \/ i \in told]]]
<1>1. s \in Trackers /\ NamesAgree(s)
  BY DEF Sound
<1>2. r = [s EXCEPT !.nk = b]
  OBVIOUS
<1>3. ASSUME NEW n \in Names, Tracked(s, n) PROVE s.nicks[n] \in told <=> n \in who
  BY <1>1, <1>3 DEF Tracked, NamesAgree
<1> HIDE DEF told
<1>4. ASSUME NEW i \in DOMAIN s.nk
      PROVE  (b[i].known = FALSE <=> s.nk[i].known = FALSE /\ i \notin told) /\ b[i].chans = s.nk[i].chans
  <2> DEFINE x == s.nk[i]
             k == x.known \/ i \in told
  <2>1. b[i] = [x EXCEPT !.known = k]
    OBVIOUS
  <2>2. x = [name |-> x.name, chans |-> x.chans, known |-> x.known] /\ x.known \in BOOLEAN
    BY <1>1, NickObjectsAre
  <2>3. k = FALSE <=> x.known = FALSE /\ i \notin told
    BY <2>2
  <2> HIDE DEF x, k, b
  <2>4. b[i].known = k /\ b[i].chans = x.chans
    BY <2>1, <2>2
  <2> QED
    BY <2>3, <2>4 DEF x
<1> HIDE DEF b, r
<1>5. r.nicks = s.nicks /\ r.nk = b /\ r.ch = s.ch
  BY <1>1, <1>2 DEF Trackers
<1>6. \A n \in Names : Tracked(s, n) => s.nicks[n] \in DOMAIN s.nk
  BY <1>1 DEF Tracked, NamesAgree
<1>7. \A d \in Chans, n \in Names : Has(r, d, n) <=> Has(s, d, n)
  BY <1>4, <1>5, <1>6 DEF Has, Tracked
<1>8. SameOps(r, s) /\ SameModes(r, s) /\ SameTopics(r, s)
  BY <1>5, <1>7 DEF SameOps, SameModes, SameTopics, OpOn, Moded, Topical
<1>9. \A n \in Names : Unknown(r, n) <=> Unknown(s, n) /\ n \notin who
  BY <1>3, <1>4, <1>5, <1>6 DEF Unknown, Tracked
<1> QED
  BY <1>8, <1>9 DEF r, told

\* A new name for what there is.
RanksRenamed(r, s, old, neu) ==
  /\ SameModes(r, s) /\ SameTopics(r, s)
  /\ \A c \in Chans, n \in Names :
       OpOn(r, c, n) <=> IF n = neu THEN OpOn(s, c, old) ELSE n # old /\ OpOn(s, c, n)
  /\ \A n \in Names :
       Unknown(r, n) <=> IF n = neu THEN Unknown(s, old) ELSE n # old /\ Unknown(s, n)

LEMMA ReNickRanks ==
  ASSUME NEW s, Sound(s), NEW old \in Names, NEW neu \in Names, Tracked(s, old), ~Tracked(s, neu)
  PROVE  RanksRenamed(ReNick(s, old, neu), s, old, neu)
<1> DEFINE r == ReNick(s, old, neu)
           i == s.nicks[old]
           a == With(Without(s.nicks, {old}), neu, i)
           b == [s.nk EXCEPT ![i].name = neu]
           d == [c \in DOMAIN s.ch |->
                   IF c \notin s.nk[i].chans THEN s.ch[c]
                   ELSE [s.ch[c] EXCEPT !.lookup = With(Without(@, {old}), neu, i)]]
<1>1. s \in Trackers /\ NamesAgree(s) /\ ChansAgree(s)
  BY DEF Sound
<1>2. /\ i \in DOMAIN s.nk /\ old # neu /\ old \in DOMAIN s.nicks /\ neu \notin DOMAIN s.nicks
  BY <1>1 DEF NamesAgree, Tracked
<1>3. /\ Sound(r)
      /\ \A c \in Chans, n \in Names :
           Has(r, c, n) <=> IF n = neu THEN Has(s, c, old) ELSE n # old /\ Has(s, c, n)
  BY ReNickSound
<1>4. r = [nicks |-> a, nk |-> b, ch |-> d]
  BY DEF ReNick
<1> HIDE DEF i
<1>5. /\ DOMAIN a = (DOMAIN s.nicks \ {old}) \cup {neu} /\ a[neu] = i
      /\ \A n \in DOMAIN s.nicks \ {old} : a[n] = s.nicks[n]
  BY <1>2 DEF With, Without
<1>6. \A j \in DOMAIN s.nk : b[j].known = s.nk[j].known
  <2> SUFFICES ASSUME NEW j \in DOMAIN s.nk PROVE b[j].known = s.nk[j].known
    OBVIOUS
  <2> DEFINE x == s.nk[j]
  <2>1. x = [name |-> x.name, chans |-> x.chans, known |-> x.known]
    BY <1>1, NickObjectsAre
  <2>2. b[j] = IF j = i THEN [x EXCEPT !.name = neu] ELSE x
    OBVIOUS
  <2> HIDE DEF x, b
  <2>3. [x EXCEPT !.name = neu].known = x.known
    BY <2>1
  <2> QED
    BY <2>2, <2>3 DEF x
<1>7. ASSUME NEW c \in DOMAIN s.ch
      PROVE  d[c].nicks = s.ch[c].nicks /\ d[c].mode = s.ch[c].mode /\ d[c].topic = s.ch[c].topic
  <2> DEFINE x == s.ch[c]
             g == With(Without(x.lookup, {old}), neu, i)
  <2>1. x = [nicks |-> x.nicks, lookup |-> x.lookup, mode |-> x.mode, topic |-> x.topic]
    BY <1>1, ChanObjectsAre
  <2>2. d[c] = IF c \notin s.nk[i].chans THEN x ELSE [x EXCEPT !.lookup = g]
    OBVIOUS
  <2> HIDE DEF x, g, d
  <2>3. /\ [x EXCEPT !.lookup = g].nicks = x.nicks /\ [x EXCEPT !.lookup = g].mode = x.mode
        /\ [x EXCEPT !.lookup = g].topic = x.topic
    BY <2>1
  <2> QED
    BY <2>2, <2>3 DEF x
<1>8. DOMAIN d = DOMAIN s.ch
  OBVIOUS
<1> HIDE DEF a, b, d, r
<1>9. r.nicks = a /\ r.nk = b /\ r.ch = d
  BY <1>4
<1>10. s.nicks[old] = i
  BY DEF i
<1>11. /\ \A n \in Names : Tracked(r, n) <=> n = neu \/ (n # old /\ Tracked(s, n))
       /\ r.nicks[neu] = s.nicks[old]
       /\ \A n \in Names : n # old /\ Tracked(s, n) => n # neu /\ r.nicks[n] = s.nicks[n]
  BY <1>2, <1>5, <1>9, <1>10 DEF Tracked
<1>12. ASSUME NEW n \in Names
       PROVE  Unknown(r, n) <=> IF n = neu THEN Unknown(s, old) ELSE n # old /\ Unknown(s, n)
  <2>1. CASE n = neu
    BY <1>2, <1>6, <1>9, <1>10, <1>11, <2>1 DEF Unknown
  <2>2. CASE n # neu
    <3>1. n # old /\ Tracked(s, n) => s.nicks[n] \in DOMAIN s.nk
      BY <1>1 DEF Tracked, NamesAgree
    <3> QED
      BY <1>6, <1>9, <1>11, <2>2, <3>1 DEF Unknown
  <2> QED
    BY <2>1, <2>2
<1>13. ASSUME NEW c \in Chans, NEW n \in Names
       PROVE  OpOn(r, c, n) <=> IF n = neu THEN OpOn(s, c, old) ELSE n # old /\ OpOn(s, c, n)
  <2>1. CASE n = neu
    <3>1. Has(r, c, n) <=> Has(s, c, old)
      BY <1>3, <2>1
    <3>2. Has(s, c, old) => c \in DOMAIN s.ch
      BY HasThere
    <3> QED
      BY <1>7, <1>9, <1>11, <2>1, <3>1, <3>2 DEF OpOn
  <2>2. CASE n # neu
    <3>1. Has(r, c, n) <=> n # old /\ Has(s, c, n)
      BY <1>3, <2>2
    <3>2. Has(s, c, n) => c \in DOMAIN s.ch /\ Tracked(s, n)
      BY HasThere DEF Has
    <3> QED
      BY <1>7, <1>9, <1>11, <2>2, <3>1, <3>2 DEF OpOn
  <2> QED
    BY <2>1, <2>2
<1>14. SameModes(r, s) /\ SameTopics(r, s)
  BY <1>7, <1>8, <1>9 DEF SameModes, SameTopics, Moded, Topical
<1> QED
  BY <1>12, <1>13, <1>14 DEF RanksRenamed, r

-----------------------------------------------------------------------------
(* What the lines on their way will make of the tracker.  A world is what  *)
(* there is for me to know at a place among the lines: my name, who is on  *)
(* my channels, who has +o there and which have a topic; and what a        *)
(* tracker that has handled the lines so far makes of the rest: the        *)
(* channels it thinks have a mode, and the nicks whose ident is new to it. *)

Worlds == [me : Names, at : [Chans -> SUBSET Names], ops : [Chans -> SUBSET Names],
           topic : SUBSET Chans, mode : SUBSET Chans, new : SUBSET Names]

In(v, n) == n = v.me \/ \E c \in Chans : n \in v.at[c]
Renamed(ns, old, neu) == {IF x = old THEN neu ELSE x : x \in ns}

\* What a line says of who is where.
Joining(l, v, w) ==
  /\ IF l.nick = v.me THEN v.at[l.chan] = {} ELSE v.me \in v.at[l.chan] \ {l.nick}
  /\ l.nick \notin v.at[l.chan]
  /\ \A d \in Chans : w.at[d] = IF d = l.chan THEN v.at[d] \cup {l.nick} ELSE v.at[d]
  /\ w.me = v.me
Parting(l, v, w) ==
  /\ \A d \in Chans : w.at[d] = IF d # l.chan THEN v.at[d]
                                ELSE IF l.nick = v.me THEN {} ELSE v.at[d] \ {l.nick}
  /\ w.me = v.me
Quitting(l, v, w) ==
  l.nick # v.me /\ w.me = v.me /\ \A d \in Chans : w.at[d] = v.at[d] \ {l.nick}
Renaming(l, v, w) ==
  /\ In(v, l.nick) /\ ~In(v, l.neu)
  /\ \A d \in Chans : w.at[d] = Renamed(v.at[d], l.nick, l.neu)
  /\ w.me = (IF l.nick = v.me THEN l.neu ELSE v.me)
Listing(l, v, w) ==
  /\ v.at[l.chan] = {v.me} /\ w.me = v.me
  /\ \A d \in Chans : w.at[d] = IF d = l.chan THEN v.at[d] \cup l.who ELSE v.at[d]
Members(l, v, w) ==
  /\ l.cmd = "JOIN" => Joining(l, v, w)
  /\ l.cmd = "PART" => Parting(l, v, w)
  /\ l.cmd = "QUIT" => Quitting(l, v, w)
  /\ l.cmd = "NICK" => Renaming(l, v, w)
  /\ l.cmd = "353" => Listing(l, v, w)
  /\ l.cmd \notin {"JOIN", "PART", "QUIT", "NICK", "353"} => w.at = v.at /\ w.me = v.me
  /\ l.cmd = "433" => l.nick # v.me
  /\ l.cmd = "332" => v.at[l.chan] = {v.me}
  /\ l.cmd \in {"MODE", "TOPIC"} => v.me \in v.at[l.chan]

\* What it says of topics, modes and privileges.
Thinned(v, w) ==
  \A d \in Chans : /\ w.ops[d] = v.ops[d] \cap w.at[d]
                   /\ d \in w.topic <=> d \in v.topic /\ w.at[d] # {}
                   /\ d \in w.mode <=> d \in v.mode /\ w.at[d] # {}
Flagging(l, v, w) ==
  \E add \in BOOLEAN :
    /\ l.modes = <<OneMode(add, "m")>> /\ w.ops = v.ops
    /\ w.mode = IF v.me \notin v.at[l.chan] THEN v.mode
                ELSE IF add THEN v.mode \cup {l.chan} ELSE v.mode \ {l.chan}
Promoting(l, v, w) ==
  \E add \in BOOLEAN, n \in v.at[l.chan] :
    /\ l.modes = <<OneMode(add, "o")>> /\ l.args = <<n>> /\ w.mode = v.mode
    /\ \A d \in Chans : w.ops[d] = IF d # l.chan THEN v.ops[d]
                                   ELSE IF add THEN v.ops[d] \cup {n} ELSE v.ops[d] \ {n}
Ranks(l, v, w) ==
  /\ l.cmd \in {"JOIN", "PART", "QUIT"} => Thinned(v, w)
  /\ l.cmd = "NICK" => /\ w.topic = v.topic /\ w.mode = v.mode
                       /\ \A d \in Chans : w.ops[d] = Renamed(v.ops[d], l.nick, l.neu)
  /\ l.cmd = "353" =>
       /\ w.topic = v.topic /\ w.mode = v.mode
       /\ \A d \in Chans : w.ops[d] = IF d = l.chan THEN v.ops[d] \cup (l.who \cap l.withOp)
                                      ELSE v.ops[d]
  /\ l.cmd \in {"332", "TOPIC"} =>
       /\ w.ops = v.ops /\ w.mode = v.mode
       /\ w.topic = IF l.topic THEN v.topic \cup {l.chan} ELSE v.topic \ {l.chan}
  /\ l.cmd \in {"MODE", "324"} =>
       /\ w.topic = v.topic
       /\ \/ l.modes = <<>> /\ w.ops = v.ops /\ w.mode = v.mode
          \/ Flagging(l, v, w) \/ Promoting(l, v, w)
  /\ l.cmd \in {"311", "352", "433"} => w.ops = v.ops /\ w.topic = v.topic /\ w.mode = v.mode

\* What it says of idents.
News(l, v, w) ==
  /\ l.cmd \in {"JOIN", "PART", "QUIT"} => w.new = {n \in v.new : In(w, n)}
  /\ l.cmd = "NICK" => w.new = Renamed(v.new, l.nick, l.neu)
  /\ l.cmd = "353" => w.new = v.new \cup {n \in l.who : ~In(v, n)}
  /\ l.cmd \in {"311", "352"} => w.new = v.new \ l.who
  /\ l.cmd \in {"MODE", "324", "TOPIC", "332", "433"} => w.new = v.new

\* A mode the code does not know came with a parameter: it may take the next one's.
Moves(l, v, w, ms) == Members(l, v, w) /\ News(l, v, w) /\ ("ban" \notin ms => Ranks(l, v, w))

\* The lines lead from one world to another, if nothing but ms went amiss.
Way(w, ls, a, b, ms) ==
  /\ w \in [0..Len(ls) -> Worlds] /\ w[0] = a /\ w[Len(ls)] = b
  /\ \A k \in 1..Len(ls) : Moves(ls[k], w[k - 1], w[k], ms)
Path(ls, a, b, ms) == \E w \in [0..Len(ls) -> Worlds] : Way(w, ls, a, b, ms)

\* What has gone amiss is not undone.
LEMMA PathMore ==
  ASSUME NEW ls, NEW a, NEW b, NEW ms, NEW ns, ms \subseteq ns, Path(ls, a, b, ms)
  PROVE  Path(ls, a, b, ns)
<1>1. PICK w \in [0..Len(ls) -> Worlds] : Way(w, ls, a, b, ms)
  BY DEF Path
<1>2. \A l, v, x : Moves(l, v, x, ms) => Moves(l, v, x, ns)
  BY DEF Moves
<1>3. Way(w, ls, a, b, ns)
  BY <1>1, <1>2 DEF Way
<1> QED
  BY <1>1, <1>3 DEF Path

LEMMA PathNone ==
  ASSUME NEW a \in Worlds, NEW ms
  PROVE  Path(<<>>, a, a, ms)
<1> DEFINE w == [k \in 0..0 |-> a]
<1>1. Len(<<>>) = 0
  OBVIOUS
<1>2. w \in [0..0 -> Worlds] /\ w[0] = a
  OBVIOUS
<1> HIDE DEF w
<1>3. Way(w, <<>>, a, a, ms)
  BY <1>1, <1>2 DEF Way
<1> QED
  BY <1>1, <1>2, <1>3 DEF Path

LEMMA PathOne ==
  ASSUME NEW l, NEW a \in Worlds, NEW b \in Worlds, NEW ms, Moves(l, a, b, ms)
  PROVE  Path(<<l>>, a, b, ms)
<1> DEFINE w == [k \in 0..1 |-> IF k = 0 THEN a ELSE b]
           ls == <<l>>
<1>1. Len(ls) = 1 /\ ls[1] = l
  OBVIOUS
<1>2. w \in [0..1 -> Worlds] /\ w[0] = a /\ w[1] = b
  OBVIOUS
<1> HIDE DEF w, ls
<1>3. \A k \in 1..1 : k = 1 /\ k - 1 = 0
  OBVIOUS
<1>4. Way(w, ls, a, b, ms)
  BY <1>1, <1>2, <1>3 DEF Way
<1>5. Path(ls, a, b, ms)
  BY <1>1, <1>2, <1>4 DEF Path
<1> QED
  BY <1>5 DEF ls

LEMMA PathEnds ==
  ASSUME NEW a, NEW b, NEW ms, Path(<<>>, a, b, ms)
  PROVE  a = b /\ a \in Worlds
BY DEF Path, Way

LEMMA PathThen ==
  ASSUME NEW S, NEW s \in Seq(S), NEW t \in Seq(S), NEW a, NEW b, NEW c, NEW ms,
         Path(s, a, b, ms), Path(t, b, c, ms)
  PROVE  Path(s \o t, a, c, ms)
<1> DEFINE m == Len(s)
           n == Len(t)
           ls == s \o t
<1>1. PICK v \in [0..m -> Worlds] : Way(v, s, a, b, ms)
  BY DEF Path
<1>2. PICK w \in [0..n -> Worlds] : Way(w, t, b, c, ms)
  BY DEF Path
<1>3. /\ m \in Nat /\ n \in Nat /\ Len(ls) = m + n
      /\ \A k \in 1..m : ls[k] = s[k]
      /\ \A k \in m + 1..m + n : ls[k] = t[k - m]
  BY ConcatProperties
<1>4. /\ v[0] = a /\ v[m] = b /\ w[0] = b /\ w[n] = c
      /\ \A k \in 1..m : Moves(s[k], v[k - 1], v[k], ms)
      /\ \A k \in 1..n : Moves(t[k], w[k - 1], w[k], ms)
  BY <1>1, <1>2 DEF Way
<1> HIDE DEF m, n, ls
<1> DEFINE u == [k \in 0..m + n |-> IF k <= m THEN v[k] ELSE w[k - m]]
<1>5. u \in [0..m + n -> Worlds]
  BY <1>3
<1>6. /\ \A k \in 0..m : u[k] = v[k]
      /\ \A k \in m..m + n : u[k] = w[k - m]
  BY <1>3, <1>4
<1> HIDE DEF u
<1>7. u[0] = a /\ u[m + n] = c
  <2>1. 0 \in 0..m /\ m + n \in m..m + n /\ (m + n) - m = n
    BY <1>3
  <2> QED
    BY <1>4, <1>6, <2>1
<1>8. ASSUME NEW k \in 1..m + n PROVE Moves(ls[k], u[k - 1], u[k], ms)
  <2>1. CASE k <= m
    <3>1. k \in 1..m /\ k \in 0..m /\ k - 1 \in 0..m
      BY <1>3, <2>1
    <3> QED
      BY <1>3, <1>4, <1>6, <3>1
  <2>2. CASE k > m
    <3>1. k \in m + 1..m + n /\ k \in m..m + n /\ k - 1 \in m..m + n /\ k - m \in 1..n
          /\ (k - 1) - m = (k - m) - 1
      BY <1>3, <2>2
    <3>2. ls[k] = t[k - m] /\ u[k] = w[k - m] /\ u[k - 1] = w[(k - m) - 1]
      BY <1>3, <1>6, <3>1
    <3>3. Moves(t[k - m], w[(k - m) - 1], w[k - m], ms)
      BY <1>4, <3>1
    <3> QED
      BY <3>2, <3>3
  <2> QED
    BY <1>3, <2>1, <2>2
<1>9. Way(u, ls, a, c, ms)
  BY <1>3, <1>5, <1>7, <1>8 DEF Way
<1>10. Path(ls, a, c, ms)
  BY <1>3, <1>5, <1>9 DEF Path
<1> QED
  BY <1>10 DEF ls

LEMMA PathHead ==
  ASSUME NEW S, NEW ls \in Seq(S), ls # <<>>, NEW a, NEW b, NEW ms, Path(ls, a, b, ms)
  PROVE  \E x \in Worlds : /\ a \in Worlds /\ Moves(Head(ls), a, x, ms)
                           /\ Path(Tail(ls), x, b, ms)
<1> DEFINE n == Len(ls)
           t == Tail(ls)
<1>1. PICK w \in [0..n -> Worlds] : Way(w, ls, a, b, ms)
  BY DEF Path
<1>2. n \in Nat /\ n > 0 /\ Head(ls) = ls[1] /\ Len(t) = n - 1 /\ \A k \in 1..n - 1 : t[k] = ls[k + 1]
  OBVIOUS
<1>3. w[0] = a /\ w[n] = b /\ \A k \in 1..n : Moves(ls[k], w[k - 1], w[k], ms)
  BY <1>1 DEF Way
<1> HIDE DEF n, t
<1> DEFINE u == [k \in 0..n - 1 |-> w[k + 1]]
<1>4. u \in [0..n - 1 -> Worlds] /\ u[0] = w[1] /\ u[n - 1] = b
  BY <1>2, <1>3
<1>5. \A k \in 0..n - 1 : u[k] = w[k + 1]
  OBVIOUS
<1> HIDE DEF u
<1>6. ASSUME NEW k \in 1..n - 1 PROVE Moves(t[k], u[k - 1], u[k], ms)
  <2>1. k + 1 \in 1..n /\ k - 1 \in 0..n - 1 /\ k \in 0..n - 1 /\ (k - 1) + 1 = k /\ (k + 1) - 1 = k
    BY <1>2
  <2>2. u[k - 1] = w[k] /\ u[k] = w[k + 1]
    BY <1>5, <2>1
  <2>3. Moves(ls[k + 1], w[(k + 1) - 1], w[k + 1], ms)
    BY <1>3, <2>1
  <2> QED
    BY <1>2, <2>1, <2>2, <2>3
<1>7. Way(u, t, w[1], b, ms)
  BY <1>2, <1>4, <1>6 DEF Way
<1>8. Path(t, w[1], b, ms)
  BY <1>2, <1>4, <1>7 DEF Path
<1>9. 1 \in 0..n /\ 0 \in 0..n /\ 1 \in 1..n /\ 1 - 1 = 0
  BY <1>2
<1>10. Moves(ls[1], w[1 - 1], w[1], ms) /\ w[1] \in Worlds /\ w[0] \in Worlds
  BY <1>3, <1>9
<1> QED
  BY <1>2, <1>3, <1>8, <1>9, <1>10 DEF t
-----------------------------------------------------------------------------
(* The world at the server.                                                *)

Seen(me, o, p, t, md, new) ==
  [me |-> me, at |-> [c \in Chans |-> IF me \in o[c] THEN o[c] ELSE {}],
   ops |-> [c \in Chans |-> IF me \in o[c] THEN p[c] ELSE {}],
   topic |-> {c \in Chans : me \in o[c] /\ t[c]}, mode |-> md, new |-> new]
Real(md, new) == Seen(mine, on, ops, topic, md, new)

\* The server has such lists of names and operators.
Lists(o, p) == /\ o \in [Chans -> SUBSET Names] /\ p \in [Chans -> SUBSET Names]
               /\ \A c \in Chans : p[c] \subseteq o[c]

\* What a world has of who is where, and of the rest.
Sees(w, me, o) ==
  w.me = me /\ \A c \in Chans : w.at[c] = (IF me \in o[c] THEN o[c] ELSE {})
Looks(w, me, o, p, t, md, new) ==
  /\ Sees(w, me, o)
  /\ \A c \in Chans : /\ w.ops[c] = (IF me \in o[c] THEN p[c] ELSE {})
                      /\ c \in w.topic <=> me \in o[c] /\ t[c] = TRUE
  /\ w.mode = md /\ w.new = new

LEMMA WorldIs ==
  ASSUME NEW me \in Names, NEW o, NEW p, Lists(o, p), NEW t \in [Chans -> BOOLEAN],
         NEW md \in SUBSET Chans, NEW new \in SUBSET Names
  PROVE  LET w == Seen(me, o, p, t, md, new)
         IN  w \in Worlds /\ Looks(w, me, o, p, t, md, new)
<1> DEFINE at == [c \in Chans |-> IF me \in o[c] THEN o[c] ELSE {}]
           ps == [c \in Chans |-> IF me \in o[c] THEN p[c] ELSE {}]
           ts == {c \in Chans : me \in o[c] /\ t[c]}
           w == Seen(me, o, p, t, md, new)
<1>1. w = [me |-> me, at |-> at, ops |-> ps, topic |-> ts, mode |-> md, new |-> new]
  BY DEF Seen
<1>2. at \in [Chans -> SUBSET Names] /\ ps \in [Chans -> SUBSET Names] /\ ts \in SUBSET Chans
  BY DEF Lists
<1>3. \A c \in Chans : /\ at[c] = (IF me \in o[c] THEN o[c] ELSE {})
                       /\ ps[c] = (IF me \in o[c] THEN p[c] ELSE {})
                       /\ c \in ts <=> me \in o[c] /\ t[c] = TRUE
  OBVIOUS
<1> HIDE DEF at, ps, ts, w
<1>4. w \in Worlds
  BY <1>1, <1>2 DEF Worlds
<1>5. w.me = me /\ w.at = at /\ w.ops = ps /\ w.topic = ts /\ w.mode = md /\ w.new = new
  BY <1>1
<1>6. Looks(w, me, o, p, t, md, new)
  BY <1>3, <1>5 DEF Looks, Sees
<1> QED
  BY <1>4, <1>6 DEF w

LEMMA WorldsSame ==
  ASSUME NEW v \in Worlds, NEW w \in Worlds
  PROVE  /\ (\A c \in Chans : w.at[c] = v.at[c]) => w.at = v.at
         /\ (\A c \in Chans : w.ops[c] = v.ops[c]) => w.ops = v.ops
         /\ (\A c \in Chans : c \in w.topic <=> c \in v.topic) => w.topic = v.topic
<1>1. /\ v.at \in [Chans -> SUBSET Names] /\ w.at \in [Chans -> SUBSET Names]
      /\ v.ops \in [Chans -> SUBSET Names] /\ w.ops \in [Chans -> SUBSET Names]
      /\ v.topic \in SUBSET Chans /\ w.topic \in SUBSET Chans
  BY DEF Worlds
<1>2. (\A c \in Chans : w.at[c] = v.at[c]) => w.at = v.at
  BY <1>1
<1>3. (\A c \in Chans : w.ops[c] = v.ops[c]) => w.ops = v.ops
  BY <1>1
<1>4. (\A c \in Chans : c \in w.topic <=> c \in v.topic) => w.topic = v.topic
  BY <1>1
<1> QED
  BY <1>2, <1>3, <1>4

\* What changes where I am not is not seen.
LEMMA SeenSame ==
  ASSUME NEW me, NEW o, NEW p, NEW t, NEW o2, NEW p2, NEW t2, NEW md, NEW new,
         \A c \in Chans :
           /\ me \in o2[c] <=> me \in o[c]
           /\ me \in o[c] => o2[c] = o[c] /\ p2[c] = p[c] /\ t2[c] = t[c]
  PROVE  Seen(me, o2, p2, t2, md, new) = Seen(me, o, p, t, md, new)
<1>1. [c \in Chans |-> IF me \in o2[c] THEN o2[c] ELSE {}]
        = [c \in Chans |-> IF me \in o[c] THEN o[c] ELSE {}]
  OBVIOUS
<1>2. [c \in Chans |-> IF me \in o2[c] THEN p2[c] ELSE {}]
        = [c \in Chans |-> IF me \in o[c] THEN p[c] ELSE {}]
  OBVIOUS
<1>3. {c \in Chans : me \in o2[c] /\ t2[c]} = {c \in Chans : me \in o[c] /\ t[c]}
  OBVIOUS
<1> QED
  BY <1>1, <1>2, <1>3 DEF Seen

\* Who is in a world.
LEMMA InIs ==
  ASSUME NEW w, NEW me, NEW o, Sees(w, me, o), NEW n
  PROVE  In(w, n) <=> n = me \/ \E c \in Chans : me \in o[c] /\ n \in o[c]
BY DEF In, Sees

\* The server's lists, as they are and as they will be.
LEMMA ServerIs ==
  ASSUME ServerOK, link = "up"
  PROVE  Lists(on, ops) /\ mine \in Names /\ mine \notin online
         /\ \A c \in Chans : on[c] \subseteq Everyone
<1>1. Everyone \subseteq Names /\ mine \in Names
  BY EveryoneIs
<1>2. on \in [Chans -> SUBSET Names]
  BY <1>1 DEF ServerOK
<1> QED
  BY <1>1, <1>2 DEF ServerOK, Lists

-----------------------------------------------------------------------------
(* What the tracker does not know it has asked for, or will once it has    *)
(* handled the client's own JOIN.                                          *)

Pending(cmd) ==
  {c \in Chans : Arriving(c) \/ \E i \in 1..Len(asked) : asked[i] = Ask(cmd, c)}

\* A mode is what it thinks, or it will be told.
Tuned(md) ==
  /\ \A c \in md : mine \in on[c] /\ mode[c] = TRUE
  /\ \A c \in Chans : mine \in on[c] /\ mode[c] = TRUE => c \in md \/ c \in Pending("MODE")

\* Whose ident is new is on a channel whose WHO is to be answered.
Owed(new) ==
  "moved" \notin mishaps =>
    \A n \in new : /\ n # mine /\ \E d \in Chans : mine \in on[d] /\ n \in on[d]
                   /\ \E c \in Pending("WHO") : n \in on[c]

LEMMA ArrivingMore ==
  ASSUME LinesOK, NEW ls \in Seq(Line), lines' = lines \o ls, NEW c, Arriving(c)
  PROVE  Arriving(c)'
<1>1. lines \in Seq(Line)
  BY DEF LinesOK
<1>2. PICK i \in 1..Len(lines) - 1 :
        /\ lines[i].cmd = "JOIN" /\ lines[i].chan = c
        /\ lines[i + 1].cmd \in {"332", "353"} /\ lines[i + 1].chan = c
  BY DEF Arriving
<1>3. Len(lines') = Len(lines) + Len(ls) /\ Len(ls) \in Nat /\ Len(lines) \in Nat
      /\ \A k \in 1..Len(lines) : lines'[k] = lines[k]
  BY <1>1, ConcatProperties
<1>4. i \in 1..Len(lines') - 1 /\ i \in 1..Len(lines) /\ i + 1 \in 1..Len(lines)
  BY <1>3
<1>5. lines'[i] = lines[i] /\ lines'[i + 1] = lines[i + 1]
  BY <1>3, <1>4
<1> QED
  BY <1>2, <1>4, <1>5 DEF Arriving

LEMMA PendingMore ==
  ASSUME LinesOK, NEW ls \in Seq(Line), lines' = lines \o ls, asked' = asked, NEW cmd
  PROVE  Pending(cmd) \subseteq Pending(cmd)'
BY ArrivingMore DEF Pending

LEMMA PendingAnswered ==
  ASSUME LinesOK, NEW ls \in Seq(Line), lines' = lines \o ls, asked # <<>>, asked' = Tail(asked),
         NEW cmd, NEW c \in Pending(cmd), Head(asked) # Ask(cmd, c)
  PROVE  c \in Pending(cmd)'
<1>1. CASE Arriving(c)
  BY <1>1, ArrivingMore DEF Pending
<1>2. CASE \E i \in 1..Len(asked) : asked[i] = Ask(cmd, c)
  <2>1. PICK i \in 1..Len(asked) : asked[i] = Ask(cmd, c)
    BY <1>2
  <2>2. /\ asked \in Seq(Asked) /\ Head(asked) = asked[1] /\ Len(asked') = Len(asked) - 1
        /\ Len(asked) \in Nat /\ \A k \in 1..Len(asked) - 1 : asked'[k] = asked[k + 1]
    BY DEF LinesOK
  <2>3. i # 1
    BY <2>1, <2>2
  <2>4. i - 1 \in 1..Len(asked') /\ (i - 1) + 1 = i
    BY <2>2, <2>3
  <2>5. asked'[i - 1] = Ask(cmd, c)
    BY <2>1, <2>2, <2>4
  <2> QED
    BY <2>4, <2>5 DEF Pending
<1> QED
  BY <1>1, <1>2 DEF Pending

-----------------------------------------------------------------------------
(* What the server sends leads from its world before to its world after.   *)

Then(md, new) == Seen(mine', on', ops', topic', md, new)
Goes(ls) ==
  \A md \in SUBSET Chans, new \in SUBSET Names :
    \E md2 \in SUBSET Chans, new2 \in SUBSET Names :
      /\ Path(ls, Real(md, new), Then(md2, new2), mishaps')
      /\ Tuned(md) /\ Owed(new) => Tuned(md2)' /\ Owed(new2)'

Tells == \E ls \in Seq(Line) : lines' = lines \o ls /\ Goes(ls)

LEMMA RealIs ==
  ASSUME ServerOK, link = "up", NEW md \in SUBSET Chans, NEW new \in SUBSET Names
  PROVE  Real(md, new) \in Worlds /\ Looks(Real(md, new), mine, on, ops, topic, md, new)
<1>1. topic \in [Chans -> BOOLEAN]
  BY DEF ServerOK
<1> QED
  BY <1>1, ServerIs, WorldIs DEF Real

LEMMA ThenIs ==
  ASSUME ServerOK', link' = "up", NEW md \in SUBSET Chans, NEW new \in SUBSET Names
  PROVE  Then(md, new) \in Worlds /\ Looks(Then(md, new), mine', on', ops', topic', md, new)
<1>1. /\ mine' \in Names /\ on' \in [Chans -> SUBSET Names] /\ ops' \in [Chans -> SUBSET Names]
      /\ \A c \in Chans : ops'[c] \subseteq on'[c]
      /\ topic' \in [Chans -> BOOLEAN]
  <2>1. /\ mine' \in Names \cup {NoName} /\ mine' # NoName /\ online' \subseteq Names
        /\ on' \in [Chans -> SUBSET Everyone'] /\ ops' \in [Chans -> SUBSET Names]
        /\ \A c \in Chans : ops'[c] \subseteq on'[c]
        /\ topic' \in [Chans -> BOOLEAN]
    BY DEF ServerOK
  <2>2. Everyone' \subseteq Names
    BY <2>1 DEF Everyone
  <2> QED
    BY <2>1, <2>2
<1> QED
  BY <1>1, WorldIs DEF Then, Lists

\* Nothing I see changes.
LEMMA StaysPut ==
  ASSUME ServerOK, link = "up", mine' = mine,
         \A c \in Chans :
           /\ mine \in on'[c] <=> mine \in on[c]
           /\ mine \in on[c] => on'[c] = on[c] /\ ops'[c] = ops[c] /\ topic'[c] = topic[c],
         \A md \in SUBSET Chans, new \in SUBSET Names :
           Tuned(md) /\ Owed(new) => Tuned(md)' /\ Owed(new)'
  PROVE  Goes(<<>>)
<1>1. ASSUME NEW md \in SUBSET Chans, NEW new \in SUBSET Names
      PROVE  Path(<<>>, Real(md, new), Then(md, new), mishaps')
  <2>1. Then(md, new) = Real(md, new)
    BY SeenSame DEF Then, Real
  <2>2. Real(md, new) \in Worlds
    BY RealIs
  <2> QED
    BY <2>1, <2>2, PathNone
<1> QED
  BY <1>1 DEF Goes

\* A line tells of topics, modes, privileges and idents.
Told(l, md, new, md2, new2) ==
  /\ \A v, w \in Worlds :
       /\ Looks(v, mine, on, ops, topic, md, new)
       /\ Looks(w, mine', on', ops', topic', md2, new2)
       => News(l, v, w) /\ ("ban" \notin mishaps' => Ranks(l, v, w))
  /\ Tuned(md) /\ Owed(new) => Tuned(md2)' /\ Owed(new2)'
Telling(l) ==
  \A md \in SUBSET Chans, new \in SUBSET Names :
    \E md2 \in SUBSET Chans, new2 \in SUBSET Names : Told(l, md, new, md2, new2)

LEMMA OneTold ==
  ASSUME ServerOK, link = "up", ServerOK', link' = "up", NEW l,
         \A v, w \in Worlds : Sees(v, mine, on) /\ Sees(w, mine', on') => Members(l, v, w),
         Telling(l)
  PROVE  Goes(<<l>>)
<1>1. ASSUME NEW md \in SUBSET Chans, NEW new \in SUBSET Names,
             NEW md2 \in SUBSET Chans, NEW new2 \in SUBSET Names, Told(l, md, new, md2, new2)
      PROVE  Path(<<l>>, Real(md, new), Then(md2, new2), mishaps')
  <2>1. /\ Real(md, new) \in Worlds /\ Looks(Real(md, new), mine, on, ops, topic, md, new)
        /\ Then(md2, new2) \in Worlds
        /\ Looks(Then(md2, new2), mine', on', ops', topic', md2, new2)
    BY RealIs, ThenIs
  <2>2. Members(l, Real(md, new), Then(md2, new2))
    BY <2>1 DEF Looks
  <2>3. Moves(l, Real(md, new), Then(md2, new2), mishaps')
    BY <1>1, <2>1, <2>2 DEF Moves, Told
  <2> QED
    BY <2>1, <2>3, PathOne
<1> QED
  BY <1>1 DEF Goes, Told, Telling

\* Modes and idents nobody speaks of.
LEMMA TunedKept ==
  ASSUME mine' = mine, NEW md, Tuned(md), Pending("MODE") \subseteq Pending("MODE")',
         \A c \in Chans : /\ mine \in on'[c] <=> mine \in on[c]
                          /\ mine \in on[c] => mode'[c] = mode[c],
         md \subseteq Chans
  PROVE  Tuned(md)'
BY DEF Tuned

LEMMA OwedKept ==
  ASSUME mishaps \subseteq mishaps', NEW new, Owed(new), NEW new2, new2 \subseteq new,
         Pending("WHO") \subseteq Pending("WHO")',
         "moved" \notin mishaps' =>
           \A n \in new2 :
             n # mine => /\ n # mine' /\ \E d \in Chans : mine' \in on'[d] /\ n \in on'[d]
                         /\ \A c \in Pending("WHO") : n \in on[c] => n \in on'[c]
  PROVE  Owed(new2)'
BY DEF Owed

\* Somebody comes or goes.
StillPending == Pending("MODE") \subseteq Pending("MODE")' /\ Pending("WHO") \subseteq Pending("WHO")'
Thinning ==
  \A d \in Chans :
    mine \in on'[d] => /\ mine \in on[d] /\ ops'[d] = ops[d] \cap on'[d]
                       /\ topic'[d] = topic[d] /\ mode'[d] = mode[d]
Unmoved ==
  "moved" \notin mishaps' =>
    \A c \in Pending("WHO"), n \in Names :
      n \in on[c] /\ n \notin on'[c] => n = mine \/ \A d \in Chans : mine \in on'[d] => n \notin on'[d]

LEMMA ThinnedTold ==
  ASSUME NEW l, mine' = mine, ServerOK, l.cmd \in {"JOIN", "PART", "QUIT"},
         mishaps \subseteq mishaps', StillPending, Thinning, Unmoved
  PROVE  Telling(l)
<1> SUFFICES ASSUME NEW md \in SUBSET Chans, NEW new \in SUBSET Names
             PROVE  \E md2 \in SUBSET Chans, new2 \in SUBSET Names : Told(l, md, new, md2, new2)
  BY DEF Telling
<1> USE DEF StillPending, Thinning, Unmoved
<1>0. /\ {d \in md : mine \in on'[d]} \in SUBSET Chans
      /\ {n \in new : n = mine \/ \E d \in Chans : mine \in on'[d] /\ n \in on'[d]} \in SUBSET Names
  OBVIOUS
<1>a. PICK md2 \in SUBSET Chans : md2 = {d \in md : mine \in on'[d]}
  BY <1>0
<1>b. PICK new2 \in SUBSET Names :
        new2 = {n \in new : n = mine \/ \E d \in Chans : mine \in on'[d] /\ n \in on'[d]}
  BY <1>0
<1>1. new2 \subseteq new
  BY <1>b
<1>2. /\ \A d : d \in md2 <=> d \in md /\ mine \in on'[d]
      /\ \A n : n \in new2 <=> n \in new /\ (n = mine \/ \E d \in Chans : mine \in on'[d] /\ n \in on'[d])
  BY <1>a, <1>b
<1>3. ASSUME Tuned(md), Owed(new) PROVE Tuned(md2)' /\ Owed(new2)'
  <2>1. Tuned(md2)'
    <3>1. \A c \in md2 : mine' \in on'[c] /\ mode'[c] = TRUE
      BY <1>2, <1>3 DEF Tuned
    <3>2. \A c \in Chans : mine' \in on'[c] /\ mode'[c] = TRUE => c \in md2 \/ c \in Pending("MODE")'
      BY <1>2, <1>3 DEF Tuned
    <3> QED
      BY <3>1, <3>2 DEF Tuned
  <2>2. "moved" \notin mishaps' =>
           \A n \in new2 :
             n # mine => /\ n # mine' /\ \E d \in Chans : mine' \in on'[d] /\ n \in on'[d]
                         /\ \A c \in Pending("WHO") : n \in on[c] => n \in on'[c]
    BY <1>1, <1>2
  <2>3. Owed(new2)'
    BY <1>1, <1>3, <2>2, OwedKept
  <2> QED
    BY <2>1, <2>3
<1>4. ASSUME NEW v \in Worlds, NEW w \in Worlds, Looks(v, mine, on, ops, topic, md, new),
             Looks(w, mine', on', ops', topic', md2, new2)
      PROVE  News(l, v, w) /\ Ranks(l, v, w)
  <2>1. Sees(w, mine, on') /\ w.new = new2 /\ v.new = new
    BY <1>4 DEF Looks
  <2>2. \A n : In(w, n) <=> n = mine \/ \E d \in Chans : mine \in on'[d] /\ n \in on'[d]
    BY <2>1, InIs
  <2>3. w.new = {n \in v.new : In(w, n)}
    BY <1>2, <2>1, <2>2
  <2>4. News(l, v, w)
    BY <2>3 DEF News
  <2>5. ASSUME NEW d \in Chans
        PROVE  /\ w.ops[d] = v.ops[d] \cap w.at[d]
               /\ d \in w.topic <=> d \in v.topic /\ w.at[d] # {}
               /\ d \in w.mode <=> d \in v.mode /\ w.at[d] # {}
    <3>1. /\ w.at[d] = (IF mine \in on'[d] THEN on'[d] ELSE {})
          /\ w.ops[d] = (IF mine \in on'[d] THEN ops'[d] ELSE {})
          /\ v.ops[d] = (IF mine \in on[d] THEN ops[d] ELSE {})
          /\ d \in w.topic <=> mine \in on'[d] /\ topic'[d] = TRUE
          /\ d \in v.topic <=> mine \in on[d] /\ topic[d] = TRUE
          /\ v.mode = md /\ w.mode = md2
      BY <1>4 DEF Looks, Sees
    <3> QED
      BY <1>2, <3>1
  <2>6. Thinned(v, w)
    BY <2>5 DEF Thinned
  <2> QED
    BY <2>4, <2>6 DEF Ranks
<1> QED
  BY <1>1, <1>3, <1>4 DEF Told

LEMMA NothingMissed ==
  ASSUME LinesOK, asked' = asked, NEW ls \in Seq(Line), lines' = lines \o ls
  PROVE  StillPending
BY PendingMore DEF StillPending

\* Where I stay nothing changes but who is there.
LEMMA TakenOffSeen ==
  ASSUME ServerOK, NEW n, NEW cs \in SUBSET Chans, TakeOff(n, cs), NEW d \in Chans
  PROVE  /\ on'[d] = (IF d \in cs THEN on[d] \ {n} ELSE on[d])
         /\ d \notin cs => ops'[d] = ops[d] /\ topic'[d] = topic[d] /\ mode'[d] = mode[d]
         /\ mine \in on'[d] => /\ mine \in on[d] /\ ops'[d] = ops[d] \cap on'[d]
                               /\ topic'[d] = topic[d] /\ mode'[d] = mode[d]
<1>1. ops[d] \subseteq on[d] /\ mode[d] \in BOOLEAN /\ topic[d] \in BOOLEAN
  BY DEF ServerOK
<1>2. /\ on'[d] = (IF d \in cs THEN on[d] \ {n} ELSE on[d])
      /\ ops'[d] = (IF d \in cs THEN ops[d] \ {n} ELSE ops[d])
  BY DEF TakeOff
<1>3. d \notin cs \/ ~(on[d] \subseteq {n}) => mode'[d] = mode[d] /\ topic'[d] = topic[d]
  <2>1. d \notin cs \/ ~(on[d] \subseteq {n}) => d \notin {c \in cs : on[c] \subseteq {n}}
    OBVIOUS
  <2>2. mode'[d] = (mode[d] /\ d \notin {c \in cs : on[c] \subseteq {n}})
    BY DEF TakeOff
  <2>3. topic'[d] = (topic[d] /\ d \notin {c \in cs : on[c] \subseteq {n}})
    BY DEF TakeOff
  <2>4. d \notin {c \in cs : on[c] \subseteq {n}} => mode'[d] = mode[d] /\ topic'[d] = topic[d]
    BY <1>1, <2>2, <2>3
  <2> QED
    BY <2>1, <2>4
<1>4. mine \in on'[d] => mine \in on[d] /\ (d \notin cs \/ ~(on[d] \subseteq {n}))
  BY <1>2
<1>5. ops'[d] = ops[d] \cap on'[d]
  BY <1>1, <1>2
<1> QED
  BY <1>2, <1>3, <1>4, <1>5

LEMMA LeaveGoes ==
  ASSUME ServerOK, LinesOK, ServerOK', NEW n \in Names, NEW c \in Chans, Leave(n, c)
  PROVE  Tells
<1>1. /\ link = "up" /\ link' = "up" /\ mine' = mine /\ n \in on[c] /\ TakeOff(n, {c})
      /\ lines' = lines \o (IF OnIt(c) THEN <<PartLine(n, c)>> ELSE <<>>) /\ asked' = asked
      /\ mishaps' = mishaps \cup (IF n # mine /\ Introducing(c) THEN {"moved"} ELSE {})
  BY DEF Leave, Sends
<1>2. \A d \in Chans : /\ on'[d] = (IF d = c THEN on[d] \ {n} ELSE on[d])
                       /\ d # c => ops'[d] = ops[d] /\ topic'[d] = topic[d] /\ mode'[d] = mode[d]
                       /\ mine \in on'[d] => /\ mine \in on[d] /\ ops'[d] = ops[d] \cap on'[d]
                                             /\ topic'[d] = topic[d] /\ mode'[d] = mode[d]
  <2>1. PICK cs \in SUBSET Chans : cs = {c}
    OBVIOUS
  <2>2. TakeOff(n, cs) /\ \A d : d \in cs <=> d = c
    BY <1>1, <2>1
  <2> QED
    BY <2>2, TakenOffSeen
<1>3. PartLine(n, c) \in Line /\ <<PartLine(n, c)>> \in Seq(Line) /\ <<>> \in Seq(Line)
  BY LinesAre
<1>4. Pending("MODE") \subseteq Pending("MODE")' /\ Pending("WHO") \subseteq Pending("WHO")'
  BY <1>1, <1>3, NothingMissed DEF StillPending
<1>5. "moved" \notin mishaps' => \A b \in Pending("WHO") : \A k : k \in on[b] /\ k \notin on'[b] => k = mine
  <2>1. Introducing(c) <=> c \in Pending("WHO")
    BY DEF Introducing, Pending
  <2>2. Pending("WHO") \subseteq Chans
    BY DEF Pending
  <2> QED
    BY <1>1, <1>2, <2>1, <2>2
<1>6. CASE OnIt(c)
  <2>0. PICK l \in Line : l = PartLine(n, c)
    BY <1>3
  <2>1. l.cmd = "PART" /\ l.nick = n /\ l.chan = c
    BY <2>0 DEF PartLine
  <2>2. mine \in on[c]
    BY <1>6 DEF OnIt
  <2>3. ASSUME NEW v \in Worlds, NEW w \in Worlds, Sees(v, mine, on), Sees(w, mine', on')
        PROVE  Members(l, v, w)
    <3>1. /\ v.me = mine /\ w.me = mine
          /\ \A d \in Chans : /\ v.at[d] = (IF mine \in on[d] THEN on[d] ELSE {})
                              /\ w.at[d] = (IF mine \in on'[d] THEN on'[d] ELSE {})
      BY <1>1, <2>3 DEF Sees
    <3>2. \A d \in Chans : w.at[d] = IF d # c THEN v.at[d]
                                     ELSE IF n = mine THEN {} ELSE v.at[d] \ {n}
      BY <1>2, <2>2, <3>1
    <3>3. Parting(l, v, w)
      BY <2>1, <3>1, <3>2 DEF Parting
    <3> QED
      BY <2>1, <3>3 DEF Members
  <2>4. Telling(l)
    <3>1. l.cmd \in {"JOIN", "PART", "QUIT"} /\ mishaps \subseteq mishaps' /\ mine' = mine
      BY <1>1, <2>1
    <3>2. StillPending /\ Thinning
      BY <1>2, <1>4 DEF StillPending, Thinning
    <3>3. Unmoved
      BY <1>5 DEF Unmoved
    <3> QED
      BY <3>1, <3>2, <3>3, ThinnedTold
  <2>5. Goes(<<l>>)
    BY <1>1, <2>3, <2>4, OneTold
  <2> QED
    BY <1>1, <1>3, <1>6, <2>0, <2>5 DEF Tells
<1>7. CASE ~OnIt(c)
  <2>1. mine \notin on[c]
    BY <1>1, <1>7 DEF OnIt
  <2>2. \A d \in Chans : /\ mine \in on'[d] <=> mine \in on[d]
                         /\ mine \in on[d] => /\ on'[d] = on[d] /\ ops'[d] = ops[d]
                                              /\ topic'[d] = topic[d] /\ mode'[d] = mode[d]
    BY <1>2, <2>1
  <2>3. ASSUME NEW md \in SUBSET Chans, NEW new \in SUBSET Names, Tuned(md), Owed(new)
        PROVE  Tuned(md)' /\ Owed(new)'
    <3>1. Tuned(md)'
      BY <1>1, <1>4, <2>2, <2>3, TunedKept
    <3>2. "moved" \notin mishaps' => "moved" \notin mishaps
      BY <1>1
    <3>3. "moved" \notin mishaps' =>
            \A k \in new : \E d \in Chans : mine \in on[d] /\ k \in on[d] /\ on'[d] = on[d]
      BY <2>2, <2>3, <3>2 DEF Owed
    <3>4. Owed(new)'
      BY <1>1, <1>4, <1>5, <2>3, <3>3, OwedKept
    <3> QED
      BY <3>1, <3>4
  <2>4. Goes(<<>>)
    BY <1>1, <2>2, <2>3, StaysPut
  <2> QED
    BY <1>1, <1>3, <1>7, <2>4 DEF Tells
<1> QED
  BY <1>6, <1>7

LEMMA QuitGoes ==
  ASSUME ServerOK, LinesOK, ServerOK', link = "up", NEW n \in Names, Quit(n)
  PROVE  Tells
<1>1. /\ link' = "up" /\ mine' = mine /\ n \in online /\ n # mine /\ TakeOff(n, Chans)
      /\ lines' = lines \o (IF SeenByUs(n) THEN <<QuitLine(n)>> ELSE <<>>)
      /\ asked' = asked /\ mishaps' = mishaps
  BY DEF Quit, Sends, ServerOK
<1>2. \A d \in Chans : /\ on'[d] = on[d] \ {n}
                       /\ mine \in on'[d] => /\ mine \in on[d] /\ ops'[d] = ops[d] \cap on'[d]
                                             /\ topic'[d] = topic[d] /\ mode'[d] = mode[d]
  BY <1>1, TakenOffSeen
<1>3. QuitLine(n) \in Line /\ <<QuitLine(n)>> \in Seq(Line) /\ <<>> \in Seq(Line)
  BY LinesAre
<1>4. Pending("MODE") \subseteq Pending("MODE")' /\ Pending("WHO") \subseteq Pending("WHO")'
  BY <1>1, <1>3, NothingMissed DEF StillPending
<1>5. \A b \in Pending("WHO") : \A k : k \in on[b] /\ k \notin on'[b] => k = n
  <2>1. Pending("WHO") \subseteq Chans
    BY DEF Pending
  <2> QED
    BY <1>2, <2>1
<1>6. CASE SeenByUs(n)
  <2>0. PICK l \in Line : l = QuitLine(n)
    BY <1>3
  <2>1. l.cmd = "QUIT" /\ l.nick = n
    BY <2>0 DEF QuitLine
  <2>2. ASSUME NEW v \in Worlds, NEW w \in Worlds, Sees(v, mine, on), Sees(w, mine', on')
        PROVE  Members(l, v, w)
    <3>1. /\ v.me = mine /\ w.me = mine
          /\ \A d \in Chans : /\ v.at[d] = (IF mine \in on[d] THEN on[d] ELSE {})
                              /\ w.at[d] = (IF mine \in on'[d] THEN on'[d] ELSE {})
      BY <1>1, <2>2 DEF Sees
    <3>2. \A d \in Chans : w.at[d] = v.at[d] \ {n}
      BY <1>1, <1>2, <3>1
    <3>3. Quitting(l, v, w)
      BY <1>1, <2>1, <3>1, <3>2 DEF Quitting
    <3> QED
      BY <2>1, <3>3 DEF Members
  <2>3. \A c \in Pending("WHO"), k \in Names :
          k \in on[c] /\ k \notin on'[c] => k = mine \/ \A d \in Chans : mine \in on'[d] => k \notin on'[d]
    BY <1>2, <1>5
  <2>4. Telling(l)
    <3>1. l.cmd \in {"JOIN", "PART", "QUIT"} /\ mishaps \subseteq mishaps' /\ mine' = mine
      BY <1>1, <2>1
    <3>2. StillPending /\ Thinning
      BY <1>2, <1>4 DEF StillPending, Thinning
    <3>3. Unmoved
      BY <2>3 DEF Unmoved
    <3> QED
      BY <3>1, <3>2, <3>3, ThinnedTold
  <2>5. Goes(<<l>>)
    BY <1>1, <2>2, <2>4, OneTold
  <2> QED
    BY <1>1, <1>3, <1>6, <2>0, <2>5 DEF Tells
<1>7. CASE ~SeenByUs(n)
  <2>1. \A d \in Chans : mine \in on[d] => n \notin on[d]
    BY <1>7 DEF SeenByUs
  <2>2. \A d \in Chans : /\ mine \in on'[d] <=> mine \in on[d]
                         /\ mine \in on[d] => /\ on'[d] = on[d] /\ ops'[d] = ops[d]
                                              /\ topic'[d] = topic[d] /\ mode'[d] = mode[d]
    <3>1. \A d \in Chans : ops[d] \subseteq on[d]
      BY DEF ServerOK
    <3>2. \A d \in Chans : mine \in on'[d] <=> mine \in on[d]
      BY <1>1, <1>2
    <3>3. \A d \in Chans : mine \in on[d] => on'[d] = on[d]
      BY <1>2, <2>1
    <3>4. \A d \in Chans : mine \in on[d] => ops'[d] = ops[d]
      BY <1>2, <3>1, <3>2, <3>3
    <3> QED
      BY <1>2, <3>2, <3>3, <3>4
  <2>3. ASSUME NEW md \in SUBSET Chans, NEW new \in SUBSET Names, Tuned(md), Owed(new)
        PROVE  Tuned(md)' /\ Owed(new)'
    <3>1. Tuned(md)'
      BY <1>1, <1>4, <2>2, <2>3, TunedKept
    <3>2. "moved" \notin mishaps' =>
            \A k \in new : k # n /\ \E d \in Chans : mine \in on[d] /\ k \in on[d] /\ on'[d] = on[d]
      BY <1>1, <2>1, <2>2, <2>3 DEF Owed
    <3>3. Owed(new)'
      BY <1>1, <1>4, <1>5, <2>2, <2>3, <3>2, OwedKept
    <3> QED
      BY <3>1, <3>3
  <2>4. Goes(<<>>)
    BY <1>1, <2>2, <2>3, StaysPut
  <2> QED
    BY <1>1, <1>3, <1>7, <2>4 DEF Tells
<1> QED
  BY <1>6, <1>7

\* Nobody leaves, and no mode of my channels changes.
LEMMA SameKept ==
  ASSUME mine' = mine, mishaps \subseteq mishaps', StillPending, NEW md \in SUBSET Chans, NEW new,
         Tuned(md), Owed(new),
         \A c \in Chans : /\ on[c] \subseteq on'[c] /\ (mine \in on'[c] => mine \in on[c])
                          /\ mine \in on[c] => mode'[c] = mode[c]
  PROVE  Tuned(md)' /\ Owed(new)'
<1>0. Pending("MODE") \subseteq Pending("MODE")' /\ Pending("WHO") \subseteq Pending("WHO")'
  BY DEF StillPending
<1>1. Tuned(md)'
  <2>1. \A c \in Chans : mine \in on'[c] <=> mine \in on[c]
    OBVIOUS
  <2> QED
    BY <1>0, <2>1, TunedKept
<1>2. Pending("WHO") \subseteq Chans
  BY DEF Pending
<1>3. "moved" \notin mishaps' =>
        \A n \in new :
          /\ n # mine' /\ \E d \in Chans : mine' \in on'[d] /\ n \in on'[d]
          /\ \E c \in Pending("WHO")' : n \in on'[c]
  BY <1>0, <1>2 DEF Owed
<1> QED
  BY <1>1, <1>3 DEF Owed

LEMMA ArriveGoes ==
  ASSUME ServerOK, LinesOK, link = "up", NEW n \in Names, Arrive(n)
  PROVE  Tells
<1>1. lines' = lines \o <<>> /\ UNCHANGED <<mine, on, ops, mode, topic, asked, mishaps>>
  BY DEF Arrive, Sends
<1>2. <<>> \in Seq(Line)
  OBVIOUS
<1>3. StillPending
  BY <1>1, <1>2, NothingMissed
<1>4. Goes(<<>>)
  BY <1>1, <1>3, SameKept, StaysPut
<1> QED
  BY <1>1, <1>2, <1>4 DEF Tells

LEMMA RenamedNot ==
  ASSUME NEW ns, NEW old, NEW neu, old \notin ns
  PROVE  Renamed(ns, old, neu) = ns
BY DEF Renamed

RenamedBy(n, m) ==
  /\ mine' = (IF n = mine THEN m ELSE mine) /\ mode' = mode /\ topic' = topic
  /\ \A d \in Chans : on'[d] = Renamed(on[d], n, m) /\ ops'[d] = Renamed(ops[d], n, m)
  /\ m # mine /\ \A d \in Chans : m \notin on[d] /\ (mine' \in on'[d] <=> mine \in on[d])

LEMMA RenameSeen ==
  ASSUME ServerOK, link = "up", NEW n \in Everyone, NEW m \in Names \ Everyone, RenameAtServer(n, m)
  PROVE  RenamedBy(n, m)
<1>1. /\ mine' = (IF n = mine THEN m ELSE mine) /\ mode' = mode /\ topic' = topic
      /\ \A d \in Chans : on'[d] = Renamed(on[d], n, m) /\ ops'[d] = Renamed(ops[d], n, m)
  BY DEF RenameAtServer, Renamed
<1>2. m # mine /\ \A d \in Chans : m \notin on[d]
  <2>1. mine \in Names /\ \A d \in Chans : on[d] \subseteq Everyone
    BY ServerIs
  <2>2. mine \in Everyone
    BY <2>1, TrackerConstants DEF Everyone
  <2> QED
    BY <2>1, <2>2
<1>3. \A d \in Chans : mine' \in on'[d] <=> mine \in on[d]
  BY <1>1, <1>2 DEF Renamed
<1> QED
  BY <1>1, <1>2, <1>3 DEF RenamedBy

\* A new nick goes on being one under its next name.
LEMMA RenameOwes ==
  ASSUME NEW n, NEW m, RenamedBy(n, m), StillPending, mishaps' = mishaps,
         NEW md \in SUBSET Chans, NEW new, NEW new2, new2 = Renamed(new, n, m)
  PROVE  Tuned(md) /\ Owed(new) => Tuned(md)' /\ Owed(new2)'
<1> SUFFICES ASSUME Tuned(md), Owed(new) PROVE Tuned(md)' /\ Owed(new2)'
  OBVIOUS
<1>1. /\ mine' = (IF n = mine THEN m ELSE mine) /\ mode' = mode /\ m # mine
      /\ \A d \in Chans : /\ on'[d] = Renamed(on[d], n, m)
                          /\ m \notin on[d] /\ (mine' \in on'[d] <=> mine \in on[d])
  BY DEF RenamedBy
<1>2. Pending("MODE") \subseteq Pending("MODE")' /\ Pending("WHO") \subseteq Pending("WHO")'
  BY DEF StillPending
<1>3. Tuned(md)'
  BY <1>1, <1>2 DEF Tuned
<1>4. ASSUME "moved" \notin mishaps', NEW x \in new2
      PROVE  /\ x # mine' /\ \E d \in Chans : mine' \in on'[d] /\ x \in on'[d]
             /\ \E c \in Pending("WHO")' : x \in on'[c]
  <2>1. PICK y \in new : x = (IF y = n THEN m ELSE y)
    BY <1>4 DEF Renamed
  <2>2. y # mine
    BY <1>4 DEF Owed
  <2>3. PICK d \in Chans : mine \in on[d] /\ y \in on[d]
    BY <1>4 DEF Owed
  <2>4. PICK c \in Pending("WHO") : y \in on[c]
    BY <1>4 DEF Owed
  <2>5. c \in Chans
    BY DEF Pending
  <2>6. x \in on'[d] /\ x \in on'[c]
    <3>1. x \in Renamed(on[d], n, m) /\ x \in Renamed(on[c], n, m)
      BY <2>1, <2>3, <2>4 DEF Renamed
    <3> QED
      BY <1>1, <2>5, <3>1
  <2>7. x # mine'
    <3>1. y # m
      BY <1>1, <2>3
    <3> QED
      BY <1>1, <2>1, <2>2, <3>1
  <2> QED
    BY <1>1, <1>2, <2>3, <2>4, <2>6, <2>7
<1>5. Owed(new2)'
  BY <1>4 DEF Owed
<1> QED
  BY <1>3, <1>5

\* The server renames somebody I see, or me.
LEMMA RenameTold ==
  ASSUME ServerOK, link = "up", ServerOK', link' = "up", NEW n \in Everyone,
         NEW m \in Names \ Everyone, RenameAtServer(n, m), n = mine \/ SeenByUs(n),
         StillPending, mishaps' = mishaps
  PROVE  Goes(<<NickLine(n, m)>>)
<1> DEFINE l == NickLine(n, m)
<1>1. l.cmd = "NICK" /\ l.nick = n /\ l.neu = m
  BY DEF NickLine
<1>2. RenamedBy(n, m)
  BY RenameSeen
<1>3. /\ mine' = (IF n = mine THEN m ELSE mine) /\ topic' = topic /\ m # mine
      /\ \A d \in Chans : /\ on'[d] = Renamed(on[d], n, m) /\ ops'[d] = Renamed(ops[d], n, m)
                          /\ m \notin on[d] /\ (mine' \in on'[d] <=> mine \in on[d])
  BY <1>2 DEF RenamedBy
<1> HIDE DEF l
<1>4. ASSUME NEW v \in Worlds, NEW w \in Worlds, Sees(v, mine, on), Sees(w, mine', on')
      PROVE  Members(l, v, w)
  <2>1. /\ v.me = mine /\ w.me = mine'
        /\ \A d \in Chans : /\ v.at[d] = (IF mine \in on[d] THEN on[d] ELSE {})
                            /\ w.at[d] = (IF mine' \in on'[d] THEN on'[d] ELSE {})
    BY <1>4 DEF Sees
  <2>2. \A d \in Chans : w.at[d] = Renamed(v.at[d], n, m)
    BY <1>3, <2>1 DEF Renamed
  <2>3. In(v, n) /\ ~In(v, m)
    <3>1. ~In(v, m)
      BY <1>3, <2>1 DEF In
    <3>2. CASE n = mine
      BY <2>1, <3>1, <3>2 DEF In
    <3>3. CASE SeenByUs(n)
      <4>1. PICK c \in Chans : mine \in on[c] /\ n \in on[c]
        BY <3>3 DEF SeenByUs
      <4>2. n \in v.at[c]
        BY <2>1, <4>1
      <4> QED
        BY <3>1, <4>2 DEF In
    <3> QED
      BY <3>1, <3>2, <3>3
  <2>4. Renaming(l, v, w)
    BY <1>1, <1>3, <2>1, <2>2, <2>3 DEF Renaming
  <2> QED
    BY <1>1, <2>4 DEF Members
<1>5. ASSUME NEW md \in SUBSET Chans, NEW new \in SUBSET Names
      PROVE  \E md2 \in SUBSET Chans, new2 \in SUBSET Names : Told(l, md, new, md2, new2)
  <2>1. Renamed(new, n, m) \in SUBSET Names
    BY DEF Renamed
  <2>2. PICK new2 \in SUBSET Names : new2 = Renamed(new, n, m)
    BY <2>1
  <2>3. Tuned(md) /\ Owed(new) => Tuned(md)' /\ Owed(new2)'
    BY <1>2, <2>2, RenameOwes
  <2>4. ASSUME NEW v \in Worlds, NEW w \in Worlds, Looks(v, mine, on, ops, topic, md, new),
               Looks(w, mine', on', ops', topic', md, new2)
        PROVE  News(l, v, w) /\ Ranks(l, v, w)
    <3>1. /\ v.new = new /\ w.new = new2 /\ v.mode = md /\ w.mode = md
          /\ \A d \in Chans : /\ v.ops[d] = (IF mine \in on[d] THEN ops[d] ELSE {})
                              /\ w.ops[d] = (IF mine' \in on'[d] THEN ops'[d] ELSE {})
                              /\ d \in v.topic <=> mine \in on[d] /\ topic[d] = TRUE
                              /\ d \in w.topic <=> mine' \in on'[d] /\ topic'[d] = TRUE
      BY <2>4 DEF Looks
    <3>2. w.topic = v.topic
      <4>1. w.topic \subseteq Chans /\ v.topic \subseteq Chans
        BY DEF Worlds
      <4>2. \A d \in Chans : d \in w.topic <=> d \in v.topic
        BY <1>3, <3>1
      <4> QED
        BY <4>1, <4>2
    <3>3. \A d \in Chans : w.ops[d] = Renamed(v.ops[d], n, m)
      BY <1>3, <3>1 DEF Renamed
    <3> QED
      BY <1>1, <2>2, <3>1, <3>2, <3>3 DEF News, Ranks
  <2> QED
    BY <2>3, <2>4 DEF Told
<1>6. Telling(l)
  BY <1>5 DEF Telling
<1>7. Goes(<<l>>)
  BY <1>4, <1>6, OneTold
<1> QED
  BY <1>7 DEF l

LEMMA RenameGoes ==
  ASSUME ServerOK, LinesOK, ServerOK', link = "up", NEW n \in Names, NEW m \in Names, Rename(n, m)
  PROVE  Tells
<1>1. /\ link' = "up" /\ RenameAtServer(n, m) /\ n \in online /\ n \in Everyone /\ m \in Names \ Everyone
      /\ lines' = lines \o (IF SeenByUs(n) THEN <<NickLine(n, m)>> ELSE <<>>)
      /\ asked' = asked /\ mishaps' = mishaps
  BY DEF Rename, Sends, Everyone
<1>2. <<NickLine(n, m)>> \in Seq(Line) /\ <<>> \in Seq(Line)
  BY LinesAre
<1>3. StillPending
  BY <1>1, <1>2, NothingMissed
<1>4. CASE SeenByUs(n)
  <2>1. Goes(<<NickLine(n, m)>>)
    BY <1>1, <1>3, <1>4, RenameTold
  <2> QED
    BY <1>1, <1>2, <1>4, <2>1 DEF Tells
<1>5. CASE ~SeenByUs(n)
  <2>1. n # mine /\ \A d \in Chans : ops[d] \subseteq on[d]
    BY <1>1, ServerIs DEF ServerOK
  <2>2. /\ mine' = mine /\ topic' = topic
        /\ \A d \in Chans : /\ on'[d] = Renamed(on[d], n, m) /\ ops'[d] = Renamed(ops[d], n, m)
                            /\ mine \in on'[d] <=> mine \in on[d]
    BY <1>1, <2>1, RenameSeen DEF RenamedBy
  <2>3. \A d \in Chans : mine \in on[d] => n \notin on[d] /\ n \notin ops[d]
    BY <1>1, <1>5, <2>1 DEF SeenByUs
  <2>4. \A d \in Chans : mine \in on[d] => on'[d] = on[d] /\ ops'[d] = ops[d]
    BY <2>2, <2>3, RenamedNot
  <2>5. ASSUME NEW md \in SUBSET Chans, NEW new \in SUBSET Names, Tuned(md), Owed(new)
        PROVE  Tuned(md)' /\ Owed(new)'
    <3>1. PICK new2 : new2 = Renamed(new, n, m)
      OBVIOUS
    <3>2. Tuned(md)' /\ Owed(new2)'
      BY <1>1, <1>3, <2>5, <3>1, RenameSeen, RenameOwes
    <3>3. "moved" \notin mishaps => new2 = new
      BY <2>3, <2>5, <3>1, RenamedNot DEF Owed
    <3>4. Owed(new)'
      BY <1>1, <3>2, <3>3 DEF Owed
    <3> QED
      BY <3>2, <3>4
  <2>6. Goes(<<>>)
    BY <2>2, <2>4, <2>5, StaysPut
  <2> QED
    BY <1>1, <1>2, <1>5, <2>6 DEF Tells
<1> QED
  BY <1>4, <1>5

\* A mode or a privilege changes on a channel of mine.
LEMMA FlagTold ==
  ASSUME ServerOK, NEW c \in Chans, mine \in on[c], NEW add \in BOOLEAN, NEW l,
         l.cmd = "MODE", l.chan = c, l.modes = <<OneMode(add, "m")>>,
         UNCHANGED <<mine, on, ops, topic, mishaps>>, mode' = [mode EXCEPT ![c] = add],
         StillPending
  PROVE  Telling(l)
<1> SUFFICES ASSUME NEW md \in SUBSET Chans, NEW new \in SUBSET Names
             PROVE  \E md2 \in SUBSET Chans, new2 \in SUBSET Names : Told(l, md, new, md2, new2)
  BY DEF Telling
<1>1. (IF add THEN md \cup {c} ELSE md \ {c}) \in SUBSET Chans
  OBVIOUS
<1>2. PICK md2 \in SUBSET Chans : md2 = (IF add THEN md \cup {c} ELSE md \ {c})
  BY <1>1
<1>3. \A d \in Chans : d \in md2 <=> IF d = c THEN add ELSE d \in md
  BY <1>2
<1>4. \A d \in Chans : mode'[d] = IF d = c THEN add ELSE mode[d]
  BY DEF ServerOK
<1>5. Pending("MODE") \subseteq Pending("MODE")' /\ Pending("WHO") \subseteq Pending("WHO")'
  BY DEF StillPending
<1>6. ASSUME Tuned(md), Owed(new) PROVE Tuned(md2)' /\ Owed(new)'
  <2>1. \A d \in md2 : mine' \in on'[d] /\ mode'[d] = TRUE
    BY <1>3, <1>4, <1>6 DEF Tuned
  <2>2. \A d \in Chans : mine' \in on'[d] /\ mode'[d] = TRUE => d \in md2 \/ d \in Pending("MODE")'
    BY <1>3, <1>4, <1>5, <1>6 DEF Tuned
  <2>3. Owed(new)'
    BY <1>5, <1>6 DEF Owed
  <2> QED
    BY <2>1, <2>2, <2>3 DEF Tuned
<1>7. ASSUME NEW v \in Worlds, NEW w \in Worlds, Looks(v, mine, on, ops, topic, md, new),
             Looks(w, mine', on', ops', topic', md2, new)
      PROVE  News(l, v, w) /\ Ranks(l, v, w)
  <2>1. /\ v.new = new /\ w.new = new /\ v.mode = md /\ w.mode = md2
        /\ \A d \in Chans : w.ops[d] = v.ops[d] /\ (d \in w.topic <=> d \in v.topic)
        /\ v.me = mine /\ v.at[c] = on[c]
    BY <1>7 DEF Looks, Sees
  <2>2. w.topic = v.topic /\ w.ops = v.ops
    BY <2>1, WorldsSame
  <2>3. Flagging(l, v, w)
    BY <1>2, <2>1, <2>2 DEF Flagging
  <2> QED
    BY <2>1, <2>2, <2>3 DEF News, Ranks
<1> QED
  BY <1>6, <1>7 DEF Told

LEMMA OpTold ==
  ASSUME ServerOK, NEW c \in Chans, mine \in on[c], NEW add \in BOOLEAN, NEW n \in on[c], NEW l,
         l.cmd = "MODE", l.chan = c, mishaps \subseteq mishaps',
         \/ l.modes = <<OneMode(add, "o")>> /\ l.args = <<n>>
         \/ "ban" \in mishaps',
         UNCHANGED <<mine, on, mode, topic>>,
         ops' = [ops EXCEPT ![c] = IF add THEN @ \cup {n} ELSE @ \ {n}], StillPending
  PROVE  Telling(l)
<1> SUFFICES ASSUME NEW md \in SUBSET Chans, NEW new \in SUBSET Names
             PROVE  Told(l, md, new, md, new)
  BY DEF Telling
<1>1. \A d \in Chans : ops'[d] = IF d # c THEN ops[d]
                                 ELSE IF add THEN ops[d] \cup {n} ELSE ops[d] \ {n}
  BY DEF ServerOK
<1>2. ASSUME Tuned(md), Owed(new) PROVE Tuned(md)' /\ Owed(new)'
  BY <1>2, SameKept
<1>3. ASSUME NEW v \in Worlds, NEW w \in Worlds, Looks(v, mine, on, ops, topic, md, new),
             Looks(w, mine', on', ops', topic', md, new)
      PROVE  News(l, v, w) /\ ("ban" \notin mishaps' => Ranks(l, v, w))
  <2>1. /\ v.new = new /\ w.new = new /\ v.mode = md /\ w.mode = md
        /\ \A d \in Chans : d \in w.topic <=> d \in v.topic
        /\ v.at[c] = on[c]
    BY <1>3 DEF Looks, Sees
  <2>2. w.topic = v.topic
    BY <2>1, WorldsSame
  <2>3. \A d \in Chans : w.ops[d] = IF d # c THEN v.ops[d]
                                    ELSE IF add THEN v.ops[d] \cup {n} ELSE v.ops[d] \ {n}
    <3>1. \A d \in Chans : /\ v.ops[d] = (IF mine \in on[d] THEN ops[d] ELSE {})
                           /\ w.ops[d] = (IF mine \in on[d] THEN ops'[d] ELSE {})
      BY <1>3 DEF Looks
    <3>2. \A d \in Chans \ {c} : w.ops[d] = v.ops[d]
      BY <1>1, <3>1
    <3>3. w.ops[c] = ops'[c] /\ v.ops[c] = ops[c]
      BY <3>1
    <3>4. w.ops[c] = (IF add THEN v.ops[c] \cup {n} ELSE v.ops[c] \ {n})
      BY <1>1, <3>3
    <3> QED
      BY <3>2, <3>4
  <2>4. "ban" \notin mishaps' => Promoting(l, v, w)
    <3>1. "ban" \notin mishaps' => l.modes = <<OneMode(add, "o")>> /\ l.args = <<n>>
      OBVIOUS
    <3>2. n \in v.at[l.chan] /\ w.mode = v.mode
      BY <2>1
    <3> QED
      BY <2>3, <3>1, <3>2 DEF Promoting
  <2>5. News(l, v, w)
    BY <2>1 DEF News
  <2>6. "ban" \notin mishaps' => Ranks(l, v, w)
    BY <2>2, <2>4 DEF Ranks
  <2> QED
    BY <2>5, <2>6
<1> QED
  BY <1>2, <1>3 DEF Told

LEMMA SetModesGoes ==
  ASSUME ServerOK, ServerOK', NEW n \in Names, NEW c \in Chans, NEW add \in BOOLEAN,
         NEW how \in {"flag", "op", "banAndOp"}, SetModes(c, n, add, how), LinesOK
  PROVE  Tells
<1> DEFINE sign(letter) == IF add THEN Plus(letter) ELSE Minus(letter)
           letters == CASE how = "flag" -> <<sign("m")>>
                        [] how = "op" -> <<sign("o")>>
                        [] how = "banAndOp" -> <<Plus("b"), sign("o")>>
           args == CASE how = "flag" -> <<>>
                     [] how = "op" -> <<n>>
                     [] how = "banAndOp" -> <<Mask, n>>
           line == ModeLine("MODE", c, letters, args)
<1>1. /\ link = "up" /\ link' = "up" /\ mine' = mine /\ on' = on /\ topic' = topic
      /\ n \in on[c] /\ asked' = asked
      /\ lines' = lines \o (IF OnIt(c) THEN <<line>> ELSE <<>>)
      /\ mode' = (IF how = "flag" THEN [mode EXCEPT ![c] = add] ELSE mode)
      /\ ops' = (IF how = "flag" THEN ops
                 ELSE [ops EXCEPT ![c] = IF add THEN @ \cup {n} ELSE @ \ {n}])
      /\ mishaps' = mishaps \cup (IF how = "banAndOp" THEN {"ban"} ELSE {})
  BY DEF SetModes, Sends
<1>2. \A d \in Chans \ {c} : mode'[d] = mode[d] /\ ops'[d] = ops[d]
  BY <1>1 DEF ServerOK
<1>3. <<line>> \in Seq(Line)
  <2>1. sign("m") \in Mode /\ sign("o") \in Mode /\ Plus("b") \in Mode
    BY DEF Plus, Minus, Mode
  <2> HIDE DEF sign
  <2>2. letters \in Seq(Mode)
    BY <2>1
  <2>3. args \in ArgsOfModes
    <3>1. <<>> \in ArgsOfModes /\ <<n>> \in ArgsOfModes /\ <<Mask, n>> \in ArgsOfModes
      BY DEF ArgsOfModes
    <3> QED
      BY <3>1, Zenon
  <2> HIDE DEF letters, args
  <2> QED
    BY <2>2, <2>3, LinesAre
<1>4. <<>> \in Seq(Line)
  OBVIOUS
<1>5. /\ line.cmd = "MODE" /\ line.chan = c
      /\ how = "flag" => line.modes = <<OneMode(add, "m")>>
      /\ how = "op" => line.modes = <<OneMode(add, "o")>> /\ line.args = <<n>>
  BY DEF ModeLine, OneMode, Plus, Minus
<1> HIDE DEF line
<1>6. PICK l : l = line
  OBVIOUS
<1>7. StillPending
  BY <1>1, <1>3, <1>4, NothingMissed
<1>8. CASE OnIt(c)
  <2>1. mine \in on[c]
    BY <1>8 DEF OnIt
  <2>2. ASSUME NEW v \in Worlds, NEW w \in Worlds, Sees(v, mine, on), Sees(w, mine', on')
        PROVE  Members(l, v, w)
    <3>1. v.me = mine /\ w.me = mine /\ v.me \in v.at[c] /\ \A d \in Chans : w.at[d] = v.at[d]
      BY <1>1, <2>1, <2>2 DEF Sees
    <3>2. w.at = v.at
      BY <3>1 DEF Worlds
    <3> QED
      BY <1>5, <1>6, <3>1, <3>2 DEF Members
  <2>3. Telling(l)
    <3>1. CASE how = "flag"
      BY <1>1, <1>5, <1>6, <1>7, <2>1, <3>1, FlagTold
    <3>2. CASE how # "flag"
      <4>1. /\ mode' = mode /\ ops' = [ops EXCEPT ![c] = IF add THEN @ \cup {n} ELSE @ \ {n}]
            /\ mishaps \subseteq mishaps'
            /\ \/ l.modes = <<OneMode(add, "o")>> /\ l.args = <<n>>
               \/ "ban" \in mishaps'
        BY <1>1, <1>5, <1>6, <3>2
      <4> QED
        BY <1>1, <1>5, <1>6, <1>7, <2>1, <4>1, OpTold
    <3> QED
      BY <3>1, <3>2
  <2>4. Goes(<<l>>)
    BY <1>1, <2>2, <2>3, OneTold
  <2> QED
    BY <1>1, <1>3, <1>6, <1>8, <2>4 DEF Tells
<1>9. CASE ~OnIt(c)
  <2>1. mine \notin on[c]
    BY <1>1, <1>9 DEF OnIt
  <2>2. \A d \in Chans : mine \in on[d] => mode'[d] = mode[d] /\ ops'[d] = ops[d]
    BY <1>2, <2>1
  <2>3. Goes(<<>>)
    BY <1>1, <1>7, <2>2, SameKept, StaysPut
  <2> QED
    BY <1>1, <1>4, <1>9, <2>3 DEF Tells
<1> QED
  BY <1>8, <1>9

LEMMA TopicTold ==
  ASSUME ServerOK, NEW c \in Chans, mine \in on[c], NEW l,
         l.cmd \in {"TOPIC", "332"}, l.chan = c, l.topic = topic'[c],
         mine' = mine, on' = on, ops' = ops, mode' = mode, mishaps' = mishaps, StillPending,
         topic'[c] \in BOOLEAN, \A d \in Chans \ {c} : topic'[d] = topic[d]
  PROVE  Telling(l)
<1> SUFFICES ASSUME NEW md \in SUBSET Chans, NEW new \in SUBSET Names
             PROVE  Told(l, md, new, md, new)
  BY DEF Telling
<1>1. topic \in [Chans -> BOOLEAN] /\ topic'[c] \in BOOLEAN /\ \A d \in Chans \ {c} : topic'[d] = topic[d]
  BY DEF ServerOK
<1>2. ASSUME Tuned(md), Owed(new) PROVE Tuned(md)' /\ Owed(new)'
  BY <1>2, SameKept
<1>3. ASSUME NEW v \in Worlds, NEW w \in Worlds, Looks(v, mine, on, ops, topic, md, new),
             Looks(w, mine', on', ops', topic', md, new)
      PROVE  News(l, v, w) /\ Ranks(l, v, w)
  <2>1. /\ v.new = new /\ w.new = new /\ v.mode = md /\ w.mode = md
        /\ \A d \in Chans : w.ops[d] = v.ops[d]
    BY <1>3 DEF Looks
  <2>2. w.ops = v.ops
    BY <2>1, WorldsSame
  <2>3. \A d \in Chans : /\ d \in v.topic <=> mine \in on[d] /\ topic[d] = TRUE
                         /\ d \in w.topic <=> mine \in on[d] /\ topic'[d] = TRUE
    BY <1>3 DEF Looks
  <2>4. \A d \in Chans \ {c} : d \in w.topic <=> d \in v.topic
    BY <1>1, <2>3
  <2>5. c \in w.topic <=> l.topic = TRUE
    BY <2>3
  <2>6. w.topic \in SUBSET Chans /\ v.topic \in SUBSET Chans
    BY DEF Worlds
  <2>7. w.topic = (IF l.topic THEN v.topic \cup {c} ELSE v.topic \ {c})
    <3>1. \A d \in Chans : d \in w.topic <=> d \in (IF l.topic THEN v.topic \cup {c} ELSE v.topic \ {c})
      BY <1>1, <2>4, <2>5
    <3> QED
      BY <2>6, <3>1
  <2> QED
    BY <2>1, <2>2, <2>7 DEF News, Ranks
<1> QED
  BY <1>2, <1>3 DEF Told

LEMMA SetTopicGoes ==
  ASSUME ServerOK, LinesOK, ServerOK', NEW c \in Chans, SetTopic(c)
  PROVE  Tells
<1> DEFINE line == TopicLine("TOPIC", c, topic'[c])
<1>1. /\ link = "up" /\ link' = "up" /\ asked' = asked
      /\ UNCHANGED <<mine, on, ops, mode, mishaps>>
      /\ lines' = lines \o (IF OnIt(c) THEN <<line>> ELSE <<>>)
      /\ topic' = [topic EXCEPT ![c] = ~@]
  <2>1. link = "up"
    BY DEF SetTopic, ServerOK
  <2> QED
    BY <2>1 DEF SetTopic, Sends
<1>2. topic'[c] \in BOOLEAN /\ \A d \in Chans \ {c} : topic'[d] = topic[d]
  BY <1>1 DEF ServerOK
<1>3. <<line>> \in Seq(Line) /\ <<>> \in Seq(Line)
  BY <1>2, LinesAre
<1>4. line.cmd = "TOPIC" /\ line.chan = c /\ line.topic = topic'[c]
  BY DEF TopicLine
<1> HIDE DEF line
<1>5. PICK l : l = line
  OBVIOUS
<1>6. StillPending
  BY <1>1, <1>3, NothingMissed
<1>7. CASE OnIt(c)
  <2>1. mine \in on[c]
    BY <1>7 DEF OnIt
  <2>2. ASSUME NEW v \in Worlds, NEW w \in Worlds, Sees(v, mine, on), Sees(w, mine', on')
        PROVE  Members(l, v, w)
    <3>1. v.me = mine /\ w.me = mine /\ v.me \in v.at[c] /\ \A d \in Chans : w.at[d] = v.at[d]
      BY <1>1, <2>1, <2>2 DEF Sees
    <3>2. w.at = v.at
      BY <3>1, WorldsSame
    <3> QED
      BY <1>4, <1>5, <3>1, <3>2 DEF Members
  <2>3. Telling(l)
    <3>1. l.cmd \in {"TOPIC", "332"} /\ l.chan = c /\ l.topic = topic'[c]
      BY <1>4, <1>5
    <3> QED
      BY <1>1, <1>2, <1>3, <1>6, <2>1, <3>1, TopicTold
  <2>4. Goes(<<l>>)
    BY <1>1, <2>2, <2>3, OneTold
  <2> QED
    BY <1>1, <1>3, <1>5, <1>7, <2>4 DEF Tells
<1>8. CASE ~OnIt(c)
  <2>1. mine \notin on[c]
    BY <1>1, <1>8 DEF OnIt
  <2>2. \A d \in Chans : mine \in on[d] => topic'[d] = topic[d]
    BY <1>2, <2>1
  <2>3. Goes(<<>>)
    BY <1>1, <1>6, <2>2, SameKept, StaysPut
  <2> QED
    BY <1>1, <1>3, <1>8, <2>3 DEF Tells
<1> QED
  BY <1>7, <1>8

\* My own JOIN, the topic and the names: I am on the channel, alone at first.
MyJoin(c) == <<JoinLine(mine, c)>> \o (IF topic[c] THEN <<TopicLine("332", c, TRUE)>> ELSE <<>>)
               \o <<NamesLine(c, on'[c], ops'[c])>>

LEMMA MyJoinArrives ==
  ASSUME LinesOK, NEW c, MyJoin(c) \in Seq(Line), lines' = lines \o MyJoin(c)
  PROVE  Arriving(c)'
<1> DEFINE j == JoinLine(mine, c)
           k == TopicLine("332", c, TRUE)
           l == NamesLine(c, on'[c], ops'[c])
           n == Len(lines)
<1>1. /\ j.cmd = "JOIN" /\ j.chan = c
      /\ k.cmd = "332" /\ k.chan = c
      /\ l.cmd = "353" /\ l.chan = c
  BY DEF JoinLine, TopicLine, NamesLine
<1>2. PICK x : x = MyJoin(c)
  OBVIOUS
<1>3. Len(x) \in Nat /\ Len(x) >= 2 /\ x[1] = j /\ x[2] \in {k, l}
  <2> HIDE DEF j, k, l
  <2>1. CASE topic[c]
    <3>1. x = (<<j>> \o <<k>>) \o <<l>>
      BY <1>2, <2>1 DEF MyJoin, j, k, l
    <3> QED
      BY <3>1
  <2>2. CASE ~topic[c]
    <3>1. x = (<<j>> \o <<>>) \o <<l>>
      BY <1>2, <2>2 DEF MyJoin, j, k, l
    <3> QED
      BY <3>1
  <2> QED
    BY <2>1, <2>2
<1>4. lines \in Seq(Line) /\ x \in Seq(Line) /\ lines' = lines \o x
  BY <1>2 DEF LinesOK
<1>5. /\ n \in Nat /\ Len(lines') = n + Len(x)
      /\ lines'[n + 1] = x[1] /\ lines'[n + 2] = x[2]
  BY <1>3, <1>4
<1>6. n + 1 \in 1..Len(lines') - 1 /\ (n + 1) + 1 = n + 2
  BY <1>3, <1>5
<1> HIDE DEF j, k, l
<1> QED
  BY <1>1, <1>3, <1>5, <1>6 DEF Arriving

LEMMA MyJoinGoes ==
  ASSUME ServerOK, LinesOK, ServerOK', link = "up", link' = "up", mine' = mine, topic' = topic,
         mode' = mode, mishaps' = mishaps, asked' = asked,
         NEW c \in Chans, mine \notin on[c], on' = [on EXCEPT ![c] = @ \cup {mine}],
         \A d \in Chans \ {c} : ops'[d] = ops[d], NEW ls,
         ls = MyJoin(c), ls \in Seq(Line), lines' = lines \o ls
  PROVE  Goes(ls)
<1> DEFINE o == [on EXCEPT ![c] = {mine}]
           p == [ops EXCEPT ![c] = {}]
           t == [topic EXCEPT ![c] = FALSE]
           j == JoinLine(mine, c)
           k == TopicLine("332", c, TRUE)
           l == NamesLine(c, on'[c], ops'[c])
           mid == IF topic[c] THEN <<k>> ELSE <<>>
<1>1. /\ j.cmd = "JOIN" /\ j.nick = mine /\ j.chan = c
      /\ k.cmd = "332" /\ k.chan = c /\ k.topic = TRUE
      /\ l.cmd = "353" /\ l.chan = c /\ l.who = on'[c] /\ l.withOp = ops'[c]
  BY DEF JoinLine, TopicLine, NamesLine
<1>2. mine \in Names /\ Lists(o, p) /\ topic \in [Chans -> BOOLEAN] /\ t \in [Chans -> BOOLEAN]
  BY ServerIs DEF Lists, ServerOK
<1>3. /\ mine \in on'[c] /\ o[c] = {mine} /\ mine \in o[c] /\ p[c] = {} /\ t[c] = FALSE
      /\ \A d \in Chans \ {c} : /\ on'[d] = on[d] /\ o[d] = on[d] /\ p[d] = ops[d]
                               /\ t[d] = topic[d] /\ ops'[d] = ops[d]
  BY <1>2, ServerIs DEF Lists
<1>3b. /\ \A d \in Chans : ops[d] \subseteq on[d] /\ ops'[d] \subseteq on'[d] /\ on[d] \subseteq on'[d]
      /\ \A d \in Chans : mine \in o[d] <=> mine \in on'[d]
  <2>1. \A d \in Chans : ops[d] \subseteq on[d] /\ ops'[d] \subseteq on'[d]
    BY DEF ServerOK
  <2>2. on'[c] = on[c] \cup {mine}
    BY ServerIs DEF Lists
  <2> QED
    BY <1>3, <2>1, <2>2
<1>4. ls = (<<j>> \o mid) \o <<l>>
  BY DEF MyJoin
<1>5. <<j>> \in Seq({j, k, l}) /\ mid \in Seq({j, k, l}) /\ <<l>> \in Seq({j, k, l})
  <2> HIDE DEF j, k, l
  <2>1. \A x \in {j, k, l} : <<x>> \in Seq({j, k, l})
    OBVIOUS
  <2>2. <<>> \in Seq({j, k, l})
    OBVIOUS
  <2> QED
    BY <2>1, <2>2, Zenon
<1>6. <<j>> \o mid \in Seq({j, k, l})
  <2> HIDE DEF mid, j, k, l
  <2> QED
    BY <1>5, ConcatProperties
<1>7. Arriving(c)' /\ StillPending
  BY MyJoinArrives, NothingMissed
<1>8. c \in Pending("MODE")' /\ c \in Pending("WHO")'
  BY <1>7 DEF Pending
<1> HIDE DEF o, p, t, j, k, l, mid
<1>9. ASSUME NEW md \in SUBSET Chans, NEW new \in SUBSET Names
      PROVE  \E md2 \in SUBSET Chans, new2 \in SUBSET Names :
               /\ Path(ls, Real(md, new), Then(md2, new2), mishaps')
               /\ Tuned(md) /\ Owed(new) => Tuned(md2)' /\ Owed(new2)'
  <2> DEFINE here == {n \in new : n = mine \/ \E d \in Chans : mine \in o[d] /\ n \in o[d]}
             more == {n \in on'[c] : ~(n = mine \/ \E d \in Chans : mine \in o[d] /\ n \in o[d])}
  <2>1. /\ {d \in md : mine \in on'[d]} \in SUBSET Chans /\ here \in SUBSET Names
        /\ here \cup more \in SUBSET Names
    <3>1. on'[c] \subseteq Names
      BY EveryoneIs DEF ServerOK, Everyone
    <3> QED
      BY <3>1
  <2>2. PICK md2 \in SUBSET Chans : md2 = {d \in md : mine \in on'[d]}
    BY <2>1
  <2>3. PICK new1 \in SUBSET Names : new1 = here
    BY <2>1
  <2>4. PICK new2 \in SUBSET Names : new2 = here \cup more
    BY <2>1
  <2>5. ASSUME Tuned(md), Owed(new) PROVE Tuned(md2)' /\ Owed(new2)'
    <3>1. c \notin md
      BY <2>5 DEF Tuned
    <3>2. Pending("MODE") \subseteq Pending("MODE")' /\ Pending("WHO") \subseteq Pending("WHO")'
      BY <1>7 DEF StillPending
    <3>3. \A d \in md2 : mine' \in on'[d] /\ mode'[d] = TRUE
      BY <2>2, <2>5 DEF Tuned
    <3>4. \A d \in Chans : mine' \in on'[d] /\ mode'[d] = TRUE => d \in md2 \/ d \in Pending("MODE")'
      BY <1>3, <1>3b, <1>8, <2>2, <2>5, <3>2 DEF Tuned
    <3>5. Pending("WHO") \subseteq Chans
      BY DEF Pending
    <3>6. ASSUME "moved" \notin mishaps', NEW n \in new2
          PROVE  /\ n # mine' /\ \E d \in Chans : mine' \in on'[d] /\ n \in on'[d]
                 /\ \E d \in Pending("WHO")' : n \in on'[d]
      <4>1. CASE n \in here
        <5>1. n # mine /\ \E d \in Pending("WHO") : n \in on[d]
          BY <2>5, <3>6, <4>1 DEF Owed
        <5>2. \E d \in Chans : mine \in on[d] /\ n \in on[d]
          BY <2>5, <3>6, <4>1 DEF Owed
        <5>3. \A d \in Chans : on[d] \subseteq on'[d]
          BY <1>3, <1>3b
        <5> QED
          BY <3>2, <3>5, <5>1, <5>2, <5>3
      <4>2. CASE n \in more
        <5>1. mine \in on'[c]
          BY <1>3, <1>3b
        <5> QED
          BY <1>8, <4>2, <5>1
      <4> QED
        BY <2>4, <3>6, <4>1, <4>2
    <3>7. Owed(new2)'
      BY <3>6 DEF Owed
    <3> QED
      BY <3>3, <3>4, <3>7 DEF Tuned
  <2> DEFINE v == Real(md, new)
             x == Seen(mine, o, p, t, md2, new1)
             y == Seen(mine, o, p, topic, md2, new1)
             w == Then(md2, new2)
  <2>6. /\ v \in Worlds /\ Looks(v, mine, on, ops, topic, md, new)
        /\ w \in Worlds /\ Looks(w, mine', on', ops', topic', md2, new2)
        /\ x \in Worlds /\ Looks(x, mine, o, p, t, md2, new1)
        /\ y \in Worlds /\ Looks(y, mine, o, p, topic, md2, new1)
    BY <1>2, RealIs, ThenIs, WorldIs
  <2>7. topic[c] \/ x = y
    <3>1. ~topic[c] => t = topic
      BY DEF ServerOK, t
    <3> QED
      BY <3>1
  <2> HIDE DEF v, x, y, w, here, more
  <2>8. /\ Sees(v, mine, on) /\ Sees(x, mine, o) /\ Sees(y, mine, o) /\ Sees(w, mine, on')
    BY <2>6 DEF Looks
  <2>9. /\ v.me = mine /\ x.me = mine /\ y.me = mine /\ w.me = mine
        /\ v.at[c] = {} /\ x.at[c] = {mine} /\ y.at[c] = {mine} /\ w.at[c] = on'[c]
        /\ \A d \in Chans \ {c} : x.at[d] = v.at[d] /\ y.at[d] = v.at[d] /\ w.at[d] = v.at[d]
    <3>1. \A d \in Chans : /\ v.at[d] = (IF mine \in on[d] THEN on[d] ELSE {})
                           /\ x.at[d] = (IF mine \in o[d] THEN o[d] ELSE {})
                           /\ y.at[d] = (IF mine \in o[d] THEN o[d] ELSE {})
                           /\ w.at[d] = (IF mine \in on'[d] THEN on'[d] ELSE {})
      BY <2>8 DEF Sees
    <3>2. v.me = mine /\ x.me = mine /\ y.me = mine /\ w.me = mine
      BY <2>8 DEF Sees
    <3>3. v.at[c] = {} /\ x.at[c] = {mine} /\ y.at[c] = {mine} /\ w.at[c] = on'[c]
      <4>1. mine \notin on[c] /\ o[c] = {mine} /\ mine \in o[c] /\ mine \in on'[c]
        BY <1>3, <1>3b
      <4> QED
        BY <3>1, <4>1, Zenon
    <3>4. \A d \in Chans \ {c} : x.at[d] = v.at[d] /\ y.at[d] = v.at[d] /\ w.at[d] = v.at[d]
      BY <1>3, <1>3b, <3>1
    <3> QED
      BY <3>2, <3>3, <3>4
  <2>10. Moves(j, v, x, mishaps')
    <3>1. Joining(j, v, x)
      BY <1>1, <2>9, Zenon DEF Joining
    <3>2. Members(j, v, x)
      BY <1>1, <3>1 DEF Members
    <3>3. x.new = {n \in v.new : In(x, n)}
      <4>1. \A n : In(x, n) <=> n = mine \/ \E d \in Chans : mine \in o[d] /\ n \in o[d]
        BY <2>8, InIs
      <4>2. v.new = new /\ x.new = new1
        BY <2>6 DEF Looks
      <4> QED
        BY <2>3, <4>1, <4>2 DEF here
    <3>4. News(j, v, x)
      BY <1>1, <3>3 DEF News
    <3>5. ASSUME NEW d \in Chans
          PROVE  /\ x.ops[d] = v.ops[d] \cap x.at[d]
                 /\ d \in x.topic <=> d \in v.topic /\ x.at[d] # {}
                 /\ d \in x.mode <=> d \in v.mode /\ x.at[d] # {}
      <4>1. /\ v.ops[d] = (IF mine \in on[d] THEN ops[d] ELSE {})
            /\ x.ops[d] = (IF mine \in o[d] THEN p[d] ELSE {})
            /\ d \in v.topic <=> mine \in on[d] /\ topic[d] = TRUE
            /\ d \in x.topic <=> mine \in o[d] /\ t[d] = TRUE
            /\ v.mode = md /\ x.mode = md2
        BY <2>6 DEF Looks
      <4>2. x.at[d] = (IF mine \in o[d] THEN o[d] ELSE {})
        BY <2>8 DEF Sees
      <4>3. CASE d = c
        BY <1>3, <1>3b, <2>2, <4>1, <4>2, <4>3
      <4>4. CASE d # c
        BY <1>3, <1>3b, <2>2, <4>1, <4>2, <4>4
      <4> QED
        BY <4>3, <4>4
    <3>6. Ranks(j, v, x)
      BY <1>1, <3>5 DEF Ranks, Thinned
    <3> QED
      BY <3>2, <3>4, <3>6 DEF Moves
  <2>11. topic[c] => Moves(k, x, y, mishaps')
    <3>1. \A d \in Chans : y.at[d] = x.at[d] /\ y.ops[d] = x.ops[d]
      <4>1. \A d \in Chans : y.ops[d] = x.ops[d]
        BY <2>6 DEF Looks
      <4>2. y.at[c] = x.at[c] /\ \A d \in Chans \ {c} : y.at[d] = x.at[d]
        BY <2>9
      <4> QED
        BY <4>1, <4>2
    <3>2. y.at = x.at /\ y.ops = x.ops
      BY <2>6, <3>1, WorldsSame
    <3>3. x.new = new1 /\ y.new = new1 /\ x.mode = md2 /\ y.mode = md2
      BY <2>6 DEF Looks
    <3>4. topic[c] => y.topic = x.topic \cup {c}
      <4>1. \A d \in Chans : /\ d \in x.topic <=> mine \in o[d] /\ t[d] = TRUE
                             /\ d \in y.topic <=> mine \in o[d] /\ topic[d] = TRUE
        BY <2>6 DEF Looks
      <4>2. x.topic \in SUBSET Chans /\ y.topic \in SUBSET Chans
        BY <2>6 DEF Worlds
      <4>3. topic[c] => topic[c] = TRUE /\ mine \in o[c]
        BY <1>2, <1>3, <1>3b
      <4>4. \A d \in Chans \ {c} : d \in x.topic <=> d \in y.topic
        BY <1>3, <1>3b, <4>1
      <4>5. topic[c] => c \in y.topic
        BY <4>1, <4>3
      <4> QED
        BY <4>2, <4>4, <4>5
    <3>5. Members(k, x, y)
      BY <1>1, <2>9, <3>2 DEF Members
    <3>6. News(k, x, y)
      BY <1>1, <3>3 DEF News
    <3>7. topic[c] => Ranks(k, x, y)
      BY <1>1, <3>2, <3>3, <3>4 DEF Ranks
    <3> QED
      BY <3>5, <3>6, <3>7 DEF Moves
  <2>12. Moves(l, y, w, mishaps')
    <3>1. mine \in on'[c]
      BY <1>3, <1>3b
    <3>2. \A d \in Chans : w.at[d] = IF d = c THEN y.at[d] \cup on'[c] ELSE y.at[d]
      <4>1. w.at[c] = y.at[c] \cup on'[c]
        BY <2>9, <3>1
      <4> QED
        BY <2>9, <4>1
    <3>3. Listing(l, y, w)
      BY <1>1, <2>9, <3>2 DEF Listing
    <3>4. Members(l, y, w)
      BY <1>1, <3>3 DEF Members
    <3>5. w.new = y.new \cup {n \in l.who : ~In(y, n)}
      <4>1. \A n : In(y, n) <=> n = mine \/ \E d \in Chans : mine \in o[d] /\ n \in o[d]
        BY <2>8, InIs
      <4>2. y.new = new1 /\ w.new = new2
        BY <2>6 DEF Looks
      <4> QED
        BY <1>1, <2>3, <2>4, <4>1, <4>2 DEF more
    <3>6. News(l, y, w)
      BY <1>1, <3>5 DEF News
    <3>7. \A d \in Chans : w.ops[d] = IF d = c THEN y.ops[d] \cup (l.who \cap l.withOp) ELSE y.ops[d]
      <4>1. \A d \in Chans : /\ y.ops[d] = (IF mine \in o[d] THEN p[d] ELSE {})
                             /\ w.ops[d] = (IF mine \in on'[d] THEN ops'[d] ELSE {})
        BY <2>6 DEF Looks
      <4>2. \A d \in Chans \ {c} : w.ops[d] = y.ops[d]
        BY <1>3, <1>3b, <4>1
      <4>3. w.ops[c] = ops'[c] /\ y.ops[c] = {}
        BY <1>3, <1>3b, <3>1, <4>1
      <4>4. w.ops[c] = y.ops[c] \cup (l.who \cap l.withOp)
        BY <1>1, <1>3, <1>3b, <4>3
      <4> QED
        BY <4>2, <4>4
    <3>8. w.topic = y.topic /\ w.mode = y.mode
      <4>1. \A d \in Chans : /\ d \in y.topic <=> mine \in o[d] /\ topic[d] = TRUE
                             /\ d \in w.topic <=> mine \in on'[d] /\ topic[d] = TRUE
        BY <2>6 DEF Looks
      <4>2. \A d \in Chans : mine \in o[d] <=> mine \in on'[d]
        BY <1>3, <1>3b
      <4>3. \A d \in Chans : d \in w.topic <=> d \in y.topic
        BY <4>1, <4>2
      <4> QED
        BY <2>6, <4>3, WorldsSame DEF Looks
    <3>9. Ranks(l, y, w)
      BY <1>1, <3>7, <3>8 DEF Ranks
    <3> QED
      BY <3>4, <3>6, <3>9 DEF Moves
  <2>13. Path(<<j>>, v, x, mishaps') /\ Path(<<l>>, y, w, mishaps')
    BY <2>6, <2>10, <2>12, PathOne
  <2>14. Path(mid, x, y, mishaps')
    BY <2>6, <2>7, <2>11, PathOne, PathNone DEF mid
  <2>15. Path(<<j>> \o mid, v, y, mishaps')
    BY <1>5, <2>13, <2>14, PathThen
  <2>16. Path((<<j>> \o mid) \o <<l>>, v, w, mishaps')
    BY <1>5, <1>6, <2>13, <2>15, PathThen
  <2> QED
    BY <1>4, <2>5, <2>16 DEF v, w
<1> QED
  BY <1>9 DEF Goes

LEMMA JoinGoes ==
  ASSUME ServerOK, LinesOK, ServerOK', NEW n \in Names, NEW c \in Chans, Join(n, c)
  PROVE  Tells
<1> DEFINE line == JoinLine(n, c)
           mid == IF topic[c] THEN <<TopicLine("332", c, TRUE)>> ELSE <<>>
           names == NamesLine(c, on'[c], ops'[c])
           ls == <<line>> \o mid \o <<names>>
<1>1. /\ link = "up" /\ link' = "up" /\ mine' = mine /\ topic' = topic /\ mode' = mode
      /\ n \in Everyone \ on[c] /\ on' = [on EXCEPT ![c] = @ \cup {n}]
      /\ \A d \in Chans \ {c} : ops'[d] = ops[d]
      /\ ops'[c] = (IF on[c] = {} THEN {n} ELSE ops[c])
      /\ lines' = lines \o (IF n = mine THEN ls ELSE IF OnIt(c) THEN <<line>> ELSE <<>>)
      /\ asked' = asked /\ mishaps' = mishaps
  BY DEF Join, Sends, ServerOK
<1>2. on'[c] = on[c] \cup {n} /\ \A d \in Chans \ {c} : on'[d] = on[d]
  BY <1>1, ServerIs DEF Lists
<1>3. \A x \in Line : <<x>> \in Seq(Line)
  OBVIOUS
<1>4. <<>> \in Seq(Line)
  OBVIOUS
<1>5. <<line>> \in Seq(Line) /\ mid \in Seq(Line) /\ <<names>> \in Seq(Line)
  <2>1. JoinLine(n, c) \in Line /\ TopicLine("332", c, TRUE) \in Line
    BY LinesAre
  <2>2. on'[c] \in SUBSET Names /\ ops'[c] \in SUBSET Names
    BY EveryoneIs DEF ServerOK, Everyone
  <2>3. names \in Line
    BY <2>2, LinesAre
  <2> HIDE DEF names
  <2> QED
    BY <1>3, <1>4, <2>1, <2>3, Zenon
<1>6. CASE n = mine
  <2>1. MyJoin(c) \in Seq(Line)
    <3>1. MyJoin(c) = (<<line>> \o mid) \o <<names>>
      BY <1>6 DEF MyJoin
    <3> HIDE DEF line, mid, names
    <3>2. <<line>> \o mid \in Seq(Line)
      BY <1>5, ConcatProperties
    <3> QED
      BY <1>5, <3>1, <3>2, ConcatProperties
  <2>2. lines' = lines \o MyJoin(c) /\ mine \notin on[c] /\ on' = [on EXCEPT ![c] = @ \cup {mine}]
    BY <1>1, <1>6 DEF MyJoin
  <2>3. PICK x : x = MyJoin(c)
    OBVIOUS
  <2>4. Goes(x)
    BY <1>1, <2>1, <2>2, <2>3, MyJoinGoes
  <2> QED
    BY <2>1, <2>2, <2>3, <2>4 DEF Tells
<1> HIDE DEF ls, mid, names
<1>7. ASSUME n # mine, NEW x \in Seq(Line), lines' = lines \o x PROVE StillPending
  BY <1>1, <1>7, NothingMissed
<1>8. CASE n # mine /\ OnIt(c)
  <2>1. line.cmd = "JOIN" /\ line.nick = n /\ line.chan = c
    BY DEF JoinLine
  <2>2. mine \in on[c] /\ n \notin on[c]
    BY <1>1, <1>8 DEF OnIt
  <2> HIDE DEF line
  <2>3. PICK j : j = line
    OBVIOUS
  <2>4. ASSUME NEW v \in Worlds, NEW w \in Worlds, Sees(v, mine, on), Sees(w, mine', on')
        PROVE  Members(j, v, w)
    <3>1. /\ v.me = mine /\ w.me = mine
          /\ \A d \in Chans : /\ v.at[d] = (IF mine \in on[d] THEN on[d] ELSE {})
                              /\ w.at[d] = (IF mine \in on'[d] THEN on'[d] ELSE {})
      BY <1>1, <2>4 DEF Sees
    <3>2. v.at[c] = on[c] /\ w.at[c] = v.at[c] \cup {n} /\ \A d \in Chans \ {c} : w.at[d] = v.at[d]
      BY <1>2, <1>8, <2>2, <3>1
    <3>3. Joining(j, v, w)
      BY <1>8, <2>1, <2>2, <2>3, <3>1, <3>2 DEF Joining
    <3> QED
      BY <2>1, <2>3, <3>3 DEF Members
  <2>5. Telling(j)
    <3>1. Thinning
      <4>1. \A d \in Chans : ops[d] \subseteq on[d] /\ on[d] \subseteq on'[d]
        BY <1>2 DEF ServerOK
      <4>2. ops'[c] = ops[c]
        BY <1>1, <2>2
      <4>3. \A d \in Chans : ops'[d] = ops[d]
        BY <1>1, <4>2
      <4>4. \A d \in Chans : mine \in on'[d] => mine \in on[d]
        BY <1>2, <2>2
      <4> QED
        BY <1>1, <4>1, <4>3, <4>4 DEF Thinning
    <3>2. Unmoved
      <4>1. Pending("WHO") \subseteq Chans
        BY DEF Pending
      <4>2. \A d \in Chans : on[d] \subseteq on'[d]
        BY <1>2
      <4> QED
        BY <4>1, <4>2 DEF Unmoved
    <3>3. StillPending
      BY <1>1, <1>5, <1>7, <1>8
    <3>4. j.cmd \in {"JOIN", "PART", "QUIT"} /\ mishaps \subseteq mishaps'
      BY <1>1, <2>1, <2>3
    <3> QED
      BY <1>1, <3>1, <3>2, <3>3, <3>4, ThinnedTold
  <2>6. Goes(<<j>>)
    BY <1>1, <2>4, <2>5, OneTold
  <2> QED
    BY <1>1, <1>5, <1>8, <2>3, <2>6 DEF Tells
<1>9. CASE n # mine /\ ~OnIt(c)
  <2>1. mine \notin on[c] /\ lines' = lines \o <<>>
    BY <1>1, <1>9 DEF OnIt
  <2>2. StillPending
    BY <1>4, <1>7, <1>9, <2>1
  <2>3. \A d \in Chans : /\ mine \in on'[d] <=> mine \in on[d]
                         /\ mine \in on[d] => on'[d] = on[d] /\ ops'[d] = ops[d]
                         /\ on[d] \subseteq on'[d]
    BY <1>1, <1>2, <1>9, <2>1
  <2>4. Goes(<<>>)
    BY <1>1, <2>2, <2>3, SameKept, StaysPut
  <2> QED
    BY <1>4, <2>1, <2>4 DEF Tells
<1> QED
  BY <1>6, <1>8, <1>9

LEMMA WorldGoes ==
  ASSUME ServerOK, ServerOK', LinesOK, link = "up", World
  PROVE  Tells
<1>1. CASE \E n \in Names, c \in Chans : Join(n, c) \/ Leave(n, c)
  BY <1>1, JoinGoes, LeaveGoes
<1>2. CASE \E n \in Names : Quit(n) \/ Arrive(n)
  BY <1>2, QuitGoes, ArriveGoes
<1>3. CASE \E n, m \in Names : Rename(n, m)
  BY <1>3, RenameGoes
<1>4. CASE \E n \in Names, c \in Chans, add \in BOOLEAN, how \in {"flag", "op", "banAndOp"} :
             SetModes(c, n, add, how)
  BY <1>4, SetModesGoes
<1>5. CASE \E c \in Chans : SetTopic(c)
  BY <1>5, SetTopicGoes
<1> QED
  BY <1>1, <1>2, <1>3, <1>4, <1>5 DEF World

\* The server has answered what the client asked first.
Answered(ls) ==
  /\ UNCHANGED server /\ mishaps' = mishaps /\ link' = "up"
  /\ asked # <<>> /\ asked' = Tail(asked) /\ lines' = lines \o ls

\* And told what it had asked of modes and idents.
Telltale(md, new, md2, new2) ==
  /\ md \subseteq md2 /\ \A c \in md2 : mine \in on[c] /\ mode[c] = TRUE
  /\ \A c \in Chans : mine \in on[c] /\ mode[c] = TRUE /\ Head(asked) = Ask("MODE", c) => c \in md2
  /\ new2 \subseteq new
  /\ \A c \in Chans : Head(asked) = Ask("WHO", c) => \A n \in new2 : n \notin on[c]

LEMMA AnswerOwes ==
  ASSUME LinesOK, NEW ls \in Seq(Line), Answered(ls), NEW md, NEW new, Tuned(md), Owed(new),
         NEW md2, NEW new2, Telltale(md, new, md2, new2)
  PROVE  Tuned(md2)' /\ Owed(new2)'
<1>0. /\ md \subseteq md2 /\ new2 \subseteq new /\ \A c \in md2 : mine \in on[c] /\ mode[c] = TRUE
      /\ \A c \in Chans : mine \in on[c] /\ mode[c] = TRUE /\ Head(asked) = Ask("MODE", c) => c \in md2
      /\ \A c \in Chans : Head(asked) = Ask("WHO", c) => \A n \in new2 : n \notin on[c]
  BY DEF Telltale
<1>1. /\ mine' = mine /\ on' = on /\ mode' = mode /\ mishaps' = mishaps
      /\ asked # <<>> /\ asked' = Tail(asked) /\ lines' = lines \o ls
  BY DEF Answered, server
<1>2. \A c \in Chans : /\ c \in Pending("MODE") /\ Head(asked) # Ask("MODE", c) => c \in Pending("MODE")'
                       /\ c \in Pending("WHO") /\ Head(asked) # Ask("WHO", c) => c \in Pending("WHO")'
  BY <1>1, PendingAnswered
<1>3. Pending("MODE") \subseteq Chans /\ Pending("WHO") \subseteq Chans
  BY DEF Pending
<1>4. Tuned(md2)'
  <2>1. \A c \in md2 : mine' \in on'[c] /\ mode'[c] = TRUE
    BY <1>0, <1>1
  <2>2. \A c \in Chans : mine' \in on'[c] /\ mode'[c] = TRUE => c \in md2 \/ c \in Pending("MODE")'
    <3>1. \A c \in Chans : mine \in on[c] /\ mode[c] = TRUE =>
            c \in md2 \/ (c \in Pending("MODE") /\ Head(asked) # Ask("MODE", c))
      <4>1. \A c \in Chans : mine \in on[c] /\ mode[c] = TRUE => c \in md2 \/ c \in Pending("MODE")
        BY <1>0 DEF Tuned
      <4> QED
        BY <1>0, <4>1
    <3> QED
      BY <1>1, <1>2, <3>1
  <2> QED
    BY <2>1, <2>2 DEF Tuned
<1>5. ASSUME "moved" \notin mishaps', NEW n \in new2
      PROVE  /\ n # mine' /\ \E d \in Chans : mine' \in on'[d] /\ n \in on'[d]
             /\ \E c \in Pending("WHO")' : n \in on'[c]
  <2>1. n # mine /\ \E d \in Chans : mine \in on[d] /\ n \in on[d]
    BY <1>0, <1>1, <1>5 DEF Owed
  <2>2. PICK c \in Pending("WHO") : n \in on[c]
    BY <1>0, <1>1, <1>5 DEF Owed
  <2>3. c \in Pending("WHO")'
    <3>1. c \in Chans
      BY <1>3
    <3>2. Head(asked) # Ask("WHO", c)
      BY <1>0, <1>5, <2>2, <3>1
    <3> QED
      BY <1>2, <2>2, <3>1, <3>2
  <2> QED
    BY <1>1, <2>1, <2>2, <2>3
<1>6. Owed(new2)'
  BY <1>5 DEF Owed
<1> QED
  BY <1>4, <1>6

LEMMA AnswerKeeps ==
  ASSUME LinesOK, NEW ls \in Seq(Line), Answered(ls), NEW md, NEW new, Tuned(md), Owed(new),
         \A c \in Chans : /\ Head(asked) # Ask("MODE", c) \/ mode[c] # TRUE \/ mine \notin on[c]
                          /\ Head(asked) # Ask("WHO", c) \/ on[c] = {}
  PROVE  Tuned(md)' /\ Owed(new)'
<1>1. \A c \in md : mine \in on[c] /\ mode[c] = TRUE
  BY DEF Tuned
<1>2. Telltale(md, new, md, new)
  BY <1>1 DEF Telltale
<1> QED
  BY <1>2, AnswerOwes

\* It had nothing to say.
LEMMA AnswerNone ==
  ASSUME ServerOK, LinesOK, link = "up", Answered(<<>>),
         \A c \in Chans : /\ Head(asked) # Ask("MODE", c) \/ mode[c] # TRUE \/ mine \notin on[c]
                          /\ Head(asked) # Ask("WHO", c) \/ on[c] = {}
  PROVE  Tells
<1>1. <<>> \in Seq(Line)
  OBVIOUS
<1>2. /\ mine' = mine /\ on' = on /\ ops' = ops /\ topic' = topic /\ mode' = mode
      /\ lines' = lines \o <<>>
  BY DEF Answered, server
<1>3. \A md \in SUBSET Chans, new \in SUBSET Names : Tuned(md) /\ Owed(new) => Tuned(md)' /\ Owed(new)'
  BY <1>1, AnswerKeeps
<1>4. Goes(<<>>)
  BY <1>2, <1>3, StaysPut
<1> QED
  BY <1>1, <1>2, <1>4 DEF Tells

\* It says nothing of who is where.
LEMMA AnswerTells ==
  ASSUME ServerOK, link = "up", ServerOK', NEW l \in Line, Answered(<<l>>), Telling(l),
         l.cmd \in {"311", "324", "352"} \/ (l.cmd = "433" /\ l.nick # mine)
  PROVE  Tells
<1>1. ASSUME NEW v \in Worlds, NEW w \in Worlds, Sees(v, mine, on), Sees(w, mine', on')
      PROVE  Members(l, v, w)
  <2>1. mine' = mine /\ on' = on
    BY DEF Answered, server
  <2>2. v.me = mine /\ w.me = mine /\ \A d \in Chans : w.at[d] = v.at[d]
    BY <1>1, <2>1 DEF Sees
  <2>3. w.at = v.at
    BY <2>2, WorldsSame
  <2>4. CASE l.cmd \in {"311", "324", "352"}
    BY <2>2, <2>3, <2>4 DEF Members
  <2>5. CASE l.cmd = "433" /\ l.nick # mine
    BY <2>2, <2>3, <2>5 DEF Members
  <2> QED
    BY <2>4, <2>5
<1>2. Goes(<<l>>)
  BY <1>1, OneTold DEF Answered
<1>3. <<l>> \in Seq(Line)
  OBVIOUS
<1> QED
  BY <1>2, <1>3 DEF Tells, Answered

\* What such a line leaves as it was.
LEMMA AnswerLooks ==
  ASSUME UNCHANGED server, NEW md, NEW new, NEW md2, NEW new2, NEW v \in Worlds, NEW w \in Worlds,
         Looks(v, mine, on, ops, topic, md, new), Looks(w, mine', on', ops', topic', md2, new2)
  PROVE  /\ w.ops = v.ops /\ w.topic = v.topic /\ v.me = mine
         /\ \A c \in Chans : v.at[c] = (IF mine \in on[c] THEN on[c] ELSE {})
         /\ v.mode = md /\ w.mode = md2 /\ v.new = new /\ w.new = new2
<1>1. mine' = mine /\ on' = on /\ ops' = ops /\ topic' = topic
  BY DEF server
<1>2. \A c \in Chans : w.ops[c] = v.ops[c] /\ (c \in w.topic <=> c \in v.topic)
  BY <1>1 DEF Looks
<1> QED
  BY <1>2, WorldsSame DEF Looks, Sees

LEMMA WhoTold ==
  ASSUME LinesOK, NEW l \in Line, Answered(<<l>>), l.cmd \in {"311", "352"},
         \A c \in Chans : /\ Head(asked) # Ask("MODE", c)
                          /\ Head(asked) = Ask("WHO", c) => on[c] \subseteq l.who
  PROVE  Telling(l)
<1> SUFFICES ASSUME NEW md \in SUBSET Chans, NEW new \in SUBSET Names
             PROVE  \E md2 \in SUBSET Chans, new2 \in SUBSET Names : Told(l, md, new, md2, new2)
  BY DEF Telling
<1>0. UNCHANGED server
  BY DEF Answered
<1>1. PICK new2 \in SUBSET Names : new2 = new \ l.who
  OBVIOUS
<1>2. ASSUME Tuned(md), Owed(new) PROVE Tuned(md)' /\ Owed(new2)'
  <2>1. <<l>> \in Seq(Line)
    OBVIOUS
  <2>2. Telltale(md, new, md, new2)
    BY <1>1, <1>2 DEF Telltale, Tuned
  <2> QED
    BY <1>2, <2>1, <2>2, AnswerOwes
<1>3. ASSUME NEW v \in Worlds, NEW w \in Worlds, Looks(v, mine, on, ops, topic, md, new),
             Looks(w, mine', on', ops', topic', md, new2)
      PROVE  News(l, v, w) /\ Ranks(l, v, w)
  <2>1. /\ w.ops = v.ops /\ w.topic = v.topic /\ v.mode = md /\ w.mode = md
        /\ v.new = new /\ w.new = new2
    BY <1>0, <1>3, AnswerLooks
  <2> QED
    BY <1>1, <2>1 DEF News, Ranks
<1> QED
  BY <1>2, <1>3 DEF Told

LEMMA InUseTold ==
  ASSUME LinesOK, NEW l \in Line, Answered(<<l>>), l.cmd = "433",
         \A c \in Chans : Head(asked) # Ask("MODE", c) /\ Head(asked) # Ask("WHO", c)
  PROVE  Telling(l)
<1> SUFFICES ASSUME NEW md \in SUBSET Chans, NEW new \in SUBSET Names
             PROVE  Told(l, md, new, md, new)
  BY DEF Telling
<1>0. UNCHANGED server
  BY DEF Answered
<1>1. <<l>> \in Seq(Line)
  OBVIOUS
<1>2. ASSUME Tuned(md), Owed(new) PROVE Tuned(md)' /\ Owed(new)'
  BY <1>1, <1>2, AnswerKeeps
<1>3. ASSUME NEW v \in Worlds, NEW w \in Worlds, Looks(v, mine, on, ops, topic, md, new),
             Looks(w, mine', on', ops', topic', md, new)
      PROVE  News(l, v, w) /\ Ranks(l, v, w)
  <2>1. /\ w.ops = v.ops /\ w.topic = v.topic /\ v.mode = md /\ w.mode = md
        /\ v.new = new /\ w.new = new
    BY <1>0, <1>3, AnswerLooks
  <2> QED
    BY <2>1 DEF News, Ranks
<1> QED
  BY <1>2, <1>3 DEF Told

LEMMA ModeTold ==
  ASSUME LinesOK, NEW l \in Line, Answered(<<l>>), l.cmd = "324", l.chan \in Chans,
         l.modes = (IF mode[l.chan] THEN <<Plus("m")>> ELSE <<>>), mode[l.chan] \in BOOLEAN,
         \A c \in Chans : /\ Head(asked) # Ask("WHO", c)
                          /\ Head(asked) = Ask("MODE", c) => c = l.chan
  PROVE  Telling(l)
<1> SUFFICES ASSUME NEW md \in SUBSET Chans, NEW new \in SUBSET Names
             PROVE  \E md2 \in SUBSET Chans, new2 \in SUBSET Names : Told(l, md, new, md2, new2)
  BY DEF Telling
<1>0. UNCHANGED server
  BY DEF Answered
<1>1. PICK md2 \in SUBSET Chans :
        md2 = IF mode[l.chan] = TRUE /\ mine \in on[l.chan] THEN md \cup {l.chan} ELSE md
  <2>1. (IF mode[l.chan] = TRUE /\ mine \in on[l.chan] THEN md \cup {l.chan} ELSE md) \in SUBSET Chans
    OBVIOUS
  <2> QED
    BY <2>1
<1>2. ASSUME Tuned(md), Owed(new) PROVE Tuned(md2)' /\ Owed(new)'
  <2>1. <<l>> \in Seq(Line)
    OBVIOUS
  <2>2. Telltale(md, new, md2, new)
    BY <1>1, <1>2 DEF Telltale, Tuned
  <2> QED
    BY <1>2, <2>1, <2>2, AnswerOwes
<1>3. ASSUME NEW v \in Worlds, NEW w \in Worlds, Looks(v, mine, on, ops, topic, md, new),
             Looks(w, mine', on', ops', topic', md2, new)
      PROVE  News(l, v, w) /\ Ranks(l, v, w)
  <2>1. /\ w.ops = v.ops /\ w.topic = v.topic /\ v.mode = md /\ w.mode = md2
        /\ v.new = new /\ w.new = new /\ v.me = mine
        /\ \A c \in Chans : v.at[c] = (IF mine \in on[c] THEN on[c] ELSE {})
    BY <1>0, <1>3, AnswerLooks
  <2>2. v.me \in v.at[l.chan] <=> mine \in on[l.chan]
    BY <2>1
  <2>3. (l.modes = <<>> /\ w.mode = v.mode) \/ Flagging(l, v, w)
    <3>1. CASE mode[l.chan] = TRUE
      <4>1. PICK add \in BOOLEAN : add = TRUE
        OBVIOUS
      <4>2. l.modes = <<OneMode(add, "m")>>
        BY <3>1, <4>1 DEF OneMode, Plus
      <4>3. w.mode = IF v.me \notin v.at[l.chan] THEN v.mode
                     ELSE IF add THEN v.mode \cup {l.chan} ELSE v.mode \ {l.chan}
        BY <1>1, <2>1, <2>2, <3>1, <4>1
      <4> QED
        BY <2>1, <4>2, <4>3 DEF Flagging
    <3>2. CASE mode[l.chan] = FALSE
      BY <1>1, <2>1, <3>2
    <3> QED
      BY <3>1, <3>2
  <2> QED
    BY <2>1, <2>3 DEF News, Ranks
<1> QED
  BY <1>2, <1>3 DEF Told

LEMMA ServerGoes ==
  ASSUME ServerOK, ServerOK', LinesOK, link = "up", Server
  PROVE  Tells /\ link' = "up"
<1> DEFINE a == Head(asked)
<1>1. a \in Asked /\ asked # <<>> /\ asked' = Tail(asked) /\ mishaps' = mishaps
  BY DEF Server, AnswerWho, AnswerMode, AnswerWhois, AnswerNick, Answers, LinesOK
<1>2. \A cmd, x : a = Ask(cmd, x) => a.cmd = cmd /\ a.arg = x
  BY DEF Ask
<1> HIDE DEF a
<1>3. \A ls : UNCHANGED server /\ link' = "up" /\ lines' = lines \o ls => Answered(ls)
  BY <1>1 DEF Answered
<1>4. CASE AnswerWho
  <2> DEFINE who == IF a.arg \in Chans THEN on[a.arg] ELSE {a.arg} \cap Everyone
  <2>1. lines' = lines \o (IF link = "up" /\ who # {} THEN <<WhoLine(who)>> ELSE <<>>)
        /\ UNCHANGED server /\ link' = "up" /\ a.cmd = "WHO"
    BY <1>4 DEF AnswerWho, Answers, a
  <2>2. who \in SUBSET Names
    BY EveryoneIs DEF ServerOK
  <2>3. \A c \in Chans : a # Ask("MODE", c) /\ (a = Ask("WHO", c) => who = on[c])
    <3>1. "WHO" # "MODE"
      OBVIOUS
    <3> QED
      BY <1>2, <2>1, <3>1
  <2> HIDE DEF who
  <2>4. CASE who # {}
    <3>1. PICK l \in Line : l = WhoLine(who)
      BY <2>2 DEF WhoLine, Line
    <3>2. l.cmd = "352" /\ l.who = who
      BY <3>1 DEF WhoLine
    <3>3. Answered(<<l>>)
      BY <1>3, <2>1, <2>4, <3>1
    <3>4. Telling(l)
      BY <2>3, <3>2, <3>3, WhoTold DEF a
    <3> QED
      BY <2>1, <3>2, <3>3, <3>4, AnswerTells
  <2>5. CASE who = {}
    <3>1. Answered(<<>>)
      BY <1>3, <2>1, <2>5
    <3> QED
      BY <2>1, <2>3, <2>5, <3>1, AnswerNone DEF a
  <2> QED
    BY <2>4, <2>5
<1>5. CASE AnswerMode
  <2> DEFINE ms == IF mode[a.arg] THEN <<Plus("m")>> ELSE <<>>
             line == ModeLine("324", a.arg, ms, <<>>)
  <2>1. lines' = lines \o (IF link = "up" /\ on[a.arg] # {} THEN <<line>> ELSE <<>>)
        /\ UNCHANGED server /\ link' = "up" /\ a.cmd = "MODE"
    BY <1>5 DEF AnswerMode, Answers, a
  <2>2. a.arg \in Chans /\ mode[a.arg] \in BOOLEAN
    BY <1>1, <2>1, AskIs DEF ServerOK
  <2>3. ms \in Seq(Mode)
    <3>1. <<Plus("m")>> \in Seq(Mode)
      BY DEF Plus, Mode
    <3>2. <<>> \in Seq(Mode)
      OBVIOUS
    <3> QED
      BY <3>1, <3>2, Zenon
  <2>4. <<>> \in ArgsOfModes
    BY DEF ArgsOfModes
  <2>5. \A c \in Chans : a # Ask("WHO", c) /\ (a = Ask("MODE", c) => c = a.arg)
    <3>1. "WHO" # "MODE"
      OBVIOUS
    <3> QED
      BY <1>2, <2>1, <3>1
  <2>6. CASE on[a.arg] # {}
    <3>1. line.cmd = "324" /\ line.chan = a.arg /\ line.modes = ms
      BY DEF ModeLine
    <3>2. line \in Line
      <4> HIDE DEF ms
      <4> QED
        BY <2>2, <2>3, <2>4, LinesAre
    <3>3. PICK l \in Line : l = line
      BY <3>2
    <3> HIDE DEF line
    <3>4. Answered(<<l>>)
      BY <1>3, <2>1, <2>6, <3>3
    <3>5. Telling(l)
      BY <2>2, <2>5, <3>1, <3>3, <3>4, ModeTold DEF a
    <3> QED
      BY <2>1, <3>1, <3>3, <3>4, <3>5, AnswerTells
  <2>7. CASE on[a.arg] = {}
    <3>1. Answered(<<>>)
      BY <1>3, <2>1, <2>7
    <3> QED
      BY <2>1, <2>5, <2>7, <3>1, AnswerNone DEF a
  <2> QED
    BY <2>6, <2>7
<1>6. CASE AnswerWhois
  <2> DEFINE line == WhoisLine(a.arg)
  <2>1. lines' = lines \o (IF link = "up" /\ a.arg \in Everyone THEN <<line>> ELSE <<>>)
        /\ UNCHANGED server /\ link' = "up" /\ a.cmd = "WHOIS"
    BY <1>6 DEF AnswerWhois, Answers, a
  <2>2. a.arg \in Names
    BY <1>1, <2>1, AskIs
  <2>3. \A c : a # Ask("MODE", c) /\ a # Ask("WHO", c)
    BY <1>2, <2>1
  <2>4. CASE a.arg \in Everyone
    <3>1. line \in Line /\ line.cmd = "311"
      BY <2>2, LinesAre DEF WhoisLine
    <3>2. PICK l \in Line : l = line
      BY <3>1
    <3> HIDE DEF line
    <3>3. Answered(<<l>>)
      BY <1>3, <2>1, <2>4, <3>2
    <3>4. Telling(l)
      BY <2>3, <3>1, <3>2, <3>3, WhoTold DEF a
    <3> QED
      BY <2>1, <3>1, <3>2, <3>3, <3>4, AnswerTells
  <2>5. CASE a.arg \notin Everyone
    <3>1. Answered(<<>>)
      BY <1>3, <2>1, <2>5
    <3> QED
      BY <2>1, <2>3, <3>1, AnswerNone DEF a
  <2> QED
    BY <2>4, <2>5
<1>7. CASE AnswerNick
  <2> DEFINE n == a.arg
             free == n \notin Everyone
  <2>1. /\ lines' = lines \o (IF n \in online THEN <<InUse(n)>>
                              ELSE IF link = "up" /\ free THEN <<NickLine(mine, n)>> ELSE <<>>)
        /\ IF free /\ link = "up" THEN RenameAtServer(mine, n)
           ELSE /\ mine' = IF free THEN n ELSE mine
                /\ UNCHANGED <<online, on, ops, mode, topic>>
        /\ link' = (IF free THEN "up" ELSE link) /\ a.cmd = "NICK"
    BY <1>7 DEF AnswerNick, Answers, a
  <2>2. n \in Names
    BY <1>1, <2>1, AskIs
  <2>3. link' = "up" /\ mine \in Names /\ mine \notin online /\ mine \in Everyone /\ online \subseteq Everyone
    BY <2>1, ServerIs, TrackerConstants DEF Everyone
  <2>4. \A c : a # Ask("MODE", c) /\ a # Ask("WHO", c)
    BY <1>2, <2>1
  <2> HIDE DEF n
  <2>5. CASE free
    <3>1. RenameAtServer(mine, n) /\ n \in Names \ Everyone /\ lines' = lines \o <<NickLine(mine, n)>>
      BY <2>1, <2>2, <2>3, <2>5
    <3>2. <<NickLine(mine, n)>> \in Seq(Line)
      BY <2>2, <2>3, LinesAre
    <3>3. PICK ls \in Seq(Line) : ls = <<NickLine(mine, n)>>
      BY <3>2
    <3>4. \A cmd : \A c \in Pending(cmd) : a # Ask("MODE", c) /\ a # Ask("WHO", c)
      BY <2>4
    <3>5. StillPending
      BY <1>1, <2>4, <3>1, <3>3, PendingAnswered DEF StillPending, a
    <3>6. Goes(ls)
      BY <1>1, <2>3, <3>1, <3>3, <3>5, RenameTold
    <3> QED
      BY <2>3, <3>1, <3>3, <3>6 DEF Tells
  <2>6. CASE ~free
    <3>1. UNCHANGED server
      BY <2>1, <2>6 DEF server
    <3>2. CASE n \in online
      <4>1. InUse(n) \in Line /\ InUse(n).cmd = "433" /\ InUse(n).nick = n
        BY <2>2, LinesAre DEF InUse
      <4>2. PICK l \in Line : l = InUse(n)
        BY <4>1
      <4>3. l.cmd = "433" /\ l.nick # mine
        BY <2>3, <3>2, <4>1, <4>2
      <4>4. Answered(<<l>>)
        BY <1>3, <2>1, <2>3, <3>1, <3>2, <4>2
      <4>5. Telling(l)
        BY <2>4, <4>3, <4>4, InUseTold DEF a
      <4> QED
        BY <2>3, <4>3, <4>4, <4>5, AnswerTells
    <3>3. CASE n \notin online
      <4>1. Answered(<<>>)
        BY <1>3, <2>1, <2>3, <2>6, <3>1, <3>3
      <4> QED
        BY <2>3, <2>4, <4>1, AnswerNone DEF a
    <3> QED
      BY <3>2, <3>3
  <2> QED
    BY <2>5, <2>6
<1> QED
  BY <1>4, <1>5, <1>6, <1>7 DEF Server

-----------------------------------------------------------------------------
(* What a handler makes of a line is what the line says.                   *)

\* A tracker shows a world.
Start(s, w) ==
  /\ w.me = MyName(s)
  /\ \A c \in Chans, n \in Names : Has(s, c, n) <=> n \in w.at[c]
\* It shows nobody but me, whose ident it knows.
Nobody(s) == KnowsMe(s) /\ \A c \in Chans, n \in Names : ~Has(s, c, n)

LEMMA MyNameIs ==
  ASSUME NEW s, Sound(s)
  PROVE  MyName(s) \in Names /\ Tracked(s, MyName(s))
<1>1. s \in Trackers /\ Me \in DOMAIN s.nk /\ NamesAgree(s)
  BY DEF Sound
<1>2. DOMAIN s.nicks \subseteq Names
  BY <1>1, TrackersAre DEF IsMap
<1> QED
  BY <1>1, <1>2 DEF MyName, NamesAgree, Tracked

LEMMA KnowsMeIs ==
  ASSUME NEW s, Sound(s)
  PROVE  KnowsMe(s) <=> ~Unknown(s, MyName(s))
<1>1. s \in Trackers /\ Me \in DOMAIN s.nk /\ NamesAgree(s) /\ Tracked(s, MyName(s))
  BY MyNameIs DEF Sound
<1>2. s.nicks[MyName(s)] = Me
  BY <1>1 DEF NamesAgree, MyName
<1>3. s.nk[Me].known \in BOOLEAN
  BY <1>1, TrackersAre DEF IsMap, NickObjects
<1> QED
  BY <1>1, <1>2, <1>3 DEF KnowsMe, Unknown

\* Whoever is tracked is me or on a channel.
LEMMA TrackedIs ==
  ASSUME NEW s, Sound(s), Whole(s), NEW n \in Names, Tracked(s, n), n # MyName(s)
  PROVE  \E c \in Chans : Has(s, c, n)
<1>1. DOMAIN s.ch \subseteq Chans /\ NamesAgree(s) /\ ChansAgree(s)
  BY TrackersAre DEF Sound, IsMap
<1>2. s.nicks[n] \in DOMAIN s.nk \ {Me}
  BY <1>1 DEF NamesAgree, Tracked, MyName
<1>3. PICK c \in s.nk[s.nicks[n]].chans : TRUE
  BY <1>2 DEF Whole
<1>4. c \in Chans
  BY <1>1, <1>2, <1>3 DEF ChansAgree
<1> QED
  BY <1>3, <1>4 DEF Has

LEMMA HasIs ==
  ASSUME NEW s, Sound(s), NEW c, NEW n, Has(s, c, n)
  PROVE  Tracked(s, n) /\ c \in DOMAIN s.ch
BY DEF Has, Tracked, Sound, NamesAgree, ChansAgree

LEMMA StillStart ==
  ASSUME NEW s, Sound(s), NEW r, Still(r, s), NEW w, Start(s, w)
  PROVE  Start(r, w)
BY StillHas DEF Start

\* The name of somebody in the world, and a name nobody in it has.
LEMMA StartNames ==
  ASSUME NEW s, Sound(s), Whole(s), NEW w, Start(s, w), NEW n \in Names
  PROVE  In(w, n) <=> Tracked(s, n)
<1>1. MyName(s) \in Names /\ Tracked(s, MyName(s)) /\ w.me = MyName(s)
  BY MyNameIs DEF Start
<1>2. In(w, n) => Tracked(s, n)
  BY <1>1, HasIs DEF In, Start
<1>3. Tracked(s, n) => In(w, n)
  BY <1>1, TrackedIs DEF In, Start
<1> QED
  BY <1>2, <1>3

LEMMA JoinedStart ==
  ASSUME NEW s, Sound(s), Whole(s), NEW l, l.nick \in Names, l.chan \in Chans, NEW v, NEW w,
         Start(s, v), Joining(l, v, w)
  PROVE  Start(Joined(s, l), w)
<1> DEFINE r == Joined(s, l)
<1>1. /\ MyName(r) = MyName(s)
      /\ IF Has(s, l.chan, MyName(s)) \/ l.nick = MyName(s)
         THEN \A d \in Chans, m \in Names :
                Has(r, d, m) <=> Has(s, d, m) \/ (d = l.chan /\ m = l.nick)
         ELSE r = s
  BY JoinedSound
<1> HIDE DEF r
<1>2. /\ v.me = MyName(s) /\ w.me = v.me /\ MyName(s) \in Names
      /\ \A c \in Chans, n \in Names : Has(s, c, n) <=> n \in v.at[c]
      /\ \A d \in Chans : w.at[d] = IF d = l.chan THEN v.at[d] \cup {l.nick} ELSE v.at[d]
  BY MyNameIs DEF Start, Joining
<1>3. Has(s, l.chan, MyName(s)) \/ l.nick = MyName(s)
  BY <1>2 DEF Joining
<1>4. \A d \in Chans, m \in Names : Has(r, d, m) <=> Has(s, d, m) \/ (d = l.chan /\ m = l.nick)
  BY <1>1, <1>3
<1>5. ASSUME NEW d \in Chans, NEW m \in Names PROVE Has(r, d, m) <=> m \in w.at[d]
  <2>1. CASE d = l.chan
    <3>1. w.at[d] = v.at[d] \cup {l.nick}
      BY <1>2, <2>1
    <3> QED
      BY <1>2, <1>4, <2>1, <3>1
  <2>2. CASE d # l.chan
    <3>1. w.at[d] = v.at[d]
      BY <1>2, <2>2
    <3> QED
      BY <1>2, <1>4, <2>2, <3>1
  <2> QED
    BY <2>1, <2>2
<1>6. Start(r, w)
  BY <1>1, <1>2, <1>5 DEF Start
<1> QED
  BY <1>6 DEF r

LEMMA PartedStart ==
  ASSUME NEW s, Sound(s), Whole(s), NEW l, l.nick \in Names, l.chan \in Chans, NEW v, NEW w,
         Start(s, v), Parting(l, v, w)
  PROVE  Start(Dissociate(s, l.chan, l.nick), w)
<1> DEFINE r == Dissociate(s, l.chan, l.nick)
<1>1. /\ MyName(r) = MyName(s)
      /\ \A d \in Chans, n \in Names :
           Has(r, d, n) <=> Has(s, d, n) /\ ~(d = l.chan /\ (n = l.nick \/ l.nick = MyName(s)))
  BY DissociateSound
<1> HIDE DEF r
<1>2. /\ v.me = MyName(s) /\ w.me = v.me
      /\ \A c \in Chans, n \in Names : Has(s, c, n) <=> n \in v.at[c]
      /\ \A d \in Chans : w.at[d] = IF d # l.chan THEN v.at[d]
                                    ELSE IF l.nick = v.me THEN {} ELSE v.at[d] \ {l.nick}
  BY DEF Start, Parting
<1>3. ASSUME NEW d \in Chans, NEW m \in Names PROVE Has(r, d, m) <=> m \in w.at[d]
  <2>1. CASE d = l.chan
    <3>1. w.at[d] = IF l.nick = v.me THEN {} ELSE v.at[d] \ {l.nick}
      BY <1>2, <2>1
    <3>2. m \in w.at[d] <=> l.nick # v.me /\ m \in v.at[d] /\ m # l.nick
      BY <3>1
    <3> QED
      BY <1>1, <1>2, <2>1, <3>2
  <2>2. CASE d # l.chan
    <3>1. w.at[d] = v.at[d]
      BY <1>2, <2>2
    <3> QED
      BY <1>1, <1>2, <2>2, <3>1
  <2> QED
    BY <2>1, <2>2
<1>4. Start(r, w)
  BY <1>1, <1>2, <1>3 DEF Start
<1> QED
  BY <1>4 DEF r

LEMMA QuitStart ==
  ASSUME NEW s, Sound(s), Whole(s), NEW l, l.nick \in Names, NEW v, NEW w,
         Start(s, v), Quitting(l, v, w)
  PROVE  Start(DelNick(s, l.nick), w)
<1> DEFINE r == DelNick(s, l.nick)
<1>1. /\ MyName(r) = MyName(s)
      /\ \A c \in Chans, n \in Names :
           Has(r, c, n) <=> Has(s, c, n) /\ (n # l.nick \/ l.nick = MyName(s))
  BY DelNickSound
<1> HIDE DEF r
<1>2. /\ v.me = MyName(s) /\ w.me = v.me /\ l.nick # v.me
      /\ \A c \in Chans, n \in Names : Has(s, c, n) <=> n \in v.at[c]
      /\ \A d \in Chans : w.at[d] = v.at[d] \ {l.nick}
  BY DEF Start, Quitting
<1>3. Start(r, w)
  BY <1>1, <1>2 DEF Start
<1> QED
  BY <1>3 DEF r

LEMMA ReNickStart ==
  ASSUME NEW s, Sound(s), Whole(s), NEW l, l.nick \in Names, l.neu \in Names, NEW v, NEW w,
         Start(s, v), Renaming(l, v, w)
  PROVE  Start(ReNick(s, l.nick, l.neu), w)
<1> DEFINE r == ReNick(s, l.nick, l.neu)
<1>1. Tracked(s, l.nick) /\ ~Tracked(s, l.neu)
  BY StartNames DEF Renaming
<1>2. /\ MyName(r) = IF l.nick = MyName(s) THEN l.neu ELSE MyName(s)
      /\ \A c \in Chans, n \in Names :
           Has(r, c, n) <=> IF n = l.neu THEN Has(s, c, l.nick) ELSE n # l.nick /\ Has(s, c, n)
  BY <1>1, ReNickSound
<1> HIDE DEF r
<1>3. /\ v.me = MyName(s) /\ w.me = (IF l.nick = v.me THEN l.neu ELSE v.me)
      /\ \A c \in Chans, n \in Names : Has(s, c, n) <=> n \in v.at[c]
      /\ \A d \in Chans : w.at[d] = Renamed(v.at[d], l.nick, l.neu) /\ l.neu \notin v.at[d]
  BY DEF Start, Renaming, In
<1>4. ASSUME NEW c \in Chans, NEW n \in Names PROVE Has(r, c, n) <=> n \in w.at[c]
  <2>1. n \in w.at[c] <=> IF n = l.neu THEN l.nick \in v.at[c] ELSE n # l.nick /\ n \in v.at[c]
    BY <1>3 DEF Renamed
  <2> QED
    BY <1>2, <1>3, <2>1
<1>5. Start(r, w)
  BY <1>2, <1>3, <1>4 DEF Start
<1> QED
  BY <1>5 DEF r

LEMMA ListedStart ==
  ASSUME NEW s, Sound(s), Whole(s), NEW l, l.chan \in Chans, l.who \in SUBSET Names,
         NEW v, NEW w, Start(s, v), Listing(l, v, w)
  PROVE  l.chan \in DOMAIN s.ch /\ Start(NamesListed(s, l), w)
<1>1. /\ v.me = MyName(s) /\ w.me = v.me /\ MyName(s) \in Names /\ v.me \in v.at[l.chan]
      /\ \A c \in Chans, n \in Names : Has(s, c, n) <=> n \in v.at[c]
      /\ \A d \in Chans : w.at[d] = IF d = l.chan THEN v.at[d] \cup l.who ELSE v.at[d]
  BY MyNameIs DEF Start, Listing
<1>2. l.chan \in DOMAIN s.ch
  BY <1>1, HasIs
<1> DEFINE r == NamesListed(s, l)
<1>3. /\ MyName(r) = MyName(s)
      /\ \A d \in Chans, m \in Names :
           Has(r, d, m) <=> Has(s, d, m) \/ (d = l.chan /\ m \in l.who)
  BY <1>2, NamesListedSound
<1> HIDE DEF r
<1>4. \A d \in Chans, m \in Names : Has(r, d, m) <=> m \in w.at[d]
  BY <1>1, <1>3
<1>5. Start(r, w)
  BY <1>1, <1>3, <1>4 DEF Start
<1> QED
  BY <1>2, <1>5 DEF r

\* Without tracking only my name is followed.
LEMMA ReNickAlone ==
  ASSUME NEW s, Sound(s), Whole(s), Nobody(s), NEW old \in Names, NEW neu \in Names,
         neu # MyName(s)
  PROVE  /\ Nobody(ReNick(s, old, neu))
         /\ MyName(ReNick(s, old, neu)) = IF old = MyName(s) THEN neu ELSE MyName(s)
<1> DEFINE r == ReNick(s, old, neu)
<1>1. \A n \in Names : Tracked(s, n) <=> n = MyName(s)
  BY MyNameIs, TrackedIs DEF Nobody
<1>2. CASE old = MyName(s)
  <2>1. /\ MyName(r) = IF old = MyName(s) THEN neu ELSE MyName(s)
        /\ \A c \in Chans, n \in Names :
             Has(r, c, n) <=> IF n = neu THEN Has(s, c, old) ELSE n # old /\ Has(s, c, n)
    BY <1>1, <1>2, ReNickSound
  <2>2. Sound(r)
    BY <1>1, <1>2, ReNickSound
  <2>3. \A n \in Names :
          Unknown(r, n) <=> IF n = neu THEN Unknown(s, old) ELSE n # old /\ Unknown(s, n)
    BY <1>1, <1>2, ReNickRanks DEF RanksRenamed
  <2> HIDE DEF r
  <2>4. KnowsMe(r)
    BY <1>2, <2>1, <2>2, <2>3, KnowsMeIs DEF Nobody
  <2>5. Nobody(r)
    BY <2>1, <2>4 DEF Nobody
  <2> QED
    BY <2>1, <2>5 DEF r
<1>3. CASE old # MyName(s)
  <2>1. r = s
    BY <1>1, <1>3 DEF ReNick
  <2> QED
    BY <1>3, <2>1
<1> QED
  BY <1>2, <1>3

Shown(s, w) == w.me = MyName(s) /\ (tracking => Start(s, w)) /\ (~tracking => Nobody(s))

\* The tracker that shows a world shows the next once the line is handled.
LEMMA HandleShown ==
  ASSUME IInv, Handle, NEW v \in Worlds, NEW w \in Worlds, Members(Head(lines), v, w),
         Shown(st, v)
  PROVE  Shown(st', w)
<1> DEFINE l == Head(lines)
<1>1. /\ l \in Line /\ Sound(st) /\ Whole(st) /\ MyName(st) \in Names /\ tracking \in BOOLEAN
      /\ Members(l, v, w)
  BY HandleLines, NameIs DEF IInv, TrackerInv
<1> HIDE DEF l
<1>2. ASSUME w.at = v.at, w.me = v.me, NEW r, Sound(r), Still(r, st)
      PROVE  Shown(IF tracking THEN r ELSE st, w)
  <2>1. Shown(st, w)
    BY <1>2 DEF Shown, Start
  <2>2. tracking => Shown(r, w)
    <3>1. tracking => Start(r, w)
      BY <1>1, <2>1, <1>2, StillStart DEF Shown
    <3> QED
      BY <3>1 DEF Shown, Start
  <2> QED
    BY <2>1, <2>2
<1>3. ASSUME w.me = v.me, NEW r, tracking => Start(r, w)
      PROVE  Shown(IF tracking THEN r ELSE st, w)
  BY <1>1, <1>3 DEF Shown, Start
<1>4. Sound(st) /\ Still(st, st)
  BY <1>1 DEF Still
<1>5. tracking => Start(st, v)
  BY DEF Shown
<1>6. CASE h_JOIN
  <2>1. l.cmd = "JOIN" /\ l.nick \in Names /\ l.chan \in Chans
    BY <1>1, <1>6, LineIs DEF h_JOIN, Dispatched, l
  <2>2. st' = IF tracking THEN Joined(st, l) ELSE st
    BY <1>6 DEF h_JOIN, l
  <2>3. Joining(l, v, w) /\ w.me = v.me
    BY <1>1, <2>1 DEF Members, Joining
  <2>4. tracking => Start(Joined(st, l), w)
    BY <1>1, <1>5, <2>1, <2>3, JoinedStart
  <2> QED
    BY <1>3, <2>2, <2>3, <2>4
<1>7. CASE h_PART
  <2>1. l.cmd = "PART" /\ l.nick \in Names /\ l.chan \in Chans
    BY <1>1, <1>7, LineIs DEF h_PART, Dispatched, l
  <2>2. st' = IF tracking THEN Dissociate(st, l.chan, l.nick) ELSE st
    BY <1>7 DEF h_PART, Track, l
  <2>3. Parting(l, v, w) /\ w.me = v.me
    BY <1>1, <2>1 DEF Members, Parting
  <2>4. tracking => Start(Dissociate(st, l.chan, l.nick), w)
    BY <1>1, <1>5, <2>1, <2>3, PartedStart
  <2> QED
    BY <1>3, <2>2, <2>3, <2>4
<1>8. CASE h_QUIT
  <2>1. l.cmd = "QUIT" /\ l.nick \in Names
    BY <1>1, <1>8, LineIs DEF h_QUIT, Dispatched, l
  <2>2. st' = IF tracking THEN DelNick(st, l.nick) ELSE st
    BY <1>8 DEF h_QUIT, Track, l
  <2>3. Quitting(l, v, w) /\ w.me = v.me
    BY <1>1, <2>1 DEF Members, Quitting
  <2>4. tracking => Start(DelNick(st, l.nick), w)
    BY <1>1, <1>5, <2>1, <2>3, QuitStart
  <2> QED
    BY <1>3, <2>2, <2>3, <2>4
<1>9. CASE h_NICK
  <2>1. l.cmd = "NICK" /\ l.nick \in Names /\ l.neu \in Names
    BY <1>1, <1>9, LineIs DEF h_NICK, Dispatched, l
  <2>2. st' = ReNick(st, l.nick, l.neu)
    BY <1>9 DEF h_NICK, l
  <2>3. Renaming(l, v, w)
    BY <1>1, <2>1 DEF Members
  <2>4. CASE tracking
    <3>1. Start(st', w)
      BY <1>1, <1>5, <2>1, <2>2, <2>3, <2>4, ReNickStart
    <3> QED
      BY <2>4, <3>1 DEF Shown, Start
  <2>5. CASE ~tracking
    <3>1. Nobody(st) /\ v.me = MyName(st) /\ l.neu # v.me
          /\ w.me = (IF l.nick = v.me THEN l.neu ELSE v.me)
      BY <2>3, <2>5 DEF Shown, Renaming, In
    <3>2. Nobody(st') /\ MyName(st') = IF l.nick = MyName(st) THEN l.neu ELSE MyName(st)
      BY <1>1, <2>1, <2>2, <3>1, ReNickAlone
    <3> QED
      BY <2>5, <3>1, <3>2 DEF Shown
  <2> QED
    BY <2>4, <2>5
<1>10. CASE h_433
  <2>1. l.cmd = "433"
    BY <1>10 DEF h_433, Dispatched, l
  <2>2. w.at = v.at /\ w.me = v.me /\ l.nick # v.me
    BY <1>1, <2>1 DEF Members
  <2>3. st' = st
    BY <1>10, <2>2 DEF h_433, Shown, l
  <2> QED
    BY <1>2, <1>4, <2>2, <2>3
<1>11. CASE h_MODE
  <2>1. l.cmd \in {"MODE", "324"} /\ l.modes \in Seq(Mode) /\ l.args \in ArgsOfModes
    BY <1>1, <1>11, LineIs DEF h_MODE, Dispatched, l
  <2>2. w.at = v.at /\ w.me = v.me
    BY <1>1, <2>1 DEF Members
  <2> DEFINE r == [st EXCEPT !.ch[l.chan] = ParseModes(@, l.modes, l.args)]
  <2>3. st' = IF tracking THEN IF l.chan \in DOMAIN st.ch THEN r ELSE st ELSE st
    BY <1>11 DEF h_MODE, Track, l
  <2>4. l.chan \in DOMAIN st.ch => Sound(r) /\ Still(r, st)
    BY <1>1, <2>1, ModesSound
  <2> HIDE DEF r
  <2> QED
    BY <1>2, <1>4, <2>2, <2>3, <2>4
<1>12. CASE h_TOPIC
  <2>1. l.cmd \in {"TOPIC", "332"} /\ l.topic \in BOOLEAN
    BY <1>1, <1>12, LineIs DEF h_TOPIC, Dispatched, l
  <2>2. w.at = v.at /\ w.me = v.me
    BY <1>1, <2>1 DEF Members
  <2> DEFINE r == [st EXCEPT !.ch[l.chan].topic = l.topic]
  <2>3. st' = IF tracking THEN IF l.chan \in DOMAIN st.ch THEN r ELSE st ELSE st
    BY <1>12 DEF h_TOPIC, Track, l
  <2>4. l.chan \in DOMAIN st.ch => Sound(r) /\ Still(r, st)
    BY <1>1, <2>1, TopicSound
  <2> HIDE DEF r
  <2> QED
    BY <1>2, <1>4, <2>2, <2>3, <2>4
<1>13. CASE h_353
  <2>1. l.cmd = "353" /\ l.who \in SUBSET Names /\ l.chan \in Chans
    BY <1>1, <1>13, LineIs DEF h_353, Dispatched, l
  <2>2. st' = IF tracking THEN IF l.chan \in DOMAIN st.ch THEN NamesListed(st, l) ELSE st ELSE st
    BY <1>13 DEF h_353, Track, l
  <2>3. Listing(l, v, w) /\ w.me = v.me
    BY <1>1, <2>1 DEF Members, Listing
  <2>4. tracking => l.chan \in DOMAIN st.ch /\ Start(NamesListed(st, l), w)
    BY <1>1, <1>5, <2>1, <2>3, ListedStart
  <2>5. st' = IF tracking THEN NamesListed(st, l) ELSE st
    BY <2>2, <2>4
  <2> QED
    BY <1>3, <2>3, <2>4, <2>5
<1>14. CASE h_352
  <2>1. l.cmd \in {"311", "352"}
    BY <1>14 DEF h_352, Dispatched, l
  <2>2. w.at = v.at /\ w.me = v.me
    BY <1>1, <2>1 DEF Members
  <2> DEFINE told == {st.nicks[n] : n \in Head(lines).who \cap DOMAIN st.nicks}
             r == [st EXCEPT !.nk = [i \in DOMAIN st.nk |->
                       [st.nk[i] EXCEPT !.known = @ \/ i \in told]]]
  <2>3. st' = IF tracking THEN r ELSE st
    BY <1>14 DEF h_352, Track
  <2>4. Sound(r) /\ Still(r, st)
    <3> HIDE DEF told
    <3> QED
      BY <1>1, KnownSound
  <2> HIDE DEF r
  <2> QED
    BY <1>2, <2>2, <2>3, <2>4
<1> QED
  BY <1>6, <1>7, <1>8, <1>9, <1>10, <1>11, <1>12, <1>13, <1>14 DEF Handle

-----------------------------------------------------------------------------
(* And so it is with topics, modes, privileges and idents.                 *)

Ranked(s, w, ms) ==
  /\ w.me \notin w.new
  /\ \A n \in Names : Unknown(s, n) <=> n \in w.new
  /\ "ban" \notin ms =>
       /\ \A c \in Chans, n \in Names : OpOn(s, c, n) <=> n \in w.ops[c]
       /\ \A c \in Chans : (Moded(s, c) <=> c \in w.mode) /\ (Topical(s, c) <=> c \in w.topic)

\* A tracker has the channels I am on.
LEMMA ChanThere ==
  ASSUME NEW s, Sound(s), Whole(s), NEW w, Start(s, w), NEW c \in Chans
  PROVE  /\ c \in DOMAIN s.ch <=> w.at[c] \cap Names # {}
         /\ c \in DOMAIN s.ch <=> w.me \in w.at[c]
<1>1. NamesAgree(s) /\ ChansAgree(s) /\ Me \in DOMAIN s.nk /\ MyName(s) \in Names
      /\ Tracked(s, MyName(s))
  BY MyNameIs DEF Sound
<1>2. s.nicks[MyName(s)] = Me
  BY <1>1 DEF NamesAgree, MyName
<1>3. c \in DOMAIN s.ch => Has(s, c, MyName(s))
  BY <1>1, <1>2 DEF Whole, Has
<1>4. \A n \in Names : Has(s, c, n) => c \in DOMAIN s.ch
  BY HasIs
<1>5. w.me = MyName(s) /\ \A n \in Names : Has(s, c, n) <=> n \in w.at[c]
  BY DEF Start
<1>6. c \in DOMAIN s.ch => w.me \in w.at[c]
  BY <1>1, <1>3, <1>5
<1>7. w.at[c] \cap Names # {} => c \in DOMAIN s.ch
  BY <1>4, <1>5
<1> QED
  BY <1>1, <1>5, <1>6, <1>7

LEMMA ThinsRanked ==
  ASSUME NEW s, NEW r, Sound(r), Whole(r), NEW v, NEW w \in Worlds, NEW ms,
         Start(s, v), Start(r, w), Ranked(s, v, ms), Thins(r, s), w.me = v.me,
         \A n \in Names : n \in w.new <=> n \in v.new /\ In(w, n),
         "ban" \notin ms => Thinned(v, w)
  PROVE  Ranked(r, w, ms)
<1>1. w.me \in Names /\ w.at \in [Chans -> SUBSET Names]
  BY DEF Worlds
<1>2. w.me \notin w.new
  BY <1>1 DEF Ranked
<1>3. \A n \in Names : Unknown(r, n) <=> n \in w.new
  BY StartNames DEF Thins, Ranked
<1>4. ASSUME "ban" \notin ms, NEW c \in Chans, NEW n \in Names
      PROVE  OpOn(r, c, n) <=> n \in w.ops[c]
  <2>1. OpOn(r, c, n) <=> OpOn(s, c, n) /\ Has(r, c, n)
    BY DEF Thins, RanksKept
  <2>2. OpOn(s, c, n) <=> n \in v.ops[c]
    BY <1>4 DEF Ranked
  <2>3. Has(r, c, n) <=> n \in w.at[c]
    BY DEF Start
  <2>4. w.ops[c] = v.ops[c] \cap w.at[c]
    BY <1>4 DEF Thinned
  <2> QED
    BY <2>1, <2>2, <2>3, <2>4
<1>5. ASSUME "ban" \notin ms, NEW c \in Chans
      PROVE  (Moded(r, c) <=> c \in w.mode) /\ (Topical(r, c) <=> c \in w.topic)
  <2>1. /\ Moded(r, c) <=> Moded(s, c) /\ c \in DOMAIN r.ch
        /\ Topical(r, c) <=> Topical(s, c) /\ c \in DOMAIN r.ch
    BY DEF Thins, RanksKept
  <2>2. (Moded(s, c) <=> c \in v.mode) /\ (Topical(s, c) <=> c \in v.topic)
    BY <1>5 DEF Ranked
  <2>3. c \in DOMAIN r.ch <=> w.at[c] # {}
    <3>1. c \in DOMAIN r.ch <=> w.at[c] \cap Names # {}
      BY ChanThere
    <3>2. w.at[c] \subseteq Names
      BY <1>1
    <3> QED
      BY <3>1, <3>2
  <2>4. /\ c \in w.topic <=> c \in v.topic /\ w.at[c] # {}
        /\ c \in w.mode <=> c \in v.mode /\ w.at[c] # {}
    BY <1>5 DEF Thinned
  <2> QED
    BY <2>1, <2>2, <2>3, <2>4
<1> QED
  BY <1>2, <1>3, <1>4, <1>5 DEF Ranked

LEMMA RenamedRanked ==
  ASSUME NEW s, NEW r, NEW v \in Worlds, NEW w \in Worlds, NEW ms, NEW l,
         l.nick \in Names, l.neu \in Names, Sound(s), Whole(s),
         Start(s, v), Ranked(s, v, ms), RanksRenamed(r, s, l.nick, l.neu),
         Renaming(l, v, w), w.new = Renamed(v.new, l.nick, l.neu),
         "ban" \notin ms => /\ w.topic = v.topic /\ w.mode = v.mode
                            /\ \A d \in Chans : w.ops[d] = Renamed(v.ops[d], l.nick, l.neu)
  PROVE  Ranked(r, w, ms)
<1>1. /\ w.me = (IF l.nick = v.me THEN l.neu ELSE v.me) /\ ~In(v, l.neu)
      /\ v.me \in Names /\ v.me # l.neu
  BY DEF Renaming, Worlds, In
<1>2. ~Tracked(s, l.neu)
  BY <1>1, StartNames
<1>3. l.neu \notin v.new /\ v.me \notin v.new
      /\ \A n \in Names : Unknown(s, n) <=> n \in v.new
  BY <1>2 DEF Ranked, Unknown
<1>4. \A n \in Names : n \in w.new <=> IF n = l.neu THEN l.nick \in v.new ELSE n # l.nick /\ n \in v.new
  BY <1>3 DEF Renamed
<1>5. w.me \notin w.new
  BY <1>1, <1>3, <1>4
<1>6. \A n \in Names : Unknown(r, n) <=> n \in w.new
  BY <1>3, <1>4 DEF RanksRenamed
<1>7. ASSUME "ban" \notin ms, NEW c \in Chans, NEW n \in Names
      PROVE  OpOn(r, c, n) <=> n \in w.ops[c]
  <2>1. \A k \in Names : OpOn(s, c, k) <=> k \in v.ops[c]
    BY <1>7 DEF Ranked
  <2>2. l.neu \notin v.ops[c]
    BY <1>2, <2>1 DEF OpOn, Has
  <2>3. n \in w.ops[c] <=> IF n = l.neu THEN l.nick \in v.ops[c] ELSE n # l.nick /\ n \in v.ops[c]
    BY <1>7, <2>2 DEF Renamed
  <2> QED
    BY <2>1, <2>3 DEF RanksRenamed
<1>8. ASSUME "ban" \notin ms, NEW c \in Chans
      PROVE  (Moded(r, c) <=> c \in w.mode) /\ (Topical(r, c) <=> c \in w.topic)
  BY <1>8 DEF Ranked, RanksRenamed, SameModes, SameTopics
<1> QED
  BY <1>5, <1>6, <1>7, <1>8 DEF Ranked

LEMMA ListedRanked ==
  ASSUME NEW s, NEW r, NEW v \in Worlds, NEW w \in Worlds, NEW ms, NEW l, Sound(s), Whole(s),
         l.who \in SUBSET Names, Start(s, v), Ranked(s, v, ms),
         Lists353(r, s, l.chan, l.who, l.withOp), w.me = v.me,
         w.new = v.new \cup {n \in l.who : ~In(v, n)},
         "ban" \notin ms =>
           /\ w.topic = v.topic /\ w.mode = v.mode
           /\ \A d \in Chans : w.ops[d] = IF d = l.chan THEN v.ops[d] \cup (l.who \cap l.withOp)
                                          ELSE v.ops[d]
  PROVE  Ranked(r, w, ms)
<1>1. v.me \notin v.new /\ \A n \in Names : Unknown(s, n) <=> n \in v.new
  BY DEF Ranked
<1>2. w.me \notin w.new
  BY <1>1 DEF In
<1>3. ASSUME NEW n \in Names PROVE Unknown(r, n) <=> n \in w.new
  <2>1. In(v, n) <=> Tracked(s, n)
    BY StartNames
  <2>2. Unknown(r, n) <=> Unknown(s, n) \/ (n \in l.who /\ ~Tracked(s, n))
    BY DEF Lists353
  <2>3. n \in w.new <=> n \in v.new \/ (n \in l.who /\ ~In(v, n))
    OBVIOUS
  <2> QED
    BY <1>1, <2>1, <2>2, <2>3
<1>4. ASSUME "ban" \notin ms, NEW c \in Chans, NEW n \in Names
      PROVE  OpOn(r, c, n) <=> n \in w.ops[c]
  <2>1. OpOn(s, c, n) <=> n \in v.ops[c]
    BY <1>4 DEF Ranked
  <2>2. n \in w.ops[c] <=> n \in v.ops[c] \/ (c = l.chan /\ n \in l.who /\ n \in l.withOp)
    BY <1>4
  <2>3. OpOn(r, c, n) <=> OpOn(s, c, n) \/ (c = l.chan /\ n \in l.who /\ n \in l.withOp)
    BY DEF Lists353
  <2> QED
    BY <2>1, <2>2, <2>3
<1>5. ASSUME "ban" \notin ms, NEW c \in Chans
      PROVE  (Moded(r, c) <=> c \in w.mode) /\ (Topical(r, c) <=> c \in w.topic)
  BY <1>5 DEF Ranked, Lists353
<1> QED
  BY <1>2, <1>3, <1>4, <1>5 DEF Ranked

LEMMA ModedRanked ==
  ASSUME NEW s, Sound(s), Whole(s), NEW v \in Worlds, NEW w \in Worlds, NEW ms, NEW l,
         l.chan \in Chans, l.cmd \in {"MODE", "324"}, Start(s, v), Ranked(s, v, ms),
         Moves(l, v, w, ms)
  PROVE  Ranked(IF l.chan \in DOMAIN s.ch
                THEN [s EXCEPT !.ch[l.chan] = ParseModes(@, l.modes, l.args)] ELSE s, w, ms)
<1> DEFINE c == l.chan
           y == ParseModes(s.ch[c], l.modes, l.args)
           r == [s EXCEPT !.ch = [s.ch EXCEPT ![c] = y]]
           t == IF c \in DOMAIN s.ch THEN r ELSE s
<1>1. w.me = v.me /\ w.new = v.new
  BY DEF Moves, Members, News
<1>2. ASSUME "ban" \notin ms
      PROVE  /\ w.topic = v.topic
             /\ \/ l.modes = <<>> /\ w.ops = v.ops /\ w.mode = v.mode
                \/ Flagging(l, v, w)
                \/ Promoting(l, v, w)
  BY <1>2 DEF Moves, Ranks
<1>3. c \in DOMAIN s.ch <=> v.me \in v.at[c]
  BY ChanThere
<1>4. c \in DOMAIN s.ch => SameNews(r, s)
  <2> HIDE DEF y
  <2> QED
    BY EditedRanks DEF SameNews
<1>5. SameNews(s, s) /\ SameOps(s, s) /\ SameModes(s, s) /\ SameTopics(s, s)
  BY DEF SameNews, SameOps, SameModes, SameTopics
<1>6. /\ \A n \in Names : Unknown(s, n) <=> n \in v.new
      /\ v.me \notin v.new
      /\ "ban" \notin ms =>
           /\ \A d \in Chans, n \in Names : OpOn(s, d, n) <=> n \in v.ops[d]
           /\ \A d \in Chans : (Moded(s, d) <=> d \in v.mode) /\ (Topical(s, d) <=> d \in v.topic)
  BY DEF Ranked
<1>7. w.me \notin w.new /\ \A n \in Names : Unknown(t, n) <=> n \in w.new
  <2> HIDE DEF r
  <2> QED
    BY <1>1, <1>4, <1>6 DEF SameNews
<1>8. ASSUME "ban" \notin ms
      PROVE  /\ SameTopics(t, s)
             /\ \A d \in Chans, n \in Names : OpOn(t, d, n) <=> n \in w.ops[d]
             /\ \A d \in Chans : Moded(t, d) <=> d \in w.mode
  <2>1. r = [s EXCEPT !.ch[c] = ParseModes(@, l.modes, l.args)]
    OBVIOUS
  <2>2. CASE l.modes = <<>> /\ w.ops = v.ops /\ w.mode = v.mode
    <3>1. c \in DOMAIN s.ch => SameOps(r, s) /\ SameModes(r, s) /\ SameTopics(r, s)
      <4>1. r = [s EXCEPT !.ch[c] = ParseModes(@, <<>>, l.args)]
        BY <2>2
      <4> HIDE DEF r, c
      <4> QED
        BY <4>1, NoModeRanks
    <3> HIDE DEF r
    <3>2. SameOps(t, s) /\ SameModes(t, s) /\ SameTopics(t, s)
      BY <1>5, <3>1
    <3> QED
      BY <1>6, <1>8, <2>2, <3>2 DEF SameOps, SameModes
  <2>3. CASE Flagging(l, v, w)
    <3>1. PICK add \in BOOLEAN :
            /\ l.modes = <<OneMode(add, "m")>> /\ w.ops = v.ops
            /\ w.mode = IF v.me \notin v.at[c] THEN v.mode
                        ELSE IF add THEN v.mode \cup {c} ELSE v.mode \ {c}
      BY <2>3 DEF Flagging
    <3>2. c \in DOMAIN s.ch =>
            /\ SameOps(r, s) /\ SameTopics(r, s)
            /\ \A d \in Chans : Moded(r, d) <=> IF d = c THEN add = TRUE ELSE Moded(s, d)
      <4>1. r = [s EXCEPT !.ch[c] = ParseModes(@, <<OneMode(add, "m")>>, l.args)]
        BY <2>1, <3>1
      <4> HIDE DEF r, c
      <4> QED
        BY <4>1, FlagRanks
    <3> HIDE DEF r
    <3>3. CASE c \notin DOMAIN s.ch
      BY <1>3, <1>5, <1>6, <1>8, <3>1, <3>3
    <3>4. CASE c \in DOMAIN s.ch
      <4>1. t = r
        BY <3>4
      <4>2. \A d \in Chans, n \in Names : OpOn(t, d, n) <=> n \in w.ops[d]
        BY <1>6, <1>8, <3>1, <3>2, <3>4, <4>1 DEF SameOps
      <4>3. w.mode = IF add THEN v.mode \cup {c} ELSE v.mode \ {c}
        BY <1>3, <3>1, <3>4
      <4>4. \A d \in Chans : Moded(t, d) <=> d \in w.mode
        BY <1>6, <1>8, <3>2, <3>4, <4>1, <4>3
      <4> QED
        BY <3>2, <3>4, <4>1, <4>2, <4>4
    <3> QED
      BY <3>3, <3>4
  <2>4. CASE Promoting(l, v, w)
    <3>1. PICK add \in BOOLEAN, n \in v.at[c] :
            /\ l.modes = <<OneMode(add, "o")>> /\ l.args = <<n>> /\ w.mode = v.mode
            /\ \A d \in Chans : w.ops[d] = IF d # c THEN v.ops[d]
                                           ELSE IF add THEN v.ops[d] \cup {n} ELSE v.ops[d] \ {n}
      BY <2>4 DEF Promoting
    <3>2. n \in Names /\ Has(s, c, n) /\ c \in DOMAIN s.ch
      <4>1. n \in Names
        BY <3>1 DEF Worlds
      <4>2. Has(s, c, n)
        BY <3>1, <4>1 DEF Start
      <4> QED
        BY <4>1, <4>2, HasIs
    <3>3. /\ SameModes(r, s) /\ SameTopics(r, s)
          /\ \A d \in Chans, k \in Names :
               OpOn(r, d, k) <=> IF d = c /\ k = n THEN add = TRUE ELSE OpOn(s, d, k)
      <4>1. r = [s EXCEPT !.ch[c] = ParseModes(@, <<OneMode(add, "o")>>, <<n>>)]
        BY <2>1, <3>1
      <4> HIDE DEF r, c
      <4> QED
        BY <3>2, <4>1, PrivilegeRanks
    <3> HIDE DEF r
    <3>4. t = r
      BY <3>2
    <3>5. ASSUME NEW d \in Chans, NEW k \in Names PROVE OpOn(r, d, k) <=> k \in w.ops[d]
      <4>1. OpOn(s, d, k) <=> k \in v.ops[d]
        BY <1>6, <1>8
      <4>2. OpOn(r, d, k) <=> IF d = c /\ k = n THEN add = TRUE ELSE OpOn(s, d, k)
        BY <3>3
      <4>3. w.ops[d] = IF d # c THEN v.ops[d]
                       ELSE IF add THEN v.ops[d] \cup {n} ELSE v.ops[d] \ {n}
        BY <3>1
      <4> QED
        BY <4>1, <4>2, <4>3
    <3>6. \A d \in Chans : Moded(r, d) <=> d \in w.mode
      BY <1>6, <1>8, <3>1, <3>3 DEF SameModes
    <3> QED
      BY <3>3, <3>4, <3>5, <3>6
  <2> QED
    BY <1>2, <1>8, <2>2, <2>3, <2>4
<1>9. ASSUME "ban" \notin ms, NEW d \in Chans PROVE Topical(t, d) <=> d \in w.topic
  <2> HIDE DEF t
  <2> QED
    BY <1>2, <1>6, <1>8, <1>9 DEF SameTopics
<1> HIDE DEF t
<1>10. Ranked(t, w, ms)
  BY <1>7, <1>8, <1>9 DEF Ranked
<1>11. t = IF l.chan \in DOMAIN s.ch
           THEN [s EXCEPT !.ch[l.chan] = ParseModes(@, l.modes, l.args)] ELSE s
  BY DEF t
<1> QED
  BY <1>10, <1>11

LEMMA TopicRanked ==
  ASSUME NEW s, Sound(s), Whole(s), NEW v \in Worlds, NEW w \in Worlds, NEW ms, NEW l,
         l.chan \in Chans, l.cmd \in {"TOPIC", "332"}, l.topic \in BOOLEAN, Start(s, v),
         Ranked(s, v, ms), Moves(l, v, w, ms)
  PROVE  Ranked(IF l.chan \in DOMAIN s.ch THEN [s EXCEPT !.ch[l.chan].topic = l.topic] ELSE s, w, ms)
<1> DEFINE c == l.chan
           r == [s EXCEPT !.ch[c].topic = l.topic]
<1>1. w.me = v.me /\ w.new = v.new /\ v.me \in v.at[c]
  BY DEF Moves, Members, News
<1>2. c \in DOMAIN s.ch
  BY <1>1, ChanThere
<1>3. /\ SameOps(r, s) /\ SameModes(r, s) /\ SameNews(r, s)
      /\ \A d \in Chans : Topical(r, d) <=> IF d = c THEN l.topic = TRUE ELSE Topical(s, d)
  <2> HIDE DEF c
  <2> QED
    BY <1>2, TopicRanks
<1> HIDE DEF r
<1>4. w.me \notin w.new /\ \A n \in Names : Unknown(r, n) <=> n \in w.new
  BY <1>1, <1>3 DEF SameNews, Ranked
<1>5. ASSUME "ban" \notin ms
      PROVE  /\ w.ops = v.ops /\ w.mode = v.mode
             /\ w.topic = IF l.topic THEN v.topic \cup {c} ELSE v.topic \ {c}
             /\ \A d \in Chans, n \in Names : OpOn(s, d, n) <=> n \in v.ops[d]
             /\ \A d \in Chans : (Moded(s, d) <=> d \in v.mode) /\ (Topical(s, d) <=> d \in v.topic)
  BY <1>5 DEF Moves, Ranks, Ranked
<1>6. ASSUME "ban" \notin ms
      PROVE  /\ \A d \in Chans, n \in Names : OpOn(r, d, n) <=> n \in w.ops[d]
             /\ \A d \in Chans : Moded(r, d) <=> d \in w.mode
  BY <1>3, <1>5, <1>6 DEF SameOps, SameModes
<1>7. ASSUME "ban" \notin ms, NEW d \in Chans PROVE Topical(r, d) <=> d \in w.topic
  BY <1>3, <1>5, <1>7
<1>8. Ranked(r, w, ms)
  BY <1>4, <1>6, <1>7 DEF Ranked
<1> QED
  BY <1>2, <1>8 DEF r

LEMMA KnownRanked ==
  ASSUME NEW s, Sound(s), NEW v, NEW w, NEW ms, NEW l, l.cmd \in {"311", "352"},
         l.who \in SUBSET Names, Ranked(s, v, ms), Moves(l, v, w, ms)
  PROVE  LET told == {s.nicks[n] : n \in l.who \cap DOMAIN s.nicks}
         IN  Ranked([s EXCEPT !.nk = [i \in DOMAIN s.nk |->
                       [s.nk[i] EXCEPT !.known = @ \/ i \in told]]], w, ms)
<1> DEFINE told == {s.nicks[n] : n \in l.who \cap DOMAIN s.nicks}
           r == [s EXCEPT !.nk = [i \in DOMAIN s.nk |->
                    [s.nk[i] EXCEPT !.known = @ \/ i \in told]]]
<1>1. w.me = v.me /\ w.new = v.new \ l.who
  BY DEF Moves, Members, News
<1>2. /\ SameOps(r, s) /\ SameModes(r, s) /\ SameTopics(r, s)
      /\ \A n \in Names : Unknown(r, n) <=> Unknown(s, n) /\ n \notin l.who
  BY KnownRanks
<1> HIDE DEF r
<1>3. w.me \notin w.new /\ \A n \in Names : Unknown(r, n) <=> n \in w.new
  BY <1>1, <1>2 DEF Ranked
<1>4. ASSUME "ban" \notin ms
      PROVE  /\ \A c \in Chans, n \in Names : OpOn(r, c, n) <=> n \in w.ops[c]
             /\ \A c \in Chans : (Moded(r, c) <=> c \in w.mode) /\ (Topical(r, c) <=> c \in w.topic)
  <2>1. w.ops = v.ops /\ w.topic = v.topic /\ w.mode = v.mode
    BY <1>4 DEF Moves, Ranks
  <2> QED
    BY <1>2, <1>4, <2>1 DEF Ranked, SameOps, SameModes, SameTopics
<1>5. Ranked(r, w, ms)
  BY <1>3, <1>4 DEF Ranked
<1> QED
  BY <1>5 DEF r

LEMMA HandleRanked ==
  ASSUME IInv, Handle, tracking, NEW v \in Worlds, NEW w \in Worlds, NEW ms,
         Moves(Head(lines), v, w, ms), Start(st, v), NEW r, r = st', Start(r, w), Sound(r), Whole(r),
         Ranked(st, v, ms)
  PROVE  Ranked(r, w, ms)
<1> DEFINE l == Head(lines)
           s == st
<1>1. l \in Line /\ Sound(s) /\ Whole(s) /\ MyName(s) \in Names /\ Moves(l, v, w, ms)
      /\ Start(s, v) /\ Ranked(s, v, ms)
  BY HandleLines, NameIs DEF IInv, TrackerInv
<1> HIDE DEF l
<1>2. ASSUME l.cmd \in {"JOIN", "PART", "QUIT"}, Thins(r, s) PROVE Ranked(r, w, ms)
  <2>1. w.me = v.me /\ w.new = {n \in v.new : In(w, n)} /\ ("ban" \notin ms => Thinned(v, w))
    BY <1>1, <1>2 DEF Moves, Members, News, Ranks, Joining, Parting, Quitting
  <2>2. \A n \in Names : n \in w.new <=> n \in v.new /\ In(w, n)
    BY <2>1
  <2> HIDE DEF s
  <2> QED
    BY <1>1, <1>2, <2>1, <2>2, ThinsRanked
<1>3. CASE h_JOIN
  <2>1. l.cmd = "JOIN" /\ l.nick \in Names /\ l.chan \in Chans
    BY <1>1, <1>3, LineIs DEF h_JOIN, Dispatched, l
  <2>2. r = Joined(s, l)
    BY <1>3 DEF h_JOIN, l
  <2>3. Thins(r, s)
    BY <1>1, <2>1, <2>2, JoinedRanks
  <2> QED
    BY <1>2, <2>1, <2>3
<1>4. CASE h_PART
  <2>1. l.cmd = "PART" /\ l.nick \in Names /\ l.chan \in Chans
    BY <1>1, <1>4, LineIs DEF h_PART, Dispatched, l
  <2>2. r = Dissociate(s, l.chan, l.nick)
    BY <1>4 DEF h_PART, Track, l
  <2>3. Thins(r, s)
    BY <1>1, <2>1, <2>2, DissociateRanks
  <2> QED
    BY <1>2, <2>1, <2>3
<1>5. CASE h_QUIT
  <2>1. l.cmd = "QUIT" /\ l.nick \in Names
    BY <1>1, <1>5, LineIs DEF h_QUIT, Dispatched, l
  <2>2. r = DelNick(s, l.nick)
    BY <1>5 DEF h_QUIT, Track, l
  <2>3. Thins(r, s)
    BY <1>1, <2>1, <2>2, DelNickRanks
  <2> QED
    BY <1>2, <2>1, <2>3
<1>6. CASE h_NICK
  <2>1. l.cmd = "NICK" /\ l.nick \in Names /\ l.neu \in Names
    BY <1>1, <1>6, LineIs DEF h_NICK, Dispatched, l
  <2>2. r = ReNick(s, l.nick, l.neu)
    BY <1>6 DEF h_NICK, l
  <2>3. /\ Renaming(l, v, w) /\ w.new = Renamed(v.new, l.nick, l.neu)
        /\ "ban" \notin ms => /\ w.topic = v.topic /\ w.mode = v.mode
                               /\ \A d \in Chans : w.ops[d] = Renamed(v.ops[d], l.nick, l.neu)
    BY <1>1, <2>1 DEF Moves, Members, News, Ranks
  <2>4. RanksRenamed(r, s, l.nick, l.neu)
    <3>1. Tracked(s, l.nick) /\ ~Tracked(s, l.neu)
      BY <1>1, <2>1, <2>3, StartNames DEF Renaming
    <3> QED
      BY <1>1, <2>1, <2>2, <3>1, ReNickRanks
  <2> HIDE DEF s
  <2> QED
    BY <1>1, <2>1, <2>3, <2>4, RenamedRanked
<1>7. CASE h_433
  <2>1. l.cmd = "433"
    BY <1>7 DEF h_433, Dispatched, l
  <2>2. /\ w.me = v.me /\ w.new = v.new /\ l.nick # v.me
        /\ "ban" \notin ms => w.ops = v.ops /\ w.topic = v.topic /\ w.mode = v.mode
    BY <1>1, <2>1 DEF Moves, Members, News, Ranks
  <2>3. r = s
    BY <1>1, <1>7, <2>2 DEF h_433, Start, l
  <2> QED
    BY <1>1, <2>2, <2>3 DEF Ranked
<1>8. CASE h_MODE
  <2>1. l.cmd \in {"MODE", "324"} /\ l.chan \in Chans
    BY <1>1, <1>8, LineIs DEF h_MODE, Dispatched, l
  <2>2. r = IF l.chan \in DOMAIN s.ch
            THEN [s EXCEPT !.ch[l.chan] = ParseModes(@, l.modes, l.args)] ELSE s
    BY <1>8 DEF h_MODE, Track, l
  <2> HIDE DEF s
  <2>3. Ranked(IF l.chan \in DOMAIN s.ch
               THEN [s EXCEPT !.ch[l.chan] = ParseModes(@, l.modes, l.args)] ELSE s, w, ms)
    BY <1>1, <2>1, ModedRanked
  <2> QED
    BY <2>2, <2>3
<1>9. CASE h_TOPIC
  <2>1. l.cmd \in {"TOPIC", "332"} /\ l.chan \in Chans /\ l.topic \in BOOLEAN
    BY <1>1, <1>9, LineIs DEF h_TOPIC, Dispatched, l
  <2>2. r = IF l.chan \in DOMAIN s.ch THEN [s EXCEPT !.ch[l.chan].topic = l.topic] ELSE s
    BY <1>9 DEF h_TOPIC, Track, l
  <2> HIDE DEF s
  <2>3. Ranked(IF l.chan \in DOMAIN s.ch THEN [s EXCEPT !.ch[l.chan].topic = l.topic] ELSE s, w, ms)
    BY <1>1, <2>1, TopicRanked
  <2> QED
    BY <2>2, <2>3
<1>10. CASE h_353
  <2>1. l.cmd = "353" /\ l.chan \in Chans /\ l.who \in SUBSET Names
    BY <1>1, <1>10, LineIs DEF h_353, Dispatched, l
  <2>2. r = IF l.chan \in DOMAIN s.ch THEN NamesListed(s, l) ELSE s
    BY <1>10 DEF h_353, Track, l
  <2>3. /\ v.me \in v.at[l.chan] /\ w.me = v.me /\ w.new = v.new \cup {n \in l.who : ~In(v, n)}
        /\ "ban" \notin ms =>
             /\ w.topic = v.topic /\ w.mode = v.mode
             /\ \A d \in Chans : w.ops[d] = IF d = l.chan THEN v.ops[d] \cup (l.who \cap l.withOp)
                                            ELSE v.ops[d]
    BY <1>1, <2>1 DEF Moves, Members, News, Ranks, Listing
  <2>4. l.chan \in DOMAIN s.ch
    BY <1>1, <2>1, <2>3, ChanThere
  <2>5. Lists353(r, s, l.chan, l.who, l.withOp)
    BY <1>1, <2>1, <2>2, <2>4, NamesListedRanks
  <2> HIDE DEF s
  <2> QED
    BY <1>1, <2>1, <2>3, <2>5, ListedRanked
<1>11. CASE h_352
  <2>1. l.cmd \in {"311", "352"}
    BY <1>11 DEF h_352, Dispatched, l
  <2>2. l.who \in SUBSET Names
    BY <1>1, <2>1 DEF Line
  <2> DEFINE told == {s.nicks[n] : n \in l.who \cap DOMAIN s.nicks}
  <2>3. r = [s EXCEPT !.nk = [i \in DOMAIN s.nk |-> [s.nk[i] EXCEPT !.known = @ \/ i \in told]]]
    BY <1>11 DEF h_352, Track, l
  <2> HIDE DEF s
  <2>4. Ranked([s EXCEPT !.nk = [i \in DOMAIN s.nk |-> [s.nk[i] EXCEPT !.known = @ \/ i \in told]]],
               w, ms)
    BY <1>1, <2>1, <2>2, KnownRanked
  <2> QED
    BY <2>3, <2>4
<1> QED
  BY <1>3, <1>4, <1>5, <1>6, <1>7, <1>8, <1>9, <1>10, <1>11 DEF Handle

-----------------------------------------------------------------------------
(* What is pending stays so while the client handles lines: with its own   *)
(* JOIN it asks for what it has to know.                                   *)

Among(a, q) == \E i \in 1..Len(q) : q[i] = a

LEMMA WantedTells ==
  ASSUME NEW s, NEW l, l.nick \in Names, l.chan \in Chans, l.chan \notin DOMAIN s.ch,
         Joined(s, l) # s, NEW cmd \in {"MODE", "WHO"}
  PROVE  Among(Ask(cmd, l.chan), Wanted(s, l))
<1> DEFINE a == <<Ask("MODE", l.chan), Ask("WHO", l.chan)>>
           b == IF Tracked(s, l.nick) THEN <<>> ELSE <<Ask("WHO", l.nick)>>
<1>1. a \in Seq(Asked) /\ Len(a) = 2 /\ a[1] = Ask("MODE", l.chan) /\ a[2] = Ask("WHO", l.chan)
  BY AskedAre
<1>2. b \in Seq(Asked)
  BY AskedAre
<1>3. Wanted(s, l) = a \o b
  BY DEF Wanted
<1> HIDE DEF a, b
<1>4. /\ Len(a \o b) = 2 + Len(b) /\ Len(b) \in Nat
      /\ \A i \in 1..2 : (a \o b)[i] = a[i]
  <2>1. a \in Seq(Asked) /\ b \in Seq(Asked)
    BY <1>1, <1>2
  <2>2. Len(a \o b) = Len(a) + Len(b)
    BY <2>1, ConcatProperties
  <2>3. \A i \in 1..Len(a) + Len(b) : (a \o b)[i] = IF i <= Len(a) THEN a[i] ELSE b[i - Len(a)]
    BY <2>1, ConcatProperties
  <2>4. Len(b) \in Nat
    BY <2>1
  <2> QED
    BY <1>1, <2>2, <2>3, <2>4
<1>5. 1 \in 1..Len(a \o b) /\ 2 \in 1..Len(a \o b) /\ 1 \in 1..2 /\ 2 \in 1..2
  BY <1>4
<1> QED
  BY <1>1, <1>3, <1>4, <1>5 DEF Among

LEMMA AskedMore ==
  ASSUME NEW x \in Seq(Asked), NEW y \in Seq(Asked), NEW a, Among(a, x) \/ Among(a, y)
  PROVE  Among(a, x \o y)
<1>1. /\ Len(x \o y) = Len(x) + Len(y) /\ Len(x) \in Nat /\ Len(y) \in Nat
      /\ \A i \in 1..Len(x) : (x \o y)[i] = x[i]
      /\ \A i \in Len(x) + 1..Len(x) + Len(y) : (x \o y)[i] = y[i - Len(x)]
  BY ConcatProperties
<1>2. CASE Among(a, x)
  <2>1. PICK i \in 1..Len(x) : x[i] = a
    BY <1>2 DEF Among
  <2>2. i \in 1..Len(x \o y)
    BY <1>1
  <2> QED
    BY <1>1, <2>1, <2>2 DEF Among
<1>3. CASE Among(a, y)
  <2>1. PICK i \in 1..Len(y) : y[i] = a
    BY <1>3 DEF Among
  <2>2. i + Len(x) \in 1..Len(x \o y) /\ i + Len(x) \in Len(x) + 1..Len(x) + Len(y)
        /\ (i + Len(x)) - Len(x) = i
    BY <1>1
  <2> QED
    BY <1>1, <2>1, <2>2 DEF Among
<1> QED
  BY <1>2, <1>3

LEMMA HandleAsks ==
  ASSUME IInv, Handle
  PROVE  \E x \in Seq(Asked) : /\ asked' = asked \o x
                               /\ h_JOIN /\ tracking => x = Wanted(st, Head(lines))
<1>1. Head(lines) \in Line /\ asked \in Seq(Asked)
  BY HandleLines DEF IInv, LinesOK
<1>2. <<>> \in Seq(Asked) /\ asked \o <<>> = asked
  BY <1>1
<1>3. CASE h_JOIN
  <2>1. Head(lines).nick \in Names /\ Head(lines).chan \in Chans
    BY <1>1, <1>3, LineIs DEF h_JOIN, Dispatched
  <2>2. Wanted(st, Head(lines)) \in Seq(Asked)
    BY <2>1, WantedAre
  <2>3. CASE tracking
    BY <1>3, <2>2, <2>3 DEF h_JOIN
  <2>4. CASE ~tracking
    BY <1>2, <1>3, <2>4 DEF h_JOIN
  <2> QED
    BY <2>3, <2>4
<1>4. CASE h_433
  <2>1. Head(lines).cmd = "433" /\ Head(lines).nick \in Names
    BY <1>1, <1>4, LineIs DEF h_433, Dispatched
  <2>2. asked' = Append(asked, Ask("NICK", NewNick[Head(lines).nick]))
    BY <1>4 DEF h_433
  <2>3. PICK a : a = Ask("NICK", NewNick[Head(lines).nick])
    OBVIOUS
  <2>4. a \in Asked
    BY <2>1, <2>3, AskedAre, TrackerConstants
  <2>5. \A x \in Asked : <<x>> \in Seq(Asked)
    OBVIOUS
  <2>6. asked' = asked \o <<a>>
    BY <1>1, <2>2, <2>3, <2>4
  <2>7. ~h_JOIN
    BY <2>1 DEF h_JOIN, Dispatched
  <2> QED
    BY <2>4, <2>5, <2>6, <2>7
<1>5. CASE ~h_JOIN /\ ~h_433
  <2>1. asked' = asked
    BY <1>5 DEF Handle, h_PART, h_QUIT, h_NICK, h_MODE, h_TOPIC, h_353, h_352, Track
  <2> QED
    BY <1>2, <1>5, <2>1
<1> QED
  BY <1>3, <1>4, <1>5

\* The first line is a JOIN that the topic or the names follow: it is mine.
LEMMA ArrivingIsMine ==
  ASSUME NEW l, NEW k, NEW v, NEW w, NEW x, NEW c, l.cmd = "JOIN", l.chan = c, c \in Chans,
         k.cmd \in {"332", "353"}, k.chan = c, Members(l, v, w), Members(k, w, x)
  PROVE  l.nick = v.me /\ v.at[c] = {} /\ w.me \in w.at[c]
<1>1. w.at[c] = {w.me}
  BY DEF Members, Listing
<1>2. /\ w.at[c] = v.at[c] \cup {l.nick} /\ w.me = v.me
      /\ IF l.nick = v.me THEN v.at[c] = {} ELSE v.me \in v.at[c] \ {l.nick}
  BY DEF Members, Joining
<1> QED
  BY <1>1, <1>2

LEMMA HandlePending ==
  ASSUME IInv, Handle, tracking, NEW v \in Worlds, NEW w \in Worlds, NEW b, NEW ms,
         Moves(Head(lines), v, w, ms), Path(Tail(lines), w, b, ms), Start(st, v),
         NEW r, r = st', Start(r, w), NEW cmd \in {"MODE", "WHO"}
  PROVE  Pending(cmd) \subseteq Pending(cmd)'
<1> SUFFICES ASSUME NEW c \in Pending(cmd) PROVE c \in Pending(cmd)'
  OBVIOUS
<1>1. /\ lines \in Seq(Line) /\ lines # <<>> /\ lines' = Tail(lines) /\ asked \in Seq(Asked)
      /\ c \in Chans /\ Sound(st) /\ Whole(st)
  BY DEF IInv, LinesOK, TrackerInv, Pending, Handle, h_JOIN, h_PART, h_QUIT, h_NICK, h_433,
         h_MODE, h_TOPIC, h_353, h_352, Dispatched
<1>2. PICK x \in Seq(Asked) : asked' = asked \o x /\ (h_JOIN => x = Wanted(st, Head(lines)))
  BY HandleAsks
<1>3. CASE Among(Ask(cmd, c), asked)
  <2>1. Among(Ask(cmd, c), asked \o x)
    BY <1>1, <1>3, AskedMore
  <2>2. Among(Ask(cmd, c), asked')
    BY <1>2, <2>1
  <2> QED
    BY <1>1, <2>2 DEF Pending, Among
<1>4. CASE Arriving(c)
  <2>1. PICK i \in 1..Len(lines) - 1 :
          /\ lines[i].cmd = "JOIN" /\ lines[i].chan = c
          /\ lines[i + 1].cmd \in {"332", "353"} /\ lines[i + 1].chan = c
    BY <1>4 DEF Arriving
  <2>2. /\ Len(lines) \in Nat /\ Len(lines') = Len(lines) - 1 /\ Head(lines) = lines[1]
        /\ \A k \in 1..Len(lines) - 1 : lines'[k] = lines[k + 1]
    BY <1>1
  <2>3. CASE i # 1
    <3>1. /\ i - 1 \in 1..Len(lines') - 1 /\ (i - 1) + 1 = i
          /\ lines'[i - 1] = lines[i] /\ lines'[i] = lines[i + 1]
      BY <2>2, <2>3
    <3>2. Arriving(c)'
      BY <2>1, <3>1 DEF Arriving
    <3> QED
      BY <1>1, <3>2 DEF Pending
  <2>4. CASE i = 1
    <3> DEFINE l == Head(lines)
               k == Head(Tail(lines))
    <3>1. /\ l.cmd = "JOIN" /\ l.chan = c /\ k.cmd \in {"332", "353"} /\ k.chan = c
          /\ Tail(lines) # <<>> /\ Tail(lines) \in Seq(Line)
      <4>1. 2 \in 1..Len(lines) /\ 1 \in 1..Len(lines) - 1 /\ 1 + 1 = 2
        BY <2>1, <2>2, <2>4
      <4>2. Tail(lines) \in Seq(Line) /\ Len(Tail(lines)) >= 1
        BY <1>1, <2>2, <4>1
      <4>3. Tail(lines) # <<>> /\ k = Tail(lines)[1]
        <5>1. \A z \in Seq(Line) : Len(z) >= 1 => z # <<>> /\ Head(z) = z[1]
          OBVIOUS
        <5> QED
          BY <4>2, <5>1
      <4> QED
        BY <1>1, <2>1, <2>2, <2>4, <4>1, <4>2, <4>3
    <3>2. PICK y \in Worlds : Moves(k, w, y, ms)
      BY <3>1, PathHead
    <3> HIDE DEF k, l
    <3>3. Members(l, v, w) /\ Members(k, w, y)
      BY <3>2 DEF Moves, l
    <3>4. l.nick = v.me /\ v.at[c] = {} /\ w.me \in w.at[c]
      BY <1>1, <3>1, <3>3, ArrivingIsMine
    <3>5. h_JOIN /\ l.nick \in Names
      <4>1. h_JOIN
        BY <3>1 DEF Handle, h_JOIN, h_PART, h_QUIT, h_NICK, h_433, h_MODE, h_TOPIC, h_353, h_352,
                    Dispatched, l
      <4> QED
        BY <3>1, <4>1, HandleLines, LineIs DEF l
    <3>6. c \notin DOMAIN st.ch
      BY <1>1, <3>4, ChanThere
    <3>7. Joined(st, l) # st
      <4>1. r = Joined(st, l)
        BY <3>5 DEF h_JOIN, l
      <4>2. w.me \in Names /\ Has(r, c, w.me)
        BY <1>1, <3>4 DEF Start, Worlds
      <4>3. ~Has(st, c, w.me)
        BY <1>1, <3>4, <4>2 DEF Start
      <4> QED
        BY <4>1, <4>2, <4>3
    <3>8. Among(Ask(cmd, c), x)
      <4>1. x = Wanted(st, l) /\ l.chan = c /\ l.chan \in Chans
        BY <1>1, <1>2, <3>1, <3>5 DEF l
      <4>2. Among(Ask(cmd, l.chan), Wanted(st, l))
        BY <3>5, <3>6, <3>7, <4>1, WantedTells
      <4> QED
        BY <4>1, <4>2
    <3>9. Among(Ask(cmd, c), asked \o x)
      BY <1>1, <3>8, AskedMore
    <3>10. Among(Ask(cmd, c), asked')
      BY <1>2, <3>9
    <3> QED
      BY <1>1, <3>10 DEF Pending, Among
  <2> QED
    BY <2>3, <2>4
<1> QED
  BY <1>3, <1>4 DEF Pending, Among

\* What is so at the server stays so, and nothing pending is forgotten.
LEMMA PendingSame ==
  ASSUME UNCHANGED <<server, mishaps>>, Pending("MODE") \subseteq Pending("MODE")',
         Pending("WHO") \subseteq Pending("WHO")', NEW md, NEW new, Tuned(md), Owed(new)
  PROVE  Tuned(md)' /\ Owed(new)'
BY DEF Tuned, Owed, server

-----------------------------------------------------------------------------
(* The lines on their way lead from what the tracker shows to what is so.  *)

Rest(md, new) == Tuned(md) /\ Owed(new)
OnTheWay ==
  \E v \in Worlds : \E md \in SUBSET Chans, new \in SUBSET Names :
    /\ Path(lines, v, Real(md, new), mishaps) /\ Shown(st, v)
    /\ tracking => Ranked(st, v, mishaps) /\ Rest(md, new)
Registers ==
  \/ lines = <<>> /\ asked = <<Ask("NICK", MyName(st))>>
  \/ lines = <<InUse(MyName(st))>> /\ asked = <<>>
Faithful == mishaps \cap {"stale", "late"} = {}

Follows ==
  Faithful =>
    /\ ~tracking \/ link # "up" => Nobody(st)
    /\ link = "down" => lines = <<>> /\ asked = <<>>
    /\ link = "registering" => Registers
    /\ link = "up" => OnTheWay

\* A step that ends up with the connection up.
LEMMA FollowsUp ==
  ASSUME link' = "up", NEW v \in Worlds, NEW md \in SUBSET Chans, NEW new \in SUBSET Names,
         Path(lines', v, Then(md, new), mishaps'), v.me = MyName(st'),
         tracking' => Start(st', v), tracking' => Ranked(st', v, mishaps'),
         tracking' => Rest(md, new)', ~tracking' => Nobody(st')
  PROVE  Follows'
<1>1. Shown(st, v)'
  BY DEF Shown
<1>2. Real(md, new)' = Then(md, new)
  BY DEF Real, Then
<1>3. Ranked(st, v, mishaps)' <=> Ranked(st', v, mishaps')
  BY DEF Ranked, Unknown, OpOn, Moded, Topical, Has, Tracked
<1>4. OnTheWay'
  BY <1>1, <1>2, <1>3 DEF OnTheWay
<1> QED
  BY <1>1, <1>4 DEF Follows, Shown

LEMMA RankedMore ==
  ASSUME NEW s, NEW w, NEW ms, NEW ns, ms \subseteq ns, Ranked(s, w, ms)
  PROVE  Ranked(s, w, ns)
BY DEF Ranked

\* The tracker always knows my ident.
LEMMA FollowsKnowsMe ==
  ASSUME IInv, Follows, Faithful
  PROVE  KnowsMe(st)
<1>1. CASE ~tracking \/ link # "up"
  BY <1>1 DEF Follows, Nobody
<1>2. CASE tracking /\ link = "up"
  <2>1. PICK v \in Worlds : Shown(st, v) /\ Ranked(st, v, mishaps)
    BY <1>2 DEF Follows, OnTheWay
  <2>2. Sound(st) /\ v.me = MyName(st) /\ MyName(st) \in Names
    BY <2>1, NameIs DEF IInv, TrackerInv, Shown
  <2>3. ~Unknown(st, MyName(st))
    BY <2>1, <2>2 DEF Ranked
  <2> QED
    BY <2>2, <2>3, KnowsMeIs
<1> QED
  BY <1>1, <1>2

\* What the server tells comes after what is on its way.
LEMMA TellsFollows ==
  ASSUME LinesOK, link = "up", link' = "up", Tells, UNCHANGED client, mishaps \subseteq mishaps',
         Follows
  PROVE  Follows'
<1> SUFFICES ASSUME Faithful' PROVE Follows'
  BY DEF Follows
<1>1. tracking' = tracking /\ st' = st /\ Faithful
  BY DEF client, Faithful
<1>2. PICK v \in Worlds, md \in SUBSET Chans, new \in SUBSET Names :
        /\ Path(lines, v, Real(md, new), mishaps) /\ Shown(st, v)
        /\ tracking => Ranked(st, v, mishaps) /\ Rest(md, new)
  BY <1>1 DEF Follows, OnTheWay
<1>3. PICK ls \in Seq(Line) : lines' = lines \o ls /\ Goes(ls)
  BY DEF Tells
<1>4. PICK md2 \in SUBSET Chans, new2 \in SUBSET Names :
        /\ Path(ls, Real(md, new), Then(md2, new2), mishaps')
        /\ Tuned(md) /\ Owed(new) => Tuned(md2)' /\ Owed(new2)'
  BY <1>3 DEF Goes
<1>5. Path(lines, v, Real(md, new), mishaps')
  BY <1>2, PathMore
<1>6. Path(lines', v, Then(md2, new2), mishaps')
  BY <1>3, <1>4, <1>5, PathThen DEF LinesOK
<1>7. tracking => Ranked(st, v, mishaps')
  BY <1>2, RankedMore
<1>8. tracking => Rest(md2, new2)'
  BY <1>2, <1>4 DEF Rest
<1>9. v.me = MyName(st) /\ (tracking => Start(st, v)) /\ (~tracking => Nobody(st))
  BY <1>2 DEF Shown
<1> QED
  BY <1>1, <1>6, <1>7, <1>8, <1>9, FollowsUp

LEMMA HandleFollows ==
  ASSUME IInv, IInv', Handle, Follows
  PROVE  Follows'
<1> SUFFICES ASSUME Faithful' PROVE Follows'
  BY DEF Follows
<1>1. /\ link # "down" /\ lines # <<>> /\ lines' = Tail(lines)
      /\ UNCHANGED <<tracking, server, link, mishaps>>
  BY DEF Handle, h_JOIN, h_PART, h_QUIT, h_NICK, h_433, h_MODE, h_TOPIC, h_353, h_352, Dispatched
<1>2. Faithful /\ Sound(st) /\ Whole(st) /\ MyName(st) \in Names /\ link \in {"down", "registering", "up"}
  BY <1>1, NameIs DEF Faithful, IInv, TrackerInv, ServerOK
<1>3. CASE link = "up"
  <2>1. PICK v \in Worlds, md \in SUBSET Chans, new \in SUBSET Names :
          /\ Path(lines, v, Real(md, new), mishaps) /\ Shown(st, v)
          /\ tracking => Ranked(st, v, mishaps) /\ Rest(md, new)
    BY <1>2, <1>3 DEF Follows, OnTheWay
  <2>2. PICK w \in Worlds :
          Moves(Head(lines), v, w, mishaps) /\ Path(Tail(lines), w, Real(md, new), mishaps)
    BY <1>1, <2>1, PathHead DEF IInv, LinesOK
  <2>3. Shown(st', w)
    BY <2>1, <2>2, HandleShown DEF Moves
  <2>4. Then(md, new) = Real(md, new)
    BY <1>1 DEF Then, Real, server
  <2>5. Path(lines', w, Then(md, new), mishaps')
    BY <1>1, <2>2, <2>4
  <2>6. PICK r : r = st'
    OBVIOUS
  <2>7. Sound(r) /\ Whole(r)
    BY <2>6 DEF IInv, TrackerInv, Sound, Whole, NamesAgree, ChansAgree, LookupsAgree
  <2>8. tracking => Start(st, v) /\ Start(r, w)
    BY <2>1, <2>3, <2>6, <1>1 DEF Shown
  <2>9. tracking => Ranked(r, w, mishaps)
    BY <2>1, <2>2, <2>6, <2>7, <2>8, HandleRanked
  <2>10. tracking => /\ Pending("MODE") \subseteq Pending("MODE")'
                     /\ Pending("WHO") \subseteq Pending("WHO")'
    <3>1. ASSUME tracking, NEW cmd \in {"MODE", "WHO"} PROVE Pending(cmd) \subseteq Pending(cmd)'
      BY <2>2, <2>6, <2>8, <3>1, HandlePending
    <3> QED
      BY <3>1
  <2>11. tracking => Rest(md, new)'
    <3>1. UNCHANGED <<server, mishaps>>
      BY <1>1
    <3> QED
      BY <2>1, <2>10, <3>1, PendingSame DEF Rest
  <2>12. w.me = MyName(st') /\ (tracking => Start(st', w)) /\ (~tracking => Nobody(st'))
    BY <1>1, <2>3 DEF Shown
  <2>13. tracking => Ranked(st', w, mishaps')
    BY <1>1, <2>6, <2>9
  <2> QED
    BY <1>1, <1>3, <2>5, <2>11, <2>12, <2>13, FollowsUp
<1>4. CASE link = "registering"
  <2>1. lines = <<InUse(MyName(st))>> /\ asked = <<>> /\ Nobody(st)
    BY <1>1, <1>2, <1>4 DEF Follows, Registers
  <2>2. Head(lines).cmd = "433" /\ Head(lines).nick = MyName(st) /\ lines' = <<>>
    BY <1>1, <2>1 DEF InUse
  <2>3. h_433
    BY <2>2 DEF Handle, h_JOIN, h_PART, h_QUIT, h_NICK, h_MODE, h_TOPIC, h_353, h_352, Dispatched
  <2> DEFINE m == NewNick[MyName(st)]
  <2>4. m \in Names
    BY <1>2, TrackerConstants
  <2>5. st' = ReNick(st, MyName(st), m) /\ asked' = Append(asked, Ask("NICK", m))
    BY <2>2, <2>3 DEF h_433
  <2> HIDE DEF m
  <2>6. asked' = <<Ask("NICK", m)>>
    BY <2>1, <2>5
  <2>7. Nobody(st') /\ MyName(st') = m
    <3>1. CASE m = MyName(st)
      <4>1. ReNick(st, m, m) = st
        BY DEF ReNick
      <4> QED
        BY <2>1, <2>5, <3>1, <4>1
    <3>2. CASE m # MyName(st)
      BY <1>2, <2>1, <2>4, <2>5, <3>2, ReNickAlone
    <3> QED
      BY <3>1, <3>2
  <2>8. Registers'
    <3>1. MyName(st)' = m
      BY <2>7 DEF MyName
    <3> QED
      BY <2>2, <2>6, <3>1 DEF Registers
  <2>9. Nobody(st)'
    BY <2>7 DEF Nobody, KnowsMe
  <2> QED
    BY <1>1, <1>4, <2>8, <2>9 DEF Follows
<1> QED
  BY <1>1, <1>2, <1>3, <1>4

\* Nothing is sent before the client is registered.
LEMMA WorldFollows ==
  ASSUME IInv, IInv', World, Follows
  PROVE  Follows'
<1>1. /\ UNCHANGED client /\ ServerOK /\ LinesOK /\ ServerOK'
  BY WorldKeeps DEF IInv
<1>2. link' = link /\ asked' = asked /\ mishaps \subseteq mishaps'
  BY Zenon DEF World, Join, Leave, Quit, Arrive, Rename, SetModes, SetTopic, Sends
<1>3. CASE link = "up"
  BY <1>1, <1>2, <1>3, WorldGoes, TellsFollows
<1>4. CASE link # "up"
  <2>1. lines' = lines \o <<>>
    BY <1>4, Zenon DEF World, Join, Leave, Quit, Arrive, Rename, SetModes, SetTopic, Sends, SeenByUs, OnIt
  <2>2. lines' = lines
    BY <1>1, <2>1 DEF LinesOK
  <2>3. tracking' = tracking /\ st' = st
    BY <1>1 DEF client
  <2> QED
    BY <1>2, <1>4, <2>2, <2>3 DEF Follows, Faithful, Registers, Nobody
<1> QED
  BY <1>3, <1>4

\* A tracker that shows nobody shows the world of who is on no channel.
LEMMA NobodyRanked ==
  ASSUME NEW s, Sound(s), Whole(s), Nobody(s), NEW w, NEW o, NEW p, NEW t, NEW ms,
         Looks(w, MyName(s), o, p, t, {}, {}), \A c \in Chans : MyName(s) \notin o[c]
  PROVE  Ranked(s, w, ms)
<1>1. w.me = MyName(s) /\ \A c \in Chans : w.at[c] = {}
  BY DEF Looks, Sees
<1>2. w.mode = {} /\ w.new = {} /\ \A c \in Chans : w.ops[c] = {} /\ c \notin w.topic
  BY DEF Looks
<1>3. Start(s, w)
  BY <1>1 DEF Start, Nobody
<1>4. \A n \in Names : ~Unknown(s, n)
  BY KnowsMeIs, TrackedIs DEF Unknown, Nobody
<1>5. \A c \in Chans : c \notin DOMAIN s.ch
  BY <1>1, <1>3, ChanThere
<1>6. /\ \A c \in Chans, n \in Names : ~OpOn(s, c, n)
      /\ \A c \in Chans : ~Moded(s, c) /\ ~Topical(s, c)
  BY <1>5 DEF OpOn, Moded, Topical, Nobody
<1> QED
  BY <1>2, <1>4, <1>6 DEF Ranked

\* The server's answer to the NICK of a client that is not registered.
LEMMA ServerFollows ==
  ASSUME IInv, IInv', Server, Follows
  PROVE  Follows'
<1>1. /\ UNCHANGED client /\ ServerOK /\ LinesOK /\ ServerOK'
  BY ServerKeeps DEF IInv
<1>2. /\ link # "down" /\ asked' = Tail(asked) /\ mishaps' = mishaps /\ asked # <<>>
      /\ tracking' = tracking /\ st' = st /\ link \in {"down", "registering", "up"}
      /\ Sound(st) /\ Whole(st)
  BY DEF Server, AnswerWho, AnswerMode, AnswerWhois, AnswerNick, Answers, client, ServerOK, IInv, TrackerInv
<1>3. CASE link = "up"
  BY <1>1, <1>2, <1>3, ServerGoes, TellsFollows
<1>4. CASE link = "registering"
  <2> SUFFICES ASSUME Faithful' PROVE Follows'
    BY DEF Follows
  <2>1. lines = <<>> /\ asked = <<Ask("NICK", MyName(st))>> /\ Nobody(st)
    BY <1>2, <1>4 DEF Follows, Faithful, Registers
  <2> DEFINE n == MyName(st)
             free == n \notin Everyone
  <2>2. Head(asked).cmd = "NICK" /\ Head(asked).arg = n /\ asked' = <<>>
    BY <1>2, <2>1 DEF Ask
  <2>3. /\ lines' = lines \o (IF n \in online THEN <<InUse(n)>> ELSE <<>>)
        /\ mine' = (IF free THEN n ELSE mine)
        /\ UNCHANGED <<online, on, ops, mode, topic>>
        /\ link' = (IF free THEN "up" ELSE link)
    <3>1. AnswerNick
      BY <2>2 DEF Server, AnswerWho, AnswerMode, AnswerWhois, Answers
    <3> QED
      BY <1>4, <2>2, <3>1 DEF AnswerNick, Answers
  <2>4. n \in Names /\ mine = NoName /\ Everyone = online
    BY <1>1, <1>2, <1>4, MyNameIs DEF ServerOK, Everyone
  <2>5. CASE free
    <3>1. lines' = <<>> /\ mine' = n /\ link' = "up"
      BY <2>1, <2>3, <2>4, <2>5
    <3>2. {} \in SUBSET Chans /\ {} \in SUBSET Names
      OBVIOUS
    <3> DEFINE w == Then({}, {})
    <3>3. w \in Worlds /\ Looks(w, n, on, ops, topic, {}, {})
      <4>1. w \in Worlds /\ Looks(w, mine', on', ops', topic', {}, {})
        BY <1>1, <3>1, <3>2, ThenIs
      <4>2. mine' = n /\ on' = on /\ ops' = ops /\ topic' = topic
        BY <2>3, <3>1
      <4> HIDE DEF w, n
      <4> QED
        BY <4>1, <4>2
    <3> HIDE DEF w
    <3>4. \A c \in Chans : n \notin on[c]
      BY <1>1, <2>5 DEF ServerOK
    <3>5. w.me = n /\ \A c \in Chans : w.at[c] = {}
      BY <3>3, <3>4 DEF Looks, Sees
    <3>6. Start(st', w) /\ Nobody(st') /\ MyName(st') = n
      BY <1>2, <2>1, <3>5 DEF Start, Nobody
    <3>7. Path(lines', w, w, mishaps')
      BY <3>1, <3>3, PathNone
    <3>9. Ranked(st', w, mishaps')
      BY <1>2, <2>1, <3>3, <3>4, NobodyRanked
    <3>8. Rest({}, {})'
      BY <2>3, <3>1, <3>4 DEF Rest, Tuned, Owed
    <3> QED
      BY <3>1, <3>2, <3>3, <3>5, <3>6, <3>7, <3>8, <3>9, FollowsUp DEF w
  <2>6. CASE ~free
    <3>1. lines' = <<InUse(n)>> /\ link' = "registering"
      BY <1>4, <2>1, <2>3, <2>4, <2>6
    <3>2. Registers' /\ Nobody(st)'
      BY <1>2, <2>1, <2>2, <3>1 DEF Registers, Nobody, KnowsMe
    <3> QED
      BY <3>1, <3>2 DEF Follows
  <2> QED
    BY <2>5, <2>6
<1> QED
  BY <1>2, <1>3, <1>4

\* A connection that loses nothing on its way wipes the tracker.
LEMMA LoseFollows ==
  ASSUME IInv, Lose, Follows
  PROVE  Follows'
<1> SUFFICES ASSUME Faithful' PROVE Follows'
  BY DEF Follows
<1>1. /\ link' = "down" /\ tracking' = tracking /\ st' = (IF tracking THEN Wipe(st) ELSE st)
      /\ mishaps' = mishaps \cup (IF lines' = <<>> /\ asked' = <<>> THEN {} ELSE {"stale"})
      /\ Sound(st) /\ Whole(st)
  BY DEF Lose, IInv, TrackerInv
<1>2. lines' = <<>> /\ asked' = <<>> /\ Faithful
  BY <1>1 DEF Faithful
<1>3. Nobody(st')
  <2>1. Nobody(Wipe(st))
    BY <1>1, <1>2, FollowsKnowsMe, WipeSound DEF Nobody
  <2>2. ~tracking => Nobody(st)
    BY <1>2 DEF Follows
  <2> QED
    BY <1>1, <2>1, <2>2
<1>4. Nobody(st)'
  BY <1>3 DEF Nobody, KnowsMe
<1> QED
  BY <1>1, <1>2, <1>4 DEF Follows

LEMMA ConnectFollows ==
  ASSUME IInv, Connect, Follows
  PROVE  Follows'
<1> SUFFICES ASSUME Faithful' PROVE Follows'
  BY DEF Follows
<1>1. /\ link = "down" /\ link' = "registering" /\ asked' = Append(asked, Ask("NICK", MyName(st)))
      /\ tracking' = tracking /\ st' = st /\ lines' = lines /\ mishaps' = mishaps
  BY DEF Connect, client
<1>2. lines = <<>> /\ asked = <<>> /\ Nobody(st)
  BY <1>1 DEF Follows, Faithful
<1>3. Registers' /\ Nobody(st)'
  BY <1>1, <1>2 DEF Registers, Nobody, KnowsMe
<1> QED
  BY <1>1, <1>3 DEF Follows

\* Who enables tracking while on a channel, or with lines on their way, is late.
LEMMA EnableFollows ==
  ASSUME IInv, EnableStateTracking, Follows
  PROVE  Follows'
<1> SUFFICES ASSUME Faithful' PROVE Follows'
  BY DEF Follows
<1>1. /\ ~tracking /\ tracking' = TRUE /\ st' = NewTracker(MyName(st))
      /\ mishaps' = mishaps \cup
           (IF lines # <<>> \/ \E c \in Chans : mine \in on[c] THEN {"late"} ELSE {})
      /\ UNCHANGED <<server, link, lines, asked>> /\ Sound(st)
  BY DEF EnableStateTracking, IInv, TrackerInv
<1>2. Faithful /\ lines = <<>> /\ \A c \in Chans : mine \notin on[c]
  BY <1>1 DEF Faithful
<1>3. MyName(st') = MyName(st) /\ Nobody(st')
  BY <1>1, MyNameIs, NewTrackerSound DEF Nobody
<1>4. Nobody(st)' /\ (Registers => Registers')
  BY <1>1, <1>3 DEF Nobody, Registers, MyName, KnowsMe
<1>5. CASE link # "up"
  BY <1>1, <1>2, <1>4, <1>5 DEF Follows
<1>6. CASE link = "up"
  <2>1. PICK v \in Worlds, md \in SUBSET Chans, new \in SUBSET Names :
          Path(<<>>, v, Real(md, new), mishaps) /\ Shown(st, v)
    BY <1>2, <1>6 DEF Follows, OnTheWay
  <2>2. v = Real(md, new) /\ Sees(v, mine, on) /\ v.me = MyName(st)
    <3>1. v = Real(md, new)
      BY <2>1, PathEnds
    <3>2. Looks(Real(md, new), mine, on, ops, topic, md, new)
      BY <1>6, RealIs DEF IInv
    <3> QED
      BY <2>1, <3>1, <3>2 DEF Looks, Shown
  <2>3. {} \in SUBSET Chans /\ {} \in SUBSET Names
    OBVIOUS
  <2> DEFINE w == Real({}, {})
  <2>4. w \in Worlds /\ Looks(w, mine, on, ops, topic, {}, {}) /\ mine = MyName(st)
    BY <1>6, <2>2, <2>3, RealIs DEF IInv, Sees
  <2>5. w = Then({}, {})
    BY <1>1 DEF Then, Real, server
  <2> HIDE DEF w
  <2>6. Path(lines', w, w, mishaps')
    BY <1>1, <1>2, <2>4, PathNone
  <2> DEFINE r == NewTracker(MyName(st))
  <2>7. Sound(r) /\ Whole(r) /\ MyName(r) = MyName(st) /\ Nobody(r)
    BY <1>1, MyNameIs, NewTrackerSound DEF Nobody
  <2> HIDE DEF r
  <2>8. Start(r, w)
    BY <1>2, <2>4, <2>7 DEF Start, Nobody, Looks, Sees
  <2>9. Ranked(r, w, mishaps')
    BY <1>2, <2>4, <2>7, NobodyRanked
  <2>10. Rest({}, {})'
    BY <1>1, <1>2 DEF Rest, Tuned, Owed, server
  <2>11. st' = r
    BY <1>1 DEF r
  <2>12. w.me = MyName(r)
    BY <2>8 DEF Start
  <2> QED
    BY <1>1, <1>6, <2>3, <2>4, <2>5, <2>6, <2>8, <2>9, <2>10, <2>11, <2>12, FollowsUp
<1> QED
  BY <1>5, <1>6

LEMMA DisableFollows ==
  ASSUME IInv, DisableStateTracking, Follows
  PROVE  Follows'
<1> SUFFICES ASSUME Faithful' PROVE Follows'
  BY DEF Follows
<1>1. /\ tracking' = FALSE /\ st' = Wipe(st) /\ UNCHANGED <<server, link, lines, asked, mishaps>>
      /\ Sound(st) /\ Whole(st)
  BY DEF DisableStateTracking, IInv, TrackerInv
<1>2. Faithful
  BY <1>1 DEF Faithful
<1>3. MyName(st') = MyName(st) /\ Nobody(st')
  BY <1>1, <1>2, FollowsKnowsMe, WipeSound DEF Nobody
<1>4. Nobody(st)' /\ (Registers => Registers')
  BY <1>1, <1>3 DEF Nobody, Registers, MyName, KnowsMe
<1>5. CASE link # "up"
  BY <1>1, <1>2, <1>4, <1>5 DEF Follows
<1>6. CASE link = "up"
  <2>1. PICK v \in Worlds, md \in SUBSET Chans, new \in SUBSET Names :
          Path(lines, v, Real(md, new), mishaps) /\ Shown(st, v)
    BY <1>2, <1>6 DEF Follows, OnTheWay
  <2>2. Then(md, new) = Real(md, new)
    BY <1>1 DEF Then, Real, server
  <2> QED
    BY <1>1, <1>3, <1>6, <2>1, <2>2, FollowsUp DEF Shown
<1> QED
  BY <1>5, <1>6

LEMMA AppAsksFollows ==
  ASSUME IInv, NEW a \in Asked, AppAsks(a), Follows
  PROVE  Follows'
<1> SUFFICES ASSUME Faithful' PROVE Follows'
  BY DEF Follows
<1>1. /\ link = "up" /\ link' = "up" /\ tracking' = tracking /\ st' = st
      /\ UNCHANGED <<server, lines, mishaps>> /\ asked' = Append(asked, a) /\ asked \in Seq(Asked)
  BY DEF AppAsks, client, IInv, LinesOK
<1>2. PICK v \in Worlds, md \in SUBSET Chans, new \in SUBSET Names :
        /\ Path(lines, v, Real(md, new), mishaps) /\ Shown(st, v)
        /\ tracking => Ranked(st, v, mishaps) /\ Rest(md, new)
  BY <1>1 DEF Follows, OnTheWay, Faithful
<1>3. Then(md, new) = Real(md, new)
  BY <1>1 DEF Then, Real, server
<1>4. ASSUME NEW cmd PROVE Pending(cmd) \subseteq Pending(cmd)'
  <2>1. Len(asked') = Len(asked) + 1 /\ Len(asked) \in Nat /\ \A i \in 1..Len(asked) : asked'[i] = asked[i]
    BY <1>1
  <2>2. \A i \in 1..Len(asked) : i \in 1..Len(asked')
    BY <2>1
  <2>3. lines' = lines
    BY <1>1
  <2>4. \A c : Arriving(c) => Arriving(c)'
    BY <2>3 DEF Arriving
  <2> QED
    BY <2>1, <2>2, <2>4 DEF Pending
<1>5. tracking => Rest(md, new)'
  <2>1. UNCHANGED <<server, mishaps>>
    BY <1>1
  <2>2. Pending("MODE") \subseteq Pending("MODE")' /\ Pending("WHO") \subseteq Pending("WHO")'
    BY <1>4
  <2> QED
    BY <1>2, <2>1, <2>2, PendingSame DEF Rest
<1>6. v.me = MyName(st) /\ (tracking => Start(st, v)) /\ (~tracking => Nobody(st))
  BY <1>2 DEF Shown
<1> QED
  BY <1>1, <1>2, <1>3, <1>5, <1>6, FollowsUp

LEMMA FollowsKept ==
  ASSUME IInv, Follows, [Next]_vars
  PROVE  Follows'
<1>1. IInv'
  BY StepKept
<1>2. CASE UNCHANGED vars
  <2>1. /\ tracking' = tracking /\ st' = st /\ link' = link /\ lines' = lines /\ asked' = asked
        /\ mine' = mine /\ on' = on /\ ops' = ops /\ mode' = mode /\ topic' = topic /\ mishaps' = mishaps
    BY <1>2 DEF vars
  <2>2. \A md, new : Real(md, new)' = Real(md, new) /\ (Rest(md, new)' <=> Rest(md, new))
    BY <2>1 DEF Real, Rest, Tuned, Owed, Pending, Arriving
  <2>3. \A v : Shown(st, v)' <=> Shown(st, v)
    BY <2>1 DEF Shown, Start, Nobody, Has, Tracked, KnowsMe, MyName
  <2>4. \A v : Ranked(st, v, mishaps)' <=> Ranked(st, v, mishaps)
    BY <2>1 DEF Ranked, Unknown, OpOn, Moded, Topical, Has, Tracked
  <2>5. OnTheWay' <=> OnTheWay
    BY <2>1, <2>2, <2>3, <2>4 DEF OnTheWay
  <2>6. Nobody(st)' <=> Nobody(st)
    BY <2>1 DEF Nobody, Has, Tracked, KnowsMe
  <2> QED
    BY <2>1, <2>5, <2>6 DEF Follows, Faithful, Registers, MyName
<1>3. \A n \in Names : Ask("NICK", n) \in Asked /\ Ask("WHOIS", n) \in Asked
  BY AskedAre
<1>4. DOMAIN st.nicks \subseteq Names
  BY NameIs DEF IInv, TrackerInv
<1>5. CASE Handle \/ World \/ Server
  BY <1>1, <1>5, HandleFollows, WorldFollows, ServerFollows
<1>6. CASE \/ \E n \in Names \ Reserved : AppAsks(Ask("NICK", n))
           \/ \E n \in DOMAIN st.nicks \ {MyName(st)} : AppAsks(Ask("WHOIS", n))
  BY <1>3, <1>4, <1>6, AppAsksFollows
<1>7. CASE Lose \/ Connect \/ EnableStateTracking \/ DisableStateTracking
  BY <1>7, LoseFollows, ConnectFollows, EnableFollows, DisableFollows
<1> QED
  BY <1>2, <1>5, <1>6, <1>7 DEF Next

\* Once every line is handled the tracker shows the world at the server.
LEMMA FollowedWorld ==
  ASSUME IInv, Follows, Settled, Faithful
  PROVE  \E md \in SUBSET Chans, new \in SUBSET Names :
           /\ Start(st, Real(md, new)) /\ Looks(Real(md, new), mine, on, ops, topic, md, new)
           /\ Ranked(st, Real(md, new), mishaps) /\ Rest(md, new)
<1>1. PICK v \in Worlds, md \in SUBSET Chans, new \in SUBSET Names :
        /\ Path(<<>>, v, Real(md, new), mishaps) /\ Shown(st, v)
        /\ Ranked(st, v, mishaps) /\ Rest(md, new)
  BY DEF Follows, OnTheWay, Settled
<1>2. v = Real(md, new)
  BY <1>1, PathEnds
<1>3. Looks(Real(md, new), mine, on, ops, topic, md, new)
  BY RealIs DEF IInv, Settled
<1> QED
  BY <1>1, <1>2, <1>3 DEF Shown, Settled

LEMMA MembersFollowed ==
  ASSUME IInv, Follows
  PROVE  FollowsMembers
<1> SUFFICES ASSUME Settled, Faithful PROVE View = Truth /\ MyName(st) = mine
  BY DEF FollowsMembers, Faithful
<1>1. PICK v : Start(st, v) /\ Sees(v, mine, on)
  BY FollowedWorld DEF Looks
<1>3. v.me = MyName(st) /\ v.me = mine
      /\ \A c \in Chans : /\ v.at[c] = (IF mine \in on[c] THEN on[c] ELSE {})
                          /\ \A n \in Names : Has(st, c, n) <=> n \in v.at[c]
  BY <1>1 DEF Sees, Start
<1>4. ViewOf(st) \subseteq Chans \X Names
      /\ \A c \in Chans, n \in Names : <<c, n>> \in ViewOf(st) <=> Has(st, c, n)
  BY ViewIs DEF IInv, TrackerInv
<1>5. View = ViewOf(st)
  BY DEF View, ViewOf
<1>6. Truth \in SUBSET (Chans \X Names)
      /\ \A c \in Chans, n \in Names : <<c, n>> \in Truth <=> mine \in on[c] /\ n \in on[c]
  BY DEF Truth
<1>7. \A c \in Chans, n \in Names : <<c, n>> \in View <=> <<c, n>> \in Truth
  BY <1>3, <1>4, <1>5, <1>6
<1>8. View = Truth
  BY <1>4, <1>5, <1>6, <1>7, PairsEqual
<1> QED
  BY <1>3, <1>8

\* Nothing is pending when every line is handled and every question answered.
LEMMA NothingPending ==
  ASSUME lines = <<>>, asked = <<>>, NEW cmd
  PROVE  Pending(cmd) = {}
<1>1. Len(<<>>) = 0 /\ 1..0 = {} /\ 1..0 - 1 = {}
  OBVIOUS
<1> QED
  BY <1>1 DEF Pending, Arriving

LEMMA ModesFollowed ==
  ASSUME IInv, Follows
  PROVE  FollowsModes
<1> SUFFICES ASSUME Settled, asked = <<>>, Faithful, "ban" \notin mishaps, NEW c \in DOMAIN st.ch
             PROVE  /\ st.ch[c].mode = mode[c] /\ st.ch[c].topic = topic[c]
                    /\ {n \in DOMAIN st.ch[c].lookup : st.ch[c].nicks[st.ch[c].lookup[n]]} = ops[c]
  BY DEF FollowsModes, Faithful
<1>1. PICK v, md, new : /\ Start(st, v) /\ Looks(v, mine, on, ops, topic, md, new)
                        /\ Ranked(st, v, mishaps) /\ Rest(md, new)
  BY FollowedWorld
<1>2. Pending("MODE") = {}
  BY NothingPending DEF Settled
<1>3. /\ Sound(st) /\ Whole(st) /\ st \in Trackers /\ ChansAgree(st) /\ NamesAgree(st)
      /\ LookupsAgree(st) /\ c \in Chans
      /\ mode \in [Chans -> BOOLEAN] /\ topic \in [Chans -> BOOLEAN] /\ ops[c] \in SUBSET Names
  BY NameIs DEF IInv, TrackerInv, Sound, ServerOK
<1>4. mine \in on[c]
  <2>1. v.me \in v.at[c] /\ v.me = mine /\ v.at[c] = (IF mine \in on[c] THEN on[c] ELSE {})
    BY <1>1, <1>3, ChanThere DEF Looks, Sees
  <2> QED
    BY <2>1
<1>5. st.ch[c] \in ChanObjects
  BY <1>3, TrackersAre DEF IsMap
<1>6. st.ch[c].mode \in BOOLEAN /\ st.ch[c].topic \in BOOLEAN
  BY <1>5 DEF ChanObjects
<1>7. /\ st.ch[c].mode = TRUE <=> c \in v.mode
      /\ st.ch[c].topic = TRUE <=> c \in v.topic
      /\ \A n \in Names : OpOn(st, c, n) <=> n \in v.ops[c]
  BY <1>1, <1>3 DEF Ranked, Moded, Topical
<1>8. v.mode = md /\ v.ops[c] = ops[c] /\ (c \in v.topic <=> topic[c] = TRUE)
  BY <1>1, <1>3, <1>4 DEF Looks
<1>9. c \in md <=> mode[c] = TRUE
  BY <1>1, <1>2, <1>3, <1>4 DEF Rest, Tuned
<1>10. st.ch[c].mode = mode[c] /\ st.ch[c].topic = topic[c]
  BY <1>3, <1>6, <1>7, <1>8, <1>9
<1>11. DOMAIN st.ch[c].lookup \subseteq Names /\ DOMAIN st.ch[c].nicks \subseteq Objects
  BY <1>3, TrackersAre DEF IsMap
<1>12. ASSUME NEW n \in Names
       PROVE  OpOn(st, c, n) <=>
                n \in DOMAIN st.ch[c].lookup /\ st.ch[c].nicks[st.ch[c].lookup[n]] = TRUE
  <2>1. n \in DOMAIN st.ch[c].lookup <=> Has(st, c, n)
    BY <1>3, <1>11, HasThere DEF LookupsAgree, ChansAgree, Has, Tracked
  <2>2. n \in DOMAIN st.ch[c].lookup => st.ch[c].lookup[n] = st.nicks[n]
    BY <1>3 DEF LookupsAgree
  <2> QED
    BY <2>1, <2>2 DEF OpOn
<1>13. ASSUME NEW n \in DOMAIN st.ch[c].lookup PROVE st.ch[c].nicks[st.ch[c].lookup[n]] \in BOOLEAN
  <2>1. n \in Names /\ IsMap(st.ch[c].nicks, Objects, BOOLEAN)
    BY <1>3, <1>11, TrackersAre
  <2>2. st.ch[c].lookup[n] \in DOMAIN st.ch[c].nicks
    BY <1>3, <2>1 DEF LookupsAgree
  <2> QED
    BY <2>1, <2>2 DEF IsMap
<1>14. {n \in DOMAIN st.ch[c].lookup : st.ch[c].nicks[st.ch[c].lookup[n]]} = ops[c]
  <2> DEFINE f == [n \in DOMAIN st.ch[c].lookup |-> st.ch[c].nicks[st.ch[c].lookup[n]]]
             A == DOMAIN st.ch[c].lookup
             B == ops[c]
  <2>1. /\ A \subseteq Names /\ B \subseteq Names /\ \A n \in A : f[n] \in BOOLEAN
        /\ \A n \in Names : n \in B <=> n \in A /\ f[n] = TRUE
    BY <1>3, <1>7, <1>8, <1>11, <1>12, <1>13
  <2>2. \A n \in A : f[n] = st.ch[c].nicks[st.ch[c].lookup[n]]
    OBVIOUS
  <2> HIDE DEF f, A, B
  <2>3. {n \in A : f[n]} = B
    BY <2>1
  <2>4. {n \in A : f[n]} = {n \in A : st.ch[c].nicks[st.ch[c].lookup[n]]}
    BY <2>2
  <2> QED
    BY <2>3, <2>4 DEF A, B
<1> QED
  BY <1>10, <1>14

LEMMA IdentsFollowed ==
  ASSUME IInv, Follows
  PROVE  FollowsIdents
<1> SUFFICES ASSUME Settled, asked = <<>>, Faithful, "moved" \notin mishaps, NEW i \in DOMAIN st.nk
             PROVE  st.nk[i].known
  BY DEF FollowsIdents, Faithful
<1>1. PICK v, md, new : /\ Looks(v, mine, on, ops, topic, md, new)
                        /\ Ranked(st, v, mishaps) /\ Rest(md, new) /\ new \in SUBSET Names
  BY FollowedWorld
<1>2. Pending("WHO") = {}
  BY NothingPending DEF Settled
<1>3. st \in Trackers /\ NamesAgree(st)
  BY DEF IInv, TrackerInv, Sound
<1>4. st.nk[i] \in NickObjects
  BY <1>3, TrackersAre DEF IsMap
<1> DEFINE n == st.nk[i].name
<1>5. st.nk[i].known \in BOOLEAN /\ n \in Names /\ n \in DOMAIN st.nicks /\ st.nicks[n] = i
  BY <1>3, <1>4 DEF NamesAgree, NickObjects
<1>6. v.new = new /\ (Unknown(st, n) <=> n \in v.new)
  BY <1>1, <1>5 DEF Looks, Ranked
<1>7. n \notin new
  BY <1>1, <1>2, <1>5 DEF Rest, Owed
<1>8. ~Unknown(st, n)
  BY <1>6, <1>7
<1> QED
  BY <1>5, <1>8 DEF Unknown, Tracked

\* Once every line so far is handled the tracker shows who is on my channels
\* and under which names, whatever the server sent and however the lines and
\* the connections came; and, once its questions are answered, their topics,
\* modes and privileges and everybody's ident.  The exceptions are those that
\* FollowsServer names: lines left by an earlier connection, tracking enabled
\* late, a ban with a privilege in one line, somebody gone before the WHO.
THEOREM ServerIsFollowed == Spec => []FollowsServer
<1>1. Init => Follows
  <2> SUFFICES ASSUME Init PROVE Follows
    OBVIOUS
  <2>1. \A c \in Chans, n \in Names : ~Has(st, c, n)
    BY InitInv
  <2>2. KnowsMe(st)
    BY NewTrackerSound, TrackerConstants DEF Init
  <2>3. link = "down" /\ lines = <<>> /\ asked = <<>>
    BY DEF Init
  <2> QED
    BY <2>1, <2>2, <2>3 DEF Follows, Nobody
<1>2. IInv /\ Follows /\ [Next]_vars => Follows'
  BY FollowsKept
<1>3. IInv /\ Follows => FollowsServer
  BY MembersFollowed, ModesFollowed, IdentsFollowed DEF FollowsServer
<1> QED
  BY <1>1, <1>2, <1>3, TrackerInvariant, PTL DEF Spec
=============================================================================
