-------------------------- MODULE CacheFileProofs --------------------------
(***************************************************************************)
(* Proofs about CacheFile, for any keys, any goroutines that fill the      *)
(* cache and any number of commands, crashes, failures and ticks.          *)
(*                                                                         *)
(* FileInv says what the file looks like at each stage of the one saver    *)
(* there is while no two overlap, and what a file without a head is owed   *)
(* to.  ReportInv says what a report has heard while it gathers answers.   *)
(***************************************************************************)
EXTENDS CacheFile, TLAPS

USE CacheConstants, LastfmConstants, ReportConstants, FileConstants

Stages == {"off", "begun", "created", "writing", "saved", "counted"}

FileTypes ==
  /\ saver \in [Savers -> Stages]
  /\ head \in Savers \cup {"none"} /\ tail \in Savers \cup {"none"}
  /\ exists \in BOOLEAN /\ quitting \in BOOLEAN
  /\ mishaps \subseteq {"cut", "overlap", "failed"}

\* A saver that has the file open.
Saving(s) == saver[s] \notin {"off", "begun"}
Spoilt == mishaps \cap {"cut", "failed"} # {}

FileInv ==
  /\ FileTypes
  /\ up # "up" => saver = Blank /\ ~quitting
  /\ saver["main"] # "off" => quitting
  /\ mishaps = {} => \A r, s \in Savers : Saving(r) /\ Saving(s) => r = s
  /\ \A s \in Savers : Saving(s) => exists
  /\ mishaps = {} => \A s \in Savers : saver[s] \in {"writing", "saved", "counted"} => head = s
  /\ exists /\ head = "none" => Spoilt \/ \E s \in Savers : saver[s] = "created"
  /\ IdleFileIsWhole
  /\ StartsUnlessCut

-----------------------------------------------------------------------------
(* Savers, the file, and the process.                                      *)

\* Mishaps are never forgotten.
LEMMA MishapsStay == [Next]_vars => mishaps \subseteq mishaps'
BY DEF Next, Begun, Gather, TimePasses, Ask, Remember, TimerFires, TimerSaves, Disconnected,
       Signal, SaverStep, Create, Locks, Encode, SaveReturns, Counts, Close, CreateFails,
       EncodeFails, Crash, Exit, Dies, Restart, fileVars, vars, Elsewhere

LEMMA FileCreate ==
  ASSUME FileInv, NEW s \in Savers, Create(s)
  PROVE  FileInv'
<1>1. /\ saver[s] = "begun" /\ saver' = [saver EXCEPT ![s] = "created"]
      /\ exists' = TRUE /\ head' = "none" /\ tail' = "none"
      /\ mishaps' = IF \E r \in Savers \ {s} : Saving(r) THEN mishaps \cup {"overlap"} ELSE mishaps
      /\ up' = up /\ quitting' = quitting
  BY DEF Create, Saving
<1>2. FileTypes'
  BY <1>1 DEF FileInv, FileTypes, Stages
<1>3. saver'[s] = "created" /\ \A r \in Savers \ {s} : saver'[r] = saver[r]
  BY <1>1 DEF FileInv, FileTypes
<1>4. mishaps' = {} => mishaps = {} /\ \A r \in Savers \ {s} : ~Saving(r)
  BY <1>1
<1>5. saver # Blank /\ up = "up"
  BY <1>1 DEF FileInv, Blank
<1>6. ~(\A r \in Savers : saver'[r] \in {"off", "begun"})
  BY <1>3
<1>7. mishaps \subseteq mishaps'
  BY <1>1
<1> QED
  BY <1>1, <1>2, <1>3, <1>4, <1>5, <1>6, <1>7
  DEF FileInv, Saving, Spoilt, IdleFileIsWhole, StartsUnlessCut

LEMMA FileEncode ==
  ASSUME FileInv, NEW s \in Savers, Encode(s)
  PROVE  FileInv'
<1>1. /\ saver[s] = "created" /\ saver' = [saver EXCEPT ![s] = "writing"] /\ head' = s
      /\ UNCHANGED <<up, exists, tail, mishaps, quitting>>
  BY DEF Encode
<1>2. FileTypes'
  BY <1>1 DEF FileInv, FileTypes, Stages
<1>3. saver'[s] = "writing" /\ \A r \in Savers \ {s} : saver'[r] = saver[r]
  BY <1>1 DEF FileInv, FileTypes
<1>4. mishaps = {} => \A r \in Savers \ {s} : ~Saving(r)
  BY <1>1 DEF FileInv, Saving
<1>5. saver # Blank /\ up = "up" /\ exists
  BY <1>1 DEF FileInv, Blank, Saving
<1>6. head' # "none"
  BY <1>1 DEF Savers
<1> QED
  BY <1>1, <1>2, <1>3, <1>4, <1>5, <1>6
  DEF FileInv, Saving, Spoilt, IdleFileIsWhole, StartsUnlessCut

\* From the encoder's bytes to the closed compressor.
LEMMA FileWritten ==
  ASSUME FileInv, NEW s \in Savers, SaveReturns(s) \/ Counts(s) \/ Close(s)
  PROVE  FileInv'
<1>1. /\ saver[s] \in {"writing", "saved", "counted"}
      /\ saver' \in {[saver EXCEPT ![s] = x] : x \in {"saved", "counted", "off"}}
      /\ UNCHANGED <<up, exists, head, mishaps, quitting>>
      /\ tail' = tail \/ (tail' = s /\ saver' = [saver EXCEPT ![s] = "off"])
      /\ saver' = [saver EXCEPT ![s] = "off"] => tail' = s
  <2>1. CASE SaveReturns(s)
    BY <2>1 DEF SaveReturns, FileInv, FileTypes
  <2>2. CASE Counts(s)
    BY <2>2 DEF Counts, FileInv, FileTypes
  <2>3. CASE Close(s)
    BY <2>3 DEF Close, Ends, Rearms
  <2> QED
    BY <2>1, <2>2, <2>3
<1>2. /\ saver'[s] \in {"saved", "counted", "off"} /\ \A r \in Savers \ {s} : saver'[r] = saver[r]
      /\ saver'[s] = "off" => tail' = s
      /\ FileTypes'
  BY <1>1 DEF FileInv, FileTypes, Stages
<1>3. mishaps = {} => head = s /\ \A r \in Savers \ {s} : ~Saving(r)
  BY <1>1 DEF FileInv, Saving
<1>4. saver # Blank /\ up = "up" /\ exists
  BY <1>1 DEF FileInv, Blank, Saving
<1>5. s # "none"
  BY DEF Savers
<1>6. IdleFileIsWhole'
  BY <1>1, <1>2, <1>3, <1>5 DEF IdleFileIsWhole, Whole
<1>7. saver'["main"] # "off" => quitting'
  BY <1>1, <1>2 DEF FileInv, Savers
<1>8. exists' /\ head' = "none" => Spoilt' \/ \E r \in Savers : saver'[r] = "created"
  BY <1>1, <1>2 DEF FileInv, Spoilt
<1>9. mishaps' = {} => \A r \in Savers : saver'[r] \in {"writing", "saved", "counted"} => head' = r
  BY <1>1, <1>2, <1>3 DEF Saving
<1>10. mishaps' = {} => \A q, r \in Savers : Saving(q)' /\ Saving(r)' => q = r
  BY <1>1, <1>2, <1>3 DEF Saving
<1> QED
  BY <1>1, <1>2, <1>4, <1>6, <1>7, <1>8, <1>9, <1>10
  DEF FileInv, Saving, StartsUnlessCut

LEMMA FileEncodeFails ==
  ASSUME FileInv, NEW s \in Savers, EncodeFails(s)
  PROVE  FileInv'
<1>1. /\ saver[s] \in {"created", "writing"} /\ saver' = [saver EXCEPT ![s] = "off"]
      /\ UNCHANGED <<up, exists, head, tail, quitting>>
      /\ mishaps' = mishaps \cup {"failed"}
  BY DEF EncodeFails, Ends
<1>2. /\ saver'[s] = "off" /\ \A r \in Savers \ {s} : saver'[r] = saver[r]
      /\ FileTypes'
  BY <1>1 DEF FileInv, FileTypes, Stages
<1>3. mishaps' # {} /\ Spoilt'
  BY <1>1 DEF Spoilt
<1>4. up = "up"
  BY <1>1 DEF FileInv, Blank
<1> QED
  BY <1>1, <1>2, <1>3, <1>4 DEF FileInv, Saving, IdleFileIsWhole, StartsUnlessCut

\* Savers that begin, and one that cannot create the file.
LEMMA FileBegins ==
  ASSUME FileInv, TimerSaves \/ Disconnected \/ Signal \/ \E s \in Savers : CreateFails(s)
  PROVE  FileInv'
<1>1. PICK s \in Savers, x \in {"begun", "off"} :
        /\ saver[s] \in {"off", "begun"} /\ saver' = [saver EXCEPT ![s] = x]
        /\ UNCHANGED <<up, exists, head, tail, mishaps>>
        /\ up = "up" /\ quitting' \in BOOLEAN
        /\ quitting => quitting'
        /\ s = "main" => quitting'
  <2>1. CASE TimerSaves
    BY <2>1 DEF TimerSaves, Active, Begins, Savers, FileInv, FileTypes
  <2>2. CASE Disconnected
    BY <2>2 DEF Disconnected, Active, Begins, Savers, FileInv, FileTypes, Happens
  <2>3. CASE Signal
    <3>1. saver["main"] = "off" /\ "main" \in Savers
      BY <2>3 DEF Signal, FileInv, Savers
    <3> QED
      BY <2>3, <3>1 DEF Signal, Begins, Happens
  <2>4. ASSUME NEW s \in Savers, CreateFails(s)
        PROVE  \E r \in Savers, x \in {"begun", "off"} :
                 /\ saver[r] \in {"off", "begun"} /\ saver' = [saver EXCEPT ![r] = x]
                 /\ UNCHANGED <<up, exists, head, tail, mishaps>>
                 /\ up = "up" /\ quitting' \in BOOLEAN
                 /\ quitting => quitting'
                 /\ r = "main" => quitting'
    BY <2>4 DEF CreateFails, Ends, Happens, FileInv, FileTypes
  <2> QED
    BY <2>1, <2>2, <2>3, <2>4
<1>2. /\ FileTypes'
      /\ \A r \in Savers : Saving(r)' <=> Saving(r)
      /\ \A r \in Savers : Saving(r) => saver'[r] = saver[r]
      /\ \A r \in Savers \ {s} : saver'[r] = saver[r]
  BY <1>1 DEF FileInv, FileTypes, Stages, Saving
<1>3. IdleFileIsWhole'
  BY <1>1, <1>2 DEF FileInv, IdleFileIsWhole, Whole, Saving
<1>4. StartsUnlessCut'
  BY <1>1 DEF StartsUnlessCut
<1> QED
  BY <1>1, <1>2, <1>3, <1>4 DEF FileInv, Saving, Spoilt

LEMMA FileDies ==
  ASSUME FileInv, Dies
  PROVE  FileInv'
<1>1. /\ up' = "down" /\ saver' = Blank /\ quitting' = FALSE
      /\ mishaps' = IF \E s \in Savers : Saving(s) THEN mishaps \cup {"cut"} ELSE mishaps
      /\ UNCHANGED <<exists, head, tail>>
  BY DEF Dies, Saving
<1>2. FileTypes'
  BY <1>1 DEF FileInv, FileTypes, Stages, Blank
<1>3. \A s \in Savers : saver'[s] = "off"
  BY <1>1 DEF Blank
<1>4. "main" \in Savers
  BY DEF Savers
<1>5. CASE \E s \in Savers : Saving(s)
  <2>1. Spoilt' /\ mishaps' # {}
    BY <1>1, <1>5 DEF Spoilt
  <2> QED
    BY <1>1, <1>2, <1>3, <1>4, <2>1 DEF FileInv, Saving, IdleFileIsWhole, StartsUnlessCut
<1>6. CASE ~\E s \in Savers : Saving(s)
  <2>1. mishaps' = mishaps /\ (Spoilt' <=> Spoilt)
    BY <1>1, <1>6 DEF Spoilt
  <2>2. IdleFileIsWhole'
    BY <1>1, <1>3, <1>6, <2>1 DEF FileInv, IdleFileIsWhole, Whole, Saving
  <2>3. exists /\ head = "none" => Spoilt
    BY <1>6 DEF FileInv, Saving
  <2> QED
    BY <1>1, <1>2, <1>3, <1>4, <2>1, <2>2, <2>3 DEF FileInv, Saving, StartsUnlessCut
<1> QED
  BY <1>5, <1>6

\* The bot starts, or does not, with what the last process left.
LEMMA FileRestart ==
  ASSUME FileInv, Restart
  PROVE  FileInv'
<1>1. /\ up = "down" /\ up' = IF exists /\ head = "none" THEN "dead" ELSE "up"
      /\ UNCHANGED <<saver, exists, head, tail, mishaps, quitting>>
  BY DEF Restart, Load, fileVars
<1>2. saver = Blank /\ \A s \in Savers : saver[s] = "off"
  BY <1>1 DEF FileInv, Blank
<1>3. StartsUnlessCut'
  BY <1>1, <1>2 DEF FileInv, StartsUnlessCut, Spoilt
<1> QED
  BY <1>1, <1>2, <1>3 DEF FileInv, FileTypes, Saving, Spoilt, IdleFileIsWhole, Whole

LEMMA FileStep == ASSUME FileInv, [Next]_vars PROVE FileInv'
<1>1. CASE UNCHANGED <<up, saver, exists, head, tail, mishaps, quitting>>
  BY <1>1 DEF FileInv, FileTypes, Saving, Spoilt, IdleFileIsWhole, Whole, StartsUnlessCut
<1>2. ASSUME NEW s \in Savers, SaverStep(s) PROVE FileInv'
  BY <1>1, <1>2, FileCreate, FileEncode, FileWritten DEF SaverStep, Locks, fileVars
<1>3. ASSUME NEW p \in Callers, Ask(p) PROVE FileInv'
  BY <1>1, <1>3 DEF Ask, FromCache, Query, Elsewhere, fileVars
<1>4. ASSUME NEW c \in Setters \cup {Janitor}, Remember(c) PROVE FileInv'
  BY <1>1, <1>4 DEF Remember, Announce, Writer, Elsewhere, fileVars
<1>5. CASE Begun \/ TimePasses \/ TimerFires
  BY <1>1, <1>5
  DEF Begun, ReportBegins, CommandBegins, Ignored, Command, TimePasses, Tick, TimerFires, Elsewhere,
      fileVars
<1>6. CASE Gather
  BY <1>1, <1>6
  DEF Gather, CommandEnds, NothingPlaying, Playing, Reply, Receive, Elsewhere, fileVars
<1>7. CASE UNCHANGED vars
  BY <1>1, <1>7 DEF vars, fileVars
<1> QED
  BY <1>1, <1>2, <1>3, <1>4, <1>5, <1>6, <1>7, FileBegins, FileEncodeFails, FileDies, FileRestart
  DEF Next, Crash, Exit

LEMMA FileInit == Init => FileInv
<1> SUFFICES ASSUME Init PROVE FileInv
  OBVIOUS
<1>1. \A s \in Savers : saver[s] = "off"
  BY DEF Init, Blank
<1>2. "main" \in Savers
  BY DEF Savers
<1> QED
  BY <1>1, <1>2
  DEF Init, FileInv, FileTypes, Stages, Saving, Spoilt, IdleFileIsWhole, StartsUnlessCut, Blank

\* While nobody saves the file is absent or whole, unless savers overlapped,
\* one was cut short or could not write: IdleFileIsWhole.
THEOREM FileWhole == Spec => []IdleFileIsWhole
<1>1. FileInv /\ [Next]_vars => FileInv'
  BY FileStep
<1>2. FileInv => IdleFileIsWhole
  BY DEF FileInv
<1> QED
  BY <1>1, <1>2, FileInit, PTL DEF Spec

\* The bot starts again after any death that did not come in the middle of a
\* save, and with any file that was written to its end: StartsUnlessCut.
THEOREM BotStarts == Spec => []StartsUnlessCut
<1>1. FileInv /\ [Next]_vars => FileInv'
  BY FileStep
<1>2. FileInv => StartsUnlessCut
  BY DEF FileInv
<1> QED
  BY <1>1, <1>2, FileInit, PTL DEF Spec

-----------------------------------------------------------------------------
(* What can be in the cache and in an answer.                              *)

Answers == {"tags", "bare", "untitled", "error", "failure"}
Stored == {"tags", "bare", "untitled", "error", "error value"}
ItemSet == [object : Stored, expiration : Int]
Maps == UNION {[K -> ItemSet] : K \in SUBSET Keys}

Remembering == [op : {"spawned", "Set"}, key : Keys, object : Stored, ttl : {Ttl}]
Sweeping == [op : {"DeleteExpired"}, shard : {1}]
Walking == [op : {"SaveCache", "hold", "walk"}, shard : {1}]
Doings == Remembering \cup Sweeping \cup Walking \cup {Nothing}

Asks == {Off} \cup [at : {"get", "query"}, key : Keys] \cup [at : {"got"}, key : Keys, answer : Answers]

CacheTypes ==
  /\ now \in Nat
  /\ items \in Maps /\ encoded \in [Savers -> Maps]
  /\ doing \in [Clients -> Doings]
AnswerTypes == asks \in [Callers -> Asks]

LEMMA MapsAre ==
  ASSUME NEW m
  PROVE  m \in Maps <=> DOMAIN m \subseteq Keys /\ m \in [DOMAIN m -> ItemSet]
<1> HIDE DEF ItemSet
<1> QED
  BY DEF Maps

LEMMA StoreIn ==
  ASSUME NEW m \in Maps, NEW k \in Keys, NEW item \in ItemSet
  PROVE  Store(m, k, item) \in Maps
<1> HIDE DEF ItemSet
<1>1. DOMAIN m \subseteq Keys /\ m \in [DOMAIN m -> ItemSet]
  BY MapsAre
<1>2. Store(m, k, item) \in [DOMAIN m \cup {k} -> ItemSet] /\ DOMAIN m \cup {k} \in SUBSET Keys
  BY <1>1 DEF Store
<1> QED
  BY <1>2 DEF Maps

LEMMA KeepIn == ASSUME NEW m \in Maps, NEW K PROVE Keep(m, K) \in Maps
<1> HIDE DEF ItemSet
<1>1. DOMAIN m \subseteq Keys /\ m \in [DOMAIN m -> ItemSet]
  BY MapsAre
<1>2. Keep(m, K) \in [DOMAIN m \cap K -> ItemSet] /\ DOMAIN m \cap K \in SUBSET Keys
  BY <1>1 DEF Keep
<1> QED
  BY <1>2 DEF Maps

\* What gob makes of the items are items.
LEMMA DecodedIn == ASSUME NEW m \in Maps PROVE Decoded(m) \in Maps
<1>1. DOMAIN m \in SUBSET Keys /\ m \in [DOMAIN m -> ItemSet]
  BY MapsAre
<1>2. ASSUME NEW k \in DOMAIN m
      PROVE  (IF m[k].object = "error" THEN [m[k] EXCEPT !.object = "error value"] ELSE m[k])
             \in ItemSet
  <2>1. m[k] \in ItemSet
    BY <1>1
  <2> QED
    BY <2>1 DEF ItemSet, Stored
<1>3. Decoded(m) \in [DOMAIN m -> ItemSet]
  <2> HIDE DEF ItemSet
  <2> QED
    BY <1>2 DEF Decoded
<1> QED
  BY <1>1, <1>3 DEF Maps

\* A writer leaves items, and nothing of its own or what it did before.
LEMMA WriteKeeps ==
  ASSUME CacheTypes, NEW c \in Clients, Write(c)
  PROVE  items' \in Maps /\ doing' = [doing EXCEPT ![c] = Nothing]
<1> DEFINE o == doing[c]
<1>1. o \in Doings /\ o.op \in Writes /\ items' = After(o) /\ doing' = [doing EXCEPT ![c] = Goes(o)]
  BY DEF Write, CacheTypes
<1>2. \/ o \in Remembering /\ o.op = "Set"
      \/ o \in Sweeping /\ o.op = "DeleteExpired" /\ o.shard = 1
  BY <1>1 DEF Doings, Remembering, Sweeping, Walking, Writes, Nothing
<1>3. Goes(o) = Nothing
  BY <1>2 DEF Goes, AllShards
<1>4. CASE o \in Remembering /\ o.op = "Set"
  <2>1. After(o) = Store(items, o.key, Item(o.object, Due(now, o.ttl)))
    BY <1>4 DEF After, Refused
  <2>2. Due(now, o.ttl) \in Int
    <3>1. o.ttl \in Nat /\ now \in Nat
      BY <1>4 DEF Remembering, CacheTypes
    <3> QED
      BY <3>1 DEF Due, NoExpiration
  <2> DEFINE k == o.key
             item == Item(o.object, Due(now, o.ttl))
  <2>3. k \in Keys /\ item \in ItemSet
    BY <1>4, <2>2 DEF Remembering, Item, ItemSet
  <2>4. items' = Store(items, k, item)
    BY <1>1, <2>1
  <2> HIDE DEF k, item
  <2>5. Store(items, k, item) \in Maps
    BY <2>3, StoreIn DEF CacheTypes
  <2> QED
    BY <1>1, <1>3, <2>4, <2>5
<1>5. CASE o \in Sweeping /\ o.op = "DeleteExpired"
  <2> DEFINE K == {k \in DOMAIN items : ~(Bucket[k] = o.shard /\ Expired(items[k]))}
  <2>1. After(o) = Keep(items, K)
    BY <1>5 DEF After, Refused
  <2> HIDE DEF K
  <2>2. Keep(items, K) \in Maps
    BY KeepIn DEF CacheTypes
  <2> QED
    BY <1>1, <1>3, <2>1, <2>2
<1> QED
  BY <1>2, <1>4, <1>5

LEMMA CacheStep ==
  ASSUME CacheTypes, AnswerTypes, FileTypes, [Next]_vars
  PROVE  CacheTypes'
<1> HIDE DEF Maps
<1>1. CASE UNCHANGED <<now, items, encoded, doing>>
  BY <1>1 DEF CacheTypes
<1>2. ASSUME NEW p \in Callers, Ask(p) PROVE CacheTypes'
  <2>1. CASE FromCache(p)
    BY <1>1, <1>2, <2>1 DEF FromCache, Ask, Elsewhere, fileVars
  <2>2. CASE Query(p)
    <3>1. now' = now /\ items' = items /\ encoded' = encoded
      BY <1>2, <2>2 DEF Ask, Query, Elsewhere, fileVars
    <3>2. asks[p].key \in Keys
      BY <2>2 DEF Query, AnswerTypes, Asks, Off
    <3>3. \/ doing' = doing
          \/ \E s \in Setters, x \in {"tags", "bare", "untitled", "error"} :
               doing' = [doing EXCEPT ![s] = [op |-> "spawned", key |-> asks[p].key,
                                              object |-> x, ttl |-> Ttl]]
      BY <2>2 DEF Query, Spawn, Begin
    <3>4. doing' \in [Clients -> Doings]
      <4>1. \A x \in {"tags", "bare", "untitled", "error"} :
              [op |-> "spawned", key |-> asks[p].key, object |-> x, ttl |-> Ttl] \in Doings
        BY <3>2 DEF Doings, Remembering, Stored
      <4> HIDE DEF Doings
      <4> QED
        BY <3>3, <4>1 DEF CacheTypes
    <3> QED
      BY <3>1, <3>4 DEF CacheTypes
  <2> QED
    BY <1>2, <2>1, <2>2 DEF Ask
<1>3. ASSUME NEW c \in Setters \cup {Janitor}, Remember(c) PROVE CacheTypes'
  <2>0. c \in Clients
    OBVIOUS
  <2>1. CASE Announce(c)
    <3>1. doing[c] \in Doings /\ doing[c].op = "spawned"
      BY <2>0, <2>1 DEF Announce, CacheTypes
    <3>2. doing[c] \in Remembering
      BY <3>1 DEF Doings, Remembering, Sweeping, Walking, Nothing
    <3>3. [doing[c] EXCEPT !.op = "Set"] \in Remembering
      BY <3>2 DEF Remembering
    <3>4. doing' \in [Clients -> Doings]
      BY <2>0, <2>1, <3>3 DEF Announce, CacheTypes, Doings
    <3> QED
      BY <1>3, <2>1, <3>4 DEF Remember, Announce, Elsewhere, fileVars, CacheTypes
  <2>2. CASE Writer(c)
    <3>1. items' \in Maps /\ doing' = [doing EXCEPT ![c] = Nothing]
      BY <2>0, <2>2, WriteKeeps DEF Writer
    <3> QED
      BY <1>3, <2>0, <2>2, <3>1 DEF Remember, Writer, Elsewhere, fileVars, CacheTypes, Doings
  <2> QED
    BY <1>3, <2>1, <2>2 DEF Remember
<1>4. CASE TimePasses
  <2>1. doing' \in [Clients -> Doings]
    BY <1>4 DEF TimePasses, Tick, CacheTypes, Doings, Sweeping
  <2> QED
    BY <1>4, <2>1 DEF TimePasses, Tick, Elsewhere, fileVars, CacheTypes
<1>5. ASSUME NEW s \in Savers, SaverStep(s) \/ CreateFails(s) \/ EncodeFails(s) PROVE CacheTypes'
  <2>0. s \in Clients
    OBVIOUS
  <2>1. CASE Create(s)
    <3>1. doing' = [doing EXCEPT ![s] = [op |-> "SaveCache", shard |-> 1]]
      BY <2>1 DEF Create, Begin
    <3>2. [op |-> "SaveCache", shard |-> 1] \in Doings
      BY DEF Doings, Walking
    <3> QED
      BY <2>0, <2>1, <3>1, <3>2 DEF Create, session, CacheTypes
  <2>2. CASE Locks(s)
    <3>1. doing[s] \in Doings /\ doing[s].op \in {"SaveCache", "hold"}
      BY <2>0, <2>2 DEF Locks, RLock, Items, CacheTypes
    <3>2. doing[s] \in Walking
      BY <3>1 DEF Doings, Remembering, Sweeping, Walking, Nothing
    <3>3. [doing[s] EXCEPT !.op = "hold"] \in Doings /\ [doing[s] EXCEPT !.op = "walk"] \in Doings
      BY <3>2 DEF Walking, Doings
    <3> QED
      BY <2>0, <2>2, <3>3 DEF Locks, RLock, Items, session, fileVars, CacheTypes
  <2>3. CASE Encode(s)
    BY <2>3 DEF Encode, session, CacheTypes
  <2>4. CASE SaveReturns(s) \/ EncodeFails(s)
    <3>1. Nothing \in Doings
      BY DEF Doings
    <3> QED
      BY <2>0, <2>4, <3>1 DEF SaveReturns, EncodeFails, RUnlock, session, CacheTypes
  <2>5. CASE Counts(s) \/ Close(s) \/ CreateFails(s)
    BY <1>1, <2>5 DEF Counts, Close, CreateFails, session
  <2> QED
    BY <1>5, <2>1, <2>2, <2>3, <2>4, <2>5 DEF SaverStep
<1>6. CASE Dies
  <2>1. <<>> \in Maps
    <3>1. DOMAIN <<>> = {} /\ <<>> \in [{} -> ItemSet]
      OBVIOUS
    <3> QED
      BY <3>1, MapsAre
  <2> QED
    BY <1>6, <2>1 DEF Dies, CacheTypes, Doings
<1>7. CASE Restart
  <2>1. <<>> \in Maps
    <3>1. DOMAIN <<>> = {} /\ <<>> \in [{} -> ItemSet]
      OBVIOUS
    <3> QED
      BY <3>1, MapsAre
  <2>2. Whole => encoded[head] \in Maps
    BY DEF Whole, FileTypes, CacheTypes
  <2>3. items' \in Maps
    BY <1>7, <2>1, <2>2, DecodedIn DEF Restart, Load, Contents
  <2> QED
    BY <1>7, <2>3 DEF Restart, fileVars, CacheTypes
<1>8. CASE Begun \/ Gather \/ TimerFires \/ TimerSaves \/ Disconnected \/ Signal \/ UNCHANGED vars
  BY <1>1, <1>8
  DEF Begun, ReportBegins, CommandBegins, Ignored, Command, Gather, CommandEnds, NothingPlaying, Playing,
      Reply, Receive, TimerFires, TimerSaves, Disconnected, Signal, Elsewhere, fileVars,
      session, vars
<1> QED
  BY <1>2, <1>3, <1>4, <1>5, <1>6, <1>7, <1>8 DEF Next, Crash, Exit

-----------------------------------------------------------------------------
(* A report and what it hears.                                             *)

Reports == [at : {"idle", "recent", "gather"}, reads : 0..3,
            tags : {"nobody", "track", "artist"} \X {"none", "tags", "bare", "untitled"}, info : BOOLEAN]

\* The tags so far are those of the answers so far.
TagsFollow == report.tags \in Choice

Told(f) == IF heard[f] = "nothing" THEN 0 ELSE 1

\* A fetcher that has sent its answer is gone, and each is counted once.
ReportInv ==
  /\ report \in Reports
  /\ heard \in [Fetchers -> Answers \cup {"nothing"}]
  /\ report.at # "gather" => \A f \in Fetchers : asks[f] = Off
  /\ report.at = "recent" =>
       report.reads = 0 /\ report.tags = NoTags /\ \A f \in Fetchers : heard[f] = "nothing"
  /\ report.at = "gather" =>
       /\ \A f \in Fetchers : asks[f] = Off <=> heard[f] # "nothing"
       /\ report.reads = Told("info") + Told("track") + Told("artist")
  /\ report.at = "gather" \/ (report.at = "idle" /\ report.reads > 0) => TagsFollow

LEMMA TheCallers ==
  /\ Callers = {"reporter", "info", "track", "artist", "top"}
  /\ Fetchers = {"info", "track", "artist"}
  /\ Fetchers \subseteq Callers
  /\ "reporter" \in Callers \ Fetchers /\ "top" \in Callers \ Fetchers
<1>1. DOMAIN Key = {"reporter", "info", "track", "artist", "top"}
  BY DEF Key
<1> QED
  BY <1>1 DEF Fetchers

\* What a caller asks for is one of the kinds, told apart by where it is.
LEMMA AskIs ==
  ASSUME NEW a \in Asks
  PROVE  /\ a.at \in {"get", "query"} => a \in [at : {"get", "query"}, key : Keys] /\ a # Off
         /\ a.at = "got" => a \in [at : {"got"}, key : Keys, answer : Answers] /\ a # Off
         /\ a.at = "off" <=> a = Off
         /\ a.at \in {"off", "get", "query", "got"}
BY DEF Asks, Off

LEMMA AskingIn ==
  /\ Off \in Asks
  /\ \A k \in Keys : /\ Asking(k) \in Asks /\ Querying(k) \in Asks
                     /\ Asking(k) # Off /\ Querying(k) # Off
  /\ \A k \in Keys, x \in Answers : Got(k, x) \in Asks /\ Got(k, x) # Off
BY DEF Asks, Off, Asking, Querying, Got

\* An answer arrives for the one who asked.
LEMMA AskStep ==
  ASSUME CacheTypes, AnswerTypes, NEW p \in Callers, FromCache(p) \/ Query(p)
  PROVE  /\ asks[p] # Off
         /\ \E a \in Asks : a # Off /\ asks' = [asks EXCEPT ![p] = a]
<1> DEFINE k == asks[p].key
<1>1. asks[p] \in Asks /\ asks[p].at \in {"get", "query"}
  BY DEF FromCache, Query, AnswerTypes
<1>2. asks[p] # Off /\ k \in Keys
  BY <1>1, AskIs
<1>3. CASE FromCache(p)
  <2>1. CASE Found(k) /\ items[k].object # "error value"
    <3>1. k \in DOMAIN items /\ items \in [DOMAIN items -> ItemSet]
      BY <2>1, MapsAre DEF Found, CacheTypes
    <3>2. items[k].object \in Answers
      BY <2>1, <3>1 DEF ItemSet, Stored, Answers
    <3> QED
      BY <1>2, <1>3, <2>1, <3>2, AskingIn DEF FromCache
  <2>2. CASE ~(Found(k) /\ items[k].object # "error value")
    BY <1>2, <1>3, <2>2, AskingIn DEF FromCache
  <2> QED
    BY <2>1, <2>2
<1>4. CASE Query(p)
  <2>1. PICK x \in Answers : asks' = [asks EXCEPT ![p] = Got(k, x)]
    BY <1>4 DEF Query, Answers
  <2> QED
    BY <1>2, <2>1, AskingIn
<1> QED
  BY <1>3, <1>4

LEMMA AnswerStep ==
  ASSUME CacheTypes, AnswerTypes, [Next]_vars
  PROVE  AnswerTypes'
<1> HIDE DEF Asks, Off
<1>1. CASE UNCHANGED asks
  BY <1>1 DEF AnswerTypes
<1>2. ASSUME NEW p \in Callers, Ask(p) PROVE AnswerTypes'
  BY <1>2, AskStep DEF Ask, AnswerTypes
<1>3. CASE Begun
  <2>1. \A p \in Callers : Asking(Key[p]) \in Asks
    BY AskingIn
  <2> QED
    BY <1>3, <2>1, TheCallers DEF Begun, ReportBegins, CommandBegins, Ignored, Command, AnswerTypes
<1>4. CASE Gather
  <2>1. Off \in Asks /\ \A p \in Callers : Asking(Key[p]) \in Asks
    BY AskingIn
  <2>2. CASE Playing
    <3>1. \A p \in Callers : (CASE p \in Fetchers -> Asking(Key[p]) [] p = "reporter" -> Off
                                [] OTHER -> asks[p]) \in Asks
      BY <2>1, TheCallers DEF AnswerTypes
    <3> QED
      BY <2>2, <3>1 DEF Playing, AnswerTypes
  <2>3. CASE CommandEnds \/ NothingPlaying \/ Reply \/ \E f \in Fetchers : Receive(f)
    BY <2>1, <2>3 DEF CommandEnds, NothingPlaying, Reply, Receive, AnswerTypes
  <2> QED
    BY <1>4, <2>2, <2>3 DEF Gather
<1>5. CASE Dies
  BY <1>5, AskingIn DEF Dies, AnswerTypes
<1>6. ASSUME NEW s \in Savers, SaverStep(s) \/ CreateFails(s) \/ EncodeFails(s) PROVE AnswerTypes'
  BY <1>1, <1>6
  DEF SaverStep, Create, Locks, Encode, SaveReturns, Counts, Close, CreateFails, EncodeFails,
      session
<1>7. CASE \E c \in Setters \cup {Janitor} : Remember(c)
  BY <1>1, <1>7 DEF Remember, Announce, Writer
<1>8. CASE TimePasses \/ TimerFires \/ TimerSaves \/ Disconnected \/ Signal \/ Restart
           \/ UNCHANGED vars
  BY <1>1, <1>8
  DEF TimePasses, Tick, TimerFires, TimerSaves, Disconnected, Signal, Restart, session, vars
<1> QED
  BY <1>2, <1>3, <1>4, <1>5, <1>6, <1>7, <1>8 DEF Next, Crash, Exit

\* The tags of report r once f has sent x.
TagsAfter(r, f, x) ==
  IF f = "track" /\ x = "tags" THEN <<"track", "tags">>
  ELSE IF /\ \/ f = "artist" /\ x \in {"tags", "bare", "untitled"}
             \/ f = "track" /\ x = "untitled"
          /\ r.tags[2] \in {"none", "bare"}
  THEN <<f, x>> ELSE r.tags

LEMMA MergeIs ==
  ASSUME NEW r \in Reports, NEW f \in Fetchers, NEW x \in Answers
  PROVE  /\ Merge(r, f, x) \in Reports
         /\ Merge(r, f, x).at = r.at /\ Merge(r, f, x).reads = r.reads
         /\ Merge(r, f, x).tags = TagsAfter(r, f, x)
<1>1. CASE x \in {"error", "failure"}
  BY <1>1 DEF Merge, IsError, TagsAfter
<1>2. CASE x \in {"tags", "bare", "untitled"} /\ f = "info"
  BY <1>2 DEF Merge, IsError, Reports, TagsAfter
<1>3. CASE x \in {"tags", "bare"} /\ f = "track"
  BY <1>3 DEF Merge, IsError, NamesTrack, Reports, TagsAfter
<1>4. CASE \/ f = "track" /\ x = "untitled"
           \/ f = "artist" /\ x \in {"tags", "bare", "untitled"}
  <2>1. /\ ~IsError(x) /\ f # "info" /\ ~NamesTrack(f, x)
        /\ <<f, x>> \in {"nobody", "track", "artist"} \X {"none", "tags", "bare", "untitled"}
    BY <1>4 DEF IsError, NamesTrack
  <2>2. Merge(r, f, x) = IF r.tags[2] \in {"none", "bare"} THEN [r EXCEPT !.tags = <<f, x>>] ELSE r
    BY <2>1 DEF Merge
  <2>3. TagsAfter(r, f, x) = IF r.tags[2] \in {"none", "bare"} THEN <<f, x>> ELSE r.tags
    BY <1>4 DEF TagsAfter
  <2> QED
    BY <2>1, <2>2, <2>3 DEF Reports
<1> QED
  BY <1>1, <1>2, <1>3, <1>4 DEF Fetchers, Answers

LEMMA ReportReceives ==
  ASSUME AnswerTypes, ReportInv, NEW f \in Fetchers, Receive(f)
  PROVE  ReportInv'
<1> DEFINE x == asks[f].answer
           r == Merge(report, f, x)
<1>1. /\ report.at = "gather" /\ report.reads < 3 /\ asks[f].at = "got"
      /\ asks' = [asks EXCEPT ![f] = Off]
      /\ report' = [r EXCEPT !.reads = @ + 1]
      /\ heard' = [heard EXCEPT ![f] = x]
  BY DEF Receive
<1>2. f \in Callers /\ x \in Answers /\ asks[f] # Off
  <2>1. f \in Callers /\ asks[f] \in Asks
    BY TheCallers DEF AnswerTypes
  <2> QED
    BY <1>1, <2>1, AskIs
<1>3. /\ r \in Reports /\ r.at = "gather" /\ r.reads = report.reads
      /\ r.tags = TagsAfter(report, f, x)
  BY <1>1, <1>2, MergeIs DEF ReportInv
<1> HIDE DEF x, r
<1>4. report.reads \in 0..2
  BY <1>1 DEF ReportInv, Reports
<1>5. report' \in Reports /\ report'.at = "gather" /\ report'.reads = report.reads + 1
      /\ report'.tags = r.tags
  BY <1>1, <1>3, <1>4 DEF Reports
<1>6. /\ heard' \in [Fetchers -> Answers \cup {"nothing"}]
      /\ heard'[f] = x /\ x # "nothing" /\ heard[f] = "nothing"
      /\ \A g \in Fetchers \ {f} : heard'[g] = heard[g] /\ asks'[g] = asks[g]
      /\ asks'[f] = Off
  BY <1>1, <1>2, TheCallers DEF ReportInv, Answers, AnswerTypes
<1>7. report'.reads = Told("info")' + Told("track")' + Told("artist")'
  BY <1>1, <1>5, <1>6, TheCallers DEF ReportInv, Told
<1>8. TagsFollow'
  <2>1. TagsFollow
    BY <1>1 DEF ReportInv
  <2>2. CASE f = "info"
    BY <1>3, <1>5, <1>6, <2>1, <2>2, TheCallers DEF TagsFollow, Choice, TagsAfter
  <2>3. CASE f = "track"
    <3>1. /\ heard'["artist"] = heard["artist"] /\ heard'["track"] = x /\ heard["track"] = "nothing"
          /\ report'.tags = IF x = "tags" THEN <<"track", "tags">>
                            ELSE IF x = "untitled" /\ report.tags[2] \in {"none", "bare"}
                            THEN <<"track", x>> ELSE report.tags
      BY <1>3, <1>5, <1>6, <2>3, TheCallers DEF TagsAfter
    <3>2. CASE heard["artist"] \in {"tags", "bare", "untitled"}
      <4>1. report.tags = <<"artist", heard["artist"]>>
        BY <2>1, <3>1, <3>2 DEF TagsFollow, Choice
      <4> QED
        BY <3>1, <3>2, <4>1 DEF TagsFollow, Choice
    <3>3. CASE heard["artist"] \notin {"tags", "bare", "untitled"}
      <4>1. report.tags = <<"nobody", "none">>
        BY <2>1, <3>1, <3>3 DEF TagsFollow, Choice, NoTags
      <4> QED
        BY <3>1, <3>3, <4>1 DEF TagsFollow, Choice, NoTags
    <3> QED
      BY <3>2, <3>3
  <2>4. CASE f = "artist"
    <3>1. /\ heard'["track"] = heard["track"] /\ heard'["artist"] = x /\ heard["artist"] = "nothing"
          /\ report'.tags = IF x \in {"tags", "bare", "untitled"} /\ report.tags[2] \in {"none", "bare"}
                            THEN <<"artist", x>> ELSE report.tags
      BY <1>3, <1>5, <1>6, <2>4, TheCallers DEF TagsAfter
    <3>2. CASE heard["track"] = "tags"
      BY <2>1, <3>1, <3>2 DEF TagsFollow, Choice
    <3>3. CASE heard["track"] = "untitled"
      BY <2>1, <3>1, <3>3 DEF TagsFollow, Choice
    <3>4. CASE heard["track"] \notin {"tags", "untitled"}
      <4>1. report.tags = <<"nobody", "none">>
        BY <2>1, <3>1, <3>4 DEF TagsFollow, Choice, NoTags
      <4> QED
        BY <1>2, <3>1, <3>4, <4>1 DEF TagsFollow, Choice, NoTags, Answers
    <3> QED
      BY <3>2, <3>3, <3>4
  <2> QED
    BY <2>2, <2>3, <2>4, TheCallers
<1>9. \A g \in Fetchers : (asks[g] = Off <=> heard[g] # "nothing")'
  BY <1>1, <1>6 DEF ReportInv
<1> QED
  BY <1>5, <1>6, <1>7, <1>8, <1>9 DEF ReportInv

LEMMA ReportStep ==
  ASSUME CacheTypes, AnswerTypes, ReportInv, [Next]_vars
  PROVE  ReportInv'
<1>1. CASE UNCHANGED <<asks, report, heard>>
  BY <1>1 DEF ReportInv, TagsFollow, Choice, Told
<1>2. ASSUME NEW p \in Callers, Ask(p) PROVE ReportInv'
  <2>1. report' = report /\ heard' = heard
    BY <1>2 DEF Ask, NotReporting, reportVars
  <2>2. asks[p] # Off /\ \E a \in Asks : a # Off /\ asks' = [asks EXCEPT ![p] = a]
    BY <1>2, AskStep DEF Ask
  <2>3. \A g \in Callers : asks'[g] = Off <=> asks[g] = Off
    BY <2>2 DEF AnswerTypes
  <2>4. \A g \in Fetchers : asks'[g] = Off <=> asks[g] = Off
    BY <2>3, TheCallers
  <2> QED
    BY <2>1, <2>4 DEF ReportInv, TagsFollow, Choice, Told
<1>3. CASE ReportBegins
  <2>1. /\ report.at = "idle" /\ report' = [Idle EXCEPT !.at = "recent"]
        /\ heard' = [f \in Fetchers |-> "nothing"]
        /\ asks' = [asks EXCEPT !["reporter"] = Asking(Key["reporter"])]
    BY <1>3 DEF ReportBegins, Command
  <2>2. \A f \in Fetchers : asks'[f] = asks[f]
    BY <2>1, TheCallers DEF AnswerTypes
  <2> QED
    <3>1. /\ report' \in Reports /\ report'.at = "recent" /\ report'.reads = 0
          /\ report'.tags = NoTags
      <4>1. report' = [at |-> "recent", reads |-> 0, tags |-> NoTags, info |-> FALSE]
        BY <2>1 DEF Idle
      <4>2. NoTags \in {"nobody", "track", "artist"} \X {"none", "tags", "bare"}
        BY DEF NoTags
      <4> QED
        BY <4>1, <4>2 DEF Reports
    <3>2. heard' \in [Fetchers -> Answers \cup {"nothing"}]
          /\ \A f \in Fetchers : heard'[f] = "nothing"
      BY <2>1
    <3>3. \A f \in Fetchers : asks'[f] = Off
      BY <2>1, <2>2 DEF ReportInv
    <3> QED
      BY <3>1, <3>2, <3>3 DEF ReportInv
<1>4. CASE CommandBegins \/ CommandEnds
  <2>1. report' = report /\ heard' = heard /\ \E a : asks' = [asks EXCEPT !["top"] = a]
    BY <1>4 DEF CommandBegins, CommandEnds, Command
  <2>2. \A f \in Fetchers : asks'[f] = asks[f]
    BY <2>1, TheCallers DEF AnswerTypes
  <2> QED
    BY <2>1, <2>2 DEF ReportInv, TagsFollow, Choice, Told
<1>5. CASE NothingPlaying
  <2>1. /\ report.at = "recent" /\ report' = Idle /\ heard' = heard
        /\ asks' = [asks EXCEPT !["reporter"] = Off]
    BY <1>5 DEF NothingPlaying
  <2>2. \A f \in Fetchers : asks'[f] = asks[f]
    BY <2>1, TheCallers DEF AnswerTypes
  <2> QED
    BY <2>1, <2>2 DEF ReportInv, Reports, Idle, NoTags
<1>6. CASE Playing
  <2>1. /\ report.at = "recent" /\ report' = [report EXCEPT !.at = "gather"] /\ heard' = heard
        /\ \A f \in Fetchers : asks'[f] = Asking(Key[f])
    BY <1>6, TheCallers DEF Playing
  <2>2. \A f \in Fetchers : asks'[f] # Off
    BY <2>1, TheCallers, AskingIn
  <2>3. \A f \in Fetchers : heard[f] = "nothing"
    BY <2>1 DEF ReportInv
  <2>4. report' \in Reports /\ report'.at = "gather" /\ report'.reads = 0 /\ report'.tags = NoTags
    BY <2>1 DEF ReportInv, Reports
  <2> QED
    BY <2>1, <2>2, <2>3, <2>4, TheCallers DEF ReportInv, TagsFollow, Choice, Told
<1>7. CASE Reply
  <2>1. /\ report.at = "gather" /\ report.reads = 3 /\ report' = [report EXCEPT !.at = "idle"]
        /\ heard' = heard /\ asks' = asks
    BY <1>7 DEF Reply
  <2>2. report' \in Reports /\ report'.at = "idle" /\ report'.tags = report.tags
    BY <2>1 DEF ReportInv, Reports
  <2>3. \A f \in Fetchers : heard[f] # "nothing"
    BY <2>1, TheCallers DEF ReportInv, Told
  <2> QED
    BY <2>1, <2>2, <2>3 DEF ReportInv, TagsFollow, Choice
<1>8. CASE Dies
  <2>1. /\ report' = Idle /\ heard' = [f \in Fetchers |-> "nothing"]
        /\ \A f \in Fetchers : asks'[f] = Off
    BY <1>8, TheCallers DEF Dies
  <2> QED
    BY <2>1 DEF ReportInv, Reports, Idle, NoTags
<1>9. ASSUME NEW s \in Savers, SaverStep(s) \/ CreateFails(s) \/ EncodeFails(s) PROVE ReportInv'
  BY <1>1, <1>9
  DEF SaverStep, Create, Locks, Encode, SaveReturns, Counts, Close, CreateFails, EncodeFails,
      session
<1>10. CASE \E c \in Setters \cup {Janitor} : Remember(c)
  BY <1>1, <1>10 DEF Remember, Announce, Writer, NotReporting, reportVars
<1>11. CASE TimePasses \/ TimerFires \/ TimerSaves \/ Disconnected \/ Signal \/ Restart
            \/ Ignored \/ UNCHANGED vars
  BY <1>1, <1>11
  DEF Ignored, TimePasses, Tick, TimerFires, TimerSaves, Disconnected, Signal, Restart, session, vars,
      reportVars
<1> QED
  BY <1>2, <1>3, <1>4, <1>5, <1>6, <1>7, <1>8, <1>9, <1>10, <1>11, ReportReceives
  DEF Next, Begun, Gather, Crash, Exit

LEMMA ReportInit == Init => CacheTypes /\ AnswerTypes /\ FileTypes /\ ReportInv
<1> SUFFICES ASSUME Init PROVE CacheTypes /\ AnswerTypes /\ FileTypes /\ ReportInv
  OBVIOUS
<1>1. <<>> \in Maps
  <2>1. DOMAIN <<>> = {} /\ <<>> \in [{} -> ItemSet]
    OBVIOUS
  <2> QED
    BY <2>1, MapsAre
<1>2. CacheTypes
  <2> HIDE DEF Maps
  <2> QED
    BY <1>1 DEF Init, CacheTypes, Doings
<1>3. AnswerTypes
  BY AskingIn DEF Init, AnswerTypes
<1>4. FileTypes
  BY FileInit DEF FileInv
<1>5. \A f \in Fetchers : asks[f] = Off
  BY TheCallers DEF Init
<1> QED
  BY <1>2, <1>3, <1>4, <1>5 DEF Init, ReportInv, Reports, Idle, NoTags

\* The tags of a reply depend on the answers and not on their order, and nobody
\* is left to send when the channel is closed: ReplyFollowsAnswers.
THEOREM RepliesFollow == Spec => []ReplyFollowsAnswers
<1>1. FileInv /\ CacheTypes /\ AnswerTypes /\ ReportInv /\ [Next]_vars
      => FileInv' /\ CacheTypes' /\ AnswerTypes' /\ ReportInv'
  BY FileStep, CacheStep, AnswerStep, ReportStep DEF FileInv
<1>2. ReportInv => ReplyFollowsAnswers
  BY DEF ReportInv, ReplyFollowsAnswers, TagsFollow
<1> QED
  BY <1>1, <1>2, FileInit, ReportInit, PTL DEF Spec

=============================================================================
