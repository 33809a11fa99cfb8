------------------------------ MODULE NickMap ------------------------------
(***************************************************************************)
(* The nick <-> last.fm user map of nick_map.go: the two Go maps kept by   *)
(* NickMap, the commands that change them, the JSON file they are saved to *)
(* and the goroutine that watches that file and reloads it.                *)
(*                                                                         *)
(* Spellings and folded names are separate: nickMap is keyed by            *)
(* strings.ToLower(nick) while the lists of reverseMap hold the spelling   *)
(* that was typed, and delUser compares spellings.                         *)
(*                                                                         *)
(* Abstractions.  A list of reverseMap is the set of its elements: the     *)
(* code only appends, filters by value, tests for emptiness and reads      *)
(* rm[0], and here rm[0] may be any element.  An absent list and an empty  *)
(* one are the same.  checkIdentified and the last.fm query come before    *)
(* the lock and are modelled in Identification; here any command may       *)
(* reach its locked section at any time.                                   *)
(***************************************************************************)
EXTENDS Naturals

CONSTANTS
  Nicks,        \* spellings of nicks
  Keys,         \* strings.ToLower of those spellings
  LowerNick,    \* the folding, a function from Nicks to Keys
  Users,        \* spellings of last.fm users, Ignored (the empty one) among them
  UserKeys,     \* strings.ToLower of those
  LowerUser,    \* the folding, a function from Users to UserKeys
  Ignored,      \* "": the user of a nick that asked to be ignored
  NoUser,       \* nickMap has no entry
  NoNick,       \* no deletion in progress
  NoFile,       \* the persistence file does not exist
  Garbled,      \* the file exists but does not decode (empty, or cut short)
  Workers,      \* goroutines that may be inside DelNick
  EditContents, \* what an operator may write into the file
  MaxEdits,     \* bound: edits of the file by the operator
  MaxCrashes    \* bound: deaths of the process

\* A decoded file: a JSON object from user to a list of nicks.
Contents == [Users -> SUBSET Nicks]

ASSUME NickMapConstants ==
  /\ LowerNick \in [Nicks -> Keys]
  /\ LowerUser \in [Users -> UserKeys]
  /\ Ignored \in Users /\ NoUser \notin Users
  /\ NoNick \notin Nicks
  /\ NoFile \notin Contents /\ Garbled \notin Contents
  /\ EditContents \subseteq Contents
  /\ MaxEdits \in Nat /\ MaxCrashes \in Nat

VARIABLES
  nickMap,     \* Keys -> user or NoUser
  reverseMap,  \* UserKeys -> set of spellings
  mu,          \* the NickMap mutex and how far its holder is
  beingSaved,  \* the flag of the same name, written without the mutex by the watcher
  file,        \* the persistence file
  watching,    \* watcher.Watch succeeded in this life of the process
  events,      \* an fsnotify event is waiting to be received
  timer,       \* the watcher's one second timer is armed
  watcher,     \* where loadNickMap, then its goroutine, is
  loading,     \* pairs <<user, nick>> the JSON decoder has still to set
  loadUser,    \* user whose list UnmarshalJSON is going through
  deleting,    \* Workers -> nick being deleted, between GetUser and the lock
  edits, crashes,  \* bounds
  synced,      \* history: the file is the bot's own last save, completed
  dirty,       \* history: an operator's edit that the watcher should load
  deleted      \* history: keys whose owner deleted them and did not return

table == <<nickMap, reverseMap>>
disk == <<file, events, synced>>
watch == <<watching, timer, watcher, loading, loadUser>>
vars == <<nickMap, reverseMap, mu, beingSaved, file, watching, events, timer,
          watcher, loading, loadUser, deleting, edits, crashes, synced, dirty,
          deleted>>

-----------------------------------------------------------------------------
(* setUser and delUser, as operators on the two maps.                      *)

HasUser(k) == nickMap[k] # NoUser

\* The list delUser filters: with no entry, lcuser keeps its value "".
ListOf(n) ==
  LowerUser[IF HasUser(LowerNick[n]) THEN nickMap[LowerNick[n]] ELSE Ignored]

\* Mutated form: the whole list goes, not only this nick.
FilterOutWholeList(n) == [reverseMap EXCEPT ![ListOf(n)] = {}]
\* Mutated form: delUser leaves the list alone.
FilterOutNothing(n) == reverseMap

\* newRm keeps the elements of the list that differ from this very spelling.
FilterOut(n) == [reverseMap EXCEPT ![ListOf(n)] = @ \ {n}]

Forget(n) == [nickMap EXCEPT ![LowerNick[n]] = NoUser]

Listed(n, u) ==
  LET rm == IF HasUser(LowerNick[n]) THEN FilterOut(n) ELSE reverseMap
  IN  [rm EXCEPT ![LowerUser[u]] = @ \cup {n}]

setUser(n, u) ==
  /\ nickMap' = [nickMap EXCEPT ![LowerNick[n]] = u]
  /\ reverseMap' = Listed(n, u)

delUser(n) ==
  /\ nickMap' = Forget(n)
  /\ reverseMap' = FilterOut(n)

-----------------------------------------------------------------------------
(* MarshalJSON.  Each non-empty list is written under the user of its      *)
(* first nick; when two lists name the same user the last one visited by   *)
(* the map iteration stays.                                                *)

Lists == {w \in UserKeys : reverseMap[w] # {}}
Heads == {h \in [UserKeys -> Nicks] : \A w \in Lists : h[w] \in reverseMap[w]}

\* A missing key of a Go map reads as the zero value, "".
UserOfHead(n) == IF HasUser(LowerNick[n]) THEN nickMap[LowerNick[n]] ELSE Ignored

NamedBy(h, u) == {w \in Lists : UserOfHead(h[w]) = u}
Visits(h) ==
  {last \in [Users -> UserKeys] :
     \A u \in Users : NamedBy(h, u) # {} => last[u] \in NamedBy(h, u)}

\* Mutated form: every list that exists is written without the nick it starts with.
DropHead(h, last) ==
  [u \in Users |-> IF NamedBy(h, u) = {} THEN {}
                   ELSE reverseMap[last[u]] \ {h[last[u]]}]

MarshalJSON(h, last) ==
  [u \in Users |-> IF NamedBy(h, u) = {} THEN {} ELSE reverseMap[last[u]]]

-----------------------------------------------------------------------------
Init ==
  /\ nickMap = [k \in Keys |-> NoUser]
  /\ reverseMap = [w \in UserKeys |-> {}]
  /\ mu = "free"
  /\ beingSaved = FALSE
  /\ file \in {NoFile} \cup EditContents
  /\ watching = FALSE /\ events = FALSE /\ timer = FALSE
  /\ watcher \in {"boot", "off"}
  /\ loading = {} /\ loadUser = Ignored
  /\ deleting = [w \in Workers |-> NoNick]
  /\ edits = 0 /\ crashes = 0
  /\ synced = FALSE /\ dirty = FALSE /\ deleted = {}

\* The -save-nicks flag of this process: loadNickMap and its goroutine do
\* something only when it is set.
SaveNicks == watcher # "off"

\* main calls loadNickMap before it connects: no command runs until the
\* watcher goroutine has been started.
Serving == watcher \notin {"boot", "watch"}

-----------------------------------------------------------------------------
(* The commands.                                                           *)

\* The locked section of AddNick and IgnoreNick up to saveNickMap.
Associate(n, u) ==
  /\ Serving /\ mu = "free"
  /\ setUser(n, u)
  /\ mu' = "set"
  /\ deleted' = deleted \ {LowerNick[n]}
  /\ UNCHANGED <<beingSaved, disk, watch, deleting, edits, crashes, dirty>>

AddNick(n, u) == u # Ignored /\ Associate(n, u)
IgnoreNick(n) == Associate(n, Ignored)

\* saveNickMap: the flag is raised and os.Create truncates the file.
SaveBegin ==
  /\ mu = "set" /\ SaveNicks
  /\ beingSaved' = TRUE
  /\ file' = Garbled
  /\ events' = watching
  /\ mu' = "truncated"
  /\ synced' = FALSE /\ dirty' = FALSE
  /\ UNCHANGED <<table, watch, deleting, edits, crashes, deleted>>

\* os.Create fails: nothing is written, and the flag stays up.
CreateFails ==
  /\ mu = "set" /\ SaveNicks
  /\ beingSaved' = TRUE
  /\ mu' = "free"
  /\ synced' = FALSE /\ dirty' = FALSE
  /\ UNCHANGED <<table, file, events, watch, deleting, edits, crashes, deleted>>

\* With -save-nicks=false saveNickMap does nothing.
SaveOff ==
  /\ mu = "set" /\ ~SaveNicks
  /\ mu' = "free"
  /\ UNCHANGED <<table, beingSaved, disk, watch, deleting, edits, crashes,
                 dirty, deleted>>

SaveWrite ==
  /\ mu = "truncated"
  /\ \E h \in Heads : \E last \in Visits(h) : file' = MarshalJSON(h, last)
  /\ events' = watching
  /\ mu' = "free"
  /\ synced' = TRUE
  /\ UNCHANGED <<table, beingSaved, watch, deleting, edits, crashes, dirty,
                 deleted>>

\* fh.Write fails: the file keeps a prefix of the text.
WriteFails ==
  /\ mu = "truncated"
  /\ events' = watching
  /\ mu' = "free"
  /\ UNCHANGED <<table, beingSaved, file, watch, deleting, edits, crashes,
                 synced, dirty, deleted>>

\* DelNick looks the user up (GetUser locks and unlocks) ...
DelLookup(w, n) ==
  /\ Serving /\ mu = "free"
  /\ deleting[w] = NoNick /\ HasUser(LowerNick[n])
  /\ deleting' = [deleting EXCEPT ![w] = n]
  /\ UNCHANGED <<table, mu, beingSaved, disk, watch, edits, crashes, dirty,
                 deleted>>

\* ... gives up when the owner is not identified ...
DelRefused(w) ==
  /\ deleting[w] # NoNick
  /\ deleting' = [deleting EXCEPT ![w] = NoNick]
  /\ UNCHANGED <<table, mu, beingSaved, disk, watch, edits, crashes, dirty,
                 deleted>>

\* ... and otherwise locks and deletes, without a call of saveNickMap.
DelCommit(w) ==
  /\ deleting[w] # NoNick /\ mu = "free"
  /\ delUser(deleting[w])
  /\ deleted' = deleted \cup {LowerNick[deleting[w]]}
  /\ deleting' = [deleting EXCEPT ![w] = NoNick]
  /\ UNCHANGED <<mu, beingSaved, disk, watch, edits, crashes, dirty>>

-----------------------------------------------------------------------------
(* loadNickMap, its goroutine and decodeNickMap.                           *)

Decoding == watcher \in {"boot", "decode"} /\ mu # "loading"
AfterDecode == IF watcher = "boot" THEN "watch" ELSE "clear"

\* os.Open fails.
OpenFails ==
  /\ Decoding /\ file = NoFile
  /\ watcher' = AfterDecode
  /\ UNCHANGED <<table, mu, beingSaved, disk, watching, timer, loading,
                 loadUser, deleting, edits, crashes, dirty, deleted>>

\* The decoder meets an error before UnmarshalJSON has touched the maps.
DecodeFails ==
  /\ Decoding /\ mu = "free" /\ file = Garbled
  /\ watcher' = AfterDecode
  /\ UNCHANGED <<table, mu, beingSaved, disk, watching, timer, loading,
                 loadUser, deleting, edits, crashes, dirty, deleted>>

\* UnmarshalJSON empties both maps ...
DecodeBegin ==
  /\ Decoding /\ mu = "free" /\ file \in Contents
  /\ mu' = "loading"
  /\ nickMap' = [k \in Keys |-> NoUser]
  /\ reverseMap' = [w \in UserKeys |-> {}]
  /\ loading' = {p \in Users \X Nicks : p[2] \in file[p[1]]}
  /\ loadUser' = Ignored
  /\ dirty' = FALSE
  /\ UNCHANGED <<beingSaved, disk, watching, timer, watcher, deleting, edits,
                 crashes, deleted>>

\* ... and calls setUser for each nick of each user, one user after another.
DecodeStep(u, n) ==
  /\ mu = "loading" /\ <<u, n>> \in loading
  /\ (\E p \in loading : p[1] = loadUser) => u = loadUser
  /\ setUser(n, u)
  /\ loading' = loading \ {<<u, n>>}
  /\ loadUser' = u
  /\ UNCHANGED <<mu, beingSaved, disk, watching, timer, watcher, deleting,
                 edits, crashes, dirty, deleted>>

DecodeEnd ==
  /\ mu = "loading" /\ loading = {}
  /\ mu' = "free"
  /\ watcher' = AfterDecode
  /\ UNCHANGED <<table, beingSaved, disk, watching, timer, loading, loadUser,
                 deleting, edits, crashes, dirty, deleted>>

\* watcher.Watch needs the file to exist; its error is only logged.  Without a
\* watcher the process ends (log.Fatalln), which is a Crash before this step.
StartWatch ==
  /\ watcher = "watch"
  /\ watching' = (file # NoFile)
  /\ watcher' = "select"
  /\ UNCHANGED <<table, mu, beingSaved, disk, timer, loading, loadUser,
                 deleting, edits, crashes, dirty, deleted>>

\* Mutated form: the event is received and the timer is not armed.
EventDropped ==
  /\ watcher = "select" /\ events
  /\ events' = FALSE
  /\ UNCHANGED <<table, mu, beingSaved, file, synced, watch, deleting, edits,
                 crashes, dirty, deleted>>

WatchEvent ==
  /\ watcher = "select" /\ events
  /\ events' = FALSE
  /\ timer' = TRUE
  /\ UNCHANGED <<table, mu, beingSaved, file, synced, watching, watcher,
                 loading, loadUser, deleting, edits, crashes, dirty, deleted>>

TimerFires ==
  /\ watcher = "select" /\ timer
  /\ watcher' = IF beingSaved THEN "clear" ELSE "decode"
  /\ UNCHANGED <<table, mu, beingSaved, disk, watching, timer, loading,
                 loadUser, deleting, edits, crashes, dirty, deleted>>

ClearFlag ==
  /\ watcher = "clear"
  /\ beingSaved' = FALSE
  /\ timer' = FALSE
  /\ watcher' = "select"
  /\ UNCHANGED <<table, mu, disk, watching, loading, loadUser, deleting,
                 edits, crashes, dirty, deleted>>

-----------------------------------------------------------------------------
(* The environment.                                                        *)

\* The operator rewrites the file in place (not between the truncation and
\* the write of a save, which are adjacent system calls).
ExternalEdit ==
  /\ edits < MaxEdits /\ mu # "truncated"
  /\ file' \in EditContents
  /\ events' = (events \/ watching)
  /\ edits' = edits + 1
  /\ synced' = FALSE
  /\ dirty' = (watching /\ ~beingSaved)
  /\ deleted' = {}
  /\ UNCHANGED <<table, mu, beingSaved, watch, deleting, crashes>>

\* The process dies, wherever it is (main does not wait for commands in progress
\* either), and is started again, with the same flags.
Crash ==
  /\ crashes < MaxCrashes
  /\ crashes' = crashes + 1
  /\ nickMap' = [k \in Keys |-> NoUser]
  /\ reverseMap' = [w \in UserKeys |-> {}]
  /\ mu' = "free" /\ beingSaved' = FALSE
  /\ watching' = FALSE /\ events' = FALSE /\ timer' = FALSE
  /\ watcher' = IF SaveNicks THEN "boot" ELSE "off"
  /\ loading' = {} /\ loadUser' = Ignored
  /\ deleting' = [w \in Workers |-> NoNick]
  /\ dirty' = FALSE
  /\ UNCHANGED <<file, edits, synced, deleted>>

-----------------------------------------------------------------------------
Command ==
  \/ \E n \in Nicks, u \in Users : AddNick(n, u)
  \/ \E n \in Nicks : IgnoreNick(n)
  \/ \E w \in Workers, n \in Nicks : DelLookup(w, n)
  \/ \E w \in Workers : DelRefused(w) \/ DelCommit(w)

Save == SaveBegin \/ CreateFails \/ SaveOff \/ SaveWrite \/ WriteFails

Load ==
  \/ OpenFails \/ DecodeFails \/ DecodeBegin \/ DecodeEnd
  \/ \E n \in Nicks, u \in Users : DecodeStep(u, n)

Watcher == Load \/ StartWatch \/ WatchEvent \/ TimerFires \/ ClearFlag

Next == Command \/ Save \/ Watcher \/ ExternalEdit \/ Crash

Spec == Init /\ [][Next]_vars

\* The save of a lock holder and the watcher's goroutine are never parked
\* for good: each waits only for the mutex, for an event that has happened or
\* for a timer that runs.
FairSpec ==
  Spec /\ WF_vars(Save) /\ WF_vars(Load) /\ WF_vars(StartWatch)
       /\ WF_vars(WatchEvent) /\ WF_vars(TimerFires) /\ WF_vars(ClearFlag)

-----------------------------------------------------------------------------
(* Properties.                                                             *)

\* Each variable has its type; in particular both maps stay total over their
\* keys, whatever delete() and the reassignment in UnmarshalJSON do.
TypeOK ==
  /\ nickMap \in [Keys -> Users \cup {NoUser}]
  /\ reverseMap \in [UserKeys -> SUBSET Nicks]
  /\ mu \in {"free", "set", "truncated", "loading"}
  /\ file \in Contents \cup {NoFile, Garbled}
  /\ beingSaved \in BOOLEAN /\ watching \in BOOLEAN /\ events \in BOOLEAN
  /\ timer \in BOOLEAN /\ synced \in BOOLEAN /\ dirty \in BOOLEAN
  /\ watcher \in {"boot", "watch", "select", "decode", "clear", "off"}
  /\ loading \subseteq Users \X Nicks
  /\ loadUser \in Users
  /\ deleting \in [Workers -> Nicks \cup {NoNick}]
  /\ edits \in 0..MaxEdits /\ crashes \in 0..MaxCrashes
  /\ deleted \in SUBSET Keys

\* Whoever .whois shows as associated is shown by .aka of that user: setUser
\* and delUser, in any mixture of spellings and interleaved with reloads,
\* never leave an entry of nickMap without a spelling in the list of its user.
ForwardListed ==
  \A k \in Keys :
    HasUser(k) => \E n \in reverseMap[LowerUser[nickMap[k]]] : LowerNick[n] = k

\* The converse: whoever .aka lists is associated with that very user.  It
\* needs nicks that always come in one spelling (CaseStable).
Consistent ==
  \A w \in UserKeys : \A n \in reverseMap[w] :
    HasUser(LowerNick[n]) /\ LowerUser[nickMap[LowerNick[n]]] = w

\* Nicks that always come in one spelling.
CaseStable == \A m, n \in Nicks : LowerNick[m] = LowerNick[n] => m = n

FiledUnder(k) == {u \in Users : \E n \in file[u] : LowerNick[n] = k}

\* While the file is the bot's own completed save, a restart or a reload
\* gives every associated nick back, to the same last.fm account: the file
\* lists the nick, and only under that user (saveNickMap, MarshalJSON).
Durable ==
  (synced /\ mu \in {"free", "loading"}) =>
    \A k \in Keys :
      HasUser(k) => /\ FiledUnder(k) # {}
                    /\ \A u \in FiledUnder(k) : LowerUser[u] = LowerUser[nickMap[k]]

\* What an operator writes while no save is flagged is loaded, unless a save
\* or the death of the process comes first: the timer, the flag and the
\* goroutine of loadNickMap never lose the notification.
EditLoaded == dirty ~> ~dirty

\* .deluser removes the association: it does not come back unless its owner
\* asks for it or the operator edits the file.
StaysDeleted == \A k \in deleted : ~HasUser(k)
=============================================================================
