-------------------------- MODULE NickMapProofs --------------------------
(***************************************************************************)
(* Proofs about NickMap, for any sets of nicks and users, any folding of   *)
(* their names, any file an operator may write and any number of edits,    *)
(* crashes and concurrent deletions.                                       *)
(***************************************************************************)
EXTENDS NickMap, TLAPS

USE NickMapConstants

-----------------------------------------------------------------------------
(* What the two helpers of the maps return.                                *)

\* setUser and delUser keep the types of the two maps.
LEMMA HelperTypes ==
  ASSUME TypeOK, NEW n \in Nicks, NEW u \in Users
  PROVE  /\ LowerNick[n] \in Keys /\ LowerUser[u] \in UserKeys
         /\ ListOf(n) \in UserKeys
         /\ Forget(n) \in [Keys -> Users \cup {NoUser}]
         /\ FilterOut(n) \in [UserKeys -> SUBSET Nicks]
         /\ [nickMap EXCEPT ![LowerNick[n]] = u] \in [Keys -> Users \cup {NoUser}]
         /\ Listed(n, u) \in [UserKeys -> SUBSET Nicks]
<1>1. LowerNick[n] \in Keys /\ LowerUser[u] \in UserKeys
  OBVIOUS
<1>2. ListOf(n) \in UserKeys
  BY <1>1 DEF TypeOK, ListOf, HasUser
<1>3. FilterOut(n) \in [UserKeys -> SUBSET Nicks]
  BY <1>2 DEF TypeOK, FilterOut
<1>4. Listed(n, u) \in [UserKeys -> SUBSET Nicks]
  BY <1>1, <1>3 DEF TypeOK, Listed
<1> QED
  BY <1>1, <1>2, <1>3, <1>4 DEF TypeOK, Forget

\* A JSON object written by MarshalJSON is one the decoder can read.
LEMMA MarshalType ==
  ASSUME TypeOK, NEW h \in Heads, NEW last \in Visits(h)
  PROVE  MarshalJSON(h, last) \in Contents
BY DEF TypeOK, Heads, Visits, MarshalJSON, Contents

\* The types are an invariant: TypeOK.
THEOREM TypeCorrect == Spec => []TypeOK
<1>1. Init => TypeOK
  <2> SUFFICES ASSUME Init PROVE TypeOK
    OBVIOUS
  <2>1. watcher \in {"boot", "watch", "select", "decode", "clear", "off"}
    BY DEF Init
  <2>2. 0 \in 0..MaxEdits /\ 0 \in 0..MaxCrashes
    OBVIOUS
  <2>3. file \in Contents \cup {NoFile, Garbled}
    BY DEF Init
  <2> QED
    BY <2>1, <2>2, <2>3 DEF Init, TypeOK
<1>2. TypeOK /\ [Next]_vars => TypeOK'
  <2> SUFFICES ASSUME TypeOK, [Next]_vars PROVE TypeOK'
    OBVIOUS
  <2> USE DEF table, disk, watch
  <2>1. ASSUME NEW n \in Nicks, NEW u \in Users, Associate(n, u) PROVE TypeOK'
    BY <2>1, HelperTypes DEF TypeOK, Associate, setUser
  <2>2. CASE SaveBegin
    BY <2>2 DEF TypeOK, SaveBegin
  <2>3. CASE CreateFails
    BY <2>3 DEF TypeOK, CreateFails
  <2>4. CASE SaveOff
    BY <2>4 DEF TypeOK, SaveOff
  <2>5. CASE SaveWrite
    BY <2>5, MarshalType DEF TypeOK, SaveWrite
  <2>6. CASE WriteFails
    BY <2>6 DEF TypeOK, WriteFails
  <2>7. ASSUME NEW w \in Workers, NEW n \in Nicks, DelLookup(w, n) PROVE TypeOK'
    BY <2>7 DEF TypeOK, DelLookup
  <2>8. ASSUME NEW w \in Workers, DelRefused(w) PROVE TypeOK'
    BY <2>8 DEF TypeOK, DelRefused
  <2>9. ASSUME NEW w \in Workers, DelCommit(w) PROVE TypeOK'
    <3>1. deleting[w] \in Nicks
      BY <2>9 DEF TypeOK, DelCommit
    <3>2. nickMap' \in [Keys -> Users \cup {NoUser}] /\ reverseMap' \in [UserKeys -> SUBSET Nicks]
      BY <2>9, <3>1, HelperTypes DEF DelCommit, delUser
    <3> QED
      BY <2>9, <3>1, <3>2 DEF TypeOK, DelCommit
  <2>10. CASE OpenFails
    BY <2>10 DEF TypeOK, OpenFails, AfterDecode
  <2>11. CASE DecodeFails
    BY <2>11 DEF TypeOK, DecodeFails, AfterDecode
  <2>12. CASE DecodeBegin
    BY <2>12 DEF TypeOK, DecodeBegin
  <2>13. ASSUME NEW n \in Nicks, NEW u \in Users, DecodeStep(u, n) PROVE TypeOK'
    BY <2>13, HelperTypes DEF TypeOK, DecodeStep, setUser
  <2>14. CASE DecodeEnd
    BY <2>14 DEF TypeOK, DecodeEnd, AfterDecode
  <2>15. CASE StartWatch
    BY <2>15 DEF TypeOK, StartWatch
  <2>16. CASE WatchEvent
    BY <2>16 DEF TypeOK, WatchEvent
  <2>17. CASE TimerFires
    BY <2>17 DEF TypeOK, TimerFires
  <2>18. CASE ClearFlag
    BY <2>18 DEF TypeOK, ClearFlag
  <2>19. CASE ExternalEdit
    <3>1. events' \in BOOLEAN /\ dirty' \in BOOLEAN
      BY <2>19 DEF ExternalEdit
    <3>2. edits' \in 0..MaxEdits
      BY <2>19 DEF TypeOK, ExternalEdit
    <3> QED
      BY <2>19, <3>1, <3>2 DEF TypeOK, ExternalEdit
  <2>20. CASE Crash
    <3>1. watcher' \in {"boot", "watch", "select", "decode", "clear", "off"}
      BY <2>20 DEF Crash
    <3>2. crashes' \in 0..MaxCrashes
      BY <2>20 DEF TypeOK, Crash
    <3> QED
      BY <2>20, <3>1, <3>2 DEF TypeOK, Crash
  <2>21. CASE UNCHANGED vars
    BY <2>21 DEF TypeOK, vars
  <2> QED
    BY <2>1, <2>2, <2>3, <2>4, <2>5, <2>6, <2>7, <2>8, <2>9, <2>10, <2>11, <2>12,
       <2>13, <2>14, <2>15, <2>16, <2>17, <2>18, <2>19, <2>20, <2>21
    DEF Next, Command, Save, Load, Watcher, AddNick, IgnoreNick
<1> QED
  BY <1>1, <1>2, PTL DEF Spec

-----------------------------------------------------------------------------
(* .whois and .aka agree.                                                  *)

\* The steps that change the two maps.
LEMMA TableSteps ==
  ASSUME [Next]_vars
  PROVE  \/ \E n \in Nicks, u \in Users : setUser(n, u)
         \/ \E w \in Workers : DelCommit(w)
         \/ DecodeBegin \/ Crash \/ UNCHANGED table
BY DEF Next, Command, Save, Load, Watcher, AddNick, IgnoreNick, Associate,
       SaveBegin, CreateFails, SaveOff, SaveWrite, WriteFails, DelLookup,
       DelRefused, OpenFails, DecodeFails, DecodeStep, DecodeEnd, StartWatch,
       WatchEvent, TimerFires, ClearFlag, ExternalEdit, vars, table

\* setUser keeps ForwardListed: it overwrites the entry whose spelling it may
\* have removed, and lists that one again.
LEMMA SetUserForward ==
  ASSUME TypeOK, ForwardListed, NEW n \in Nicks, NEW u \in Users, setUser(n, u)
  PROVE  ForwardListed'
<1> DEFINE l == LowerNick[n]
<1> SUFFICES ASSUME NEW k \in Keys, nickMap'[k] # NoUser
             PROVE  \E m \in reverseMap'[LowerUser[nickMap'[k]]] : LowerNick[m] = k
  BY DEF ForwardListed, HasUser
<1>1. CASE k = l
  <2>1. nickMap'[k] = u /\ n \in reverseMap'[LowerUser[u]]
    BY <1>1, HelperTypes DEF TypeOK, setUser, Listed
  <2> QED
    BY <1>1, <2>1
<1>2. CASE k # l
  <2>1. nickMap'[k] = nickMap[k] /\ HasUser(k)
    BY <1>2 DEF TypeOK, setUser, HasUser
  <2>2. PICK m \in reverseMap[LowerUser[nickMap[k]]] : LowerNick[m] = k
    BY <2>1 DEF ForwardListed
  <2>3. m # n /\ LowerUser[nickMap[k]] \in UserKeys
    BY <1>2, <2>1, <2>2 DEF TypeOK, HasUser
  <2>4. m \in FilterOut(n)[LowerUser[nickMap[k]]]
    BY <2>2, <2>3, HelperTypes DEF TypeOK, FilterOut
  <2>5. m \in Listed(n, u)[LowerUser[nickMap[k]]]
    BY <2>2, <2>3, <2>4, HelperTypes DEF TypeOK, Listed
  <2> QED
    BY <2>1, <2>2, <2>5 DEF setUser
<1> QED
  BY <1>1, <1>2

\* delUser keeps ForwardListed: only the entry it deletes loses a spelling.
LEMMA DelUserForward ==
  ASSUME TypeOK, ForwardListed, NEW n \in Nicks, delUser(n)
  PROVE  ForwardListed'
<1> SUFFICES ASSUME NEW k \in Keys, nickMap'[k] # NoUser
             PROVE  \E m \in reverseMap'[LowerUser[nickMap'[k]]] : LowerNick[m] = k
  BY DEF ForwardListed, HasUser
<1>1. k # LowerNick[n] /\ nickMap'[k] = nickMap[k] /\ HasUser(k)
  BY DEF TypeOK, delUser, Forget, HasUser
<1>2. PICK m \in reverseMap[LowerUser[nickMap[k]]] : LowerNick[m] = k
  BY <1>1 DEF ForwardListed
<1>3. m # n /\ LowerUser[nickMap[k]] \in UserKeys
  BY <1>1, <1>2 DEF TypeOK, HasUser
<1>4. ListOf(n) \in UserKeys
  BY DEF TypeOK, ListOf, HasUser
<1>5. m \in FilterOut(n)[LowerUser[nickMap[k]]]
  BY <1>2, <1>3, <1>4 DEF TypeOK, FilterOut
<1> QED
  BY <1>1, <1>2, <1>5 DEF delUser

\* Every associated nick is listed under its user, in any spelling: ForwardListed.
THEOREM WhoisListedInAka == Spec => []ForwardListed
<1>1. Init => ForwardListed
  BY DEF Init, ForwardListed, HasUser
<1>2. TypeOK /\ ForwardListed /\ [Next]_vars => ForwardListed'
  <2> SUFFICES ASSUME TypeOK, ForwardListed, [Next]_vars PROVE ForwardListed'
    OBVIOUS
  <2>1. ASSUME NEW n \in Nicks, NEW u \in Users, setUser(n, u) PROVE ForwardListed'
    BY <2>1, SetUserForward
  <2>2. ASSUME NEW w \in Workers, DelCommit(w) PROVE ForwardListed'
    <3>1. deleting[w] \in Nicks /\ delUser(deleting[w])
      BY <2>2 DEF TypeOK, DelCommit
    <3> QED
      BY <3>1, DelUserForward
  <2>3. CASE DecodeBegin \/ Crash
    BY <2>3 DEF DecodeBegin, Crash, ForwardListed, HasUser
  <2>4. CASE UNCHANGED table
    BY <2>4 DEF table, ForwardListed, HasUser
  <2> QED
    BY <2>1, <2>2, <2>3, <2>4, TableSteps
<1> QED
  BY <1>1, <1>2, TypeCorrect, PTL DEF Spec

\* setUser keeps Consistent when nicks come in one spelling: the only other
\* list the nick can be in is the one delUser filters.
LEMMA SetUserConsistent ==
  ASSUME CaseStable, TypeOK, Consistent,
         NEW n \in Nicks, NEW u \in Users, setUser(n, u)
  PROVE  Consistent'
<1> SUFFICES ASSUME NEW w \in UserKeys, NEW m \in reverseMap'[w]
             PROVE  /\ nickMap'[LowerNick[m]] # NoUser
                    /\ LowerUser[nickMap'[LowerNick[m]]] = w
  BY DEF Consistent, HasUser
<1>1. m \in Nicks
  BY HelperTypes DEF setUser
<1>2. CASE m = n /\ w = LowerUser[u]
  BY <1>2, HelperTypes DEF TypeOK, setUser
<1>3. CASE m # n
  <2>1. m \in reverseMap[w]
    BY <1>3, HelperTypes DEF TypeOK, setUser, Listed, FilterOut
  <2>2. LowerNick[m] # LowerNick[n]
    BY <1>1, <1>3 DEF CaseStable
  <2>3. nickMap'[LowerNick[m]] = nickMap[LowerNick[m]]
    BY <1>1, <2>2, HelperTypes DEF TypeOK, setUser
  <2> QED
    BY <2>1, <2>3 DEF Consistent, HasUser
<1>4. CASE m = n /\ w # LowerUser[u]
  <2>1. m \in reverseMap[w]
    BY <1>4, HelperTypes DEF TypeOK, setUser, Listed, FilterOut
  <2>2. HasUser(LowerNick[n]) /\ LowerUser[nickMap[LowerNick[n]]] = w
    BY <1>4, <2>1 DEF Consistent
  <2>3. n \notin reverseMap'[w]
    BY <1>4, <2>2, HelperTypes DEF TypeOK, setUser, Listed, FilterOut, ListOf
  <2> QED
    BY <1>4, <2>3
<1> QED
  BY <1>2, <1>3, <1>4

\* delUser keeps Consistent when nicks come in one spelling.
LEMMA DelUserConsistent ==
  ASSUME CaseStable, TypeOK, Consistent, NEW n \in Nicks, delUser(n)
  PROVE  Consistent'
<1> SUFFICES ASSUME NEW w \in UserKeys, NEW m \in reverseMap'[w]
             PROVE  /\ nickMap'[LowerNick[m]] # NoUser
                    /\ LowerUser[nickMap'[LowerNick[m]]] = w
  BY DEF Consistent, HasUser
<1>1. ListOf(n) \in UserKeys /\ LowerNick[n] \in Keys
  BY DEF TypeOK, ListOf, HasUser
<1>2. m \in reverseMap[w] /\ m \in Nicks
  BY <1>1 DEF TypeOK, delUser, FilterOut
<1>3. HasUser(LowerNick[m]) /\ LowerUser[nickMap[LowerNick[m]]] = w
  BY <1>2 DEF Consistent
<1>4. m # n
  <2> SUFFICES ASSUME m = n PROVE FALSE
    OBVIOUS
  <2>1. ListOf(n) = w
    BY <1>3 DEF ListOf
  <2> QED
    BY <1>1, <2>1 DEF TypeOK, delUser, FilterOut
<1>5. nickMap'[LowerNick[m]] = nickMap[LowerNick[m]]
  BY <1>1, <1>2, <1>4 DEF TypeOK, delUser, Forget, CaseStable
<1> QED
  BY <1>3, <1>5 DEF HasUser

\* With one spelling per nick, .aka lists exactly the associated: Consistent.
THEOREM AkaAssociated == ASSUME CaseStable PROVE Spec => []Consistent
<1>1. Init => Consistent
  BY DEF Init, Consistent
<1>2. TypeOK /\ Consistent /\ [Next]_vars => Consistent'
  <2> SUFFICES ASSUME TypeOK, Consistent, [Next]_vars PROVE Consistent'
    OBVIOUS
  <2>1. ASSUME NEW n \in Nicks, NEW u \in Users, setUser(n, u) PROVE Consistent'
    BY <2>1, SetUserConsistent
  <2>2. ASSUME NEW w \in Workers, DelCommit(w) PROVE Consistent'
    <3>1. deleting[w] \in Nicks /\ delUser(deleting[w])
      BY <2>2 DEF TypeOK, DelCommit
    <3> QED
      BY <3>1, DelUserConsistent
  <2>3. CASE DecodeBegin \/ Crash
    BY <2>3 DEF DecodeBegin, Crash, Consistent
  <2>4. CASE UNCHANGED table
    BY <2>4 DEF table, Consistent, HasUser
  <2> QED
    BY <2>1, <2>2, <2>3, <2>4, TableSteps
<1> QED
  BY <1>1, <1>2, TypeCorrect, PTL DEF Spec

-----------------------------------------------------------------------------
(* The bot's own save gives every association back.                        *)

\* In the file a nick stands for one last.fm account.
Unambiguous ==
  \A u, v \in Users : \A m \in file[u], n \in file[v] :
    LowerNick[m] = LowerNick[n] => LowerUser[u] = LowerUser[v]

\* Durable made inductive: what a completed save guarantees about the file,
\* and what is still to be loaded while that file is being decoded.
DurableInv ==
  /\ mu = "truncated" => SaveNicks /\ ~synced
  /\ synced => SaveNicks /\ file \in Contents /\ Unambiguous
  /\ synced /\ mu = "loading" => \A p \in loading : p[2] \in file[p[1]]
  /\ Durable

\* The object MarshalJSON writes lists a nick under an account exactly when
\* the nick is associated with it.
LEMMA MarshalFaithful ==
  ASSUME CaseStable, TypeOK, ForwardListed, Consistent,
         NEW h \in Heads, NEW last \in Visits(h),
         file' = MarshalJSON(h, last)
  PROVE  /\ \A u \in Users : \A m \in file'[u] :
              HasUser(LowerNick[m]) /\ LowerUser[u] = LowerUser[nickMap[LowerNick[m]]]
         /\ \A k \in Keys : HasUser(k) =>
              \E u \in Users : \E n \in file'[u] : LowerNick[n] = k
<1>1. ASSUME NEW w \in Lists
      PROVE  /\ h[w] \in Nicks /\ HasUser(LowerNick[h[w]])
             /\ UserOfHead(h[w]) \in Users /\ LowerUser[UserOfHead(h[w])] = w
  <2>1. h[w] \in reverseMap[w] /\ w \in UserKeys /\ h[w] \in Nicks
    BY DEF Heads, Lists
  <2>2. HasUser(LowerNick[h[w]]) /\ LowerUser[nickMap[LowerNick[h[w]]]] = w
    BY <2>1 DEF Consistent
  <2> QED
    BY <2>1, <2>2 DEF TypeOK, UserOfHead, HasUser
<1>2. ASSUME NEW u \in Users, NEW m \in file'[u]
      PROVE  /\ HasUser(LowerNick[m])
             /\ LowerUser[u] = LowerUser[nickMap[LowerNick[m]]]
  <2>1. NamedBy(h, u) # {} /\ m \in reverseMap[last[u]]
    BY DEF MarshalJSON
  <2>2. last[u] \in NamedBy(h, u)
    BY <2>1 DEF Visits
  <2>3. last[u] \in Lists /\ UserOfHead(h[last[u]]) = u
    BY <2>2 DEF NamedBy
  <2>4. last[u] \in UserKeys /\ LowerUser[u] = last[u]
    BY <1>1, <2>3 DEF Lists
  <2> QED
    BY <2>1, <2>4 DEF Consistent
<1>3. ASSUME NEW k \in Keys, HasUser(k)
      PROVE  \E u \in Users : \E n \in file'[u] : LowerNick[n] = k
  <2> DEFINE w == LowerUser[nickMap[k]]
  <2>1. PICK n \in reverseMap[w] : LowerNick[n] = k
    BY <1>3 DEF ForwardListed
  <2>2. w \in UserKeys /\ w \in Lists
    BY <1>3, <2>1 DEF TypeOK, HasUser, Lists
  <2> DEFINE v == UserOfHead(h[w])
  <2>3. v \in Users /\ LowerUser[v] = w /\ w \in NamedBy(h, v)
    BY <1>1, <2>2 DEF NamedBy
  <2>4. last[v] \in NamedBy(h, v)
    BY <2>3 DEF Visits
  <2>5. last[v] \in Lists /\ UserOfHead(h[last[v]]) = v
    BY <2>4 DEF NamedBy
  <2>6. last[v] = w
    BY <1>1, <2>3, <2>5
  <2>7. n \in file'[v]
    BY <2>1, <2>3, <2>6 DEF MarshalJSON
  <2> QED
    BY <2>1, <2>3, <2>7
<1> QED
  BY <1>2, <1>3

\* With one spelling per nick, the bot's own completed save gives every
\* associated nick back to its account after a restart or a reload: Durable.
THEOREM SavesAreDurable == ASSUME CaseStable PROVE Spec => []Durable
<1>1. Init => DurableInv
  BY DEF Init, DurableInv, Durable, HasUser
<1>2. TypeOK /\ ForwardListed /\ Consistent /\ DurableInv /\ [Next]_vars => DurableInv'
  <2> SUFFICES ASSUME TypeOK, ForwardListed, Consistent, DurableInv, [Next]_vars
               PROVE  DurableInv'
    OBVIOUS
  <2> USE DEF table, disk, watch
  <2>0. SaveNicks => SaveNicks'
    BY DEF SaveNicks, Next, Command, Save, Load, Watcher, AddNick, IgnoreNick, Associate,
           SaveBegin, CreateFails, SaveOff, SaveWrite, WriteFails, DelLookup, DelRefused,
           DelCommit, Decoding, AfterDecode, OpenFails, DecodeFails, DecodeBegin,
           DecodeStep, DecodeEnd, StartWatch, WatchEvent, TimerFires, ClearFlag,
           ExternalEdit, Crash, vars
  <2> USE <2>0
  <2>1. ASSUME NEW n \in Nicks, NEW u \in Users, Associate(n, u) PROVE DurableInv'
    BY <2>1 DEF Associate, DurableInv, Durable, Unambiguous
  <2>2. CASE SaveBegin \/ CreateFails \/ ExternalEdit
    BY <2>2 DEF SaveBegin, CreateFails, ExternalEdit, DurableInv, Durable
  <2>3. CASE SaveOff
    BY <2>3 DEF SaveOff, DurableInv, Durable
  <2>4. CASE SaveWrite
    <3>1. PICK h \in Heads : \E last \in Visits(h) : file' = MarshalJSON(h, last)
      BY <2>4 DEF SaveWrite
    <3>2. PICK last \in Visits(h) : file' = MarshalJSON(h, last)
      BY <3>1
    <3>3. file' \in Contents
      BY <3>2, MarshalType
    <3>4. Unambiguous'
      BY <3>2, MarshalFaithful DEF Unambiguous
    <3>5. Durable'
      BY <2>4, <3>2, MarshalFaithful DEF SaveWrite, Durable, FiledUnder, HasUser
    <3> QED
      BY <2>4, <3>3, <3>4, <3>5 DEF SaveWrite, DurableInv
  <2>5. CASE WriteFails
    BY <2>5 DEF WriteFails, DurableInv, Durable
  <2>6. ASSUME NEW w \in Workers, DelCommit(w) PROVE DurableInv'
    <3>1. deleting[w] \in Nicks /\ LowerNick[deleting[w]] \in Keys
      BY <2>6 DEF TypeOK, DelCommit
    <3>2. \A k \in Keys : HasUser(k)' => HasUser(k) /\ nickMap'[k] = nickMap[k]
      BY <2>6, <3>1 DEF TypeOK, DelCommit, delUser, Forget, HasUser
    <3>3. Durable'
      BY <2>6, <3>2 DEF DelCommit, DurableInv, Durable, FiledUnder
    <3> QED
      BY <2>6, <3>3 DEF DelCommit, DurableInv, Unambiguous
  <2>7. CASE DecodeBegin
    <3>1. \A p \in loading' : p[2] \in file'[p[1]]
      BY <2>7 DEF DecodeBegin
    <3>2. Durable'
      BY <2>7 DEF DecodeBegin, Durable, HasUser
    <3> QED
      BY <2>7, <3>1, <3>2 DEF DecodeBegin, DurableInv, Unambiguous
  <2>8. ASSUME NEW n \in Nicks, NEW u \in Users, DecodeStep(u, n) PROVE DurableInv'
    <3>1. Durable'
      <4> SUFFICES ASSUME synced, NEW k \in Keys, nickMap'[k] # NoUser
                   PROVE  /\ FiledUnder(k) # {}
                          /\ \A v \in FiledUnder(k) : LowerUser[v] = LowerUser[nickMap'[k]]
        BY <2>8 DEF DecodeStep, Durable, HasUser, FiledUnder
      <4>1. CASE k = LowerNick[n]
        <5>1. nickMap'[k] = u /\ n \in file[u]
          BY <2>8, <4>1 DEF TypeOK, DecodeStep, setUser, DurableInv
        <5>2. u \in FiledUnder(k)
          BY <4>1, <5>1 DEF FiledUnder
        <5>3. \A v \in FiledUnder(k) : LowerUser[v] = LowerUser[u]
          BY <4>1, <5>1 DEF FiledUnder, DurableInv, Unambiguous
        <5> QED
          BY <5>1, <5>2, <5>3
      <4>2. CASE k # LowerNick[n]
        <5>1. nickMap'[k] = nickMap[k] /\ HasUser(k)
          BY <2>8, <4>2 DEF TypeOK, DecodeStep, setUser, HasUser
        <5> QED
          BY <2>8, <5>1 DEF DecodeStep, DurableInv, Durable
      <4> QED
        BY <4>1, <4>2
    <3> QED
      BY <2>8, <3>1 DEF DecodeStep, DurableInv, Unambiguous
  <2>9. CASE DecodeEnd
    BY <2>9 DEF DecodeEnd, DurableInv, Durable, Unambiguous, FiledUnder, HasUser
  <2>10. CASE Crash
    BY <2>10 DEF Crash, DurableInv, Durable, Unambiguous, HasUser
  <2>11. CASE UNCHANGED <<table, mu, file, synced, loading>>
    BY <2>11 DEF DurableInv, Durable, Unambiguous, FiledUnder, HasUser
  <2> QED
    BY <2>1, <2>2, <2>3, <2>4, <2>5, <2>6, <2>7, <2>8, <2>9, <2>10, <2>11
    DEF Next, Command, Save, Load, Watcher, AddNick, IgnoreNick, DelLookup,
        DelRefused, OpenFails, DecodeFails, StartWatch, WatchEvent, TimerFires,
        ClearFlag, vars
<1>3. DurableInv => Durable
  BY DEF DurableInv
<1> QED
  BY <1>1, <1>2, <1>3, TypeCorrect, WhoisListedInAka, AkaAssociated, PTL DEF Spec

=============================================================================
