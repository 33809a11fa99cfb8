----------------------- MODULE IdentificationProofs -----------------------
(***************************************************************************)
(* Proofs about Identification, for any number of checks, nicks, lost      *)
(* connections and changes of who is identified.                           *)
(***************************************************************************)
EXTENDS Identification, TLAPS

USE IdentificationConstants

\* The lines of a WHOIS reply are lines, and its vouching ones name the nick.
LEMMA ReplyType ==
  ASSUME NEW n \in Nicks, NEW k \in 0..MaxVouch
  PROVE  /\ Reply(n, k) \in Seq(Lines)
         /\ Len(Reply(n, k)) = k + 1
         /\ \A i \in 1..(k + 1) : Reply(n, k)[i].nick = n
         /\ k = 0 => \A i \in 1..(k + 1) : Reply(n, k)[i].cmd = "end"
<1>1. k \in Nat
  OBVIOUS
<1>2. \A i \in 1..(k + 1) : Reply(n, k)[i] \in Lines
  BY DEF Reply, Lines
<1>3. Reply(n, k) \in [1..(k + 1) -> Lines]
  BY <1>2 DEF Reply
<1> QED
  BY <1>1, <1>3 DEF Reply

\* The types are an invariant: TypeOK.
THEOREM TypeCorrect == Spec => []TypeOK
<1>1. Init => TypeOK
  <2> SUFFICES ASSUME Init PROVE TypeOK
    OBVIOUS
  <2>1. inq \in Seq(Lines)
    BY DEF Init
  <2>2. /\ chan \in [Checkers -> [buf : 0..MaxBuf, closed : BOOLEAN]]
        /\ loop \in [stage : {"idle", "invite"}, line : {NoLine}, ch : Checkers \cup {NoChan}]
    BY DEF Init, Fresh, MaxBuf, Idle
  <2>3. 0 \in 0..MaxDrops /\ 0 \in 0..MaxChanges
    OBVIOUS
  <2> QED
    BY <2>1, <2>2, <2>3 DEF Init, TypeOK
<1>2. TypeOK /\ [Next]_vars => TypeOK'
  <2> SUFFICES ASSUME TypeOK, [Next]_vars PROVE TypeOK'
    OBVIOUS
  <2> USE DEF goroutine, maps, wire, world, told
  <2>1. ASSUME NEW c \in Checkers, StartCommand(c) PROVE TypeOK'
    BY <2>1 DEF TypeOK, StartCommand, Begin
  <2>2. ASSUME NEW c \in Checkers, StartInvite(c) PROVE TypeOK'
    BY <2>2 DEF TypeOK, StartInvite, Begin, At
  <2>3. ASSUME NEW c \in Checkers, Look(c) PROVE TypeOK'
    BY <2>3 DEF TypeOK, Look
  <2>30. ASSUME NEW c \in Checkers, Miss(c) \/ Leave(c) PROVE TypeOK'
    BY <2>30 DEF TypeOK, Miss, Leave
  <2>4. ASSUME NEW c \in Checkers, Ask(c) PROVE TypeOK'
    <3>1. calm' \in BOOLEAN
      BY <2>4 DEF Ask
    <3> QED
      BY <2>4, <3>1 DEF TypeOK, Ask
  <2>5. ASSUME NEW c \in Checkers, EvalSelect(c) PROVE TypeOK'
    BY <2>5 DEF TypeOK, EvalSelect
  <2>6. ASSUME NEW c \in Checkers, Receive(c) PROVE TypeOK'
    <3>1. chan' \in [Checkers -> [buf : 0..MaxBuf, closed : BOOLEAN]]
      <4>1. PICK d \in Checkers : /\ chan' = [chan EXCEPT ![d].buf = @ - 1]
                                  /\ chan[d].buf > 0
        BY <2>6 DEF TypeOK, Receive
      <4>2. /\ chan \in [Checkers -> [buf : 0..MaxBuf, closed : BOOLEAN]]
            /\ chan[d].buf \in 0..MaxBuf
        BY DEF TypeOK
      <4>3. chan[d].buf - 1 \in 0..MaxBuf
        BY <4>1, <4>2 DEF MaxBuf
      <4> QED
        BY <4>1, <4>2, <4>3
    <3> QED
      BY <2>6, <3>1 DEF TypeOK, Receive
  <2>7. ASSUME NEW c \in Checkers, ReceiveClosed(c) PROVE TypeOK'
    BY <2>7 DEF TypeOK, ReceiveClosed
  <2>8. ASSUME NEW c \in Checkers, Timeout(c) PROVE TypeOK'
    BY <2>8 DEF TypeOK, Timeout
  <2>9. ASSUME NEW c \in Checkers, Finish(c) PROVE TypeOK'
    BY <2>9 DEF TypeOK, Finish, CacheAfter
  <2>10. ASSUME NEW c \in Checkers, SendWhois(c) PROVE TypeOK'
    BY <2>10 DEF TypeOK, SendWhois
  <2>11. ASSUME NEW c \in Checkers, Answer(c) PROVE TypeOK'
    <3>1. PICK k \in 0..MaxVouch : inq' = inq \o Reply(NickOf[c], k)
      BY <2>11 DEF Answer
    <3>2. inq' \in Seq(Lines)
      BY <3>1, ReplyType DEF TypeOK
    <3>3. /\ answer' \in [Checkers -> {"none", "yes", "no"}]
          /\ vouched' \subseteq Nicks
      BY <2>11 DEF TypeOK, Answer
    <3> QED
      BY <2>11, <3>2, <3>3 DEF TypeOK, Answer
  <2>12. ASSUME NEW n \in Nicks, Identify(n) PROVE TypeOK'
    BY <2>12 DEF TypeOK, Identify
  <2>13. ASSUME NEW n \in Nicks, Quit(n) PROVE TypeOK'
    BY <2>13 DEF TypeOK, Quit, Lines
  <2>14. CASE TakeLine
    <3>1. Head(inq) \in Lines /\ Tail(inq) \in Seq(Lines)
      BY <2>14 DEF TypeOK, TakeLine
    <3>2. trusted' \subseteq Nicks /\ seen' \subseteq Checkers
      BY <2>14, <3>1 DEF TypeOK, TakeLine, Lines
    <3> QED
      BY <2>14, <3>1, <3>2 DEF TypeOK, TakeLine, At
  <2>15. CASE HandleQuit
    <3>1. Head(inq) \in Lines /\ Tail(inq) \in Seq(Lines) /\ raced' \in BOOLEAN
      BY <2>15 DEF TypeOK, HandleQuit
    <3> QED
      BY <2>15, <3>1 DEF TypeOK, HandleQuit, DropQuitter
  <2>16. CASE Lock
    <3>1. loop.line \in Lines /\ loop.line.nick \in Nicks
      BY <2>16 DEF TypeOK, Lock, Lines
    <3>2. table[loop.line.nick] \in Checkers \cup {NoChan}
      BY <3>1 DEF TypeOK
    <3> QED
      BY <2>16, <3>1, <3>2 DEF TypeOK, Lock, At
  <2>17. CASE HandleVouch
    <3>1. chan' \in [Checkers -> [buf : 0..MaxBuf, closed : BOOLEAN]]
      BY <2>17 DEF TypeOK, HandleVouch, MaxBuf, OpenChan
    <3> QED
      BY <2>17, <3>1 DEF TypeOK, HandleVouch, Idle
  <2>18. CASE HandleEnd
    <3>1. chan' = [chan EXCEPT ![loop.ch].closed = TRUE] /\ loop.ch \in Checkers
      BY <2>18 DEF TypeOK, HandleEnd, EndOf, OpenChan
    <3>2. [chan[loop.ch] EXCEPT !.closed = TRUE] \in [buf : 0..MaxBuf, closed : BOOLEAN]
      <4>1. chan[loop.ch] \in [buf : 0..MaxBuf, closed : BOOLEAN]
        BY <3>1 DEF TypeOK
      <4> QED
        BY <4>1
    <3>3. chan' \in [Checkers -> [buf : 0..MaxBuf, closed : BOOLEAN]]
      BY <3>1, <3>2 DEF TypeOK
    <3> QED
      BY <2>18, <3>3 DEF TypeOK, HandleEnd, Idle
  <2>19. CASE Panic
    BY <2>19 DEF TypeOK, Panic, Idle
  <2>20. ASSUME NEW c \in Inviters, InviteDone(c) PROVE TypeOK'
    BY <2>20 DEF TypeOK, InviteDone, Idle
  <2>21. CASE Drop
    <3>1. PICK k \in 0..Len(inq) : inq' = SubSeq(inq, 1, k)
      BY <2>21 DEF Drop
    <3>2. inq' \in Seq(Lines)
      BY <3>1 DEF TypeOK
    <3>3. calm' \in BOOLEAN
      BY <2>21 DEF Drop
    <3> QED
      BY <2>21, <3>2, <3>3 DEF TypeOK, Drop
  <2>22. CASE ResetCache
    <3>1. raced' \in BOOLEAN
      BY <2>22 DEF ResetCache
    <3> QED
      BY <2>22, <3>1 DEF TypeOK, ResetCache
  <2>23. ASSUME NEW S \in SUBSET Checkers, chan' = Closed(S)
         PROVE  chan' \in [Checkers -> [buf : 0..MaxBuf, closed : BOOLEAN]]
    <3>1. \A c \in Checkers : chan[c] \in [buf : 0..MaxBuf, closed : BOOLEAN]
      BY DEF TypeOK
    <3>2. \A c \in Checkers : [chan[c] EXCEPT !.closed = TRUE] \in [buf : 0..MaxBuf, closed : BOOLEAN]
      BY <3>1
    <3> QED
      BY <2>23, <3>1, <3>2 DEF Closed
  <2>24. Entries \subseteq Checkers
    BY DEF TypeOK, Entries
  <2>25. CASE CloseChannels
    BY <2>23, <2>24, <2>25 DEF TypeOK, CloseChannels
  <2>26. CASE ClosePanics
    BY <2>23, <2>24, <2>26 DEF TypeOK, ClosePanics
  <2>27. CASE ResetTable \/ Reconnect
    BY <2>27 DEF TypeOK, ResetTable, Reconnect
  <2>28. CASE UNCHANGED vars
    BY <2>28 DEF TypeOK, vars
  <2> QED
    BY <2>1, <2>2, <2>3, <2>4, <2>5, <2>6, <2>7, <2>8, <2>9, <2>10, <2>11, <2>12,
       <2>13, <2>14, <2>15, <2>16, <2>17, <2>18, <2>19, <2>20, <2>21, <2>22,
       <2>25, <2>26, <2>27, <2>28, <2>30
    DEF Next, Check, Dispatch, Reset, Server
<1> QED
  BY <1>1, <1>2, PTL DEF Spec

-----------------------------------------------------------------------------
(* Nobody is let through whom the server never called identified.          *)

\* A channel serves the nick of the check that made it, wherever it is held.
OwnChannels ==
  /\ \A n \in Nicks : table[n] # NoChan => NickOf[table[n]] = n
  /\ \A c \in Checkers : sel[c] # NoChan => NickOf[sel[c]] = NickOf[c]
  /\ loop.stage = "act" /\ loop.ch # NoChan => NickOf[loop.ch] = loop.line.nick

\* A vouching line names a nick the server called identified.
VouchLines ==
  /\ \A i \in 1..Len(inq) : inq[i].cmd = "vouch" => inq[i].nick \in vouched
  /\ loop.stage \in {"lock", "act"} /\ loop.line.cmd = "vouch" => loop.line.nick \in vouched

\* So does each value in a channel, each r that is true and each cache entry.
VouchValues ==
  /\ \A c \in Checkers : chan[c].buf > 0 => NickOf[c] \in vouched
  /\ \A c \in Checkers : got[c] => NickOf[c] \in vouched
  /\ cache \subseteq vouched

VouchInv == OwnChannels /\ VouchLines /\ VouchValues /\ GrantsVouched

\* A channel stays with its nick as it goes from the table to a select or to
\* the operand of a handler.
LEMMA OwnChannelsStep ==
  ASSUME TypeOK, OwnChannels, [Next]_vars
  PROVE  OwnChannels'
<1> USE DEF goroutine, maps, wire, world, told
<1>1. ASSUME NEW c \in Checkers, Ask(c) PROVE OwnChannels'
  BY <1>1 DEF TypeOK, OwnChannels, Ask
<1>2. ASSUME NEW c \in Checkers, EvalSelect(c) PROVE OwnChannels'
  BY <1>2 DEF TypeOK, OwnChannels, EvalSelect
<1>3. ASSUME NEW c \in Checkers, Leave(c) PROVE OwnChannels'
  BY <1>3 DEF TypeOK, OwnChannels, Leave
<1>4. CASE Lock
  <2>1. loop.line \in Lines /\ loop.line.nick \in Nicks
    BY <1>4 DEF TypeOK, Lock, Lines
  <2> QED
    BY <1>4, <2>1 DEF TypeOK, OwnChannels, Lock, At
<1>5. CASE ResetTable
  BY <1>5 DEF OwnChannels, ResetTable
<1>6. CASE TakeLine
  BY <1>6 DEF OwnChannels, TakeLine, At
<1>7. CASE HandleVouch \/ HandleEnd \/ Panic
  BY <1>7 DEF OwnChannels, HandleVouch, HandleEnd, Panic, Idle
<1>8. ASSUME NEW c \in Inviters, StartInvite(c) \/ InviteDone(c) PROVE OwnChannels'
  BY <1>8 DEF OwnChannels, StartInvite, InviteDone, Begin, At, Idle
<1>9. CASE UNCHANGED <<table, sel, loop>>
  BY <1>9 DEF OwnChannels
<1> QED
  BY <1>1, <1>2, <1>3, <1>4, <1>5, <1>6, <1>7, <1>8, <1>9
  DEF Next, Check, Dispatch, Reset, Server, StartCommand, StartInvite, Begin,
      Look, Miss, Receive, ReceiveClosed, Timeout, Finish, SendWhois, Answer, Identify, Quit,
      HandleQuit, Drop, ResetCache, CloseChannels, ClosePanics, Reconnect, vars

\* The server never unsays that a nick was identified.
LEMMA VouchedGrows == ASSUME [Next]_vars PROVE vouched \subseteq vouched'
BY DEF Next, Check, Dispatch, Reset, Server, StartCommand, StartInvite, Begin,
       Look, Miss, Ask, EvalSelect, Receive, ReceiveClosed, Timeout, Leave, Finish, SendWhois,
       Answer, Identify, Quit, TakeLine, HandleQuit, Lock, HandleVouch,
       HandleEnd, Panic, InviteDone, Drop, ResetCache, CloseChannels,
       ClosePanics, ResetTable, Reconnect, vars, goroutine, maps, wire, world, told

\* Only Answer writes vouching lines, and only about an identified nick.
LEMMA VouchLinesStep ==
  ASSUME TypeOK, VouchLines, [Next]_vars
  PROVE  VouchLines'
<1> USE DEF goroutine, maps, wire, world, told
<1>1. ASSUME NEW c \in Checkers, Answer(c) PROVE VouchLines'
  <2> DEFINE n == NickOf[c]
  <2>1. PICK k \in 0..MaxVouch : /\ inq' = inq \o Reply(n, k)
                                 /\ k > 0 => n \in vouched'
    BY <1>1 DEF Answer
  <2>2. ASSUME NEW i \in 1..Len(inq'), inq'[i].cmd = "vouch"
        PROVE  inq'[i].nick \in vouched'
    <3>1. inq \in Seq(Lines) /\ Reply(n, k) \in Seq(Lines) /\ Len(Reply(n, k)) = k + 1
      BY ReplyType DEF TypeOK
    <3>2. CASE i \in 1..Len(inq)
      BY <2>1, <2>2, <3>1, <3>2, VouchedGrows DEF VouchLines
    <3>3. CASE i \notin 1..Len(inq)
      <4>1. i - Len(inq) \in 1..(k + 1) /\ inq'[i] = Reply(n, k)[i - Len(inq)]
        BY <2>1, <3>1, <3>3
      <4>2. inq'[i].nick = n /\ k # 0
        BY <2>2, <4>1, ReplyType
      <4> QED
        BY <2>1, <4>2
    <3> QED
      BY <3>2, <3>3
  <2> QED
    BY <1>1, <2>2, VouchedGrows DEF VouchLines, Answer
<1>2. ASSUME NEW n \in Nicks, Quit(n) PROVE VouchLines'
  <2>1. [cmd |-> "quit", nick |-> n] \in Lines /\ inq \in Seq(Lines)
    BY DEF Lines, TypeOK
  <2> QED
    BY <1>2, <2>1 DEF VouchLines, Quit
<1>3. CASE TakeLine
  <2>1. inq \in Seq(Lines) /\ inq # <<>> /\ Head(inq) = inq[1]
    BY <1>3 DEF TypeOK, TakeLine
  <2>2. /\ Len(Tail(inq)) = Len(inq) - 1
        /\ \A i \in 1..Len(Tail(inq)) : Tail(inq)[i] = inq[i + 1]
    BY <2>1
  <2> QED
    BY <1>3, <2>1, <2>2 DEF VouchLines, TakeLine, At
<1>4. CASE HandleQuit
  <2>1. inq \in Seq(Lines) /\ inq # <<>>
    BY <1>4 DEF TypeOK, HandleQuit
  <2>2. /\ Len(Tail(inq)) = Len(inq) - 1
        /\ \A i \in 1..Len(Tail(inq)) : Tail(inq)[i] = inq[i + 1]
    BY <2>1
  <2> QED
    BY <1>4, <2>1, <2>2 DEF VouchLines, HandleQuit
<1>5. CASE Drop
  <2>1. PICK k \in 0..Len(inq) : inq' = SubSeq(inq, 1, k)
    BY <1>5 DEF Drop
  <2>2. Len(inq') = k /\ \A i \in 1..k : inq'[i] = inq[i]
    BY <2>1 DEF TypeOK
  <2> QED
    BY <1>5, <2>1, <2>2 DEF VouchLines, Drop, TypeOK
<1>6. CASE Lock
  BY <1>6 DEF VouchLines, Lock, At
<1>7. CASE HandleVouch \/ HandleEnd \/ Panic
  BY <1>7 DEF VouchLines, HandleVouch, HandleEnd, Panic, Idle
<1>8. ASSUME NEW c \in Inviters, StartInvite(c) \/ InviteDone(c) PROVE VouchLines'
  BY <1>8 DEF VouchLines, StartInvite, InviteDone, Begin, At, Idle
<1>9. CASE UNCHANGED <<inq, loop, vouched>>
  BY <1>9 DEF VouchLines
<1> QED
  BY <1>1, <1>2, <1>3, <1>4, <1>5, <1>6, <1>7, <1>8, <1>9
  DEF Next, Check, Dispatch, Reset, Server, StartCommand, StartInvite, Begin,
      Look, Miss, Ask, EvalSelect, Receive, ReceiveClosed, Timeout, Leave, Finish, SendWhois,
      Identify, ResetCache, CloseChannels, ClosePanics, ResetTable, Reconnect, vars

\* A true value goes from a vouching line into a channel of that nick, from
\* there into the r of a check of that nick, and from there into the cache.
LEMMA VouchValuesStep ==
  ASSUME TypeOK, OwnChannels, VouchLines, VouchValues, [Next]_vars
  PROVE  VouchValues'
<1> USE DEF goroutine, maps, wire, world, told
<1>1. ASSUME NEW c \in Checkers, Receive(c) PROVE VouchValues'
  <2>1. sel[c] \in Checkers /\ NickOf[c] \in vouched
    BY <1>1 DEF TypeOK, Receive, OwnChannels, VouchValues
  <2>2. \A d \in Checkers : chan'[d].buf > 0 => chan[d].buf > 0
    BY <1>1, <2>1 DEF TypeOK, Receive, MaxBuf
  <2> QED
    BY <1>1, <2>1, <2>2 DEF TypeOK, Receive, VouchValues
<1>2. ASSUME NEW c \in Checkers, Finish(c) PROVE VouchValues'
  BY <1>2 DEF Finish, CacheAfter, VouchValues
<1>3. CASE HandleVouch
  <2>1. loop.ch \in Checkers /\ NickOf[loop.ch] \in vouched
    BY <1>3 DEF TypeOK, HandleVouch, OpenChan, OwnChannels, VouchLines
  <2>2. \A d \in Checkers : d # loop.ch => chan'[d] = chan[d]
    BY <1>3, <2>1 DEF TypeOK, HandleVouch
  <2> QED
    BY <1>3, <2>1, <2>2 DEF HandleVouch, VouchValues
<1>4. CASE HandleEnd
  <2>1. \A d \in Checkers : chan'[d].buf = chan[d].buf
    BY <1>4 DEF TypeOK, HandleEnd, EndOf
  <2> QED
    BY <1>4, <2>1 DEF HandleEnd, VouchValues
<1>5. CASE HandleQuit \/ ResetCache
  BY <1>5 DEF HandleQuit, DropQuitter, ResetCache, VouchValues
<1>6. CASE CloseChannels \/ ClosePanics
  <2>1. PICK S \in SUBSET Checkers : chan' = Closed(S)
    BY <1>6 DEF CloseChannels, ClosePanics, Entries, TypeOK
  <2>2. \A d \in Checkers : chan'[d].buf = chan[d].buf
    BY <2>1 DEF Closed, TypeOK
  <2> QED
    BY <1>6, <2>2 DEF CloseChannels, ClosePanics, VouchValues
<1>7. CASE UNCHANGED <<chan, got, cache>>
  BY <1>7, VouchedGrows DEF VouchValues
<1> QED
  BY <1>1, <1>2, <1>3, <1>4, <1>5, <1>6, <1>7
  DEF Next, Check, Dispatch, Reset, Server, StartCommand, StartInvite, Begin,
      Look, Miss, Ask, EvalSelect, ReceiveClosed, Timeout, Leave, SendWhois, Answer, Identify,
      Quit, TakeLine, Lock, Panic, InviteDone, Drop, ResetTable, Reconnect, vars

\* A check succeeds on a cache entry or on its own r.
LEMMA GrantsVouchedStep ==
  ASSUME TypeOK, VouchValues, GrantsVouched, [Next]_vars
  PROVE  GrantsVouched'
<1> USE DEF goroutine, maps, wire, world, told
<1>1. ASSUME NEW c \in Checkers,
             \/ StartCommand(c) \/ StartInvite(c) \/ Miss(c) \/ Ask(c) \/ EvalSelect(c)
             \/ Receive(c) \/ ReceiveClosed(c) \/ Timeout(c) \/ Leave(c)
      PROVE  GrantsVouched'
  BY <1>1, VouchedGrows
  DEF TypeOK, GrantsVouched, StartCommand, StartInvite, Begin, Miss, Ask,
      EvalSelect, Receive, ReceiveClosed, Timeout, Leave
<1>2. ASSUME NEW c \in Checkers, Look(c) PROVE GrantsVouched'
  BY <1>2, VouchedGrows DEF TypeOK, GrantsVouched, Look, VouchValues
<1>3. ASSUME NEW c \in Checkers, Finish(c) PROVE GrantsVouched'
  BY <1>3, VouchedGrows DEF TypeOK, GrantsVouched, Finish, VouchValues
<1>4. CASE UNCHANGED pc
  BY <1>4, VouchedGrows DEF GrantsVouched
<1> QED
  BY <1>1, <1>2, <1>3, <1>4
  DEF Next, Check, Dispatch, Reset, Server, SendWhois, Answer, Identify, Quit,
      TakeLine, HandleQuit, Lock, HandleVouch, HandleEnd, Panic, InviteDone,
      Drop, ResetCache, CloseChannels, ClosePanics, ResetTable, Reconnect, vars

\* Whoever is let through was called identified by the server, however the
\* checks, the lines and the losses of connection interleave: GrantsVouched.
THEOREM OnlyVouchedGranted == Spec => []GrantsVouched
<1>1. Init => VouchInv
  BY DEF Init, VouchInv, OwnChannels, VouchLines, VouchValues, GrantsVouched,
         Fresh, Idle
<1>2. TypeOK /\ VouchInv /\ [Next]_vars => VouchInv'
  BY OwnChannelsStep, VouchLinesStep, VouchValuesStep, GrantsVouchedStep DEF VouchInv
<1>3. VouchInv => GrantsVouched
  BY DEF VouchInv
<1> QED
  BY <1>1, <1>2, <1>3, TypeCorrect, PTL DEF Spec

-----------------------------------------------------------------------------
(* What a check that is going on holds.                                    *)

\* A check that has not asked yet has touched nothing, and no channel that is
\* held anywhere is the channel of such a check.
Waiting(c) == pc[c] \in {"idle", "start", "miss"}
Untouched ==
  \A c \in Checkers : Waiting(c) =>
    chan[c] = Fresh /\ ~got[c] /\ whois[c] = "none" /\ answer[c] = "none"
Asked ==
  /\ \A n \in Nicks : table[n] # NoChan => ~Waiting(table[n])
  /\ \A c \in Checkers : sel[c] # NoChan => ~Waiting(sel[c])
  /\ loop.stage = "act" /\ loop.ch # NoChan => ~Waiting(loop.ch)

AskedInv == Untouched /\ Asked

\* A value that check c can still receive.
Offered(c) ==
  \/ table[NickOf[c]] # NoChan /\ chan[table[NickOf[c]]].buf > 0
  \/ pc[c] = "select" /\ sel[c] # NoChan /\ chan[sel[c]].buf > 0

\* A vouch that a check has or can get was given while the check was going on.
FoundedInv ==
  /\ \A c \in Checkers : Begun(c) /\ NickOf[c] \in trusted => c \in seen
  /\ loop.stage \in {"lock", "act"} /\ loop.line.cmd = "vouch" => loop.line.nick \in trusted
  /\ ~raced => \A c \in Checkers : Running(c) /\ (got[c] \/ Offered(c)) => NickOf[c] \in trusted
  /\ ~raced => cache \subseteq trusted
  /\ FoundedUnlessRaced

-----------------------------------------------------------------------------
(* What calm gives.                                                        *)

Lining(i, n) == inq[i].cmd # "quit" /\ inq[i].nick = n
Handling(n) == loop.stage \in {"lock", "act"} /\ loop.line.nick = n
VouchComing(n) ==
  \/ \E i \in 1..Len(inq) : Lining(i, n) /\ inq[i].cmd = "vouch"
  \/ Handling(n) /\ loop.line.cmd = "vouch"

\* The line that ends a reply is the last about its nick.
EndsLast ==
  /\ \A i, j \in 1..Len(inq) :
       i < j /\ inq[j].cmd # "quit" /\ Lining(i, inq[j].nick) => inq[i].cmd = "vouch"
  /\ \A j \in 1..Len(inq) :
       inq[j].cmd # "quit" /\ Handling(inq[j].nick) => loop.line.cmd = "vouch"

\* A check that is going on is the only one of its nick; its channel is the
\* entry, and its reply comes after its request and before its channel closes.
Alone(c) ==
  /\ table[NickOf[c]] = c
  /\ pc[c] = "select" => sel[c] = c
  /\ whois[c] \in {"queued", "sent", "answered"}
  /\ \A d \in Checkers : NickOf[d] = NickOf[c] /\ Open(d) => d = c
  /\ whois[c] # "answered" => chan[c] = Fresh /\ ~got[c] /\ ~InFlight(NickOf[c])
  /\ chan[c].closed => ~InFlight(NickOf[c])
  /\ pc[c] = "exit" => chan[c] = [buf |-> 0, closed |-> TRUE]
  /\ answer[c] = "none" <=> whois[c] # "answered"
  /\ answer[c] = "yes" <=> got[c] \/ chan[c].buf > 0 \/ VouchComing(NickOf[c])

\* Without one there is nothing about the nick.
Quiet(n) == table[n] = NoChan /\ ~InFlight(n)

CalmInv ==
  /\ \A c \in Checkers : Waits(c) => Alone(c)
  /\ \A c \in Checkers : whois[c] \in {"queued", "sent"} => Waits(c)
  /\ \A n \in Nicks : Quiet(n) \/ \E c \in Checkers : NickOf[c] = n /\ Waits(c)
  /\ \A c \in Checkers : whois[c] = "none" => answer[c] = "none"
  /\ EndsLast
  /\ loop.stage = "act" => loop.ch = table[loop.line.nick]
  /\ mutex <=> loop.stage = "act"
  /\ link \in {"closing", "resetting", "closed"} => \A n \in Nicks : ~OpenFor(n)
  /\ link # "dead"
CalmKept == calm => CalmInv

\* A check that has left its channel, and not returned, has got its answer.
CalmTold == calm => \A c \in Checkers : pc[c] = "left" => (answer[c] = "yes" <=> got[c])

-----------------------------------------------------------------------------

\* A channel is held only by those who found it in the table, and it gets there
\* when its check asks.
LEMMA AskedStep ==
  ASSUME TypeOK, AskedInv, [Next]_vars
  PROVE  AskedInv'
<1> USE DEF goroutine, maps, wire, world, told, AskedInv, Untouched, Asked, Waiting
<1>1. ASSUME NEW c \in Checkers, StartCommand(c) \/ StartInvite(c) PROVE AskedInv'
  BY <1>1 DEF TypeOK, StartCommand, StartInvite, Begin, At
<1>2. ASSUME NEW c \in Checkers, Look(c) \/ Miss(c) \/ Timeout(c) \/ ReceiveClosed(c)
      PROVE  AskedInv'
  BY <1>2 DEF TypeOK, Look, Miss, Timeout, ReceiveClosed
<1>12. ASSUME NEW c \in Checkers, EvalSelect(c) PROVE AskedInv'
  <2>1. NickOf[c] \in Nicks /\ (table[NickOf[c]] # NoChan => ~Waiting(table[NickOf[c]]))
    OBVIOUS
  <2>2. \A d \in Checkers : pc'[d] # pc[d] => ~Waiting(d) /\ ~Waiting(d)'
    BY <1>12 DEF TypeOK, EvalSelect
  <2> QED
    BY <1>12, <2>1, <2>2 DEF TypeOK, EvalSelect
<1>3. ASSUME NEW c \in Checkers, Ask(c) \/ Leave(c) PROVE AskedInv'
  <2>1. \A d \in Checkers : ~Waiting(d) => ~Waiting(d)'
    BY <1>3 DEF TypeOK, Ask, Leave
  <2>2. \A d \in Checkers \ {c} : pc'[d] = pc[d] /\ whois'[d] = whois[d]
    BY <1>3 DEF TypeOK, Ask, Leave
  <2>3. ~Waiting(c)'
    BY <1>3 DEF TypeOK, Ask, Leave
  <2>4. \A n \in Nicks : table'[n] \in {NoChan, c, table[n]}
    BY <1>3 DEF TypeOK, Ask, Leave
  <2>5. sel' = sel /\ loop' = loop /\ chan' = chan /\ got' = got /\ answer' = answer
    BY <1>3 DEF Ask, Leave
  <2>6. Untouched'
    BY <2>1, <2>2, <2>3, <2>5
  <2>7. ASSUME NEW n \in Nicks, table'[n] # NoChan PROVE ~Waiting(table[n])'
    <3>1. CASE table'[n] = c
      BY <2>3, <3>1
    <3>2. CASE table'[n] = table[n]
      <4>1. table[n] \in Checkers /\ ~Waiting(table[n])
        BY <2>7, <3>2 DEF TypeOK
      <4> QED
        BY <2>1, <3>2, <4>1
    <3> QED
      BY <2>4, <2>7, <3>1, <3>2
  <2>8. \A d \in Checkers : (sel[d] # NoChan => ~Waiting(sel[d]))'
    BY <2>1, <2>5 DEF TypeOK
  <2>9. (loop.stage = "act" /\ loop.ch # NoChan => ~Waiting(loop.ch))'
    BY <2>1, <2>5 DEF TypeOK
  <2> QED
    BY <2>6, <2>7, <2>8, <2>9
<1>13. ASSUME NEW c \in Checkers, Finish(c) PROVE AskedInv'
  BY <1>13 DEF TypeOK, Finish
<1>4. ASSUME NEW c \in Checkers, Receive(c) PROVE AskedInv'
  <2>1. sel[c] \in Checkers /\ ~Waiting(sel[c])
    BY <1>4 DEF TypeOK, Receive
  <2>2. \A d \in Checkers \ {sel[c]} : chan'[d] = chan[d]
    BY <1>4, <2>1 DEF TypeOK, Receive
  <2> QED
    BY <1>4, <2>1, <2>2 DEF TypeOK, Receive
<1>5. ASSUME NEW c \in Checkers, SendWhois(c) \/ Answer(c) PROVE AskedInv'
  BY <1>5 DEF TypeOK, SendWhois, Answer
<1>6. CASE Drop
  BY <1>6 DEF TypeOK, Drop
<1>7. CASE Lock
  <2>1. loop.line.nick \in Nicks
    BY <1>7 DEF TypeOK, Lock, Lines
  <2> QED
    BY <1>7, <2>1 DEF TypeOK, Lock, At
<1>8. CASE HandleVouch \/ HandleEnd
  <2>1. loop.ch \in Checkers /\ ~Waiting(loop.ch)
    BY <1>8 DEF TypeOK, HandleVouch, HandleEnd, OpenChan
  <2>2. \A d \in Checkers \ {loop.ch} : chan'[d] = chan[d]
    BY <1>8, <2>1 DEF TypeOK, HandleVouch, HandleEnd, EndOf
  <2> QED
    BY <1>8, <2>1, <2>2 DEF TypeOK, HandleVouch, HandleEnd, Idle
<1>9. CASE CloseChannels \/ ClosePanics
  <2>1. PICK S \in SUBSET Entries : chan' = Closed(S)
    BY <1>9 DEF CloseChannels, ClosePanics
  <2>2. \A d \in Checkers : Waiting(d) => chan'[d] = chan[d]
    BY <2>1 DEF Closed, Entries
  <2> QED
    BY <1>9, <2>2 DEF TypeOK, CloseChannels, ClosePanics
<1>10. CASE TakeLine \/ Panic \/ ResetTable \/ \E c \in Inviters : InviteDone(c)
  BY <1>10 DEF TakeLine, Panic, ResetTable, InviteDone, At, Idle
<1>11. CASE UNCHANGED <<pc, chan, sel, got, table, loop, whois, answer>>
  BY <1>11
<1> QED
  BY <1>1, <1>2, <1>3, <1>4, <1>5, <1>6, <1>7, <1>8, <1>9, <1>10, <1>11, <1>12,
     <1>13
  DEF Next, Check, Dispatch, Reset, Server, Identify, Quit, HandleQuit,
      ResetCache, Reconnect, vars

\* The only steps that offer a running check a value it was not offered before
\* are the handler of a vouch about its nick and its own next look at the table,
\* which has what was offered already.
LEMMA OfferedBefore ==
  ASSUME TypeOK, AskedInv, OwnChannels, [Next]_vars, NEW c \in Checkers, Running(c)',
         Offered(c)' \/ got'[c]
  PROVE  \/ Running(c) /\ (Offered(c) \/ got[c])
         \/ Running(c) /\ HandleVouch /\ loop.line.nick = NickOf[c]
<1> USE DEF goroutine, maps, wire, world, told, AskedInv, Untouched, Asked, Waiting,
            OwnChannels, Running, Offered
<1> NickOf[c] \in Nicks
  OBVIOUS
<1>1. ASSUME NEW d \in Checkers, StartCommand(d) \/ StartInvite(d)
      PROVE  Running(c) /\ (Offered(c) \/ got[c])
  BY <1>1 DEF TypeOK, StartCommand, StartInvite, Begin
<1>2. ASSUME NEW d \in Checkers,
             Look(d) \/ Miss(d) \/ Timeout(d) \/ ReceiveClosed(d) \/ Finish(d)
      PROVE  Running(c) /\ (Offered(c) \/ got[c])
  BY <1>2 DEF TypeOK, Look, Miss, Timeout, ReceiveClosed, Finish
<1>3. ASSUME NEW d \in Checkers, EvalSelect(d) PROVE Running(c) /\ (Offered(c) \/ got[c])
  <2>1. CASE c = d
    BY <1>3, <2>1 DEF TypeOK, EvalSelect
  <2>2. CASE c # d
    BY <1>3, <2>2 DEF TypeOK, EvalSelect
  <2> QED
    BY <2>1, <2>2
<1>4. ASSUME NEW d \in Checkers, Ask(d) PROVE Running(c) /\ (Offered(c) \/ got[c])
  <2>1. chan[d].buf = 0 /\ ~got[d] /\ pc'[d] = "eval"
    BY <1>4 DEF TypeOK, Ask, Fresh
  <2>2. table'[NickOf[c]] = d \/ table'[NickOf[c]] = table[NickOf[c]]
    BY <1>4 DEF TypeOK, Ask
  <2>3. CASE c = d
    BY <1>4, <2>1, <2>3 DEF TypeOK, Ask
  <2>4. CASE c # d
    BY <1>4, <2>1, <2>2, <2>4 DEF TypeOK, Ask
  <2> QED
    BY <2>3, <2>4
<1>5. ASSUME NEW d \in Checkers, Leave(d) PROVE Running(c) /\ (Offered(c) \/ got[c])
  <2>1. table'[NickOf[c]] = NoChan \/ table'[NickOf[c]] = table[NickOf[c]]
    BY <1>5 DEF TypeOK, Leave
  <2> QED
    BY <1>5, <2>1 DEF TypeOK, Leave
<1>6. ASSUME NEW d \in Checkers, Receive(d) PROVE Running(c) /\ (Offered(c) \/ got[c])
  <2>1. \A e \in Checkers : chan'[e].buf > 0 => chan[e].buf > 0
    BY <1>6 DEF TypeOK, Receive, MaxBuf
  <2>2. CASE c = d
    BY <1>6, <2>2 DEF TypeOK, Receive
  <2>3. CASE c # d
    BY <1>6, <2>1, <2>3 DEF TypeOK, Receive
  <2> QED
    BY <2>2, <2>3
<1>7. CASE Lock \/ Panic \/ TakeLine \/ HandleQuit \/ ResetCache \/ Reconnect \/ Drop
  BY <1>7 DEF Lock, Panic, TakeLine, HandleQuit, ResetCache, Reconnect, Drop
<1>8. CASE ResetTable
  BY <1>8 DEF TypeOK, ResetTable
<1>9. CASE HandleEnd
  <2>1. \A e \in Checkers : chan'[e].buf = chan[e].buf
    BY <1>9 DEF TypeOK, HandleEnd, EndOf
  <2> QED
    BY <1>9, <2>1 DEF TypeOK, HandleEnd
<1>10. CASE CloseChannels \/ ClosePanics
  <2>1. PICK S \in SUBSET Checkers : chan' = Closed(S)
    BY <1>10 DEF CloseChannels, ClosePanics, Entries, TypeOK
  <2>2. \A e \in Checkers : chan'[e].buf = chan[e].buf
    BY <2>1 DEF Closed, TypeOK
  <2> QED
    BY <1>10, <2>2 DEF TypeOK, CloseChannels, ClosePanics
<1>11. CASE HandleVouch
  <2>1. Running(c) /\ table' = table /\ sel' = sel /\ got' = got
    BY <1>11 DEF HandleVouch
  <2>2. loop.ch \in Checkers /\ NickOf[loop.ch] = loop.line.nick
    BY <1>11 DEF TypeOK, HandleVouch, OpenChan
  <2>3. \A e \in Checkers \ {loop.ch} : chan'[e] = chan[e]
    BY <1>11, <2>2 DEF TypeOK, HandleVouch
  <2>4. CASE loop.line.nick = NickOf[c]
    BY <1>11, <2>1, <2>4
  <2>5. CASE loop.line.nick # NickOf[c]
    <3>1. table[NickOf[c]] # loop.ch /\ sel[c] # loop.ch
      BY <2>2, <2>5
    <3>2. pc' = pc
      BY <1>11 DEF HandleVouch
    <3> QED
      BY <2>1, <2>3, <3>1, <3>2 DEF TypeOK
  <2> QED
    BY <2>4, <2>5
<1>12. CASE UNCHANGED <<pc, chan, sel, got, table>>
  BY <1>12
<1> QED
  BY <1>1, <1>2, <1>3, <1>4, <1>5, <1>6, <1>7, <1>8, <1>9, <1>10, <1>11, <1>12
  DEF Next, Check, Dispatch, Reset, Server, SendWhois, Answer, Identify, Quit,
      InviteDone, vars

\* What lets a check through was said while the check was going on, unless a
\* nick was forgotten meanwhile.
LEMMA FoundedStep ==
  ASSUME TypeOK, AskedInv, OwnChannels, FoundedInv, [Next]_vars
  PROVE  FoundedInv'
<1> USE DEF goroutine, maps, wire, world, told
<1>1. ASSUME NEW c \in Checkers, Begun(c)', NickOf[c] \in trusted' PROVE c \in seen'
  <2>1. CASE Begun(c) /\ NickOf[c] \in trusted
    <3>1. c \in seen
      BY <2>1 DEF FoundedInv
    <3> QED
      BY <3>1
      DEF Next, Check, Dispatch, Reset, Server, StartCommand, StartInvite, Begin,
          Look, Miss, Ask, EvalSelect, Receive, ReceiveClosed, Timeout, Leave, Finish, SendWhois,
          Answer, Identify, Quit, TakeLine, HandleQuit, Lock, HandleVouch,
          HandleEnd, Panic, InviteDone, Drop, ResetCache, CloseChannels,
          ClosePanics, ResetTable, Reconnect, vars
  <2>2. CASE ~Begun(c)
    <3>1. ASSUME NEW d \in Checkers, StartCommand(d) \/ StartInvite(d) PROVE c \in seen'
      BY <1>1, <2>2, <3>1 DEF TypeOK, StartCommand, StartInvite, Begin, Begun, Finished
    <3>2. ASSUME NEW d \in Checkers, Check(d) PROVE FALSE
      BY <1>1, <2>2, <3>2
      DEF TypeOK, Check, Look, Miss, Ask, EvalSelect, Receive, ReceiveClosed, Timeout, Leave, Finish,
          Begun, Finished
    <3>3. CASE UNCHANGED pc
      BY <1>1, <2>2, <3>3 DEF Begun, Finished
    <3> QED
      BY <3>1, <3>2, <3>3
      DEF Next, Dispatch, Reset, Server, SendWhois, Answer, Identify, Quit, TakeLine,
          HandleQuit, Lock, HandleVouch, HandleEnd, Panic, InviteDone, Drop,
          ResetCache, CloseChannels, ClosePanics, ResetTable, Reconnect, vars
  <2>3. CASE Begun(c) /\ NickOf[c] \notin trusted
    <3>1. CASE TakeLine
      BY <1>1, <2>3, <3>1 DEF TakeLine
    <3>2. CASE ~TakeLine
      BY <1>1, <2>3, <3>2
      DEF Next, Check, Dispatch, Reset, Server, StartCommand, StartInvite, Begin,
          Look, Miss, Ask, EvalSelect, Receive, ReceiveClosed, Timeout, Leave, Finish, SendWhois,
          Answer, Identify, Quit, HandleQuit, Lock, HandleVouch,
          HandleEnd, Panic, InviteDone, Drop, ResetCache, CloseChannels,
          ClosePanics, ResetTable, Reconnect, vars
    <3> QED
      BY <3>1, <3>2
  <2> QED
    BY <2>1, <2>2, <2>3
<1>2. (loop.stage \in {"lock", "act"} /\ loop.line.cmd = "vouch" => loop.line.nick \in trusted)'
  <2>1. CASE TakeLine
    BY <2>1 DEF TakeLine, At
  <2>2. CASE HandleQuit \/ ResetCache
    BY <2>2 DEF HandleQuit, ResetCache
  <2>3. CASE ~(TakeLine \/ HandleQuit \/ ResetCache)
    <3>1. trusted' = trusted
      BY <2>3
      DEF Next, Check, Dispatch, Reset, Server, StartCommand, StartInvite, Begin,
          Look, Miss, Ask, EvalSelect, Receive, ReceiveClosed, Timeout, Leave, Finish, SendWhois,
          Answer, Identify, Quit, Lock, HandleVouch, HandleEnd, Panic, InviteDone,
          Drop, CloseChannels, ClosePanics, ResetTable, Reconnect, vars
    <3>2. CASE Lock \/ HandleVouch \/ HandleEnd \/ Panic
      BY <2>3, <3>1, <3>2 DEF Lock, HandleVouch, HandleEnd, Panic, At, Idle, FoundedInv
    <3>3. ASSUME NEW c \in Inviters, StartInvite(c) \/ InviteDone(c)
          PROVE  (loop.stage \notin {"lock", "act"})'
      BY <3>3 DEF StartInvite, InviteDone, At, Idle
    <3>4. CASE loop' = loop
      BY <3>1, <3>4 DEF FoundedInv
    <3> QED
      BY <2>3, <3>2, <3>3, <3>4
      DEF Next, Check, Dispatch, Reset, Server, StartCommand, StartInvite, Begin,
          Look, Miss, Ask, EvalSelect, Receive, ReceiveClosed, Timeout, Leave, Finish, SendWhois,
          Answer, Identify, Quit, Drop, CloseChannels, ClosePanics, ResetTable,
          Reconnect, vars
  <2> QED
    BY <2>1, <2>2, <2>3
<1>3. ASSUME ~raced', NEW c \in Checkers, Running(c)', got'[c] \/ Offered(c)'
      PROVE  NickOf[c] \in trusted'
  <2>1. ~raced
    BY <1>3
    DEF Next, Check, Dispatch, Reset, Server, StartCommand, StartInvite, Begin,
        Look, Miss, Ask, EvalSelect, Receive, ReceiveClosed, Timeout, Leave, Finish, SendWhois,
        Answer, Identify, Quit, TakeLine, HandleQuit, Lock, HandleVouch,
        HandleEnd, Panic, InviteDone, Drop, ResetCache, CloseChannels,
        ClosePanics, ResetTable, Reconnect, vars
  <2>2. Running(c) /\ NickOf[c] \in trusted
    <3>1. Running(c) /\ (Offered(c) \/ got[c] \/ (HandleVouch /\ loop.line.nick = NickOf[c]))
      BY <1>3, OfferedBefore
    <3> QED
      BY <2>1, <3>1 DEF FoundedInv, HandleVouch
  <2>3. NickOf[c] \in Nicks
    OBVIOUS
  <2> QED
    BY <1>3, <2>2, <2>3
    DEF Next, Check, Dispatch, Reset, Server, StartCommand, StartInvite, Begin,
        Look, Miss, Ask, EvalSelect, Receive, ReceiveClosed, Timeout, Leave, Finish, SendWhois,
        Answer, Identify, Quit, TakeLine, HandleQuit, Lock, HandleVouch,
        HandleEnd, Panic, InviteDone, Drop, ResetCache, CloseChannels,
        ClosePanics, ResetTable, Reconnect, vars, Racing
<1>4. ~raced' => cache' \subseteq trusted'
  <2>1. ASSUME NEW c \in Checkers, Finish(c) PROVE ~raced' => cache' \subseteq trusted'
    BY <2>1 DEF Finish, CacheAfter, FoundedInv, Running
  <2>2. CASE HandleQuit \/ ResetCache \/ TakeLine
    BY <2>2 DEF HandleQuit, DropQuitter, ResetCache, TakeLine, FoundedInv
  <2>3. CASE UNCHANGED <<cache, trusted, raced>>
    BY <2>3 DEF FoundedInv
  <2> QED
    BY <2>1, <2>2, <2>3
    DEF Next, Check, Dispatch, Reset, Server, StartCommand, StartInvite, Begin,
        Look, Miss, Ask, EvalSelect, Receive, ReceiveClosed, Timeout, Leave, SendWhois,
        Answer, Identify, Quit, Lock, HandleVouch, HandleEnd, Panic, InviteDone,
        Drop, CloseChannels, ClosePanics, ResetTable, Reconnect, vars
<1>5. FoundedUnlessRaced'
  <2> SUFFICES ASSUME ~raced', RequireAuth, NEW c \in Checkers, pc'[c] = "granted"
               PROVE  c \in seen'
    BY DEF FoundedUnlessRaced, Founded
  <2>0. ~raced
    BY DEF Next, Check, Dispatch, Reset, Server, StartCommand, StartInvite, Begin,
           Look, Miss, Ask, EvalSelect, Receive, ReceiveClosed, Timeout, Leave, Finish, SendWhois,
           Answer, Identify, Quit, TakeLine, HandleQuit, Lock, HandleVouch,
           HandleEnd, Panic, InviteDone, Drop, ResetCache, CloseChannels,
           ClosePanics, ResetTable, Reconnect, vars
  <2>1. ~raced /\ seen \subseteq seen'
    BY <2>0 DEF Next, Check, Dispatch, Reset, Server, StartCommand, StartInvite, Begin,
           Look, Miss, Ask, EvalSelect, Receive, ReceiveClosed, Timeout, Leave, Finish, SendWhois,
           Answer, Identify, Quit, TakeLine, HandleQuit, Lock, HandleVouch,
           HandleEnd, Panic, InviteDone, Drop, ResetCache, CloseChannels,
           ClosePanics, ResetTable, Reconnect, vars
  <2>2. CASE pc[c] = "granted"
    BY <2>1, <2>2 DEF FoundedInv, FoundedUnlessRaced, Founded
  <2>3. CASE pc[c] # "granted"
    <3>1. ASSUME NEW d \in Checkers, Look(d) PROVE c \in seen
      BY <2>1, <2>3, <3>1 DEF TypeOK, Look, FoundedInv, Begun, Finished
    <3>2. ASSUME NEW d \in Checkers, Finish(d) PROVE c \in seen
      BY <2>1, <2>3, <3>2 DEF TypeOK, Finish, FoundedInv, Running, Begun, Finished
    <3>3. ASSUME NEW d \in Checkers,
                 \/ StartCommand(d) \/ StartInvite(d) \/ Miss(d) \/ Ask(d) \/ EvalSelect(d)
                 \/ Receive(d) \/ ReceiveClosed(d) \/ Timeout(d) \/ Leave(d)
          PROVE  FALSE
      BY <2>3, <3>3
      DEF TypeOK, StartCommand, StartInvite, Begin, Miss, Ask, EvalSelect,
          Receive, ReceiveClosed, Timeout, Leave
    <3>4. CASE UNCHANGED pc
      BY <2>3, <3>4
    <3> QED
      BY <2>1, <3>1, <3>2, <3>3, <3>4
      DEF Next, Check, Dispatch, Reset, Server, SendWhois, Answer, Identify, Quit,
          TakeLine, HandleQuit, Lock, HandleVouch, HandleEnd, Panic, InviteDone,
          Drop, ResetCache, CloseChannels, ClosePanics, ResetTable, Reconnect, vars
  <2> QED
    BY <2>2, <2>3
<1> QED
  BY <1>1, <1>2, <1>3, <1>4, <1>5 DEF FoundedInv

\* A check that succeeds saw its nick vouched for between its start and its
\* end, unless an identity was forgotten meanwhile: FoundedUnlessRaced.
THEOREM GrantsFounded == Spec => []FoundedUnlessRaced
<1>1. Init => OwnChannels /\ AskedInv /\ FoundedInv
  BY DEF Init, OwnChannels, AskedInv, Untouched, Asked, FoundedInv, FoundedUnlessRaced,
         Founded, Begun, Running, Finished, Idle
<1>2. TypeOK /\ OwnChannels /\ AskedInv /\ FoundedInv /\ [Next]_vars
      => OwnChannels' /\ AskedInv' /\ FoundedInv'
  BY OwnChannelsStep, AskedStep, FoundedStep
<1>3. FoundedInv => FoundedUnlessRaced
  BY DEF FoundedInv
<1> QED
  BY <1>1, <1>2, <1>3, TypeCorrect, PTL DEF Spec

-----------------------------------------------------------------------------
(* As long as nothing unusual happens.                                     *)

\* The lines of a reply: vouching ones, and then the one that ends it.
LEMMA ReplyLines ==
  ASSUME NEW n \in Nicks, NEW k \in 0..MaxVouch
  PROVE  /\ \A i \in 1..k : Reply(n, k)[i] = [cmd |-> "vouch", nick |-> n]
         /\ Reply(n, k)[k + 1] = [cmd |-> "end", nick |-> n]
<1> k \in Nat
  OBVIOUS
<1> QED
  BY DEF Reply

\* What is on its way depends on the queue and the loop only.
LEMMA SameLines ==
  ASSUME UNCHANGED <<inq, loop>>
  PROVE  /\ \A n : (InFlight(n)' <=> InFlight(n)) /\ (VouchComing(n)' <=> VouchComing(n))
         /\ EndsLast' <=> EndsLast
BY DEF InFlight, VouchComing, Handling, Lining, EndsLast

\* A loop that goes from one line to nothing, or to an invitation.
LEMMA FreeLoop ==
  ASSUME loop.stage \notin {"lock", "act"}, loop'.stage \notin {"lock", "act"}, inq' = inq
  PROVE  /\ \A n : (InFlight(n)' <=> InFlight(n)) /\ (VouchComing(n)' <=> VouchComing(n))
         /\ EndsLast' <=> EndsLast
BY DEF InFlight, VouchComing, Handling, Lining, EndsLast

\* Taking a line off the queue.
LEMMA TailLines ==
  ASSUME TypeOK, inq # <<>>
  PROVE  /\ Head(inq) = inq[1] /\ inq[1] \in Lines
         /\ Len(inq) \in Nat \ {0} /\ Len(Tail(inq)) = Len(inq) - 1
         /\ \A i \in 1..Len(Tail(inq)) : Tail(inq)[i] = inq[i + 1]
BY DEF TypeOK

\* A line that is being handled is about the nick of the one check of that nick.
LEMMA HandledFor ==
  ASSUME TypeOK, CalmInv, loop.stage \in {"lock", "act"}
  PROVE  \E c \in Checkers : NickOf[c] = loop.line.nick /\ Waits(c) /\ Alone(c)
                             /\ whois[c] = "answered" /\ ~chan[c].closed /\ pc[c] # "exit"
<1> DEFINE n == loop.line.nick
<1>1. n \in Nicks /\ InFlight(n)
  BY DEF TypeOK, Lines, InFlight
<1>2. PICK c \in Checkers : NickOf[c] = n /\ Waits(c)
  BY <1>1 DEF CalmInv, Quiet
<1>3. Alone(c)
  BY <1>2 DEF CalmInv
<1> QED
  BY <1>1, <1>2, <1>3 DEF Alone

LEMMA CalmQueue ==
  ASSUME TypeOK, CalmInv, NEW c \in Checkers, Answer(c), calm'
  PROVE  CalmInv'
<1> USE DEF goroutine, maps, wire, world, told
<1> DEFINE n == NickOf[c]
<1> n \in Nicks
  OBVIOUS
<1>1. /\ Waits(c) /\ Alone(c) /\ whois[c] = "sent" /\ chan[c] = Fresh /\ ~got[c] /\ ~InFlight(n)
      /\ answer[c] = "none" /\ Begun(c)
  BY DEF CalmInv, Answer, Alone, Waits, Begun, Finished
<1>2. PICK k \in 0..MaxVouch : /\ inq' = inq \o Reply(n, k)
                               /\ k = 0 <=> n \notin identified
  <2>1. CASE n \in identified
    BY <2>1 DEF Answer
  <2>2. CASE n \notin identified
    BY <2>2 DEF Answer
  <2> QED
    BY <2>1, <2>2
<1>3. k \in Nat /\ Len(inq) \in Nat /\ Reply(n, k) \in Seq(Lines) /\ inq \in Seq(Lines) /\ Len(Reply(n, k)) = k + 1
  BY ReplyType DEF TypeOK
<1>4. /\ Len(inq') = Len(inq) + k + 1
      /\ \A i \in 1..Len(inq) : inq'[i] = inq[i]
      /\ \A i \in 1..k : inq'[Len(inq) + i] = [cmd |-> "vouch", nick |-> n]
      /\ inq'[Len(inq) + k + 1] = [cmd |-> "end", nick |-> n]
  BY <1>2, <1>3, ReplyLines
<1>5. \A i \in 1..Len(inq') : \/ i \in 1..Len(inq) /\ inq'[i] = inq[i]
                              \/ i \in (Len(inq) + 1)..(Len(inq) + k)
                                 /\ inq'[i].cmd = "vouch" /\ inq'[i].nick = n
                              \/ i = Len(inq) + k + 1 /\ inq'[i].cmd = "end" /\ inq'[i].nick = n
  <2> SUFFICES ASSUME NEW i \in 1..Len(inq'), i \notin 1..Len(inq)
               PROVE  \/ i \in (Len(inq) + 1)..(Len(inq) + k)
                         /\ inq'[i].cmd = "vouch" /\ inq'[i].nick = n
                      \/ i = Len(inq) + k + 1 /\ inq'[i].cmd = "end" /\ inq'[i].nick = n
    BY <1>4
  <2>1. CASE i = Len(inq) + k + 1
    BY <1>4, <2>1
  <2>2. CASE i # Len(inq) + k + 1
    <3>1. i \in (Len(inq) + 1)..(Len(inq) + k)
      BY <1>3, <1>4, <2>2
    <3>2. PICK j \in 1..k : i = Len(inq) + j
      <4>1. i - Len(inq) \in 1..k
        BY <1>3, <3>1
      <4>2. i = Len(inq) + (i - Len(inq))
        BY <1>3, <3>1
      <4> QED
        BY <4>1, <4>2
    <3> QED
      BY <1>4, <3>1, <3>2
  <2> QED
    BY <2>1, <2>2
<1>6. loop' = loop /\ pc' = pc /\ chan' = chan /\ got' = got /\ table' = table /\ sel' = sel
      /\ mutex' = mutex /\ link' = link /\ whois' = [whois EXCEPT ![c] = "answered"]
  BY DEF Answer
<1>7. \A m \in Nicks \ {n} : (InFlight(m)' <=> InFlight(m)) /\ (VouchComing(m)' <=> VouchComing(m))
  <2> SUFFICES ASSUME NEW m \in Nicks \ {n}
               PROVE (InFlight(m)' <=> InFlight(m)) /\ (VouchComing(m)' <=> VouchComing(m))
    OBVIOUS
  <2>1. \A i \in 1..Len(inq') : inq'[i].nick = m => i \in 1..Len(inq) /\ inq'[i] = inq[i]
    BY <1>5
  <2>2. \A i \in 1..Len(inq) : i \in 1..Len(inq') /\ inq'[i] = inq[i]
    BY <1>3, <1>4
  <2> QED
    BY <1>6, <2>1, <2>2 DEF InFlight, VouchComing, Handling, Lining
<1>8. VouchComing(n)' <=> k # 0
  <2>1. ~VouchComing(n)
    BY <1>1 DEF InFlight, VouchComing, Handling, Lining
  <2>2. k # 0 => VouchComing(n)'
    <3> SUFFICES ASSUME k # 0 PROVE VouchComing(n)'
      OBVIOUS
    <3>1. Len(inq) + 1 \in 1..Len(inq') /\ inq'[Len(inq) + 1] = [cmd |-> "vouch", nick |-> n]
      BY <1>3, <1>4
    <3> QED
      BY <3>1 DEF VouchComing, Lining
  <2>3. k = 0 => ~VouchComing(n)'
    BY <1>3, <1>5, <1>6, <2>1 DEF VouchComing, Handling, Lining
  <2> QED
    BY <2>2, <2>3
<1>9. EndsLast'
  <2>1. ASSUME NEW i \in 1..Len(inq'), NEW j \in 1..Len(inq'), i < j, inq'[j].cmd # "quit",
               inq'[i].cmd # "quit", inq'[i].nick = inq'[j].nick
        PROVE  inq'[i].cmd = "vouch"
    <3>1. CASE j \in 1..Len(inq)
      <4>1. i \in 1..Len(inq) /\ inq'[i] = inq[i] /\ inq'[j] = inq[j]
        BY <1>3, <1>4, <2>1, <3>1
      <4> QED
        BY <2>1, <3>1, <4>1 DEF CalmInv, EndsLast, Lining
    <3>2. CASE j \notin 1..Len(inq)
      <4>1. inq'[j].nick = n
        BY <1>5, <3>2
      <4>2. ~(i \in 1..Len(inq))
        BY <1>1, <1>4, <2>1, <4>1 DEF InFlight, Lining
      <4> QED
        BY <1>3, <1>4, <1>5, <2>1, <4>2
    <3> QED
      BY <3>1, <3>2
  <2>2. ASSUME NEW j \in 1..Len(inq'), inq'[j].cmd # "quit", Handling(inq'[j].nick)
        PROVE  loop'.line.cmd = "vouch"
    <3>1. inq'[j].nick # n
      BY <1>1, <1>6, <2>2 DEF Handling, InFlight
    <3>2. j \in 1..Len(inq) /\ inq'[j] = inq[j]
      BY <1>5, <3>1
    <3> QED
      BY <1>6, <2>2, <3>2 DEF CalmInv, EndsLast, Handling
  <2> QED
    BY <1>6, <2>1, <2>2 DEF EndsLast, Lining, Handling
<1>10. \A d \in Checkers \ {c} : Waits(d) => NickOf[d] # n
  BY <1>1 DEF Alone, Open
<1>11. ASSUME NEW d \in Checkers, Waits(d)' PROVE Alone(d)'
  <2>1. CASE d = c
    <3>1. answer'[c] = (IF k = 0 THEN "no" ELSE "yes")
      BY <1>1, <1>2 DEF Answer, TypeOK
    <3>2. pc[c] # "exit"
      BY <1>1 DEF Alone, Fresh
    <3> QED
      BY <1>1, <1>6, <1>8, <2>1, <3>1, <3>2 DEF Alone, Fresh, Open, Waits, TypeOK
  <2>2. CASE d # c
    <3>1. Alone(d) /\ NickOf[d] \in Nicks \ {n} /\ answer'[d] = answer[d]
      BY <1>6, <1>10, <1>11, <2>2 DEF CalmInv, Waits, Answer, TypeOK
    <3>2. \A e \in Checkers : Open(e)' => Open(e)
      BY <1>6 DEF Open, Waits, TypeOK
    <3> QED
      BY <1>6, <1>7, <2>2, <3>1, <3>2 DEF Alone, TypeOK
  <2> QED
    BY <2>1, <2>2
<1>12. ASSUME NEW m \in Nicks PROVE (Quiet(m) \/ \E d \in Checkers : NickOf[d] = m /\ Waits(d))'
  BY <1>1, <1>6, <1>7 DEF CalmInv, Quiet, Waits
<1>13. \A d \in Checkers : (whois[d] \in {"queued", "sent"} => Waits(d))'
  BY <1>6 DEF CalmInv, Waits, TypeOK
<1>14. \A d \in Checkers : (whois[d] = "none" => answer[d] = "none")'
  BY <1>6 DEF CalmInv, TypeOK, Answer
<1>15. link = "up"
  BY DEF Answer
<1> QED
  BY <1>6, <1>9, <1>11, <1>12, <1>13, <1>14, <1>15 DEF CalmInv

\* A step that leaves the lines, the loop, the requests and the running checks
\* alone keeps what holds of the nicks.
LEMMA CalmNicks ==
  ASSUME CalmInv, UNCHANGED <<inq, loop, table, whois, answer, mutex, link>>,
         \A c \in Checkers : Waits(c)' <=> Waits(c),
         \A c \in Checkers : Waits(c)' => Alone(c)'
  PROVE  CalmInv'
<1>1. \A c \in Checkers : Open(c)' <=> Open(c)
  BY DEF Open
<1>2. \A n : OpenFor(n)' <=> OpenFor(n)
  BY <1>1, SameLines DEF OpenFor
<1> QED
  BY <1>2, SameLines DEF CalmInv, Quiet

LEMMA CalmStart ==
  ASSUME TypeOK, CalmInv, NEW c \in Checkers, StartCommand(c) \/ StartInvite(c)
  PROVE  CalmInv'
<1> USE DEF goroutine, maps, wire, world, told
<1>1. /\ loop.stage = "idle" /\ loop'.stage \notin {"lock", "act"}
      /\ UNCHANGED <<inq, table, whois, answer, mutex, link, chan, sel, got>>
  BY DEF StartCommand, StartInvite, CanReceive, At
<1>2. \A d \in Checkers : (Waits(d)' <=> Waits(d)) /\ (Waits(d) => pc'[d] = pc[d])
  BY DEF TypeOK, StartCommand, StartInvite, Begin, Waits
<1>3. \A d \in Checkers : Open(d)' <=> Open(d)
  BY <1>1, <1>2 DEF Open
<1>4. \A n : (InFlight(n)' <=> InFlight(n)) /\ (VouchComing(n)' <=> VouchComing(n))
  BY <1>1, FreeLoop
<1>5. \A n : OpenFor(n)' <=> OpenFor(n)
  BY <1>3, <1>4 DEF OpenFor
<1>6. \A d \in Checkers : Waits(d) => (Alone(d)' <=> Alone(d))
  BY <1>1, <1>2, <1>3, <1>4 DEF Alone
<1>7. EndsLast'
  BY <1>1, FreeLoop DEF CalmInv
<1> QED
  BY <1>1, <1>2, <1>4, <1>5, <1>6, <1>7 DEF CalmInv, Quiet

LEMMA CalmAsk ==
  ASSUME TypeOK, AskedInv, CalmInv, NEW c \in Checkers, Ask(c), calm'
  PROVE  CalmInv'
<1> USE DEF goroutine, maps, wire, world, told
<1> DEFINE n == NickOf[c]
<1> n \in Nicks
  OBVIOUS
<1>1. /\ ~OpenFor(n) /\ link \in {"up", "down"}
      /\ pc[c] = "miss" /\ pc' = [pc EXCEPT ![c] = "eval"]
      /\ table' = [table EXCEPT ![n] = c] /\ whois' = [whois EXCEPT ![c] = "queued"]
      /\ UNCHANGED <<inq, loop, answer, mutex, link, chan, sel, got>>
  BY DEF Ask
<1>2. chan[c] = Fresh /\ ~got[c] /\ answer[c] = "none"
  BY <1>1 DEF AskedInv, Untouched, Waiting
<1>3. \A d \in Checkers \ {c} : /\ pc'[d] = pc[d] /\ whois'[d] = whois[d]
                                /\ Waits(d)' <=> Waits(d)
                                /\ Open(d)' <=> Open(d)
  BY <1>1 DEF TypeOK, Waits, Open
<1>4. pc'[c] = "eval" /\ whois'[c] = "queued" /\ Waits(c)'
  BY <1>1 DEF TypeOK, Waits
<1>5. ~InFlight(n) /\ \A d \in Checkers : NickOf[d] = n => ~Open(d)
  BY <1>1 DEF OpenFor
<1>6. \A m : (InFlight(m)' <=> InFlight(m)) /\ (VouchComing(m)' <=> VouchComing(m))
  BY <1>1, SameLines
<1>7. Alone(c)'
  <2>1. ~VouchComing(n)
    BY <1>5 DEF InFlight, VouchComing, Handling, Lining
  <2>2. table'[n] = c
    BY <1>1 DEF TypeOK
  <2> QED
    BY <1>1, <1>2, <1>3, <1>4, <1>5, <1>6, <2>1, <2>2 DEF Alone, Fresh
<1>8. ASSUME NEW d \in Checkers \ {c}, Waits(d)' PROVE Alone(d)'
  <2>1. Waits(d) /\ Alone(d) /\ NickOf[d] # n /\ NickOf[d] \in Nicks
    BY <1>3, <1>5, <1>8 DEF CalmInv, Open
  <2>2. table'[NickOf[d]] = table[NickOf[d]]
    BY <1>1, <2>1 DEF TypeOK
  <2> QED
    BY <1>1, <1>3, <1>6, <2>1, <2>2 DEF Alone
<1>9. ASSUME NEW m \in Nicks PROVE (Quiet(m) \/ \E d \in Checkers : NickOf[d] = m /\ Waits(d))'
  <2>1. CASE m = n
    BY <1>4, <2>1
  <2>2. CASE m # n
    <3>1. table'[m] = table[m]
      BY <1>1, <2>2 DEF TypeOK
    <3>2. \A d \in Checkers : NickOf[d] = m => d # c
      BY <2>2
    <3>3. CASE Quiet(m)
      BY <1>6, <3>1, <3>3 DEF Quiet
    <3>4. CASE ~Quiet(m)
      BY <1>3, <3>2, <3>4 DEF CalmInv
    <3> QED
      BY <3>3, <3>4
  <2> QED
    BY <2>1, <2>2
<1>10. \A d \in Checkers : (whois[d] \in {"queued", "sent"} => Waits(d))'
  BY <1>3, <1>4 DEF CalmInv
<1>11. EndsLast'
  BY <1>1, SameLines DEF CalmInv
<1>12. (loop.stage = "act" => loop.ch = table[loop.line.nick])'
  <2> SUFFICES ASSUME loop.stage = "act" PROVE loop.ch = table'[loop.line.nick]
    BY <1>1
  <2>1. loop.line.nick \in Nicks /\ InFlight(loop.line.nick)
    BY DEF TypeOK, Lines, InFlight
  <2>2. loop.line.nick # n
    BY <1>5, <2>1
  <2> QED
    BY <1>1, <2>1, <2>2 DEF TypeOK, CalmInv
<1> QED
  BY <1>1, <1>2, <1>3, <1>4, <1>7, <1>8, <1>9, <1>10, <1>11, <1>12 DEF CalmInv

LEMMA CalmLeave ==
  ASSUME TypeOK, CalmInv, NEW c \in Checkers, Leave(c)
  PROVE  CalmInv'
<1> USE DEF goroutine, maps, wire, world, told
<1> DEFINE n == NickOf[c]
<1> n \in Nicks
  OBVIOUS
<1>1. /\ pc[c] = "exit" /\ pc' = [pc EXCEPT ![c] = "left"]
      /\ table' = [table EXCEPT ![n] = NoChan]
      /\ UNCHANGED <<inq, loop, whois, answer, mutex, link, chan, sel, got>>
  BY DEF Leave
<1>2. /\ Waits(c) /\ Alone(c) /\ ~InFlight(n) /\ whois[c] = "answered"
  BY <1>1 DEF Waits, CalmInv, Alone, Fresh
<1>3. \A d \in Checkers \ {c} : /\ pc'[d] = pc[d] /\ (Waits(d)' <=> Waits(d))
                                /\ (NickOf[d] = n => ~Open(d))
  BY <1>1, <1>2 DEF TypeOK, Waits, Alone
<1>4. ~Waits(c)' /\ ~Open(c)'
  BY <1>1, <1>2 DEF TypeOK, Waits, Open
<1>5. \A m : (InFlight(m)' <=> InFlight(m)) /\ (VouchComing(m)' <=> VouchComing(m))
  BY <1>1, SameLines
<1>6. ASSUME NEW d \in Checkers, Waits(d)' PROVE Alone(d)'
  <2>1. d # c /\ Waits(d) /\ Alone(d) /\ NickOf[d] # n /\ NickOf[d] \in Nicks
    BY <1>3, <1>4, <1>6 DEF CalmInv, Open
  <2>2. table'[NickOf[d]] = table[NickOf[d]]
    BY <1>1, <2>1 DEF TypeOK
  <2>3. \A e \in Checkers : Open(e)' => Open(e)
    BY <1>1, <1>3, <1>4 DEF Open
  <2> QED
    BY <1>1, <1>3, <1>5, <2>1, <2>2, <2>3 DEF Alone
<1>7. ASSUME NEW m \in Nicks PROVE (Quiet(m) \/ \E d \in Checkers : NickOf[d] = m /\ Waits(d))'
  <2>1. CASE m = n
    <3>1. table'[n] = NoChan
      BY <1>1 DEF TypeOK
    <3> QED
      BY <1>2, <1>5, <2>1, <3>1 DEF Quiet
  <2>2. CASE m # n
    <3>1. table'[m] = table[m] /\ \A d \in Checkers : NickOf[d] = m => d # c
      BY <1>1, <2>2 DEF TypeOK
    <3>2. CASE Quiet(m)
      BY <1>5, <3>1, <3>2 DEF Quiet
    <3>3. CASE ~Quiet(m)
      BY <1>3, <3>1, <3>3 DEF CalmInv
    <3> QED
      BY <3>2, <3>3
  <2> QED
    BY <2>1, <2>2
<1>8. \A d \in Checkers : (whois[d] \in {"queued", "sent"} => Waits(d))'
  BY <1>1, <1>2, <1>3 DEF CalmInv
<1>9. (loop.stage = "act" => loop.ch = table[loop.line.nick])'
  <2> SUFFICES ASSUME loop.stage = "act" PROVE loop.ch = table'[loop.line.nick]
    BY <1>1
  <2>1. loop.line.nick \in Nicks /\ loop.line.nick # n
    BY <1>2 DEF TypeOK, Lines, InFlight
  <2> QED
    BY <1>1, <2>1 DEF TypeOK, CalmInv
<1>10. link \in {"closing", "resetting", "closed"} => FALSE
  BY <1>2 DEF CalmInv, OpenFor, Open
<1>11. EndsLast'
  BY <1>1, SameLines DEF CalmInv
<1> QED
  BY <1>1, <1>6, <1>7, <1>8, <1>9, <1>10, <1>11 DEF CalmInv

\* The other steps of a check.
LEMMA CalmCheck ==
  ASSUME TypeOK, AskedInv, CalmInv, NEW c \in Checkers, calm',
         \/ Look(c) \/ Miss(c) \/ EvalSelect(c) \/ Receive(c) \/ ReceiveClosed(c)
         \/ Timeout(c) \/ Finish(c)
  PROVE  CalmInv'
<1> USE DEF goroutine, maps, wire, world, told
<1>1. /\ UNCHANGED <<inq, loop, table, whois, answer, mutex, link>>
      /\ \A d \in Checkers \ {c} : pc'[d] = pc[d] /\ sel'[d] = sel[d] /\ got'[d] = got[d]
      /\ \A d \in Checkers : Waits(d)' <=> Waits(d)
  <2>1. /\ UNCHANGED <<inq, loop, table, whois, answer, mutex, link>>
        /\ \A d \in Checkers \ {c} : pc'[d] = pc[d] /\ sel'[d] = sel[d] /\ got'[d] = got[d]
    BY DEF TypeOK, Look, Miss, EvalSelect, Receive, ReceiveClosed, Timeout, Finish
  <2>2. Waits(c)' <=> Waits(c)
    <3>1. CASE Look(c) \/ Miss(c) \/ Finish(c)
      BY <3>1 DEF TypeOK, Look, Miss, Finish, Waits
    <3>2. CASE EvalSelect(c)
      BY <3>2 DEF TypeOK, EvalSelect, Waits
    <3>3. CASE Receive(c)
      BY <3>3 DEF TypeOK, Receive, Waits
    <3>4. CASE ReceiveClosed(c)
      BY <3>4 DEF TypeOK, ReceiveClosed, Waits
    <3>5. CASE Timeout(c)
      BY <3>5 DEF TypeOK, Timeout
    <3> QED
      BY <3>1, <3>2, <3>3, <3>4, <3>5
  <2>3. \A d \in Checkers \ {c} : Waits(d)' <=> Waits(d)
    BY <2>1 DEF Waits
  <2> QED
    BY <2>1, <2>2, <2>3
<1>2. \A d \in Checkers : Open(d)' <=> Open(d)
  BY <1>1 DEF Open
<1>3. \A m : (InFlight(m)' <=> InFlight(m)) /\ (VouchComing(m)' <=> VouchComing(m))
  BY <1>1, SameLines
<1>4. ASSUME NEW d \in Checkers \ {c}, Waits(d)', chan'[d] = chan[d] PROVE Alone(d)'
  <2>1. Alone(d)
    BY <1>1, <1>4 DEF CalmInv
  <2> QED
    BY <1>1, <1>2, <1>3, <1>4, <2>1 DEF Alone
<1>5. CASE Look(c) \/ Miss(c) \/ Finish(c)
  <2>1. chan' = chan /\ ~Waits(c)'
    BY <1>5 DEF TypeOK, Look, Miss, Finish, Waits
  <2> QED
    BY <1>1, <1>4, <2>1, CalmNicks
<1>6. CASE EvalSelect(c)
  <2>1. /\ chan' = chan /\ got' = got /\ Waits(c) /\ Alone(c)
        /\ pc'[c] = "select" /\ sel'[c] = table[NickOf[c]]
    BY <1>6 DEF TypeOK, EvalSelect, Waits, CalmInv
  <2>2. Alone(c)'
    BY <1>1, <1>2, <1>3, <2>1 DEF Alone
  <2> QED
    BY <1>1, <1>4, <2>1, <2>2, CalmNicks
<1>7. CASE Receive(c)
  <2>0. Waits(c) /\ Alone(c) /\ sel[c] = c
    BY <1>7 DEF Receive, Waits, CalmInv, Alone
  <2>1. /\ Waits(c) /\ Alone(c) /\ sel[c] = c /\ chan[c].buf > 0 /\ chan[c].buf \in 0..MaxBuf
        /\ chan' = [chan EXCEPT ![c].buf = @ - 1] /\ got'[c] /\ pc'[c] = "eval"
    <3>1. chan[c].buf \in 0..MaxBuf
      BY DEF TypeOK
    <3> QED
      BY <1>7, <2>0, <3>1 DEF TypeOK, Receive
  <2>2. chan'[c].closed = chan[c].closed /\ \A d \in Checkers \ {c} : chan'[d] = chan[d]
    BY <2>1 DEF TypeOK
  <2>3. Alone(c)'
    BY <1>1, <1>2, <1>3, <2>1, <2>2 DEF Alone, Fresh, MaxBuf
  <2> QED
    BY <1>1, <1>4, <2>2, <2>3, CalmNicks
<1>8. CASE ReceiveClosed(c)
  <2>1. /\ Waits(c) /\ Alone(c) /\ sel[c] = c /\ chan[c] = [buf |-> 0, closed |-> TRUE]
        /\ chan' = chan /\ got' = got /\ sel' = sel /\ pc'[c] = "exit"
    BY <1>8 DEF TypeOK, ReceiveClosed, Waits, CalmInv, Alone
  <2>2. Alone(c)'
    BY <1>1, <1>2, <1>3, <2>1 DEF Alone
  <2> QED
    BY <1>1, <1>4, <2>1, <2>2, CalmNicks
<1>9. CASE Timeout(c)
  BY <1>9 DEF Timeout
<1> QED
  BY <1>5, <1>6, <1>7, <1>8, <1>9

\* The loop takes a line: what was first in the queue is now being handled.
LEMMA CalmTake ==
  ASSUME TypeOK, CalmInv, TakeLine \/ HandleQuit
  PROVE  CalmInv'
<1> USE DEF goroutine, maps, wire, world, told
<1>1. /\ inq # <<>> /\ inq' = Tail(inq) /\ loop.stage = "idle"
      /\ UNCHANGED <<pc, chan, sel, got, table, mutex, whois, link, answer>>
  BY DEF TakeLine, HandleQuit
<1>2. /\ Head(inq) = inq[1] /\ Len(inq) \in Nat \ {0} /\ Len(inq') = Len(inq) - 1
      /\ \A i \in 1..Len(inq') : inq'[i] = inq[i + 1]
  BY <1>1, TailLines
<1>3. \/ inq[1].cmd # "quit" /\ loop' = At("lock", inq[1], NoChan)
      \/ inq[1].cmd = "quit" /\ loop' = loop
  BY <1>2 DEF TakeLine, HandleQuit
<1>4. \A i \in 1..Len(inq') : i + 1 \in 1..Len(inq) /\ 1 < i + 1
  BY <1>2
<1>5. \A i \in 1..Len(inq) : i = 1 \/ (i - 1 \in 1..Len(inq') /\ inq'[i - 1] = inq[i])
  BY <1>2
<1>6. \A m : (InFlight(m)' <=> InFlight(m)) /\ (VouchComing(m)' <=> VouchComing(m))
  <2> SUFFICES ASSUME NEW m
               PROVE  (InFlight(m)' <=> InFlight(m)) /\ (VouchComing(m)' <=> VouchComing(m))
    OBVIOUS
  <2>1. InFlight(m)' => InFlight(m)
    BY <1>1, <1>2, <1>3, <1>4 DEF InFlight, At
  <2>2. InFlight(m) => InFlight(m)'
    BY <1>1, <1>3, <1>5, SMTT(30) DEF InFlight, At
  <2>3. VouchComing(m)' => VouchComing(m)
    BY <1>1, <1>2, <1>3, <1>4 DEF VouchComing, Lining, Handling, At
  <2>4. VouchComing(m) => VouchComing(m)'
    BY <1>1, <1>3, <1>5 DEF VouchComing, Lining, Handling, At
  <2> QED
    BY <2>1, <2>2, <2>3, <2>4
<1>7. EndsLast'
  <2>1. ASSUME NEW i \in 1..Len(inq'), NEW j \in 1..Len(inq'), i < j, inq'[j].cmd # "quit",
               inq'[i].cmd # "quit", inq'[i].nick = inq'[j].nick
        PROVE  inq'[i].cmd = "vouch"
    <3>1. i + 1 < j + 1 /\ inq'[i] = inq[i + 1] /\ inq'[j] = inq[j + 1]
      BY <1>2, <2>1
    <3> QED
      BY <1>4, <2>1, <3>1 DEF CalmInv, EndsLast, Lining
  <2>2. ASSUME NEW j \in 1..Len(inq'), inq'[j].cmd # "quit", loop'.stage \in {"lock", "act"},
               loop'.line.nick = inq'[j].nick
        PROVE  loop'.line.cmd = "vouch"
    <3>1. loop'.line = inq[1] /\ inq[1].cmd # "quit" /\ 1 \in 1..Len(inq)
      BY <1>1, <1>2, <1>3, <2>2 DEF At
    <3> QED
      BY <1>2, <1>4, <2>2, <3>1 DEF CalmInv, EndsLast, Lining
  <2> QED
    BY <2>1, <2>2 DEF EndsLast, Lining, Handling
<1>8. \A d \in Checkers : (Waits(d)' <=> Waits(d)) /\ (Open(d)' <=> Open(d))
  BY <1>1 DEF Waits, Open
<1>9. \A d \in Checkers : Waits(d) => Alone(d)'
  BY <1>1, <1>6, <1>8 DEF CalmInv, Alone
<1>10. \A m : OpenFor(m)' <=> OpenFor(m)
  BY <1>6, <1>8 DEF OpenFor
<1>11. loop'.stage # "act"
  BY <1>1, <1>3 DEF At
<1> QED
  BY <1>1, <1>6, <1>7, <1>8, <1>9, <1>10, <1>11 DEF CalmInv, Quiet

LEMMA CalmLock ==
  ASSUME TypeOK, CalmInv, Lock
  PROVE  CalmInv'
<1> USE DEF goroutine, maps, wire, world, told
<1>1. /\ loop.stage = "lock" /\ loop' = At("act", loop.line, table[loop.line.nick]) /\ mutex'
      /\ UNCHANGED <<inq, pc, chan, sel, got, table, whois, link, answer>>
  BY DEF Lock
<1>2. /\ \A m : (InFlight(m)' <=> InFlight(m)) /\ (VouchComing(m)' <=> VouchComing(m))
      /\ EndsLast' <=> EndsLast
  BY <1>1 DEF InFlight, VouchComing, Handling, Lining, EndsLast, At
<1>3. \A d \in Checkers : (Waits(d)' <=> Waits(d)) /\ (Open(d)' <=> Open(d))
  BY <1>1 DEF Waits, Open
<1>4. \A d \in Checkers : Waits(d) => Alone(d)'
  BY <1>1, <1>2, <1>3 DEF CalmInv, Alone
<1>5. \A m : OpenFor(m)' <=> OpenFor(m)
  BY <1>2, <1>3 DEF OpenFor
<1> QED
  BY <1>1, <1>2, <1>3, <1>4, <1>5 DEF CalmInv, Quiet, At

\* The handler of a line acts on the channel of the check that waits for it.
LEMMA CalmAct ==
  ASSUME TypeOK, CalmInv, HandleVouch \/ HandleEnd
  PROVE  CalmInv'
<1> USE DEF goroutine, maps, wire, world, told
<1> DEFINE n == loop.line.nick
<1>1. /\ loop.stage = "act" /\ loop' = Idle /\ mutex' = FALSE
      /\ UNCHANGED <<inq, pc, sel, got, table, whois, link, answer>>
  BY DEF HandleVouch, HandleEnd
<1>2. PICK c \in Checkers : /\ NickOf[c] = n /\ Waits(c) /\ Alone(c) /\ whois[c] = "answered"
                            /\ ~chan[c].closed /\ pc[c] # "exit"
  BY <1>1, HandledFor
<1>3. loop.ch = c
  BY <1>1, <1>2 DEF CalmInv, Alone
<1>4. \A d \in Checkers : (Waits(d)' <=> Waits(d)) /\ (Open(d)' <=> Open(d))
  BY <1>1 DEF Waits, Open
<1>5. \A d \in Checkers \ {c} : chan'[d] = chan[d]
  BY <1>3 DEF TypeOK, HandleVouch, HandleEnd, EndOf
<1>6. \A m : m # n => (InFlight(m)' <=> InFlight(m)) /\ (VouchComing(m)' <=> VouchComing(m))
  BY <1>1 DEF InFlight, VouchComing, Handling, Lining, Idle
<1>7. \A m : InFlight(m)' => InFlight(m)
  BY <1>1 DEF InFlight, Idle
<1>8. ASSUME NEW d \in Checkers \ {c}, Waits(d) PROVE Alone(d)'
  <2>1. Alone(d) /\ NickOf[d] # n
    BY <1>2, <1>8 DEF CalmInv, Alone, Open
  <2> QED
    BY <1>1, <1>4, <1>5, <1>6, <2>1 DEF Alone
<1>9. Alone(c)'
  <2>1. CASE HandleVouch
    <3>1. chan[c] \in [buf : 0..MaxBuf, closed : BOOLEAN] /\ loop.line.cmd = "vouch"
      BY <2>1 DEF TypeOK, HandleVouch
    <3>2. chan'[c].buf > 0 /\ ~chan'[c].closed
      BY <1>2, <1>3, <2>1, <3>1 DEF TypeOK, HandleVouch
    <3>3. answer[c] = "yes"
      BY <1>1, <1>2, <3>1 DEF Alone, VouchComing, Handling
    <3> QED
      BY <1>1, <1>2, <1>4, <3>2, <3>3 DEF Alone
  <2>2. CASE HandleEnd
    <3>1. chan'[c].buf = chan[c].buf /\ loop.line.cmd = "end"
      BY <1>3, <2>2 DEF TypeOK, HandleEnd, EndOf
    <3>2. \A i \in 1..Len(inq) : inq[i].cmd # "quit" => inq[i].nick # n
      BY <1>1, <3>1 DEF CalmInv, EndsLast, Handling
    <3>3. ~InFlight(NickOf[c])'
      BY <1>1, <1>2, <3>2 DEF InFlight, Idle
    <3>4. VouchComing(NickOf[c])' <=> VouchComing(NickOf[c])
      BY <1>1, <3>1 DEF VouchComing, Handling, Lining, Idle
    <3>5. /\ pc'[c] = pc[c] /\ got'[c] = got[c] /\ sel'[c] = sel[c] /\ answer'[c] = answer[c]
          /\ whois'[c] = whois[c] /\ table' = table
      BY <1>1
    <3> HIDE DEF n
    <3> QED
      BY <1>2, <1>4, <3>1, <3>3, <3>4, <3>5 DEF Alone
  <2> QED
    BY <2>1, <2>2
<1>10. ASSUME NEW m \in Nicks PROVE (Quiet(m) \/ \E d \in Checkers : NickOf[d] = m /\ Waits(d))'
  BY <1>1, <1>4, <1>7 DEF CalmInv, Quiet
<1>11. EndsLast'
  BY <1>1 DEF CalmInv, EndsLast, Handling, Lining, Idle
<1>12. link \notin {"closing", "resetting", "closed"}
  BY <1>2 DEF CalmInv, OpenFor, Open
<1> QED
  BY <1>1, <1>4, <1>8, <1>9, <1>10, <1>11, <1>12 DEF CalmInv, Idle

\* No handler meets a closed or missing channel.
LEMMA CalmNoPanic == ASSUME TypeOK, CalmInv PROVE ~Panic
<1> SUFFICES ASSUME Panic PROVE FALSE
  OBVIOUS
<1>1. loop.stage = "act" /\ ~OpenChan(loop.ch)
  BY DEF Panic
<1>2. PICK c \in Checkers : NickOf[c] = loop.line.nick /\ Alone(c) /\ ~chan[c].closed
  BY <1>1, HandledFor
<1> QED
  BY <1>1, <1>2 DEF CalmInv, Alone, OpenChan

LEMMA CalmWorld ==
  ASSUME TypeOK, CalmInv,
         \/ \E c \in Checkers : SendWhois(c)
         \/ \E n \in Nicks : Identify(n) \/ Quit(n)
         \/ \E c \in Inviters : InviteDone(c)
  PROVE  CalmInv'
<1> USE DEF goroutine, maps, wire, world, told
<1>1. ASSUME NEW c \in Checkers, SendWhois(c) PROVE CalmInv'
  <2>1. /\ whois[c] = "queued" /\ whois' = [whois EXCEPT ![c] = "sent"] /\ link = "up"
        /\ UNCHANGED <<inq, loop, pc, chan, sel, got, table, mutex, link, answer>>
    BY <1>1 DEF SendWhois
  <2>2. \A d \in Checkers : (Waits(d)' <=> Waits(d)) /\ (Open(d)' <=> Open(d))
    BY <2>1 DEF Waits, Open, TypeOK
  <2>3. \A d \in Checkers : Waits(d) => Alone(d)'
    BY <2>1, <2>2, SameLines DEF CalmInv, Alone, TypeOK
  <2> QED
    BY <2>1, <2>2, <2>3, SameLines DEF CalmInv, Quiet, TypeOK
<1>2. ASSUME NEW n \in Nicks, Identify(n) PROVE CalmInv'
  <2>1. UNCHANGED <<inq, loop, pc, chan, sel, got, table, mutex, link, answer, whois>>
    BY <1>2 DEF Identify
  <2>2. \A d \in Checkers : (Waits(d)' <=> Waits(d)) /\ (Open(d)' <=> Open(d))
    BY <2>1 DEF Waits, Open
  <2> QED
    BY <2>1, <2>2, SameLines, CalmNicks DEF CalmInv, Alone
<1>3. ASSUME NEW n \in Nicks, Quit(n) PROVE CalmInv'
  <2>1. /\ inq' = Append(inq, [cmd |-> "quit", nick |-> n]) /\ link = "up"
        /\ UNCHANGED <<loop, pc, chan, sel, got, table, mutex, link, answer, whois>>
    BY <1>3 DEF Quit
  <2>2. /\ Len(inq) \in Nat /\ Len(inq') = Len(inq) + 1 /\ inq'[Len(inq) + 1].cmd = "quit"
        /\ \A i \in 1..Len(inq) : inq'[i] = inq[i]
    BY <2>1 DEF TypeOK
  <2>3. \A i \in 1..Len(inq') : inq'[i].cmd # "quit" => i \in 1..Len(inq) /\ inq'[i] = inq[i]
    BY <2>2
  <2>4. \A i \in 1..Len(inq) : i \in 1..Len(inq') /\ inq'[i] = inq[i]
    BY <2>2
  <2>5. \A m : (InFlight(m)' <=> InFlight(m)) /\ (VouchComing(m)' <=> VouchComing(m))
    BY <2>1, <2>3, <2>4 DEF InFlight, VouchComing, Handling, Lining
  <2>6. EndsLast'
    BY <2>1, <2>3 DEF CalmInv, EndsLast, Handling, Lining
  <2>7. \A d \in Checkers : (Waits(d)' <=> Waits(d)) /\ (Open(d)' <=> Open(d))
    BY <2>1 DEF Waits, Open
  <2>8. \A d \in Checkers : Waits(d) => Alone(d)'
    BY <2>1, <2>5, <2>7 DEF CalmInv, Alone
  <2> QED
    BY <2>1, <2>5, <2>6, <2>7, <2>8 DEF CalmInv, Quiet
<1>4. ASSUME NEW c \in Inviters, InviteDone(c) PROVE CalmInv'
  <2>1. /\ loop.stage = "invite" /\ loop' = Idle
        /\ UNCHANGED <<inq, pc, chan, sel, got, table, mutex, link, answer, whois>>
    BY <1>4 DEF InviteDone
  <2>2. /\ \A m : (InFlight(m)' <=> InFlight(m)) /\ (VouchComing(m)' <=> VouchComing(m))
        /\ EndsLast' <=> EndsLast
    BY <2>1, FreeLoop DEF Idle
  <2>3. \A d \in Checkers : (Waits(d)' <=> Waits(d)) /\ (Open(d)' <=> Open(d))
    BY <2>1 DEF Waits, Open
  <2>4. \A d \in Checkers : Waits(d) => Alone(d)'
    BY <2>1, <2>2, <2>3 DEF CalmInv, Alone
  <2>5. \A m : OpenFor(m)' <=> OpenFor(m)
    BY <2>2, <2>3 DEF OpenFor
  <2> QED
    BY <2>1, <2>2, <2>3, <2>4, <2>5 DEF CalmInv, Quiet, Idle
<1> QED
  BY <1>1, <1>2, <1>3, <1>4

\* A lost connection and what follows it, when it meets no check.
LEMMA CalmLink ==
  ASSUME TypeOK, CalmInv, calm', Drop \/ Reset
  PROVE  CalmInv'
<1> USE DEF goroutine, maps, wire, world, told
<1>1. UNCHANGED <<pc, loop, sel, got, mutex, answer>>
  BY DEF Drop, Reset, ResetCache, CloseChannels, ClosePanics, ResetTable, Reconnect
<1>2. \A d \in Checkers : Waits(d)' <=> Waits(d)
  BY <1>1 DEF Waits
<1>3. CASE Drop
  <2>1. /\ \A m \in Nicks : ~OpenFor(m)
        /\ whois' = [c \in Checkers |-> IF whois[c] = "sent" THEN "lost" ELSE whois[c]]
        /\ link' = "closing" /\ table' = table /\ chan' = chan
    BY <1>3 DEF Drop
  <2>2. \A d \in Checkers : ~Open(d) /\ whois'[d] = whois[d]
    BY <2>1 DEF OpenFor, Open
  <2>3. PICK k \in 0..Len(inq) : inq' = SubSeq(inq, 1, k)
    BY <1>3 DEF Drop
  <2>4. Len(inq) \in Nat /\ Len(inq') = k /\ \A i \in 1..k : inq'[i] = inq[i] /\ i \in 1..Len(inq)
    BY <2>3 DEF TypeOK
  <2>5. \A m : InFlight(m)' => InFlight(m)
    BY <1>1, <2>4 DEF InFlight
  <2>6. EndsLast'
    BY <1>1, <2>4 DEF CalmInv, EndsLast, Lining, Handling
  <2>7. \A d \in Checkers : ~Open(d)'
    BY <1>2, <2>2 DEF Open
  <2>8. \A m \in Nicks : ~OpenFor(m)' /\ Quiet(m)'
    BY <1>2, <2>1, <2>2, <2>5, <2>7 DEF OpenFor, Quiet, CalmInv, Open
  <2>9. loop.stage # "act"
    BY <2>1 DEF OpenFor, InFlight, TypeOK, Lines
  <2> QED
    BY <1>1, <1>2, <2>1, <2>2, <2>6, <2>7, <2>8, <2>9 DEF CalmInv, Open
<1>4. CASE Reset
  <2>1. inq' = inq /\ whois' = whois
    BY <1>4 DEF Reset, ResetCache, CloseChannels, ClosePanics, ResetTable, Reconnect
  <2>2. /\ \A m : (InFlight(m)' <=> InFlight(m)) /\ (VouchComing(m)' <=> VouchComing(m))
        /\ EndsLast' <=> EndsLast
    BY <1>1, <2>1, SameLines
  <2>3. \A d \in Checkers : Open(d)' <=> Open(d)
    BY <1>2, <2>1 DEF Open
  <2>4. \A m : OpenFor(m)' <=> OpenFor(m)
    BY <2>2, <2>3 DEF OpenFor
  <2>5. link = "closed" => \A m \in Nicks : ~\E d \in Checkers : NickOf[d] = m /\ Waits(d)
    BY DEF CalmInv, OpenFor, Open
  <2>6. link = "resetting" => Entries = {}
    BY DEF CalmInv, OpenFor, Open, Quiet, Entries
  <2>7. CASE ResetCache \/ Reconnect
    <3>1. chan' = chan /\ table' = table /\ link' \in {"resetting", "up"}
          /\ (link' = "resetting" => link = "closing")
      BY <2>7 DEF ResetCache, Reconnect
    <3>2. \A d \in Checkers : Waits(d) => Alone(d)'
      BY <1>1, <2>1, <2>2, <2>3, <3>1 DEF CalmInv, Alone
    <3> QED
      BY <1>1, <1>2, <2>1, <2>2, <2>4, <3>1, <3>2 DEF CalmInv, Quiet
  <2>8. CASE CloseChannels
    <3>1. table' = table /\ link = "resetting" /\ link' = "closed" /\ chan' = Closed({})
      BY <2>6, <2>8 DEF CloseChannels
    <3>2. \A d \in Checkers : chan'[d] = chan[d]
      BY <3>1 DEF Closed
    <3>3. \A d \in Checkers : Waits(d) => Alone(d)'
      BY <1>1, <2>1, <2>2, <2>3, <3>1, <3>2 DEF CalmInv, Alone
    <3> QED
      BY <1>1, <1>2, <2>1, <2>2, <2>4, <3>1, <3>3 DEF CalmInv, Quiet
  <2>9. CASE ClosePanics
    BY <2>6, <2>9 DEF ClosePanics
  <2>10. CASE ResetTable
    <3>1. chan' = chan /\ table' = [m \in Nicks |-> NoChan] /\ link = "closed" /\ link' = "down"
      BY <2>10 DEF ResetTable
    <3>2. \A m \in Nicks : ~InFlight(m) /\ ~\E d \in Checkers : NickOf[d] = m /\ Waits(d)
      BY <3>1 DEF CalmInv, OpenFor, Open
    <3>3. \A d \in Checkers : ~Waits(d) /\ ~Waits(d)'
      BY <1>2, <3>2
    <3>4. \A m \in Nicks : Quiet(m)'
      BY <2>2, <3>1, <3>2 DEF Quiet
    <3>5. loop.stage # "act"
      BY <3>2 DEF InFlight, TypeOK, Lines
    <3> QED
      BY <1>1, <2>1, <2>2, <3>1, <3>3, <3>4, <3>5 DEF CalmInv
  <2> QED
    BY <1>4, <2>7, <2>8, <2>9, <2>10 DEF Reset
<1> QED
  BY <1>3, <1>4

\* Calm cannot come back.
LEMMA CalmBefore == ASSUME TypeOK, [Next]_vars, calm' PROVE calm
BY DEF TypeOK, Next, Check, Dispatch, Reset, Server, StartCommand, StartInvite, Begin,
       Look, Miss, Ask, EvalSelect, Receive, ReceiveClosed, Timeout, Leave, Finish, SendWhois,
       Answer, Identify, Quit, TakeLine, HandleQuit, Lock, HandleVouch,
       HandleEnd, Panic, InviteDone, Drop, ResetCache, CloseChannels,
       ClosePanics, ResetTable, Reconnect, vars, goroutine, maps, wire, world, told

LEMMA CalmStep == ASSUME TypeOK, AskedInv, CalmKept, [Next]_vars PROVE CalmKept'
<1> SUFFICES ASSUME calm' PROVE CalmInv'
  BY DEF CalmKept
<1>1. CalmInv
  BY CalmBefore DEF CalmKept
<1>2. CASE UNCHANGED vars
  BY <1>1, <1>2, SameLines, CalmNicks DEF vars, CalmInv, Alone, Waits, Open
<1> QED
  BY <1>1, <1>2, CalmQueue, CalmStart, CalmAsk, CalmLeave, CalmCheck, CalmTake,
     CalmLock, CalmAct, CalmNoPanic, CalmWorld, CalmLink
  DEF Next, Check, Dispatch, Server

\* What a check has got when it leaves its channel is what it was answered.
LEMMA CalmToldStep ==
  ASSUME TypeOK, CalmKept, CalmTold, [Next]_vars
  PROVE  CalmTold'
<1> USE DEF goroutine, maps, wire, world, told
<1> SUFFICES ASSUME calm', NEW c \in Checkers, pc'[c] = "left"
             PROVE  answer'[c] = "yes" <=> got'[c]
  BY DEF CalmTold
<1>1. calm /\ CalmInv
  BY CalmBefore DEF CalmKept
<1>2. CASE pc[c] = "left"
  <2>1. answer[c] = "yes" <=> got[c]
    BY <1>1, <1>2 DEF CalmTold
  <2>2. ASSUME NEW d \in Checkers, Answer(d) PROVE answer'[c] = answer[c] /\ got' = got
    <3>1. Waits(d)
      BY <1>1, <2>2 DEF CalmInv, Answer
    <3> QED
      BY <1>2, <2>2, <3>1 DEF Answer, Waits, TypeOK
  <2>3. ASSUME NEW d \in Checkers, Receive(d) PROVE answer' = answer /\ got'[c] = got[c]
    BY <1>2, <2>3 DEF Receive, TypeOK
  <2>4. CASE UNCHANGED <<answer, got>>
    BY <2>1, <2>4
  <2> QED
    BY <2>1, <2>2, <2>3, <2>4
    DEF Next, Check, Dispatch, Reset, Server, StartCommand, StartInvite, Look, Miss, Ask,
        EvalSelect, ReceiveClosed, Timeout, Leave, Finish, SendWhois, Identify,
        Quit, TakeLine, HandleQuit, Lock, HandleVouch, HandleEnd, Panic,
        InviteDone, Drop, ResetCache, CloseChannels, ClosePanics, ResetTable,
        Reconnect, vars
<1>3. CASE pc[c] # "left"
  <2>1. ASSUME NEW d \in Checkers, Leave(d) PROVE answer'[c] = "yes" <=> got'[c]
    <3>1. d = c /\ answer' = answer /\ got' = got /\ pc[c] = "exit"
      BY <1>3, <2>1 DEF TypeOK, Leave
    <3>2. Alone(c) /\ ~InFlight(NickOf[c]) /\ chan[c].buf = 0
      BY <1>1, <3>1 DEF CalmInv, Waits, Alone
    <3>3. ~VouchComing(NickOf[c])
      BY <3>2 DEF InFlight, VouchComing, Handling, Lining
    <3> QED
      BY <3>1, <3>2, <3>3 DEF Alone
  <2>2. ASSUME NEW d \in Checkers,
               \/ StartCommand(d) \/ StartInvite(d) \/ Look(d) \/ Miss(d) \/ Ask(d)
               \/ EvalSelect(d) \/ Receive(d) \/ ReceiveClosed(d) \/ Timeout(d) \/ Finish(d)
        PROVE  FALSE
    BY <1>3, <2>2 DEF TypeOK, StartCommand, StartInvite, Begin, Look, Miss, Ask, EvalSelect,
      Receive, ReceiveClosed, Timeout, Finish
  <2>3. CASE UNCHANGED pc
    BY <1>3, <2>3
  <2> QED
    BY <2>1, <2>2, <2>3
    DEF Next, Check, Dispatch, Reset, Server, SendWhois, Answer, Identify, Quit,
        TakeLine, HandleQuit, Lock, HandleVouch, HandleEnd, Panic, InviteDone,
        Drop, ResetCache, CloseChannels, ClosePanics, ResetTable, Reconnect, vars
<1> QED
  BY <1>2, <1>3

\* A check that ends returns the answer to its own request, and an ended one is
\* not asked again.
LEMMA CalmAnswersStep ==
  ASSUME TypeOK, AskedInv, CalmKept, CalmTold, CalmAnswers, [Next]_vars
  PROVE  CalmAnswers'
<1> USE DEF goroutine, maps, wire, world, told
<1> SUFFICES ASSUME calm', NEW c \in Checkers, Finished(c)', answer'[c] # "none"
             PROVE  pc'[c] = "granted" <=> answer'[c] = "yes"
  BY DEF CalmAnswers
<1>1. calm /\ CalmInv
  BY CalmBefore DEF CalmKept
<1>2. CASE Finished(c)
  <2>1. pc'[c] = pc[c]
    <3>1. ASSUME NEW d \in Checkers, StartCommand(d) \/ StartInvite(d) \/ Check(d)
          PROVE  pc'[c] = pc[c]
      BY <1>2, <3>1
      DEF TypeOK, Finished, StartCommand, StartInvite, Begin, Check, Look, Miss, Ask,
          EvalSelect, Receive, ReceiveClosed, Timeout, Leave, Finish
    <3>2. CASE UNCHANGED pc
      BY <3>2
    <3> QED
      BY <3>1, <3>2
      DEF Next, Dispatch, Reset, Server, SendWhois, Answer, Identify, Quit, TakeLine,
          HandleQuit, Lock, HandleVouch, HandleEnd, Panic, InviteDone, Drop,
          ResetCache, CloseChannels, ClosePanics, ResetTable, Reconnect, vars
  <2>2. answer'[c] = answer[c]
    <3>1. ASSUME NEW d \in Checkers, Answer(d) PROVE answer'[c] = answer[c]
      BY <1>2, <3>1 DEF TypeOK, Answer, Begun
    <3>2. CASE UNCHANGED answer
      BY <3>2
    <3> QED
      BY <3>1, <3>2
      DEF Next, Check, Dispatch, Reset, Server, StartCommand, StartInvite, Look, Miss, Ask,
          EvalSelect, Receive, ReceiveClosed, Timeout, Leave, Finish, SendWhois, Identify,
          Quit, TakeLine, HandleQuit, Lock, HandleVouch, HandleEnd, Panic,
          InviteDone, Drop, ResetCache, CloseChannels, ClosePanics, ResetTable,
          Reconnect, vars
  <2> QED
    BY <1>1, <1>2, <2>1, <2>2 DEF CalmAnswers
<1>3. CASE ~Finished(c)
  <2>1. ASSUME NEW d \in Checkers, Look(d)
        PROVE  pc'[c] = "granted" <=> answer'[c] = "yes"
    <3>1. d = c /\ answer' = answer
      BY <1>3, <2>1 DEF TypeOK, Look, Finished
    <3> QED
      BY <2>1, <3>1 DEF Look, AskedInv, Untouched, Waiting
  <2>2. ASSUME NEW d \in Checkers, Finish(d)
        PROVE  pc'[c] = "granted" <=> answer'[c] = "yes"
    <3>1. /\ d = c /\ answer' = answer /\ pc[c] = "left"
          /\ pc'[c] = IF got[c] THEN "granted" ELSE "denied"
      BY <1>3, <2>2 DEF TypeOK, Finish, Finished
    <3> QED
      BY <1>1, <3>1 DEF CalmTold
  <2>3. ASSUME NEW d \in Checkers,
               \/ StartCommand(d) \/ StartInvite(d) \/ Miss(d) \/ Ask(d) \/ EvalSelect(d)
               \/ Receive(d) \/ ReceiveClosed(d) \/ Timeout(d) \/ Leave(d)
        PROVE  FALSE
    <3>1. CASE StartCommand(d) \/ StartInvite(d)
      BY <1>3, <3>1, ZenonT(60) DEF TypeOK, Finished, StartCommand, StartInvite, Begin
    <3>2. CASE Miss(d) \/ Ask(d) \/ EvalSelect(d) \/ Leave(d)
      BY <1>3, <3>2, ZenonT(60) DEF TypeOK, Finished, Miss, Ask, EvalSelect, Leave
    <3>3. CASE Receive(d) \/ ReceiveClosed(d)
      BY <1>3, <3>3 DEF TypeOK, Finished, Receive, ReceiveClosed
    <3>4. CASE Timeout(d)
      BY <1>2, <1>3, <3>4 DEF TypeOK, Finished, Timeout
    <3> QED
      BY <2>3, <3>1, <3>2, <3>3, <3>4
  <2>4. CASE UNCHANGED pc
    BY <1>3, <2>4 DEF Finished
  <2> QED
    BY <2>1, <2>2, <2>3, <2>4
    DEF Next, Check, Dispatch, Reset, Server, SendWhois, Answer, Identify, Quit,
        TakeLine, HandleQuit, Lock, HandleVouch, HandleEnd, Panic, InviteDone,
        Drop, ResetCache, CloseChannels, ClosePanics, ResetTable, Reconnect, vars
<1> QED
  BY <1>2, <1>3

LEMMA CalmInit == Init => CalmKept /\ AskedInv
<1> SUFFICES ASSUME Init PROVE CalmInv /\ AskedInv
  BY DEF CalmKept
<1>1. inq = <<>> /\ loop = Idle /\ Len(inq) = 0
  BY DEF Init
<1>2. \A n : ~InFlight(n)
  BY <1>1 DEF InFlight, Idle
<1>3. \A c \in Checkers : ~Waits(c)
  BY DEF Init, Waits
<1>4. EndsLast
  BY <1>1 DEF EndsLast
<1>5. AskedInv
  BY DEF Init, AskedInv, Untouched, Asked, Idle
<1> QED
  BY <1>1, <1>2, <1>3, <1>4, <1>5 DEF Init, CalmInv, Quiet, Idle

\* While nothing unusual happens the loop never waits where nobody receives.
LEMMA CalmIsFree == ASSUME TypeOK, CalmKept PROVE CalmNeverWedges
<1> SUFFICES ASSUME CalmInv PROVE ~Wedged /\ link # "dead"
  BY DEF CalmKept, CalmNeverWedges
<1>1. link # "dead" /\ ~(mutex /\ loop.stage # "act")
  BY DEF CalmInv
<1>2. ASSUME loop.stage = "act"
      PROVE  loop.ch # NoChan /\ HasReader(loop.ch)
  <2>1. PICK c \in Checkers : /\ NickOf[c] = loop.line.nick /\ Waits(c) /\ Alone(c)
                              /\ pc[c] # "exit"
    BY <1>2, HandledFor
  <2>2. loop.ch = c
    BY <1>2, <2>1 DEF CalmInv, Alone
  <2> QED
    BY <2>1, <2>2 DEF HasReader, Waits, Alone
<1> QED
  BY <1>1, <1>2 DEF Wedged

\* No send or close of isIdentified meets a wrong channel as long as nothing
\* unusual happens to a check: CalmNeverWedges.
THEOREM CalmNeverStuck == Spec => []CalmNeverWedges
<1>1. TypeOK /\ AskedInv /\ CalmKept /\ [Next]_vars => AskedInv' /\ CalmKept'
  BY AskedStep, CalmStep
<1>2. TypeOK /\ CalmKept => CalmNeverWedges
  BY CalmIsFree
<1> QED
  BY <1>1, <1>2, CalmInit, TypeCorrect, PTL DEF Spec

\* Under the same conditions a check returns the answer to its own request:
\* CalmAnswers.
THEOREM CalmAnswered == Spec => []CalmAnswers
<1>1. Init => CalmTold /\ CalmAnswers
  BY DEF Init, CalmTold, CalmAnswers, Finished
<1>2. TypeOK /\ AskedInv /\ CalmKept /\ CalmTold /\ CalmAnswers /\ [Next]_vars
      => AskedInv' /\ CalmKept' /\ CalmTold' /\ CalmAnswers'
  BY AskedStep, CalmStep, CalmToldStep, CalmAnswersStep
<1> QED
  BY <1>1, <1>2, CalmInit, TypeCorrect, PTL DEF Spec

=============================================================================
