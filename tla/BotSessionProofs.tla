-------------------------- MODULE BotSessionProofs --------------------------
(***************************************************************************)
(* Safety of BotSession for any capacity of the channels, any number of    *)
(* connections and any number of goroutines that reconnect.                *)
(*                                                                         *)
(* Phase says which goroutines may be running in each state of conn.mu,    *)
(* and Callings who is inside Connect; both are needed because a step of   *)
(* shutdown is safe only for what the goroutines it waited for have done,  *)
(* and because the bot is brought back only if the caller whose dial fails *)
(* is one that tries again, never main's own first ConnectTo.              *)
(*                                                                         *)
(* The second part is about NickRecovery, for any names, any services and  *)
(* any number of connections and events.  The lines on their way Lead from *)
(* the name the client believes to the one it has at the server.           *)
(***************************************************************************)
EXTENDS BotSession, NickRecovery, TLAPS

Resting ==
  /\ sender = "off" /\ receiver = "off" /\ looper = "off" /\ pinger = "off"
  /\ ~die

Serving ==
  /\ sender \in {"select", "write", "shutdown"}
  /\ receiver \in {"read", "push", "shutdown"}
  /\ ~die

\* What the connection is doing, by who holds conn.mu.
Phase ==
  /\ mu = "free" => IF connected THEN Serving ELSE Resting
  /\ mu = "dial" => ~connected /\ Resting
  /\ mu = "register" => connected /\ Serving
  /\ mu = "shutdown" => ~connected /\ "wait" \in {sender, receiver}
  /\ mu = "disconnected" =>
       /\ ~connected /\ ~die
       /\ sender = "off" /\ looper = "off" /\ pinger = "off" /\ receiver = "wait"

\* Who is inside Connect, and whose goroutine has been started.
Callings ==
  /\ \A i \in Callers : caller[i] = "inside" <=> mu \in {"dial", "register"} /\ i = holder
  /\ \A i \in Callers : i > reported => caller[i] = "none"
  /\ conns > 0 => caller[0] = "none" \/ (mu = "register" /\ holder = 0)

\* What the flag stands for.
Flag ==
  /\ quitting <=> main \in {"quit", "save", "await", "exited"}
  /\ handler = "quit" => quitting

ConnInv == ConnTypeOK /\ Phase /\ LossesReported
SessionInv == Callings /\ Flag /\ SomeoneReconnects

SessionTypeOK ==
  /\ caller \in [Callers -> {"none", "test", "lock", "inside"}]
  /\ holder \in Callers
  /\ main \in {"connecting", "running", "quit", "save", "await", "exited"}
  /\ quitting \in BOOLEAN
  /\ handler \in {"none", "quit", "reset", "save"}
  /\ jammed \in BOOLEAN /\ forsaken \in BOOLEAN

IInv == ConnInv /\ SessionTypeOK /\ SessionInv

-----------------------------------------------------------------------------
(* Every step of the connection.                                           *)

ConnNext ==
  \/ Say \/ ConnectRefused \/ ConnectBegin \/ DialFails
  \/ Dial \/ Register \/ Registered \/ SendTake
  \/ SendWrites \/ SendFails \/ SendDies \/ RecvLine
  \/ RecvPush \/ RecvFails \/ LoopTake \/ LoopReply
  \/ LoopDies \/ PingTick \/ PingPush \/ PingDies
  \/ ShutdownBegin \/ ShutdownWaited \/ ShutdownEnds \/ Lose
  \/ ServerCloses

\* What a step that queues a line (Raw) leaves in conn.out.
LEMMA QueueKeepsOut ==
  ASSUME ConnTypeOK, NEW line \in {Line, QUIT}, Queue(line)
  PROVE  /\ out' \in Seq({Line, QUIT}) /\ Len(out') <= OutCap
         /\ calm' \in BOOLEAN
<1> USE ConnectionConstants
<1>1. out' \in Seq({Line, QUIT}) /\ Len(out') = Len(out) + 1
  BY DEF Queue, ConnTypeOK
<1>2. Len(out) < OutCap /\ Len(out) \in Nat
  BY DEF Queue, Room, ConnTypeOK
<1>3. Len(out') <= OutCap
  BY <1>1, <1>2
<1>4. calm' \in BOOLEAN
  BY DEF Queue, ConnTypeOK
<1> QED
  BY <1>1, <1>3, <1>4

LEMMA ConnStep ==
  ASSUME ConnInv, ConnNext
  PROVE  ConnInv'
<1> USE ConnectionConstants
<1> USE DEF ConnInv, goroutines, connVars
<1>0. Line \in {Line, QUIT}
  OBVIOUS
<1>1. CASE Say
  <2>1. /\ Queue(Line) /\ out' \in Seq({Line, QUIT}) /\ Len(out') <= OutCap
        /\ calm' \in BOOLEAN
    BY <1>0, <1>1, QueueKeepsOut DEF Say
  <2>a. ConnTypeOK'
    BY <1>1, <2>1 DEF Say, ConnTypeOK, Phase, LossesReported
  <2>b. Phase'
    BY <1>1, <2>1 DEF Say, ConnTypeOK, Phase, Serving, Resting, AllDone
  <2>c. LossesReported'
    BY <1>1, <2>1 DEF Say, ConnTypeOK, Phase, LossesReported
  <2> QED
    BY <2>a, <2>b, <2>c
<1>2. CASE ConnectRefused
  <2>a. ConnTypeOK'
    BY <1>2 DEF ConnectRefused, ConnTypeOK, Phase, LossesReported
  <2>b. Phase'
    BY <1>2 DEF ConnectRefused, ConnTypeOK, Phase, Serving, Resting, AllDone
  <2>c. LossesReported'
    BY <1>2 DEF ConnectRefused, ConnTypeOK, Phase, LossesReported
  <2> QED
    BY <2>a, <2>b, <2>c
<1>3. CASE ConnectBegin
  <2>a. ConnTypeOK'
    BY <1>3 DEF ConnectBegin, ConnTypeOK, Phase, LossesReported
  <2>b. Phase'
    BY <1>3 DEF ConnectBegin, ConnTypeOK, Phase, Serving, Resting, AllDone
  <2>c. LossesReported'
    BY <1>3 DEF ConnectBegin, ConnTypeOK, Phase, LossesReported
  <2> QED
    BY <2>a, <2>b, <2>c
<1>4. CASE DialFails
  <2>a. ConnTypeOK'
    BY <1>4 DEF DialFails, ConnTypeOK, Phase, LossesReported
  <2>b. Phase'
    BY <1>4 DEF DialFails, ConnTypeOK, Phase, Serving, Resting, AllDone
  <2>c. LossesReported'
    BY <1>4 DEF DialFails, ConnTypeOK, Phase, LossesReported
  <2> QED
    BY <2>a, <2>b, <2>c
<1>5. CASE Dial
  <2>a. ConnTypeOK'
    BY <1>5 DEF Dial, ConnTypeOK, Phase, LossesReported
  <2>b. Phase'
    BY <1>5 DEF Dial, ConnTypeOK, Phase, Serving, Resting, AllDone
  <2>c. LossesReported'
    BY <1>5 DEF Dial, ConnTypeOK, Phase, LossesReported
  <2> QED
    BY <2>a, <2>b, <2>c
<1>6. CASE Register
  <2>1. /\ Queue(Line) /\ out' \in Seq({Line, QUIT}) /\ Len(out') <= OutCap
        /\ calm' \in BOOLEAN
    BY <1>0, <1>6, QueueKeepsOut DEF Register
  <2>a. ConnTypeOK'
    BY <1>6, <2>1 DEF Register, ConnTypeOK, Phase, LossesReported
  <2>b. Phase'
    BY <1>6, <2>1 DEF Register, ConnTypeOK, Phase, Serving, Resting, AllDone
  <2>c. LossesReported'
    BY <1>6, <2>1 DEF Register, ConnTypeOK, Phase, LossesReported
  <2> QED
    BY <2>a, <2>b, <2>c
<1>7. CASE Registered
  <2>a. ConnTypeOK'
    BY <1>7 DEF Registered, ConnTypeOK, Phase, LossesReported
  <2>b. Phase'
    BY <1>7 DEF Registered, ConnTypeOK, Phase, Serving, Resting, AllDone
  <2>c. LossesReported'
    BY <1>7 DEF Registered, ConnTypeOK, Phase, LossesReported
  <2> QED
    BY <2>a, <2>b, <2>c
<1>8. CASE SendTake
  <2>1. /\ Head(out) \in {Line, QUIT} /\ Tail(out) \in Seq({Line, QUIT})
        /\ Len(Tail(out)) <= OutCap
    BY <1>8 DEF SendTake, ConnTypeOK
  <2>a. ConnTypeOK'
    BY <1>8, <2>1 DEF SendTake, ConnTypeOK, Phase, LossesReported
  <2>b. Phase'
    BY <1>8, <2>1 DEF SendTake, ConnTypeOK, Phase, Serving, Resting, AllDone
  <2>c. LossesReported'
    BY <1>8, <2>1 DEF SendTake, ConnTypeOK, Phase, LossesReported
  <2> QED
    BY <2>a, <2>b, <2>c
<1>9. CASE SendWrites
  <2>a. ConnTypeOK'
    BY <1>9 DEF SendWrites, ConnTypeOK, Phase, LossesReported
  <2>b. Phase'
    BY <1>9 DEF SendWrites, ConnTypeOK, Phase, Serving, Resting, AllDone
  <2>c. LossesReported'
    BY <1>9 DEF SendWrites, ConnTypeOK, Phase, LossesReported
  <2> QED
    BY <2>a, <2>b, <2>c
<1>10. CASE SendFails
  <2>a. ConnTypeOK'
    BY <1>10 DEF SendFails, ConnTypeOK, Phase, LossesReported
  <2>b. Phase'
    BY <1>10 DEF SendFails, ConnTypeOK, Phase, Serving, Resting, AllDone
  <2>c. LossesReported'
    BY <1>10 DEF SendFails, ConnTypeOK, Phase, LossesReported
  <2> QED
    BY <2>a, <2>b, <2>c
<1>11. CASE SendDies
  <2>a. ConnTypeOK'
    BY <1>11 DEF SendDies, ConnTypeOK, Phase, LossesReported
  <2>b. Phase'
    BY <1>11 DEF SendDies, ConnTypeOK, Phase, Serving, Resting, AllDone
  <2>c. LossesReported'
    BY <1>11 DEF SendDies, ConnTypeOK, Phase, LossesReported
  <2> QED
    BY <2>a, <2>b, <2>c
<1>12. CASE RecvLine
  <2>a. ConnTypeOK'
    BY <1>12 DEF RecvLine, ConnTypeOK, Phase, LossesReported
  <2>b. Phase'
    BY <1>12 DEF RecvLine, ConnTypeOK, Phase, Serving, Resting, AllDone
  <2>c. LossesReported'
    BY <1>12 DEF RecvLine, ConnTypeOK, Phase, LossesReported
  <2> QED
    BY <2>a, <2>b, <2>c
<1>13. CASE RecvPush
  <2>a. ConnTypeOK'
    BY <1>13 DEF RecvPush, ConnTypeOK, Phase, LossesReported
  <2>b. Phase'
    BY <1>13 DEF RecvPush, ConnTypeOK, Phase, Serving, Resting, AllDone
  <2>c. LossesReported'
    BY <1>13 DEF RecvPush, ConnTypeOK, Phase, LossesReported
  <2> QED
    BY <2>a, <2>b, <2>c
<1>14. CASE RecvFails
  <2>a. ConnTypeOK'
    BY <1>14 DEF RecvFails, ConnTypeOK, Phase, LossesReported
  <2>b. Phase'
    BY <1>14 DEF RecvFails, ConnTypeOK, Phase, Serving, Resting, AllDone
  <2>c. LossesReported'
    BY <1>14 DEF RecvFails, ConnTypeOK, Phase, LossesReported
  <2> QED
    BY <2>a, <2>b, <2>c
<1>15. CASE LoopTake
  <2>a. ConnTypeOK'
    BY <1>15 DEF LoopTake, ConnTypeOK, Phase, LossesReported
  <2>b. Phase'
    BY <1>15 DEF LoopTake, ConnTypeOK, Phase, Serving, Resting, AllDone
  <2>c. LossesReported'
    BY <1>15 DEF LoopTake, ConnTypeOK, Phase, LossesReported
  <2> QED
    BY <2>a, <2>b, <2>c
<1>16. CASE LoopReply
  <2>1. /\ Queue(Line) /\ out' \in Seq({Line, QUIT}) /\ Len(out') <= OutCap
        /\ calm' \in BOOLEAN
    BY <1>0, <1>16, QueueKeepsOut DEF LoopReply
  <2>a. ConnTypeOK'
    BY <1>16, <2>1 DEF LoopReply, ConnTypeOK, Phase, LossesReported
  <2>b. Phase'
    BY <1>16, <2>1 DEF LoopReply, ConnTypeOK, Phase, Serving, Resting, AllDone
  <2>c. LossesReported'
    BY <1>16, <2>1 DEF LoopReply, ConnTypeOK, Phase, LossesReported
  <2> QED
    BY <2>a, <2>b, <2>c
<1>17. CASE LoopDies
  <2>a. ConnTypeOK'
    BY <1>17 DEF LoopDies, ConnTypeOK, Phase, LossesReported
  <2>b. Phase'
    BY <1>17 DEF LoopDies, ConnTypeOK, Phase, Serving, Resting, AllDone
  <2>c. LossesReported'
    BY <1>17 DEF LoopDies, ConnTypeOK, Phase, LossesReported
  <2> QED
    BY <2>a, <2>b, <2>c
<1>18. CASE PingTick
  <2>a. ConnTypeOK'
    BY <1>18 DEF PingTick, ConnTypeOK, Phase, LossesReported
  <2>b. Phase'
    BY <1>18 DEF PingTick, ConnTypeOK, Phase, Serving, Resting, AllDone
  <2>c. LossesReported'
    BY <1>18 DEF PingTick, ConnTypeOK, Phase, LossesReported
  <2> QED
    BY <2>a, <2>b, <2>c
<1>19. CASE PingPush
  <2>1. /\ Queue(Line) /\ out' \in Seq({Line, QUIT}) /\ Len(out') <= OutCap
        /\ calm' \in BOOLEAN
    BY <1>0, <1>19, QueueKeepsOut DEF PingPush
  <2>a. ConnTypeOK'
    BY <1>19, <2>1 DEF PingPush, ConnTypeOK, Phase, LossesReported
  <2>b. Phase'
    BY <1>19, <2>1 DEF PingPush, ConnTypeOK, Phase, Serving, Resting, AllDone
  <2>c. LossesReported'
    BY <1>19, <2>1 DEF PingPush, ConnTypeOK, Phase, LossesReported
  <2> QED
    BY <2>a, <2>b, <2>c
<1>20. CASE PingDies
  <2>a. ConnTypeOK'
    BY <1>20 DEF PingDies, ConnTypeOK, Phase, LossesReported
  <2>b. Phase'
    BY <1>20 DEF PingDies, ConnTypeOK, Phase, Serving, Resting, AllDone
  <2>c. LossesReported'
    BY <1>20 DEF PingDies, ConnTypeOK, Phase, LossesReported
  <2> QED
    BY <2>a, <2>b, <2>c
<1>21. CASE ShutdownBegin
  <2>a. ConnTypeOK'
    BY <1>21 DEF ShutdownBegin, ConnTypeOK, Phase, LossesReported
  <2>b. Phase'
    BY <1>21 DEF ShutdownBegin, ConnTypeOK, Phase, Serving, Resting, AllDone
  <2>c. LossesReported'
    BY <1>21 DEF ShutdownBegin, ConnTypeOK, Phase, LossesReported
  <2> QED
    BY <2>a, <2>b, <2>c
<1>22. CASE ShutdownWaited
  <2>a. ConnTypeOK'
    BY <1>22 DEF ShutdownWaited, ConnTypeOK, Phase, LossesReported
  <2>b. Phase'
    BY <1>22 DEF ShutdownWaited, ConnTypeOK, Phase, Serving, Resting, AllDone
  <2>c. LossesReported'
    BY <1>22 DEF ShutdownWaited, ConnTypeOK, Phase, LossesReported
  <2> QED
    BY <2>a, <2>b, <2>c
<1>23. CASE ShutdownEnds
  <2>a. ConnTypeOK'
    BY <1>23 DEF ShutdownEnds, ConnTypeOK, Phase, LossesReported
  <2>b. Phase'
    BY <1>23 DEF ShutdownEnds, ConnTypeOK, Phase, Serving, Resting, AllDone
  <2>c. LossesReported'
    BY <1>23 DEF ShutdownEnds, ConnTypeOK, Phase, LossesReported
  <2> QED
    BY <2>a, <2>b, <2>c
<1>24. CASE Lose
  <2>a. ConnTypeOK'
    BY <1>24 DEF Lose, ConnTypeOK, Phase, LossesReported
  <2>b. Phase'
    BY <1>24 DEF Lose, ConnTypeOK, Phase, Serving, Resting, AllDone
  <2>c. LossesReported'
    BY <1>24 DEF Lose, ConnTypeOK, Phase, LossesReported
  <2> QED
    BY <2>a, <2>b, <2>c
<1>25. CASE ServerCloses
  <2>a. ConnTypeOK'
    BY <1>25 DEF ServerCloses, ConnTypeOK, Phase, LossesReported
  <2>b. Phase'
    BY <1>25 DEF ServerCloses, ConnTypeOK, Phase, Serving, Resting, AllDone
  <2>c. LossesReported'
    BY <1>25 DEF ServerCloses, ConnTypeOK, Phase, LossesReported
  <2> QED
    BY <2>a, <2>b, <2>c
<1> QED
  BY <1>1, <1>2, <1>3, <1>4, <1>5, <1>6, <1>7, <1>8, <1>9, <1>10, <1>11, <1>12, <1>13,
    <1>14, <1>15, <1>16, <1>17, <1>18, <1>19, <1>20, <1>21, <1>22, <1>23, <1>24, <1>25
    DEF ConnNext

-----------------------------------------------------------------------------
(* Every step of the session is one of the connection, or leaves it alone. *)

LEMMA InitInv == Init => IInv
<1> USE ConnectionConstants
<1> SUFFICES ASSUME Init PROVE IInv
  OBVIOUS
<1>0. 0 \in 0..RegisterLines /\ 0 \in 0..InCap /\ 0 \in 0..MaxConns
  OBVIOUS
<1>1. ConnInv
  <2>1. out \in Seq({Line, QUIT}) /\ Len(out) <= OutCap
    BY DEF Init, ConnInit
  <2>2. ConnTypeOK
    BY <1>0, <2>1 DEF Init, ConnInit, ConnTypeOK
  <2>3. Phase /\ LossesReported
    BY DEF Init, ConnInit, Phase, Resting, LossesReported
  <2> QED
    BY <2>2, <2>3 DEF ConnInv
<1>2. SessionTypeOK
  <2>1. 0 \in Callers
    BY <1>0 DEF Callers
  <2>2. caller \in [Callers -> {"none", "test", "lock", "inside"}]
    BY DEF Init
  <2> QED
    BY <2>1, <2>2 DEF Init, SessionTypeOK
<1>3. SessionInv
  BY DEF Init, ConnInit, SessionInv, Callings, Flag, SomeoneReconnects, Callers
<1> QED
  BY <1>1, <1>2, <1>3 DEF IInv

LEMMA ConnStutter == ASSUME ConnInv, UNCHANGED connVars PROVE ConnInv'
  BY DEF ConnInv, ConnTypeOK, Phase, Serving, Resting, LossesReported, connVars, goroutines

\* A step of the library changes neither who is calling nor the flag; it takes
\* the mutex from nobody, and frees it for nobody, but the caller it serves.
LEMMA LibraryStep ==
  ASSUME IInv, Conn
  PROVE  IInv'
<1> USE ConnectionConstants
<1> USE DEF goroutines, connVars, sessVars, cacheVars
<1>1. ConnNext /\ UNCHANGED sessVars
  BY DEF Conn, Library, ConnNext
<1>2. ConnInv'
  BY <1>1, ConnStep DEF IInv
<1>3. SessionTypeOK' /\ Flag'
  BY <1>1 DEF IInv, SessionInv, SessionTypeOK, Flag
<1>4. CASE Dial
  <2>1. /\ conns' = conns + 1 /\ mu = "dial" /\ mu' = "register" /\ connected'
        /\ reported' = reported
    BY <1>4 DEF Dial
  <2>2. holder \in Callers /\ caller[holder] = "inside"
    BY <1>1, <2>1 DEF IInv, SessionInv, Callings, SessionTypeOK
  <2>3. \A i \in Callers : i > reported => caller[i] = "none"
    BY DEF IInv, SessionInv, Callings
  <2>4. caller[0] = "none" \/ holder = 0
    <3>1. CASE conns > 0
      BY <3>1, <2>1 DEF IInv, SessionInv, Callings
    <3>2. CASE conns = 0
      <4>1. reported = 0
        BY <3>2, <2>1 DEF IInv, ConnInv, ConnTypeOK, LossesReported
      <4>2. holder = 0
        BY <4>1, <2>2, <2>3 DEF Callers
      <4> QED
        BY <4>2
    <3> QED
      BY <3>1, <3>2 DEF IInv, ConnInv, ConnTypeOK
  <2>5. Callings'
    BY <1>1, <2>1, <2>4 DEF IInv, SessionInv, Callings
  <2>6. SomeoneReconnects'
    BY <2>1 DEF SomeoneReconnects
  <2> QED
    BY <1>2, <1>3, <2>5, <2>6 DEF IInv, SessionInv
<1>5. CASE ShutdownBegin \/ ShutdownWaited
  <2>1. /\ ~(mu \in {"dial", "register"}) /\ ~(mu' \in {"dial", "register", "free"})
        /\ conns' = conns /\ reported' \in {reported, reported + 1}
    BY <1>5 DEF ShutdownBegin, ShutdownWaited
  <2>2. Callings'
    BY <1>1, <2>1 DEF IInv, ConnInv, ConnTypeOK, SessionInv, Callings, Callers
  <2>3. SomeoneReconnects'
    BY <2>1 DEF SomeoneReconnects
  <2> QED
    BY <1>2, <1>3, <2>2, <2>3 DEF IInv, SessionInv
<1>6. CASE ~(Dial \/ ShutdownBegin \/ ShutdownWaited)
  <2>1. UNCHANGED <<mu, connected, conns, reported>>
    BY <1>6 DEF Conn, Library, Say, Register, SendTake, SendWrites, SendFails, SendDies,
      RecvLine, RecvPush, RecvFails, LoopTake, LoopReply, LoopDies, PingTick, PingPush,
      PingDies, Lose, ServerCloses
  <2> QED
    BY <1>1, <1>2, <1>3, <2>1 DEF IInv, SessionInv, Callings, SomeoneReconnects
<1> QED
  BY <1>4, <1>5, <1>6

LEMMA ReconnectStep ==
  ASSUME IInv, NEW i \in Callers, Reconnect(i)
  PROVE  IInv'
<1> USE ConnectionConstants
<1> USE DEF goroutines, connVars, cacheVars
<1>1. ConnInv'
  <2>1. ConnNext \/ UNCHANGED connVars
    BY DEF Reconnect, Refused, Enter, Fail, Succeed, Test, ConnNext
  <2> QED
    BY <2>1, ConnStep, ConnStutter DEF IInv
<1>2. Flag'
  BY DEF IInv, SessionInv, Flag, Reconnect, Refused, Enter, Fail, Succeed, Test
<1>3. SessionTypeOK'
  <2>1. 0 \in Callers
    BY DEF Callers
  <2>2. /\ AfterError(i) \in {"none", "test"} /\ AfterSuccess(i) \in {"none", "test"}
        /\ (IF connected THEN "none" ELSE "lock") \in {"none", "lock"}
    BY DEF AfterError, AfterSuccess
  <2>3. \E c \in {"none", "test", "lock", "inside"} : caller' = [caller EXCEPT ![i] = c]
    BY <2>2 DEF Reconnect, Refused, Enter, Fail, Succeed, Test
  <2>4. holder' \in {0, i, holder} /\ UNCHANGED <<main, quitting, handler, jammed, forsaken>>
    BY DEF Reconnect, Refused, Enter, Fail, Succeed, Test
  <2> QED
    BY <2>1, <2>3, <2>4 DEF IInv, SessionTypeOK
<1>4. UNCHANGED <<connected, conns, reported, quitting, forsaken>>
  BY DEF Reconnect, Refused, Enter, Fail, Succeed, Test, ConnectRefused,
    ConnectBegin, DialFails, Registered
<1>5. i <= reported /\ i \in Nat /\ reported \in Nat
  <2>1. caller[i] # "none"
    BY DEF Reconnect, Refused, Enter, Fail, Succeed, Test
  <2> QED
    BY <2>1 DEF IInv, ConnInv, ConnTypeOK, SessionInv, Callings, Callers
<1>6. CASE Refused(i)
  <2>1. mu = "free" /\ mu' = mu /\ connected
    BY <1>6 DEF Refused, ConnectRefused
  <2>2. /\ caller' = [caller EXCEPT ![i] = AfterError(i)] /\ UNCHANGED holder
        /\ AfterError(i) \in {"none", "test"}
    BY <1>6 DEF Refused, AfterError
  <2>3. Callings'
    BY <1>4, <1>5, <1>6, <2>1, <2>2 DEF IInv, SessionInv, Callings, SessionTypeOK, AfterError
  <2>4. SomeoneReconnects'
    BY <1>4, <2>1 DEF SomeoneReconnects
  <2> QED
    BY <1>1, <1>2, <1>3, <2>3, <2>4 DEF IInv, SessionInv
<1>7. CASE Enter(i)
  <2>1. /\ mu = "free" /\ mu' = "dial" /\ holder' = i /\ caller[i] = "lock"
        /\ caller' = [caller EXCEPT ![i] = "inside"]
    BY <1>7 DEF Enter, ConnectBegin
  <2>2. Callings'
    BY <1>4, <1>5, <2>1 DEF IInv, SessionInv, Callings, SessionTypeOK
  <2>3. SomeoneReconnects'
    BY <2>1 DEF IInv, SessionTypeOK, SomeoneReconnects
  <2> QED
    BY <1>1, <1>2, <1>3, <2>2, <2>3 DEF IInv, SessionInv
<1>8. CASE Fail(i)
  <2>1. /\ mu = "dial" /\ mu' = "free" /\ holder' = 0 /\ caller[i] = "inside"
        /\ caller' = [caller EXCEPT ![i] = AfterError(i)]
        /\ AfterError(i) \in {"none", "test"}
    BY <1>8 DEF Fail, DialFails, AfterError
  <2>2. i = holder
    BY <2>1 DEF IInv, SessionInv, Callings
  <2>3. Callings'
    BY <1>4, <1>5, <2>1, <2>2 DEF IInv, SessionInv, Callings, SessionTypeOK, AfterError
  <2>4. conns > 0 => i # 0
    BY <2>1 DEF IInv, SessionInv, Callings
  <2>5. SomeoneReconnects'
    BY <1>4, <2>1, <2>4 DEF IInv, SessionTypeOK, SomeoneReconnects, AfterError
  <2> QED
    BY <1>1, <1>2, <1>3, <2>3, <2>5 DEF IInv, SessionInv
<1>9. CASE Succeed(i)
  <2>1. /\ mu = "register" /\ mu' = "free" /\ holder' = 0
        /\ caller[i] = "inside" /\ caller' = [caller EXCEPT ![i] = AfterSuccess(i)]
    BY <1>9 DEF Succeed, Registered
  <2>2. i = holder
    BY <2>1 DEF IInv, SessionInv, Callings
  <2>3. connected
    BY <2>1 DEF IInv, ConnInv, Phase
  <2>4. Callings'
    BY <1>4, <1>5, <2>1, <2>2 DEF IInv, SessionInv, Callings, SessionTypeOK, AfterSuccess
  <2>5. SomeoneReconnects'
    BY <1>4, <2>3 DEF SomeoneReconnects
  <2> QED
    BY <1>1, <1>2, <1>3, <2>4, <2>5 DEF IInv, SessionInv
<1>10. CASE Test(i)
  <2>1. UNCHANGED <<mu, holder>> /\ mu = "free" /\ caller[i] = "test"
    BY <1>10 DEF Test
  <2>2. caller' = [caller EXCEPT ![i] = IF connected THEN "none" ELSE "lock"]
    BY <1>10 DEF Test
  <2>3. CASE connected
    <3>1. caller' = [caller EXCEPT ![i] = "none"]
      BY <2>2, <2>3
    <3>2. Callings'
      BY <1>4, <1>5, <2>1, <3>1 DEF IInv, SessionInv, Callings, SessionTypeOK
    <3>3. SomeoneReconnects'
      BY <1>4, <2>3 DEF SomeoneReconnects
    <3> QED
      BY <1>1, <1>2, <1>3, <3>2, <3>3 DEF IInv, SessionInv
  <2>4. CASE ~connected
    <3>1. caller' = [caller EXCEPT ![i] = "lock"]
      BY <2>2, <2>4
    <3>2. Callings'
      BY <1>4, <1>5, <2>1, <3>1 DEF IInv, SessionInv, Callings, SessionTypeOK
    <3>3. SomeoneReconnects'
      BY <3>1 DEF IInv, SessionTypeOK, SomeoneReconnects
    <3> QED
      BY <1>1, <1>2, <1>3, <3>2, <3>3 DEF IInv, SessionInv
  <2> QED
    BY <2>3, <2>4
<1> QED
  BY <1>6, <1>7, <1>8, <1>9, <1>10 DEF Reconnect

LEMMA HandlerStep ==
  ASSUME IInv, Handler
  PROVE  IInv'
<1> USE ConnectionConstants
<1> USE DEF goroutines, connVars, cacheVars
<1>1. ConnInv'
  <2>1. ConnNext \/ UNCHANGED connVars
    BY DEF Handler, HandlerReads, HandlerResets, HandlerPanics, HandlerReconnects,
      HandlerQuits, ConnNext
  <2> QED
    BY <2>1, ConnStep, ConnStutter DEF IInv
<1>2. CASE HandlerReads
  <2>1. SessionTypeOK' /\ Flag'
    BY <1>2 DEF HandlerReads, IInv, SessionInv, SessionTypeOK, Flag
  <2>2. Callings' /\ SomeoneReconnects'
    BY <1>2 DEF HandlerReads, IInv, SessionInv, Callings, SomeoneReconnects
  <2> QED
    BY <1>1, <2>1, <2>2 DEF IInv, SessionInv
<1>3. CASE HandlerResets
  <2>1. SessionTypeOK' /\ Flag'
    BY <1>3 DEF HandlerResets, IInv, SessionInv, SessionTypeOK, Flag
  <2>2. Callings' /\ SomeoneReconnects'
    BY <1>3 DEF HandlerResets, IInv, SessionInv, Callings, SomeoneReconnects
  <2> QED
    BY <1>1, <2>1, <2>2 DEF IInv, SessionInv
<1>4. CASE HandlerPanics
  <2>1. /\ mu = "disconnected" /\ mu' = "free" /\ handler' = "none" /\ forsaken' = TRUE
        /\ UNCHANGED <<connected, conns, reported, caller, holder, main, quitting, jammed>>
    BY <1>4 DEF HandlerPanics, ShutdownEnds
  <2>2. SessionTypeOK' /\ Flag'
    BY <2>1 DEF IInv, SessionInv, SessionTypeOK, Flag
  <2>3. Callings'
    BY <2>1 DEF IInv, SessionInv, Callings
  <2>4. SomeoneReconnects'
    BY <2>1 DEF SomeoneReconnects
  <2> QED
    BY <1>1, <2>2, <2>3, <2>4 DEF IInv, SessionInv
<1>5. CASE HandlerReconnects
  <2>1. /\ mu = "disconnected" /\ mu' = "free"
        /\ caller' = [caller EXCEPT ![reported] = "test"] /\ handler' = "none"
        /\ UNCHANGED <<connected, conns, reported, holder, main, quitting, jammed, forsaken>>
    BY <1>5 DEF HandlerReconnects, ShutdownEnds
  <2>2. conns = reported
    BY <2>1 DEF IInv, ConnInv, Phase, LossesReported, ConnTypeOK
  <2>3. reported \in Callers
    BY DEF IInv, ConnInv, ConnTypeOK, Callers
  <2>4. SessionTypeOK' /\ Flag'
    BY <2>1 DEF IInv, SessionInv, SessionTypeOK, Flag
  <2>5. Callings'
    BY <2>1, <2>2, <2>3 DEF IInv, SessionInv, Callings, SessionTypeOK, Callers
  <2>6. SomeoneReconnects'
    BY <2>1, <2>3 DEF IInv, SessionTypeOK, SomeoneReconnects
  <2> QED
    BY <1>1, <2>4, <2>5, <2>6 DEF IInv, SessionInv
<1>6. CASE HandlerQuits
  <2>1. /\ /\ mu = "disconnected" /\ mu' = "free" /\ main = "await"
        /\ main' = "exited" /\ handler' = "none"
        /\ UNCHANGED <<connected, conns, reported, caller, holder, quitting, jammed, forsaken>>
    BY <1>6 DEF HandlerQuits, ShutdownEnds
  <2>2. quitting /\ quitting'
    BY <2>1 DEF IInv, SessionInv, Flag
  <2>3. SessionTypeOK' /\ Flag'
    BY <2>1, <2>2 DEF IInv, SessionInv, SessionTypeOK, Flag
  <2>4. Callings' /\ SomeoneReconnects'
    BY <2>1, <2>2 DEF IInv, SessionInv, Callings, SomeoneReconnects
  <2> QED
    BY <1>1, <2>3, <2>4 DEF IInv, SessionInv
<1> QED
  BY <1>2, <1>3, <1>4, <1>5, <1>6 DEF Handler

\* A step of main or the loss of the cache's lock.
LEMMA MainStep ==
  ASSUME IInv, Main \/ Jam
  PROVE  IInv'
<1> USE ConnectionConstants
<1> USE DEF goroutines, connVars, cacheVars, Main, MainGoes
<1>1. UNCHANGED <<connected, die, sock, mu, toRegister, goroutines, in, conns, reported,
                  caller, holder, handler, forsaken>>
  BY DEF MainWaits, Signal, MainQuits, MainSaves, Jam
<1>2. out' \in Seq({Line, QUIT}) /\ Len(out') <= OutCap /\ calm' \in BOOLEAN
  <2>1. CASE MainQuits
    BY <2>1, QueueKeepsOut DEF MainQuits, IInv, ConnInv
  <2>2. CASE MainWaits \/ Signal \/ MainSaves \/ Jam
    BY <2>2 DEF MainWaits, Signal, MainSaves, Jam, IInv, ConnInv, ConnTypeOK
  <2> QED
    BY <2>1, <2>2
<1>3. ConnInv'
  BY <1>1, <1>2 DEF IInv, ConnInv, ConnTypeOK, Phase, Serving, Resting, LossesReported
<1>4. SessionTypeOK' /\ Flag'
  <2>1. CASE MainWaits
    BY <1>1, <2>1 DEF MainWaits, IInv, SessionInv, SessionTypeOK, Flag
  <2>2. CASE Signal
    BY <1>1, <2>2 DEF Signal, IInv, SessionInv, SessionTypeOK, Flag
  <2>3. CASE MainQuits
    BY <1>1, <2>3 DEF MainQuits, IInv, SessionInv, SessionTypeOK, Flag
  <2>4. CASE MainSaves
    BY <1>1, <2>4 DEF MainSaves, IInv, SessionInv, SessionTypeOK, Flag
  <2>5. CASE Jam
    BY <1>1, <2>5 DEF Jam, IInv, SessionInv, SessionTypeOK, Flag
  <2> QED
    BY <2>1, <2>2, <2>3, <2>4, <2>5
<1>5. Callings'
  BY <1>1 DEF IInv, SessionInv, Callings
<1>6. SomeoneReconnects'
  BY <1>1 DEF MainWaits, Signal, MainQuits, MainSaves, Jam, IInv, SessionInv,
    SomeoneReconnects
<1> QED
  BY <1>3, <1>4, <1>5, <1>6 DEF IInv, SessionInv

LEMMA NextInv == IInv /\ [Next]_vars => IInv'
<1> SUFFICES ASSUME IInv, [Next]_vars PROVE IInv'
  OBVIOUS
<1>1. CASE Next
  BY <1>1, LibraryStep, HandlerStep, MainStep, ReconnectStep DEF Next
<1>2. CASE UNCHANGED vars
  <2>1. UNCHANGED connVars /\ UNCHANGED sessVars
    BY <1>2 DEF vars
  <2>2. ConnInv'
    BY <2>1, ConnStutter DEF IInv
  <2> QED
    BY <2>1, <2>2 DEF IInv, SessionTypeOK, SessionInv, Callings, Flag, SomeoneReconnects,
      sessVars, cacheVars, connVars
<1> QED
  BY <1>1, <1>2

\* The inductive invariant, in every reachable state.
THEOREM Inductive == Spec => []IInv
<1> QED
  BY InitInv, NextInv, PTL DEF Spec

-----------------------------------------------------------------------------
(* What follows from it.                                                   *)

\* Every variable keeps its type, and no channel of the connection ever holds
\* more than it can (Conn.in, Conn.out), whatever their capacities.
THEOREM TypeCorrect == Spec => []TypeOK
<1>1. IInv => TypeOK
  BY DEF IInv, ConnInv, SessionTypeOK, TypeOK
<1> QED
  BY Inductive, <1>1, PTL

\* A connection is dialled (connection.go:216) only when shutdown has stopped
\* every goroutine of the last one and a new control channel is in place.
THEOREM NothingLeftOver == Spec => []NoLeftovers
<1>1. IInv => NoLeftovers
  BY DEF IInv, ConnInv, Phase, Resting, NoLeftovers
<1> QED
  BY Inductive, <1>1, PTL

\* Each connection that is lost is reported once (connection.go:388-404),
\* though both recv and send may call shutdown for it.
THEOREM EachLossReported == Spec => []LossesReported
<1>1. IInv => LossesReported
  BY DEF IInv, ConnInv
<1> QED
  BY Inductive, <1>1, PTL

\* Nobody who waits for shutdown's mutex finds the connection shut down by
\* another, as its early return expects (connection.go:389-395): shutdown waits
\* with the mutex for send to end, and recv is the only other caller.  It is why
\* Connection has no action for that return.
LEMMA NoSecondShutdown ==
  Spec => [](mu = "free" /\ ~connected => "shutdown" \notin {sender, receiver})
<1>1. IInv => (mu = "free" /\ ~connected => "shutdown" \notin {sender, receiver})
  BY DEF IInv, ConnInv, Phase, Resting
<1> QED
  BY Inductive, <1>1, PTL

\* Once connected, and until a signal, the bot always has a goroutine on its way
\* to ConnectTo while it is disconnected (bot.go:475-501), if the reset in the
\* handler of the last loss returned (bot.go:480): whichever dial fails,
\* whichever goroutine's connection is lost again, and wherever their tests of
\* the connection fall.
THEOREM AlwaysSomeone == Spec => []SomeoneReconnects
<1>1. IInv => SomeoneReconnects
  BY DEF IInv, SessionInv
<1> QED
  BY Inductive, <1>1, PTL

-----------------------------------------------------------------------------
(* NickRecovery.                                                           *)

\* What a line of the server makes of the name a, when it is handled.
Calls(l, a, b) ==
  IF l.cmd = "NICK" /\ l.from = a THEN b = l.nick
  ELSE b = a /\ (l.cmd \in {"NICK", "433"} => l.nick # a)

\* The names that the lines on their way lead through, from the one the client
\* believes to the one it has.
Leading(w) ==
  /\ w \in [1..(Len(lines) + 1) -> Names]
  /\ w[1] = me /\ w[Len(lines) + 1] = mine
  /\ \A i \in 1..Len(lines) : Calls(lines[i], w[i], w[i + 1])

\* The client will have identified under its own name, if that lasts.
Proving(w) ==
  \/ known \/ \E i \in 1..Len(asked) : asked[i] = Identify
  \/ \E i \in 1..Len(lines) :
       /\ lines[i] = Welcome \/ (lines[i].cmd = "NICK" /\ lines[i].nick = BotNick)
       /\ w[i + 1] = BotNick

\* Before it is registered, the client asks for one name at a time.
OnlyUser(i) == asked[i] = UserCmd
Registering ==
  \/ /\ greeting = "NICK" /\ asked = <<>> /\ lines = <<>> /\ mine = Nobody
  \/ /\ greeting # "NICK" /\ lines = <<>> /\ mine = Nobody
     /\ \E i \in 1..Len(asked) : /\ asked[i] = NickCmd(me)
                                 /\ \A j \in 1..Len(asked) \ {i} : OnlyUser(j)
  \/ /\ greeting # "NICK" /\ lines = <<Refusal(me)>> /\ mine = Nobody
     /\ \A i \in 1..Len(asked) : OnlyUser(i)
  \/ /\ greeting # "NICK" /\ lines = <<>> /\ mine = me
     /\ \A i \in 1..Len(asked) : OnlyUser(i)

\* Until a name is refused, the only one that is asked for is the bot's.
Unbounced ==
  /\ greeting # "NICK"
  /\ ~bounced => /\ \A i \in 1..Len(asked) : asked[i].cmd = "NICK" => asked[i].nick = BotNick
                 /\ \A i \in 1..Len(lines) : lines[i].cmd # "433"

\* Who has a name, and who has none.
Apart ==
  /\ mine \notin others
  /\ link = "down" => greeting = "none" /\ mine = Nobody
  /\ link = "up" => mine # Nobody

Followed ==
  \E w \in [1..(Len(lines) + 1) -> Names] :
    Leading(w) /\ (NickPass /\ mine = BotNick => Proving(w))

Fresh ==
  /\ link = "down" => asked = <<>> /\ lines = <<>>
  /\ link = "open" => Registering
  /\ link = "up" => Unbounced /\ Followed

NameInv == NickTypeOK /\ Apart /\ (~stale => Fresh)

\* What the lines of either side are.
LEMMA AskedIs ==
  ASSUME NEW l \in ClientLine
  PROVE  /\ l.cmd \in {"NICK", "USER", "GHOST", "IDENTIFY"}
         /\ l.cmd = "NICK" => l.nick \in Names /\ l = NickCmd(l.nick)
         /\ l.cmd = "USER" <=> l = UserCmd
         /\ l.cmd = "IDENTIFY" <=> l = Identify
<1>1. CASE l \in {NickCmd(n) : n \in Names}
  <2>1. PICK n \in Names : l = NickCmd(n)
    BY <1>1
  <2>2. l.cmd = "NICK" /\ l.nick = n
    BY <2>1 DEF NickCmd
  <2>3. l # UserCmd /\ l # Identify
    BY <2>2 DEF UserCmd, Identify
  <2> QED
    BY <2>1, <2>2, <2>3
<1>2. CASE l = UserCmd
  BY <1>2 DEF UserCmd, Identify
<1>3. CASE l = Ghost
  BY <1>3 DEF Ghost, UserCmd, Identify
<1>4. CASE l = Identify
  BY <1>4 DEF UserCmd, Identify
<1> QED
  BY <1>1, <1>2, <1>3, <1>4 DEF ClientLine

LEMMA LineIs ==
  ASSUME NEW l \in ServerLine
  PROVE  /\ l.cmd \in {"001", "433", "QUIT", "NICK", "NOTICE"}
         /\ l.cmd \in {"433", "QUIT", "NICK"} => l.nick \in Names
         /\ l.cmd = "NICK" => l.from \in Names
         /\ l.cmd = "001" => l = Welcome
         /\ l.cmd = "433" => l = Refusal(l.nick)
<1>1. CASE l = Welcome
  BY <1>1 DEF Welcome
<1>2. ASSUME NEW n \in Names, l = Refusal(n) PROVE l.cmd = "433" /\ l.nick = n
  BY <1>2 DEF Refusal
<1>3. ASSUME NEW n \in Names, l = QuitLine(n) PROVE l.cmd = "QUIT" /\ l.nick = n
  BY <1>3 DEF QuitLine
<1>4. ASSUME NEW a \in Names, NEW b \in Names, l = NickLine(a, b)
      PROVE  l.cmd = "NICK" /\ l.from = a /\ l.nick = b
  BY <1>4 DEF NickLine
<1>5. ASSUME NEW t, l = Notice(t) PROVE l.cmd = "NOTICE"
  BY <1>5 DEF Notice
<1> QED
  BY <1>1, <1>2, <1>3, <1>4, <1>5 DEF ServerLine

\* Queues with something put behind them.
LEMMA Queued ==
  ASSUME NEW S, NEW s \in Seq(S), NEW t \in Seq(S)
  PROVE  /\ s \o t \in Seq(S)
         /\ Len(s \o t) = Len(s) + Len(t)
         /\ \A i \in 1..Len(s) : (s \o t)[i] = s[i]
         /\ \A i \in 1..Len(t) : (s \o t)[Len(s) + i] = t[i]
OBVIOUS

LEMMA QueuedOne ==
  ASSUME NEW S, NEW s \in Seq(S), NEW x \in S
  PROVE  /\ s \o <<x>> \in Seq(S)
         /\ Len(s \o <<x>>) = Len(s) + 1
         /\ \A i \in 1..Len(s) : (s \o <<x>>)[i] = s[i]
         /\ (s \o <<x>>)[Len(s) + 1] = x
<1>1. <<x>> \in Seq(S) /\ Len(<<x>>) = 1 /\ <<x>>[1] = x
  OBVIOUS
<1> QED
  BY <1>1, Queued

LEMMA Taken ==
  ASSUME NEW S, NEW s \in Seq(S), s # <<>>
  PROVE  /\ Head(s) \in S /\ Head(s) = s[1] /\ Len(s) >= 1
         /\ Tail(s) \in Seq(S) /\ Len(Tail(s)) = Len(s) - 1
         /\ \A i \in 1..(Len(s) - 1) : Tail(s)[i] = s[i + 1]
OBVIOUS

LEMMA Parts ==
  ASSUME NEW S, NEW s \in Seq(S), NEW i \in Nat, NEW j \in 0..Len(s)
  PROVE  SubSeq(s, i + 1, j) \in Seq(S)
OBVIOUS

\* What is said and sent is of the types of the channels.
LEMMA Sayings ==
  /\ \A n \in Names : NickCmd(n) \in ClientLine /\ Refusal(n) \in ServerLine
                      /\ QuitLine(n) \in ServerLine
  /\ \A a, b \in Names : NickLine(a, b) \in ServerLine
  /\ UserCmd \in ClientLine /\ Ghost \in ClientLine /\ Identify \in ClientLine
  /\ Welcome \in ServerLine
  /\ \A t \in {"ghost", "identified", "other"} : Notice(t) \in ServerLine
BY DEF ClientLine, ServerLine

LEMMA NickTypesInit == NickInit => NickTypeOK
<1> SUFFICES ASSUME NickInit PROVE NickTypeOK
  OBVIOUS
<1>1. asked \in Seq(ClientLine) /\ lines \in Seq(ServerLine)
  BY DEF NickInit
<1>2. others \subseteq Names /\ me \in Names /\ mine \in Names \cup {Nobody}
  BY NickConstants DEF NickInit
<1>3. events \in 0..MaxEvents /\ dials \in 0..MaxDials
  BY NickConstants DEF NickInit
<1> QED
  BY <1>1, <1>2, <1>3 DEF NickInit, NickTypeOK

LEMMA HandlesTypes ==
  ASSUME NickTypeOK, Handles
  PROVE  NickTypeOK'
<1> DEFINE l == Head(lines)
<1>1. ASSUME NEW cmd, Handling(cmd)
      PROVE  /\ l \in ServerLine /\ l.cmd = cmd /\ lines' \in Seq(ServerLine)
             /\ UNCHANGED <<greeting, server, counts>>
  BY <1>1, Taken DEF Handling, NickTypeOK
<1>2. \A c \in ClientLine : asked \o <<c>> \in Seq(ClientLine)
  BY QueuedOne DEF NickTypeOK
<1>3. CASE h_433
  <2>1. l.nick \in Names /\ NewNick[l.nick] \in Names /\ UNCHANGED <<greeting, server, counts>>
        /\ lines' \in Seq(ServerLine)
    BY <1>1, <1>3, LineIs, NickConstants DEF h_433
  <2>2. me' \in Names /\ asked' \in Seq(ClientLine)
    BY <2>1, <1>2, <1>3, Sayings DEF h_433, Ask, NickTypeOK
  <2> QED
    BY <2>1, <2>2 DEF NickTypeOK, server, counts
<1>4. CASE h_001
  <2>1. UNCHANGED <<greeting, server, counts>> /\ lines' \in Seq(ServerLine)
    BY <1>1, <1>4 DEF h_001
  <2>2. me' = me /\ asked' \in Seq(ClientLine)
    BY <1>2, <1>4, Sayings DEF h_001, Ask, NickTypeOK
  <2> QED
    BY <2>1, <2>2 DEF NickTypeOK, server, counts
<1>5. CASE h_NICK
  <2>1. l.nick \in Names /\ UNCHANGED <<greeting, server, counts>> /\ lines' \in Seq(ServerLine)
    BY <1>1, <1>5, LineIs DEF h_NICK
  <2>2. me' \in Names /\ asked' \in Seq(ClientLine)
    BY <2>1, <1>2, <1>5, Sayings DEF h_NICK, Ask, NickTypeOK
  <2> QED
    BY <2>1, <2>2 DEF NickTypeOK, server, counts
<1>6. CASE onQuit \/ onNotice
  <2>1. UNCHANGED <<greeting, server, counts>> /\ lines' \in Seq(ServerLine)
    BY <1>1, <1>6 DEF onQuit, onNotice
  <2>2. me' = me /\ asked' \in Seq(ClientLine)
    BY <1>2, <1>6, Sayings, NickConstants DEF onQuit, onNotice, Ask, NickTypeOK
  <2> QED
    BY <2>1, <2>2 DEF NickTypeOK, server, counts
<1> QED
  BY <1>3, <1>4, <1>5, <1>6 DEF Handles

LEMMA ServesTypes ==
  ASSUME NickTypeOK, link = "up" => mine # Nobody, Serves
  PROVE  NickTypeOK'
<1> DEFINE c == Head(asked)
<1>1. ASSUME NEW cmd, Taking(cmd)
      PROVE  /\ c \in ClientLine /\ c.cmd = cmd /\ asked' \in Seq(ClientLine)
             /\ UNCHANGED <<client, counts>>
  BY <1>1, Taken DEF Taking, NickTypeOK
<1>2. \A l \in ServerLine : lines \o <<l>> \in Seq(ServerLine)
  BY QueuedOne DEF NickTypeOK
<1>3. CASE Refuses
  <2>1. c.nick \in Names /\ asked' \in Seq(ClientLine) /\ UNCHANGED <<client, counts>>
    BY <1>1, <1>3, AskedIs DEF Refuses
  <2>2. lines' \in Seq(ServerLine)
    BY <2>1, <1>2, <1>3, Sayings DEF Refuses, Reply
  <2> QED
    BY <2>1, <2>2, <1>3 DEF Refuses, NickTypeOK, client, counts
<1>4. CASE Grants
  <2>1. c.nick \in Names /\ asked' \in Seq(ClientLine) /\ UNCHANGED <<client, counts>>
    BY <1>1, <1>4, AskedIs DEF Grants
  <2>2. lines' \in Seq(ServerLine) /\ link' \in {"down", "open", "up"}
    <3>1. CASE link = "up"
      <4>1. lines' = lines \o <<NickLine(mine, c.nick)>> /\ link' = link
        BY <1>4, <3>1 DEF Grants, Reply
      <4>2. NickLine(mine, c.nick) \in ServerLine
        BY <2>1, <3>1, Sayings DEF NickTypeOK
      <4> QED
        BY <4>1, <4>2, <1>2, <3>1
    <3>2. CASE link = "open" /\ user
      <4>1. lines' = lines \o <<Welcome>> /\ link' = "up"
        BY <1>4, <3>2 DEF Grants, Reply
      <4> QED
        BY <4>1, <1>2, Sayings
    <3>3. CASE link # "up" /\ ~(link = "open" /\ user)
      BY <1>4, <3>3 DEF Grants, NickTypeOK
    <3> QED
      BY <3>1, <3>2, <3>3
  <2> QED
    BY <2>1, <2>2, <1>4 DEF Grants, NickTypeOK, client, counts
<1>5. CASE HasIt
  BY <1>1, <1>5 DEF HasIt, NickTypeOK, client, server, counts
<1>6. CASE Admits
  <2>1. asked' \in Seq(ClientLine) /\ UNCHANGED <<client, counts>>
    BY <1>1, <1>6 DEF Admits
  <2>2. lines' \in Seq(ServerLine) /\ link' \in {"down", "open", "up"}
    BY <1>2, <1>6, Sayings DEF Admits, Reply, NickTypeOK
  <2> QED
    BY <2>1, <2>2, <1>6 DEF Admits, NickTypeOK, client, counts
<1>7. CASE Ghosts
  <2>1. asked' \in Seq(ClientLine) /\ UNCHANGED <<client, counts>>
    BY <1>1, <1>7 DEF Ghosts
  <2>2. <<QuitLine(BotNick), Notice("ghost")>> \in Seq(ServerLine)
    BY Sayings, NickConstants
  <2>3. lines \o <<QuitLine(BotNick), Notice("ghost")>> \in Seq(ServerLine)
    BY <2>2, Queued DEF NickTypeOK
  <2>4. lines' \in Seq(ServerLine) /\ others' \subseteq Names
    BY <2>3, <1>2, <1>7, Sayings DEF Ghosts, Reply, NickTypeOK
  <2> QED
    BY <2>1, <2>4, <1>7 DEF Ghosts, NickTypeOK, client, counts
<1>8. CASE Identifies
  <2>1. asked' \in Seq(ClientLine) /\ UNCHANGED <<client, counts>>
    BY <1>1, <1>8 DEF Identifies
  <2>2. lines' \in Seq(ServerLine) /\ known' \in BOOLEAN
    BY <1>2, <1>8, Sayings DEF Identifies, Reply, NickTypeOK
  <2> QED
    BY <2>1, <2>2, <1>8 DEF Identifies, NickTypeOK, client, counts
<1> QED
  BY <1>3, <1>4, <1>5, <1>6, <1>7, <1>8 DEF Serves

LEMMA WorldTypes ==
  ASSUME NickTypeOK, link = "up" => mine # Nobody, World
  PROVE  NickTypeOK'
<1>1. PICK n \in Names : Comes(n) \/ Goes(n) \/ Evicts(n) \/ \E m \in Names : Renames(n, m)
  BY DEF World
<1>2. events' \in 0..MaxEvents /\ UNCHANGED <<client, asked, link, user, bounced, dials, stale>>
  BY <1>1, NickConstants DEF Comes, Goes, Evicts, Renames, Others, NickTypeOK
<1>3. \A l \in ServerLine : lines \o <<l>> \in Seq(ServerLine)
  BY QueuedOne DEF NickTypeOK
<1>4. others' \subseteq Names /\ mine' \in Names \cup {Nobody} /\ known' \in BOOLEAN
  BY <1>1, NickConstants DEF Comes, Goes, Evicts, Renames, NickTypeOK
<1>5. lines' \in Seq(ServerLine)
  <2>1. CASE Comes(n)
    BY <2>1 DEF Comes, NickTypeOK
  <2>2. CASE Goes(n)
    BY <2>2, <1>3, Sayings DEF Goes, Shown, Reply, NickTypeOK
  <2>3. CASE Evicts(n)
    BY <2>3, <1>3, Sayings, NickConstants DEF Evicts, Reply, NickTypeOK
  <2>4. ASSUME NEW m \in Names, Renames(n, m) PROVE lines' \in Seq(ServerLine)
    BY <2>4, <1>3, Sayings DEF Renames, Shown, Reply, NickTypeOK
  <2> QED
    BY <1>1, <2>1, <2>2, <2>3, <2>4
<1> QED
  BY <1>2, <1>4, <1>5 DEF NickTypeOK, client

LEMMA LosesTypes ==
  ASSUME NickTypeOK, Loses
  PROVE  NickTypeOK'
<1>1. lines' \in Seq(ServerLine) /\ asked' \in Seq(ClientLine)
  <2>1. PICK unread \in 0..Len(lines), written \in 0..Len(asked) :
          /\ lines' = SubSeq(lines, 1, unread)
          /\ asked' = SubSeq(asked, written + 1, Len(asked))
    BY DEF Loses
  <2>2. lines \in Seq(ServerLine) /\ asked \in Seq(ClientLine)
    BY DEF NickTypeOK
  <2>3. SubSeq(lines, 0 + 1, unread) \in Seq(ServerLine)
    BY <2>2, Parts
  <2>4. Len(asked) \in 0..Len(asked) /\ written \in Nat
    BY <2>2
  <2>5. SubSeq(asked, written + 1, Len(asked)) \in Seq(ClientLine)
    BY <2>2, <2>4, Parts
  <2> QED
    BY <2>1, <2>3, <2>5
<1>2. others' \subseteq Names
  BY DEF Loses, NickTypeOK
<1>3. stale' \in BOOLEAN
  BY DEF Loses
<1> QED
  BY <1>1, <1>2, <1>3 DEF Loses, NickTypeOK, client

LEMMA NickTypes ==
  ASSUME NickTypeOK, link = "up" => mine # Nobody, [NickNext]_nickVars
  PROVE  NickTypeOK'
<1>1. CASE Connects
  <2>1. dials' \in 0..MaxDials
    BY <1>1, NickConstants DEF Connects, NickTypeOK
  <2> QED
    BY <1>1, <2>1 DEF Connects, NickTypeOK
<1>2. CASE h_REGISTER
  <2>1. \A c \in ClientLine : asked \o <<c>> \in Seq(ClientLine)
    BY QueuedOne DEF NickTypeOK
  <2>2. asked' \in Seq(ClientLine) /\ greeting' \in {"NICK", "USER", "none"}
    BY <1>2, <2>1, Sayings DEF h_REGISTER, Ask, NickTypeOK
  <2> QED
    BY <1>2, <2>2 DEF h_REGISTER, NickTypeOK, server, counts
<1>3. CASE UNCHANGED nickVars
  BY <1>3 DEF NickTypeOK, nickVars, client, server, counts
<1> QED
  BY <1>1, <1>2, <1>3, HandlesTypes, LosesTypes, ServesTypes, WorldTypes DEF NickNext

\* A handler takes a line and may ask for something, no more.
LEMMA HandlesOnly ==
  ASSUME Handles
  PROVE  /\ link # "down" /\ lines # <<>> /\ lines' = Tail(lines)
         /\ UNCHANGED <<greeting, server, counts>>
<1>1. ASSUME NEW cmd, Handling(cmd)
      PROVE  /\ link # "down" /\ lines # <<>> /\ lines' = Tail(lines)
             /\ UNCHANGED <<greeting, server, counts>>
  BY <1>1 DEF Handling
<1>2. CASE h_433
  BY <1>1, <1>2 DEF h_433
<1>3. CASE h_001
  BY <1>1, <1>3 DEF h_001
<1>4. CASE h_NICK
  BY <1>1, <1>4 DEF h_NICK
<1>5. CASE onQuit
  BY <1>1, <1>5 DEF onQuit
<1>6. CASE onNotice
  BY <1>1, <1>6 DEF onNotice
<1> QED
  BY <1>2, <1>3, <1>4, <1>5, <1>6 DEF Handles

LEMMA ApartStep ==
  ASSUME NickTypeOK, Apart, [NickNext]_nickVars
  PROVE  Apart'
<1>1. CASE Connects
  BY <1>1 DEF Connects, Apart
<1>2. CASE h_REGISTER
  BY <1>2 DEF h_REGISTER, Apart, server
<1>3. CASE Handles
  <2>1. UNCHANGED greeting /\ UNCHANGED server
    BY <1>3, HandlesOnly
  <2> QED
    BY <2>1 DEF Apart, server
<1>4. CASE Loses
  <2>1. Nobody \notin others'
    BY <1>4, NickConstants DEF Loses, NickTypeOK
  <2> QED
    BY <1>4, <2>1 DEF Loses, Apart, client
<1>5. CASE Grants
  <2>1. Head(asked).nick \in Names /\ UNCHANGED client /\ link # "down"
    BY <1>5, Taken, AskedIs DEF Grants, Taking, NickTypeOK
  <2>2. mine' = Head(asked).nick /\ mine' \notin others /\ others' = others
    BY <1>5 DEF Grants
  <2>3. link' # "down"
    BY <1>5, <2>1 DEF Grants
  <2> QED
    BY <2>1, <2>2, <2>3, NickConstants DEF Apart
<1>6. CASE Refuses \/ HasIt \/ Admits \/ Ghosts \/ Identifies
  BY <1>6 DEF Refuses, HasIt, Admits, Ghosts, Identifies, Taking, Apart, client, server
<1>7. CASE World
  <2>1. PICK n \in Names : Comes(n) \/ Goes(n) \/ Evicts(n) \/ \E m \in Names : Renames(n, m)
    BY <1>7 DEF World
  <2> QED
    BY <2>1, NickConstants DEF Comes, Goes, Evicts, Renames, Others, Apart, client
<1>8. CASE UNCHANGED nickVars
  BY <1>8 DEF nickVars, client, server, Apart
<1> QED
  BY <1>1, <1>2, <1>3, <1>4, <1>5, <1>6, <1>7, <1>8 DEF NickNext, Serves

-----------------------------------------------------------------------------
(* The names the lines lead through.                                       *)

\* More lines, that leave the name alone.
LEMMA MoreLines ==
  ASSUME NickTypeOK, mine \in Names,
         NEW w \in [1..(Len(lines) + 1) -> Names], Leading(w),
         NEW t \in Seq(ServerLine), lines' = lines \o t, me' = me, mine' = mine,
         \A i \in 1..Len(t) : Calls(t[i], mine, mine)
  PROVE  \E v \in [1..(Len(lines') + 1) -> Names] :
           Leading(v)' /\ \A i \in 1..(Len(lines) + 1) : v[i] = w[i]
<1> DEFINE n == Len(lines)
<1>0. PICK v : v = [i \in 1..(n + Len(t) + 1) |-> IF i <= n + 1 THEN w[i] ELSE mine]
  OBVIOUS
<1>1. /\ lines \in Seq(ServerLine) /\ n \in Nat /\ Len(t) \in Nat /\ Len(lines') = n + Len(t)
      /\ \A i \in 1..n : lines'[i] = lines[i]
      /\ \A i \in 1..Len(t) : lines'[n + i] = t[i]
  BY Queued DEF NickTypeOK
<1>2. v \in [1..(Len(lines') + 1) -> Names] /\ \A i \in 1..(n + 1) : v[i] = w[i]
  BY <1>0, <1>1
<1>3. \A i \in (n + 1)..(n + Len(t) + 1) : v[i] = mine
  BY <1>0, <1>1 DEF Leading
<1>4. v[1] = me' /\ v[Len(lines') + 1] = mine'
  BY <1>1, <1>2, <1>3 DEF Leading
<1>5. ASSUME NEW i \in 1..Len(lines') PROVE Calls(lines'[i], v[i], v[i + 1])
  <2>1. CASE i <= n
    <3>1. i \in 1..n /\ i \in 1..(n + 1) /\ i + 1 \in 1..(n + 1)
      BY <2>1, <1>1
    <3>2. v[i] = w[i] /\ v[i + 1] = w[i + 1] /\ lines'[i] = lines[i]
      BY <3>1, <1>1, <1>2
    <3> QED
      BY <3>1, <3>2 DEF Leading
  <2>2. CASE i > n
    <3>1. i - n \in 1..Len(t) /\ lines'[i] = t[i - n]
      BY <2>2, <1>1
    <3>2. i \in (n + 1)..(n + Len(t) + 1) /\ i + 1 \in (n + 1)..(n + Len(t) + 1)
      BY <2>2, <1>1
    <3>3. v[i] = mine /\ v[i + 1] = mine
      BY <3>2, <1>3
    <3> QED
      BY <3>1, <3>3
  <2> QED
    BY <2>1, <2>2, <1>1
<1>6. Leading(v)'
  BY <1>2, <1>4, <1>5 DEF Leading, Calls
<1> QED
  BY <1>2, <1>6

\* A line that says I have another name.
LEMMA NewName ==
  ASSUME NickTypeOK, mine \in Names, NEW n \in Names,
         NEW w \in [1..(Len(lines) + 1) -> Names], Leading(w),
         lines' = lines \o <<NickLine(mine, n)>>, me' = me, mine' = n
  PROVE  \E v \in [1..(Len(lines') + 1) -> Names] :
           Leading(v)' /\ \A i \in 1..(Len(lines) + 1) : v[i] = w[i]
<1> DEFINE k == Len(lines)
<1>0. PICK v : v = [i \in 1..(k + 2) |-> IF i <= k + 1 THEN w[i] ELSE n]
  OBVIOUS
<1>1. /\ lines \in Seq(ServerLine) /\ k \in Nat /\ Len(lines') = k + 1
      /\ \A i \in 1..k : lines'[i] = lines[i]
      /\ lines'[k + 1] = NickLine(mine, n)
  BY QueuedOne, Sayings DEF NickTypeOK
<1>2. v \in [1..(Len(lines') + 1) -> Names] /\ \A i \in 1..(k + 1) : v[i] = w[i]
  BY <1>0, <1>1
<1>3. v[1] = me' /\ v[k + 1] = mine /\ v[Len(lines') + 1] = mine'
  BY <1>0, <1>1, <1>2 DEF Leading
<1>4. Calls(NickLine(mine, n), mine, n)
  BY DEF Calls, NickLine
<1>5. ASSUME NEW i \in 1..Len(lines') PROVE Calls(lines'[i], v[i], v[i + 1])
  <2>1. CASE i <= k
    BY <2>1, <1>1, <1>2 DEF Leading
  <2>2. CASE i = k + 1
    BY <2>2, <1>1, <1>3, <1>4
  <2> QED
    BY <2>1, <2>2, <1>1
<1>6. Leading(v)'
  BY <1>2, <1>3, <1>5 DEF Leading, Calls
<1> QED
  BY <1>2, <1>6

\* A line is handled.
LEMMA OneHandled ==
  ASSUME NickTypeOK, lines # <<>>,
         NEW w \in [1..(Len(lines) + 1) -> Names], Leading(w),
         lines' = Tail(lines), me' = w[2], mine' = mine
  PROVE  \E v \in [1..(Len(lines') + 1) -> Names] :
           Leading(v)' /\ \A i \in 1..Len(lines) : v[i] = w[i + 1]
<1> DEFINE k == Len(lines)
<1>0. PICK v : v = [i \in 1..k |-> w[i + 1]]
  OBVIOUS
<1>1. /\ lines \in Seq(ServerLine) /\ k \in Nat /\ k >= 1 /\ Len(lines') = k - 1
      /\ \A i \in 1..(k - 1) : lines'[i] = lines[i + 1]
  BY Taken DEF NickTypeOK
<1>2. v \in [1..(Len(lines') + 1) -> Names]
  BY <1>0, <1>1
<1>3. v[1] = me' /\ v[Len(lines') + 1] = mine'
  BY <1>0, <1>1 DEF Leading
<1>4. ASSUME NEW i \in 1..Len(lines') PROVE Calls(lines'[i], v[i], v[i + 1])
  <2>1. i + 1 \in 1..k /\ lines'[i] = lines[i + 1] /\ v[i] = w[i + 1] /\ v[i + 1] = w[(i + 1) + 1]
    BY <1>0, <1>1
  <2> QED
    BY <2>1 DEF Leading
<1>5. Leading(v)'
  BY <1>2, <1>3, <1>4 DEF Leading, Calls
<1> QED
  BY <1>0, <1>1, <1>2, <1>5

\* Who is about to identify still is.
LEMMA ProvingHandled ==
  ASSUME NickTypeOK, NickTypeOK', NEW w, NEW v, Proving(w), known' = known,
         \A i \in 1..Len(asked) : asked[i] = Identify =>
           \E j \in 1..Len(asked') : asked'[j] = Identify,
         Len(lines') = Len(lines) - 1,
         \A i \in 1..(Len(lines) - 1) : lines'[i] = lines[i + 1] /\ v[i + 1] = w[(i + 1) + 1],
         (lines[1] = Welcome \/ (lines[1].cmd = "NICK" /\ lines[1].nick = BotNick)) /\ w[2] = BotNick
           => \E j \in 1..Len(asked') : asked'[j] = Identify
  PROVE  Proving(v)'
<1>1. CASE known
  BY <1>1 DEF Proving
<1>2. CASE \E i \in 1..Len(asked) : asked[i] = Identify
  BY <1>2 DEF Proving
<1>3. CASE \E i \in 1..Len(lines) :
             /\ lines[i] = Welcome \/ (lines[i].cmd = "NICK" /\ lines[i].nick = BotNick)
             /\ w[i + 1] = BotNick
  <2>1. PICK i \in 1..Len(lines) :
             /\ lines[i] = Welcome \/ (lines[i].cmd = "NICK" /\ lines[i].nick = BotNick)
             /\ w[i + 1] = BotNick
    BY <1>3
  <2>2. Len(lines) \in Nat /\ Len(lines') \in Nat
    BY DEF NickTypeOK
  <2>3. CASE i > 1
    <3>1. i - 1 \in 1..(Len(lines) - 1) /\ (i - 1) + 1 = i
      BY <2>2, <2>3
    <3>2. PICK k \in 1..(Len(lines) - 1) : k + 1 = i
      BY <3>1
    <3>3. k \in 1..Len(lines') /\ lines'[k] = lines[i] /\ v[k + 1] = w[i + 1]
      BY <2>2, <3>2
    <3> QED
      BY <2>1, <3>3 DEF Proving, Welcome
  <2>4. CASE i = 1
    BY <2>1, <2>4 DEF Proving
  <2> QED
    BY <2>2, <2>3, <2>4
<1> QED
  BY <1>1, <1>2, <1>3 DEF Proving

LEMMA ProvingMore ==
  ASSUME NickTypeOK, NickTypeOK', NEW w, NEW v, Proving(w), known => known',
         \A i \in 1..Len(asked) : asked[i] = Identify =>
           \E j \in 1..Len(asked') : asked'[j] = Identify,
         Len(lines') >= Len(lines),
         \A i \in 1..Len(lines) : lines'[i] = lines[i],
         \A i \in 1..(Len(lines) + 1) : v[i] = w[i]
  PROVE  Proving(v)'
<1>1. CASE known
  BY <1>1 DEF Proving
<1>2. CASE \E i \in 1..Len(asked) : asked[i] = Identify
  BY <1>2 DEF Proving
<1>3. CASE \E i \in 1..Len(lines) :
             /\ lines[i] = Welcome \/ (lines[i].cmd = "NICK" /\ lines[i].nick = BotNick)
             /\ w[i + 1] = BotNick
  <2>1. PICK i \in 1..Len(lines) :
             /\ lines[i] = Welcome \/ (lines[i].cmd = "NICK" /\ lines[i].nick = BotNick)
             /\ w[i + 1] = BotNick
    BY <1>3
  <2>2. Len(lines) \in Nat /\ Len(lines') \in Nat
    BY DEF NickTypeOK
  <2>3. i \in 1..Len(lines') /\ i + 1 \in 1..(Len(lines) + 1)
    BY <2>2
  <2>4. lines'[i] = lines[i] /\ v[i + 1] = w[i + 1]
    BY <2>3
  <2> QED
    BY <2>1, <2>3, <2>4 DEF Proving, Welcome
<1> QED
  BY <1>1, <1>2, <1>3 DEF Proving

\* A handler keeps up with a line, and identifies when the line is about that.
LEMMA HandleKeepsUp ==
  ASSUME NickTypeOK, Handles, lines # <<>>,
         NEW w \in [1..(Len(lines) + 1) -> Names], Leading(w)
  PROVE  /\ me' = w[2]
         /\ \E s \in Seq(ClientLine) :
              /\ asked' = asked \o s
              /\ \A i \in 1..Len(s) :
                   s[i].cmd = "NICK" => lines[1].cmd = "433" \/ s[i].nick = BotNick
              /\ NickPass /\ w[2] = BotNick
                   /\ (lines[1] = Welcome \/ (lines[1].cmd = "NICK" /\ lines[1].nick = BotNick))
                   => Len(s) = 1 /\ s[1] = Identify
<1> DEFINE l == Head(lines)
           Good(s) ==
              /\ asked' = asked \o s
              /\ \A i \in 1..Len(s) :
                   s[i].cmd = "NICK" => lines[1].cmd = "433" \/ s[i].nick = BotNick
              /\ NickPass /\ w[2] = BotNick
                   /\ (lines[1] = Welcome \/ (lines[1].cmd = "NICK" /\ lines[1].nick = BotNick))
                   => Len(s) = 1 /\ s[1] = Identify
<1>1. l = lines[1] /\ l \in ServerLine /\ Len(lines) \in Nat /\ 1 \in 1..Len(lines)
  BY Taken DEF NickTypeOK
<1>2. Calls(l, me, w[2])
  BY <1>1 DEF Leading
<1>3. asked \in Seq(ClientLine) /\ asked \o <<>> = asked /\ <<>> \in Seq(ClientLine)
  BY DEF NickTypeOK
<1>4. Welcome.cmd = "001" /\ Identify.cmd = "IDENTIFY" /\ Ghost.cmd = "GHOST"
      /\ \A n \in Names : NickCmd(n).cmd = "NICK" /\ NickCmd(n).nick = n
  BY DEF Welcome, Identify, Ghost, NickCmd
<1>5. CASE h_433
  <2>1. l.cmd = "433" /\ l.nick \in Names /\ NewNick[l.nick] \in Names
    BY <1>1, <1>5, LineIs, NickConstants DEF h_433, Handling
  <2>2. me' = me /\ w[2] = me
    BY <1>2, <1>5, <2>1 DEF h_433, Calls
  <2>3. Good(<<NickCmd(NewNick[l.nick])>>)
    BY <1>1, <1>4, <1>5, <2>1 DEF h_433, Ask
  <2>4. <<NickCmd(NewNick[l.nick])>> \in Seq(ClientLine)
    BY <2>1, Sayings
  <2> QED
    BY <2>2, <2>3, <2>4
<1>6. CASE h_001
  <2>1. l.cmd = "001" /\ l = Welcome /\ me' = me
    BY <1>1, <1>6, LineIs DEF h_001, Handling
  <2>2. w[2] = me
    BY <1>2, <2>1 DEF Calls
  <2>3. CASE NickPass
    <3>1. asked' = asked \o <<IF me # BotNick THEN Ghost ELSE Identify>>
      BY <1>6, <2>3 DEF h_001, Ask
    <3>2. Good(<<IF me # BotNick THEN Ghost ELSE Identify>>)
      BY <3>1, <2>2, <1>4
    <3>3. <<IF me # BotNick THEN Ghost ELSE Identify>> \in Seq(ClientLine)
      BY Sayings
    <3> QED
      BY <2>1, <2>2, <3>2, <3>3
  <2>4. CASE ~NickPass
    <3>1. Good(<<>>)
      BY <1>3, <1>6, <2>4 DEF h_001
    <3> QED
      BY <2>1, <2>2, <3>1, <1>3
  <2> QED
    BY <2>3, <2>4
<1>7. CASE h_NICK
  <2>1. l.cmd = "NICK" /\ me' = IF l.from = me THEN l.nick ELSE me
    BY <1>7 DEF h_NICK, Handling
  <2>2. me' = w[2]
    BY <1>2, <2>1 DEF Calls
  <2>3. CASE l.nick = me' /\ NickPass
    <3>1. Good(<<Identify>>)
      BY <2>3, <1>4, <1>7 DEF h_NICK, Ask
    <3>2. <<Identify>> \in Seq(ClientLine)
      BY Sayings
    <3> QED
      BY <2>2, <3>1, <3>2
  <2>4. CASE ~(l.nick = me' /\ NickPass)
    <3>1. asked' = asked
      BY <1>7, <2>4 DEF h_NICK
    <3>2. ~(NickPass /\ w[2] = BotNick /\ (lines[1] = Welcome \/ lines[1].nick = BotNick))
      BY <2>1, <2>2, <2>4, <1>1, <1>4
    <3>3. Good(<<>>)
      BY <3>1, <3>2, <1>3
    <3> QED
      BY <2>2, <3>3, <1>3
  <2> QED
    BY <2>3, <2>4
<1>8. CASE onQuit \/ onNotice
  <2>1. l.cmd \in {"QUIT", "NOTICE"} /\ me' = me
    BY <1>8 DEF onQuit, onNotice, Handling
  <2>2. w[2] = me /\ lines[1] # Welcome /\ lines[1].cmd # "NICK"
    BY <1>1, <1>2, <1>4, <2>1 DEF Calls
  <2>3. CASE asked' = asked
    <3>1. Good(<<>>)
      BY <2>2, <2>3, <1>3
    <3> QED
      BY <2>1, <2>2, <3>1, <1>3
  <2>4. CASE asked' = asked \o <<NickCmd(BotNick)>>
    <3>1. Good(<<NickCmd(BotNick)>>)
      BY <2>2, <2>4, <1>4, NickConstants
    <3>2. <<NickCmd(BotNick)>> \in Seq(ClientLine)
      BY Sayings, NickConstants
    <3> QED
      BY <2>1, <2>2, <3>1, <3>2
  <2> QED
    BY <1>8, <2>3, <2>4 DEF onQuit, onNotice, Ask
<1> QED
  BY <1>5, <1>6, <1>7, <1>8 DEF Handles

-----------------------------------------------------------------------------
(* While the client registers.                                             *)

\* Another USER changes nothing.
LEMMA RegisterUser ==
  ASSUME NickTypeOK, Registering, greeting = "USER", asked' = asked \o <<UserCmd>>,
         UNCHANGED <<me, lines, mine>>, greeting' = "none"
  PROVE  Registering'
<1>1. /\ Len(asked) \in Nat /\ Len(asked') = Len(asked) + 1
      /\ \A i \in 1..Len(asked) : asked'[i] = asked[i]
      /\ asked'[Len(asked) + 1] = UserCmd
  BY Sayings, QueuedOne DEF NickTypeOK
<1>2. CASE \E i \in 1..Len(asked) : /\ asked[i] = NickCmd(me)
                                    /\ \A j \in 1..Len(asked) \ {i} : OnlyUser(j)
  <2>1. PICK i \in 1..Len(asked) : /\ asked[i] = NickCmd(me)
                                   /\ \A j \in 1..Len(asked) \ {i} : OnlyUser(j)
    BY <1>2
  <2>2. i \in 1..Len(asked') /\ asked'[i] = NickCmd(me')
    BY <1>1, <2>1
  <2>3. \A j \in 1..Len(asked') \ {i} : asked'[j] = UserCmd
    BY <1>1, <2>1 DEF OnlyUser
  <2>4. (lines = <<>> /\ mine = Nobody) \/ \A j \in 1..Len(asked) : OnlyUser(j)
    BY DEF Registering
  <2>5. CASE lines = <<>> /\ mine = Nobody
    BY <2>2, <2>3, <2>5 DEF Registering, OnlyUser
  <2>6. CASE \A j \in 1..Len(asked) : OnlyUser(j)
    <3>1. NickCmd(me) # UserCmd
      BY DEF NickCmd, UserCmd
    <3> QED
      BY <2>1, <2>6, <3>1 DEF OnlyUser
  <2> QED
    BY <2>4, <2>5, <2>6
<1>3. CASE \A i \in 1..Len(asked) : OnlyUser(i)
  <2>1. \A i \in 1..Len(asked') : asked'[i] = UserCmd
    BY <1>1, <1>3 DEF OnlyUser
  <2>2. CASE lines = <<Refusal(me)>> /\ mine = Nobody
    <3>1. lines' = <<Refusal(me')>> /\ mine' = Nobody
      BY <2>2
    <3> QED
      BY <2>1, <3>1 DEF Registering, OnlyUser
  <2>3. CASE lines = <<>> /\ mine = me
    BY <2>1, <2>3 DEF Registering, OnlyUser
  <2>4. CASE lines = <<>> /\ mine = Nobody /\
             \E i \in 1..Len(asked) : asked[i] = NickCmd(me)
    BY <1>2, <1>3, <2>4 DEF OnlyUser, NickCmd, UserCmd
  <2> QED
    BY <2>2, <2>3, <2>4 DEF Registering
<1> QED
  BY <1>2, <1>3 DEF Registering

LEMMA RegisterStep ==
  ASSUME NickTypeOK, Registering, h_REGISTER
  PROVE  Registering'
<1>0. UNCHANGED <<me, lines>> /\ mine' = mine
  BY DEF h_REGISTER, server
<1>1. CASE greeting = "NICK"
  <2>1. asked = <<>> /\ lines = <<>> /\ mine = Nobody
    BY <1>1 DEF Registering
  <2>2. asked' = <<NickCmd(me)>> /\ greeting' = "USER"
    BY <1>1, <2>1 DEF h_REGISTER, Ask
  <2>3. Len(asked') = 1 /\ asked'[1] = NickCmd(me')
    BY <1>0, <2>2
  <2>4. \A j \in 1..Len(asked') \ {1} : OnlyUser(j)'
    BY <2>3
  <2> QED
    BY <1>0, <2>1, <2>2, <2>3, <2>4 DEF Registering
<1>2. CASE greeting = "USER"
  BY <1>0, <1>2, RegisterUser DEF h_REGISTER, Ask
<1> QED
  BY <1>1, <1>2 DEF h_REGISTER

\* What the client asks for before it is registered.
LEMMA AskedThen ==
  ASSUME NickTypeOK, Registering, asked # <<>>
  PROVE  /\ Head(asked).cmd \in {"NICK", "USER"}
         /\ Head(asked).cmd = "NICK" =>
              /\ Head(asked) = NickCmd(me) /\ lines = <<>> /\ mine = Nobody /\ greeting # "NICK"
              /\ \A i \in 1..(Len(asked) - 1) : Tail(asked)[i] = UserCmd
<1>1. /\ Head(asked) = asked[1] /\ Len(asked) \in Nat /\ Len(asked) >= 1
      /\ \A i \in 1..(Len(asked) - 1) : Tail(asked)[i] = asked[i + 1]
  BY Taken DEF NickTypeOK
<1>2. NickCmd(me).cmd = "NICK" /\ UserCmd.cmd = "USER"
  BY DEF NickCmd, UserCmd
<1>3. CASE \A i \in 1..Len(asked) : OnlyUser(i)
  BY <1>1, <1>2, <1>3 DEF OnlyUser
<1>4. CASE ~ \A i \in 1..Len(asked) : OnlyUser(i)
  <2>1. /\ lines = <<>> /\ mine = Nobody /\ greeting # "NICK"
        /\ \E i \in 1..Len(asked) : /\ asked[i] = NickCmd(me)
                                    /\ \A j \in 1..Len(asked) \ {i} : OnlyUser(j)
    BY <1>4 DEF Registering
  <2>2. PICK i \in 1..Len(asked) : /\ asked[i] = NickCmd(me)
                                   /\ \A j \in 1..Len(asked) \ {i} : OnlyUser(j)
    BY <2>1
  <2>3. CASE i = 1
    <3>1. \A k \in 1..(Len(asked) - 1) : k + 1 \in 1..Len(asked) \ {i}
      BY <1>1, <2>3
    <3>2. \A k \in 1..(Len(asked) - 1) : Tail(asked)[k] = UserCmd
      BY <1>1, <2>2, <3>1 DEF OnlyUser
    <3> QED
      BY <1>1, <1>2, <2>1, <2>2, <2>3, <3>2
  <2>4. CASE i # 1
    <3>1. Head(asked) = UserCmd
      BY <1>1, <2>2, <2>4 DEF OnlyUser
    <3> QED
      BY <1>2, <3>1
  <2> QED
    BY <2>3, <2>4
<1> QED
  BY <1>3, <1>4

\* USER is taken, and nobody has a name yet.
LEMMA UserTaken ==
  ASSUME NickTypeOK, Registering, asked # <<>>, Head(asked) = UserCmd, asked' = Tail(asked),
         UNCHANGED <<me, greeting, lines, mine>>
  PROVE  Registering'
<1>1. /\ Head(asked) = asked[1] /\ Len(asked) \in Nat /\ Len(asked) >= 1
      /\ Len(asked') = Len(asked) - 1
      /\ \A i \in 1..(Len(asked) - 1) : asked'[i] = asked[i + 1]
  BY Taken DEF NickTypeOK
<1>2. CASE \A i \in 1..Len(asked) : OnlyUser(i)
  <2>1. \A i \in 1..Len(asked') : OnlyUser(i)'
    <3> SUFFICES ASSUME NEW i \in 1..Len(asked') PROVE asked'[i] = UserCmd
      BY DEF OnlyUser
    <3>1. i + 1 \in 1..Len(asked) /\ asked'[i] = asked[i + 1]
      BY <1>1
    <3> QED
      BY <1>2, <3>1 DEF OnlyUser
  <2>2. NickCmd(me) # UserCmd
    BY DEF NickCmd, UserCmd
  <2>3. ~ \E i \in 1..Len(asked) : asked[i] = NickCmd(me)
    BY <1>2, <2>2 DEF OnlyUser
  <2>4. \/ greeting # "NICK" /\ lines = <<Refusal(me)>> /\ mine = Nobody
        \/ greeting # "NICK" /\ lines = <<>> /\ mine = me
    BY <2>3 DEF Registering
  <2>5. \/ greeting' # "NICK" /\ lines' = <<Refusal(me')>> /\ mine' = Nobody
        \/ greeting' # "NICK" /\ lines' = <<>> /\ mine' = me'
    BY <2>4
  <2> QED
    BY <2>1, <2>5 DEF Registering
<1>3. CASE ~ \A i \in 1..Len(asked) : OnlyUser(i)
  <2>1. /\ lines = <<>> /\ mine = Nobody /\ greeting # "NICK"
        /\ \E i \in 1..Len(asked) : /\ asked[i] = NickCmd(me)
                                    /\ \A j \in 1..Len(asked) \ {i} : OnlyUser(j)
    BY <1>3 DEF Registering
  <2>2. PICK i \in 1..Len(asked) : /\ asked[i] = NickCmd(me)
                                   /\ \A j \in 1..Len(asked) \ {i} : OnlyUser(j)
    BY <2>1
  <2>3. i # 1
    BY <1>1, <2>2 DEF NickCmd, UserCmd
  <2>4. i - 1 \in 1..Len(asked') /\ asked'[i - 1] = NickCmd(me')
    BY <1>1, <2>2, <2>3
  <2>5. \A j \in 1..Len(asked') \ {i - 1} : OnlyUser(j)'
    <3> SUFFICES ASSUME NEW j \in 1..Len(asked') \ {i - 1} PROVE asked'[j] = UserCmd
      BY DEF OnlyUser
    <3>1. j + 1 \in 1..Len(asked) \ {i} /\ asked'[j] = asked[j + 1]
      BY <1>1
    <3> QED
      BY <2>2, <3>1 DEF OnlyUser
  <2>6. lines' = <<>> /\ mine' = Nobody /\ greeting' # "NICK"
    BY <2>1
  <2> QED
    BY <2>4, <2>5, <2>6 DEF Registering
<1> QED
  BY <1>2, <1>3

-----------------------------------------------------------------------------
(* Each step keeps Fresh.                                                  *)

\* A refused name, before the client is registered, is followed by the next.
LEMMA FreshOpenHandles ==
  ASSUME NickTypeOK, Registering, Handles
  PROVE  Registering'
<1>1. lines # <<>> /\ lines' = Tail(lines) /\ UNCHANGED <<greeting, server>>
  BY HandlesOnly
<1>2. /\ greeting # "NICK" /\ lines = <<Refusal(me)>> /\ mine = Nobody
      /\ \A i \in 1..Len(asked) : OnlyUser(i)
  BY <1>1 DEF Registering
<1>3. Head(lines) = Refusal(me) /\ Head(lines).cmd = "433" /\ Head(lines).nick = me
  BY <1>2 DEF Refusal
<1>4. h_433
  BY <1>3 DEF Handles, h_001, h_NICK, onQuit, onNotice, Handling
<1>5. asked' = asked \o <<NickCmd(NewNick[me])>> /\ me' = NewNick[me]
  BY <1>3, <1>4 DEF h_433, Ask
<1>6. NickCmd(NewNick[me]) \in ClientLine
  BY Sayings, NickConstants DEF NickTypeOK
<1>7. /\ Len(asked) \in Nat /\ Len(asked') = Len(asked) + 1
      /\ \A i \in 1..Len(asked) : asked'[i] = asked[i]
      /\ asked'[Len(asked) + 1] = NickCmd(me')
  BY <1>5, <1>6, QueuedOne DEF NickTypeOK
<1>8. \A j \in 1..Len(asked') \ {Len(asked) + 1} : OnlyUser(j)'
  BY <1>2, <1>7 DEF OnlyUser
<1>9. lines' = <<>> /\ mine' = Nobody /\ greeting' # "NICK" /\ Len(asked) + 1 \in 1..Len(asked')
  BY <1>1, <1>2, <1>7 DEF server
<1>10. \E i \in 1..Len(asked') : asked'[i] = NickCmd(me') /\ \A j \in 1..Len(asked') \ {i} : OnlyUser(j)'
  BY <1>7, <1>8, <1>9
<1> QED
  BY <1>9, <1>10 DEF Registering

LEMMA FreshUpHandles ==
  ASSUME NickTypeOK, NickTypeOK', Unbounced, Followed, Handles
  PROVE  Unbounced' /\ Followed'
<1>1. lines # <<>> /\ lines' = Tail(lines) /\ UNCHANGED greeting /\ UNCHANGED server
  BY HandlesOnly
<1>2. PICK w \in [1..(Len(lines) + 1) -> Names] :
        Leading(w) /\ (NickPass /\ mine = BotNick => Proving(w))
  BY DEF Followed
<1>3. me' = w[2]
  BY <1>1, <1>2, HandleKeepsUp
<1>4. PICK s \in Seq(ClientLine) :
              /\ asked' = asked \o s
              /\ \A i \in 1..Len(s) :
                   s[i].cmd = "NICK" => lines[1].cmd = "433" \/ s[i].nick = BotNick
              /\ NickPass /\ w[2] = BotNick
                   /\ (lines[1] = Welcome \/ (lines[1].cmd = "NICK" /\ lines[1].nick = BotNick))
                   => Len(s) = 1 /\ s[1] = Identify
  BY <1>1, <1>2, HandleKeepsUp
<1>5. /\ mine' = mine /\ known' = known /\ bounced' = bounced
  BY <1>1 DEF server
<1>6. /\ Len(asked) \in Nat /\ Len(s) \in Nat /\ Len(asked') = Len(asked) + Len(s)
      /\ \A i \in 1..Len(asked) : asked'[i] = asked[i]
      /\ \A i \in 1..Len(s) : asked'[Len(asked) + i] = s[i]
  BY <1>4, Queued DEF NickTypeOK
<1>7. /\ Len(lines) \in Nat /\ Len(lines) >= 1 /\ Len(lines') = Len(lines) - 1
      /\ \A i \in 1..(Len(lines) - 1) : lines'[i] = lines[i + 1]
  BY <1>1, Taken DEF NickTypeOK
<1>8. Unbounced'
  <2>1. ASSUME ~bounced, NEW i \in 1..Len(asked'), asked'[i].cmd = "NICK"
        PROVE  asked'[i].nick = BotNick
    <3>1. CASE i <= Len(asked)
      BY <2>1, <3>1, <1>6 DEF Unbounced
    <3>2. CASE i > Len(asked)
      <4>1. i - Len(asked) \in 1..Len(s) /\ asked'[i] = s[i - Len(asked)]
        BY <3>2, <1>6
      <4>2. lines[1].cmd # "433"
        BY <2>1, <1>7 DEF Unbounced
      <4> QED
        BY <4>1, <4>2, <1>4, <2>1
    <3> QED
      BY <3>1, <3>2, <1>6
  <2>2. ASSUME ~bounced, NEW i \in 1..Len(lines') PROVE lines'[i].cmd # "433"
    <3>1. i + 1 \in 1..Len(lines) /\ lines'[i] = lines[i + 1]
      BY <1>7
    <3> QED
      BY <3>1, <2>2 DEF Unbounced
  <2> QED
    BY <2>1, <2>2, <1>1, <1>5 DEF Unbounced
<1>9. PICK v \in [1..(Len(lines') + 1) -> Names] :
        Leading(v)' /\ \A i \in 1..Len(lines) : v[i] = w[i + 1]
  BY <1>1, <1>2, <1>3, <1>5, OneHandled
<1>10. ASSUME NickPass, mine = BotNick PROVE Proving(v)'
  <2>1. Proving(w)
    BY <1>2, <1>10
  <2>2. \A i \in 1..Len(asked) : asked[i] = Identify =>
           \E j \in 1..Len(asked') : asked'[j] = Identify
    BY <1>6
  <2>3. \A i \in 1..(Len(lines) - 1) : lines'[i] = lines[i + 1] /\ v[i + 1] = w[(i + 1) + 1]
    BY <1>7, <1>9
  <2>4. (lines[1] = Welcome \/ (lines[1].cmd = "NICK" /\ lines[1].nick = BotNick)) /\ w[2] = BotNick
           => \E j \in 1..Len(asked') : asked'[j] = Identify
    <3> SUFFICES ASSUME lines[1] = Welcome \/ (lines[1].cmd = "NICK" /\ lines[1].nick = BotNick),
                        w[2] = BotNick
                 PROVE  \E j \in 1..Len(asked') : asked'[j] = Identify
      OBVIOUS
    <3>1. Len(s) = 1 /\ s[1] = Identify
      BY <1>4, <1>10
    <3> QED
      BY <3>1, <1>6
  <2> QED
    BY <2>1, <2>2, <2>3, <2>4, <1>5, <1>7, ProvingHandled
<1>11. Followed'
  BY <1>5, <1>9, <1>10 DEF Followed
<1> QED
  BY <1>8, <1>11

LEMMA FreshHandles ==
  ASSUME NickTypeOK, NickTypeOK', Fresh, Handles
  PROVE  Fresh'
<1>1. link # "down" /\ UNCHANGED server
  BY HandlesOnly
<1> QED
  BY <1>1, FreshOpenHandles, FreshUpHandles DEF Fresh, server

\* The lines that were asked for stay as they are when one is taken.
LEMMA OneTaken ==
  ASSUME NickTypeOK, asked # <<>>, asked' = Tail(asked)
  PROVE  /\ \A i \in 1..Len(asked') : \E j \in 1..Len(asked) : asked'[i] = asked[j]
         /\ \A i \in 1..Len(asked) : asked[i] # Head(asked) =>
              \E j \in 1..Len(asked') : asked'[j] = asked[i]
<1>1. /\ Head(asked) = asked[1] /\ Len(asked) \in Nat /\ Len(asked) >= 1
      /\ Len(asked') = Len(asked) - 1
      /\ \A i \in 1..(Len(asked) - 1) : asked'[i] = asked[i + 1]
  BY Taken DEF NickTypeOK
<1>2. ASSUME NEW i \in 1..Len(asked') PROVE \E j \in 1..Len(asked) : asked'[i] = asked[j]
  <2>1. i + 1 \in 1..Len(asked) /\ asked'[i] = asked[i + 1]
    BY <1>1
  <2> QED
    BY <2>1
<1>3. ASSUME NEW i \in 1..Len(asked), asked[i] # Head(asked)
      PROVE  \E j \in 1..Len(asked') : asked'[j] = asked[i]
  <2>1. i # 1
    BY <1>1, <1>3
  <2>2. i - 1 \in 1..Len(asked') /\ asked'[i - 1] = asked[i]
    BY <1>1, <2>1
  <2> QED
    BY <2>2
<1> QED
  BY <1>2, <1>3

\* Lines about others, while the client is registered.
LEMMA FollowedMore ==
  ASSUME NickTypeOK, NickTypeOK', mine \in Names, Followed, NEW t \in Seq(ServerLine),
         lines' = lines \o t, me' = me, mine' = mine,
         \A i \in 1..Len(t) : Calls(t[i], mine, mine),
         mine = BotNick => (known => known'),
         mine = BotNick => \A i \in 1..Len(asked) : asked[i] = Identify =>
           known' \/ \E j \in 1..Len(asked') : asked'[j] = Identify
  PROVE  Followed'
<1>1. PICK w \in [1..(Len(lines) + 1) -> Names] :
        Leading(w) /\ (NickPass /\ mine = BotNick => Proving(w))
  BY DEF Followed
<1>2. PICK v \in [1..(Len(lines') + 1) -> Names] :
        Leading(v)' /\ \A i \in 1..(Len(lines) + 1) : v[i] = w[i]
  BY <1>1, MoreLines
<1>3. /\ Len(lines') >= Len(lines) /\ \A i \in 1..Len(lines) : lines'[i] = lines[i]
  BY Queued DEF NickTypeOK
<1>4. ASSUME NickPass, mine = BotNick PROVE Proving(v)'
  <2>1. CASE known'
    BY <2>1 DEF Proving
  <2>2. CASE ~known'
    BY <1>1, <1>2, <1>3, <1>4, <2>2, ProvingMore
  <2> QED
    BY <2>1, <2>2
<1> QED
  BY <1>2, <1>4 DEF Followed

\* The server gives the client another name.
LEMMA FollowedName ==
  ASSUME NickTypeOK, NickTypeOK', mine \in Names, Followed, NEW n \in Names,
         lines' = lines \o <<NickLine(mine, n)>>, me' = me, mine' = n
  PROVE  Followed'
<1>1. PICK w \in [1..(Len(lines) + 1) -> Names] : Leading(w)
  BY DEF Followed
<1>2. PICK v \in [1..(Len(lines') + 1) -> Names] : Leading(v)'
  BY <1>1, NewName
<1>3. /\ Len(lines) \in Nat /\ Len(lines') = Len(lines) + 1
      /\ lines'[Len(lines) + 1] = NickLine(mine, n)
  BY QueuedOne, Sayings DEF NickTypeOK
<1>4. ASSUME mine' = BotNick PROVE Proving(v)'
  <2>1. v[Len(lines') + 1] = BotNick
    BY <1>2, <1>4 DEF Leading
  <2>2. lines'[Len(lines')].cmd = "NICK" /\ lines'[Len(lines')].nick = BotNick
    BY <1>3, <1>4 DEF NickLine
  <2>3. Len(lines') \in 1..Len(lines')
    BY <1>3
  <2> QED
    BY <2>1, <2>2, <2>3 DEF Proving
<1> QED
  BY <1>2, <1>4 DEF Followed

\* The server lets the client in.
LEMMA FollowedWelcome ==
  ASSUME NickTypeOK, NickTypeOK', me \in Names,
         lines' = <<Welcome>>, me' = me, mine' = me
  PROVE  Followed'
<1>1. PICK v : v = [i \in 1..2 |-> me]
  OBVIOUS
<1>2. Len(lines') = 1 /\ lines'[1] = Welcome /\ Welcome.cmd = "001"
  BY DEF Welcome
<1>3. v \in [1..(Len(lines') + 1) -> Names] /\ v[1] = me /\ v[2] = me
  BY <1>1, <1>2
<1>4. \A i \in 1..Len(lines') : Calls(lines'[i], v[i], v[i + 1])
  BY <1>2, <1>3 DEF Calls
<1>5. Leading(v)'
  BY <1>2, <1>3, <1>4 DEF Leading, Calls
<1>6. mine' = BotNick => Proving(v)'
  BY <1>2, <1>3 DEF Proving
<1> QED
  BY <1>3, <1>5, <1>6 DEF Followed

\* Taking a line that was asked for, and sending nothing with a 433.
LEMMA UnboundedTaken ==
  ASSUME NickTypeOK, Unbounced, asked # <<>>, asked' = Tail(asked), greeting' = greeting,
         bounced => bounced',
         ~bounced' => \A i \in 1..Len(lines') : lines'[i].cmd # "433"
  PROVE  Unbounced'
<1>1. \A i \in 1..Len(asked') : \E j \in 1..Len(asked) : asked'[i] = asked[j]
  BY OneTaken
<1> QED
  BY <1>1 DEF Unbounced

\* What is put behind lines without a 433.
LEMMA NoRefusal ==
  ASSUME NickTypeOK, NEW t \in Seq(ServerLine), lines' = lines \o t,
         \A i \in 1..Len(t) : t[i].cmd # "433",
         \A i \in 1..Len(lines) : lines[i].cmd # "433"
  PROVE  \A i \in 1..Len(lines') : lines'[i].cmd # "433"
<1>1. /\ Len(lines) \in Nat /\ Len(t) \in Nat /\ Len(lines') = Len(lines) + Len(t)
      /\ \A i \in 1..Len(lines) : lines'[i] = lines[i]
      /\ \A i \in 1..Len(t) : lines'[Len(lines) + i] = t[i]
  BY Queued DEF NickTypeOK
<1> SUFFICES ASSUME NEW i \in 1..Len(lines') PROVE lines'[i].cmd # "433"
  OBVIOUS
<1>2. CASE i <= Len(lines)
  BY <1>1, <1>2
<1>3. CASE i > Len(lines)
  <2>1. i - Len(lines) \in 1..Len(t)
    BY <1>1, <1>3
  <2>2. PICK k \in 1..Len(t) : i = Len(lines) + k
    BY <1>1, <2>1
  <2> QED
    BY <1>1, <2>2
<1> QED
  BY <1>1, <1>2, <1>3

\* What the server does for a client that is not registered.
LEMMA FreshOpenServes ==
  ASSUME NickTypeOK, NickTypeOK', link = "open", Registering, Serves
  PROVE  link' # "down" /\ (link' = "open" => Registering') /\ (link' = "up" => Unbounced' /\ Followed')
<1> DEFINE c == Head(asked)
<1>1. ASSUME NEW cmd, Taking(cmd)
      PROVE  /\ asked # <<>> /\ asked' = Tail(asked) /\ c.cmd = cmd /\ UNCHANGED <<me, greeting>>
             /\ c \in ClientLine
  BY <1>1, Taken DEF Taking, client, NickTypeOK
<1>2. ASSUME Taking("NICK")
      PROVE  /\ c = NickCmd(me) /\ c.nick = me /\ lines = <<>> /\ mine = Nobody /\ greeting' # "NICK"
             /\ \A i \in 1..Len(asked') : OnlyUser(i)'
  <2>1. /\ c = NickCmd(me) /\ lines = <<>> /\ mine = Nobody /\ greeting # "NICK"
        /\ \A i \in 1..(Len(asked) - 1) : Tail(asked)[i] = UserCmd
    BY <1>1, <1>2, AskedThen
  <2>2. Len(asked') = Len(asked) - 1 /\ asked' = Tail(asked)
    BY <1>1, <1>2, Taken DEF NickTypeOK
  <2>3. c.nick = me
    BY <2>1 DEF NickCmd
  <2>4. greeting' = greeting
    BY <1>1, <1>2
  <2> QED
    BY <2>1, <2>2, <2>3, <2>4 DEF OnlyUser
<1>3. CASE Refuses
  <2>1. Taking("NICK") /\ lines' = lines \o <<Refusal(c.nick)>> /\ link' = link /\ mine' = mine
    BY <1>3 DEF Refuses, Reply
  <2>2. /\ lines = <<>> /\ c.nick = me /\ mine = Nobody /\ greeting' # "NICK" /\ me' = me
        /\ \A i \in 1..Len(asked') : OnlyUser(i)'
    BY <1>1, <1>2, <2>1
  <2>3. lines' = <<Refusal(me')>> /\ mine' = Nobody
    BY <2>1, <2>2
  <2> QED
    BY <2>1, <2>2, <2>3 DEF Registering
<1>4. CASE Grants
  <2>1. Taking("NICK") /\ mine' = c.nick /\ bounced' = bounced
    BY <1>4 DEF Grants
  <2>2. /\ lines = <<>> /\ c.nick = me /\ greeting' # "NICK" /\ me' = me
        /\ \A i \in 1..Len(asked') : OnlyUser(i)'
    BY <1>1, <1>2, <2>1
  <2>3. mine' = me
    BY <2>1, <2>2
  <2>4. CASE user
    <3>1. lines' = lines \o <<Welcome>> /\ link' = "up"
      BY <1>4, <2>4 DEF Grants, Reply
    <3>2. lines' = <<Welcome>>
      BY <2>2, <3>1
    <3>3. Followed'
      BY <2>2, <2>3, <3>2, FollowedWelcome DEF NickTypeOK
    <3>4. Unbounced'
      <4>1. lines'[1] = Welcome /\ Len(lines') = 1
        BY <3>2
      <4> QED
        BY <2>2, <4>1 DEF Unbounced, OnlyUser, UserCmd, Welcome
    <3> QED
      BY <3>1, <3>3, <3>4
  <2>5. CASE ~user
    <3>1. lines' = lines /\ link' = link
      BY <1>4, <2>5 DEF Grants
    <3> QED
      BY <2>2, <2>3, <3>1 DEF Registering
  <2> QED
    BY <2>4, <2>5
<1>5. CASE HasIt
  <2>1. c.nick = me /\ mine = Nobody
    BY <1>2, <1>5 DEF HasIt
  <2> QED
    BY <1>5, <2>1, NickConstants DEF HasIt, NickTypeOK
<1>6. CASE Admits
  <2>1. /\ Taking("USER") /\ c = UserCmd /\ asked # <<>> /\ asked' = Tail(asked)
        /\ UNCHANGED <<me, greeting>> /\ UNCHANGED <<mine, bounced>>
    BY <1>1, <1>6, AskedIs DEF Admits
  <2>2. CASE mine = Nobody
    <3>1. UNCHANGED <<link, lines>>
      BY <1>6, <2>2 DEF Admits
    <3> QED
      BY <2>1, <3>1, UserTaken
  <2>3. CASE mine # Nobody
    <3>1. link' = "up" /\ lines' = lines \o <<Welcome>>
      BY <1>6, <2>3 DEF Admits, Reply
    <3>2. /\ greeting # "NICK" /\ lines = <<>> /\ mine = me
          /\ \A i \in 1..Len(asked) : OnlyUser(i)
      BY <2>3 DEF Registering
    <3>3. lines' = <<Welcome>>
      BY <3>1, <3>2
    <3>4. Followed'
      BY <2>1, <3>2, <3>3, FollowedWelcome DEF NickTypeOK
    <3>5. \A i \in 1..Len(asked') : asked'[i] = UserCmd
      BY <2>1, <3>2, OneTaken DEF OnlyUser
    <3>6. lines'[1] = Welcome /\ Len(lines') = 1
      BY <3>3
    <3>7. Unbounced'
      BY <2>1, <3>2, <3>5, <3>6 DEF Unbounced, UserCmd, Welcome
    <3> QED
      BY <3>1, <3>4, <3>7
  <2> QED
    BY <2>2, <2>3
<1>7. CASE Ghosts \/ Identifies
  <2>1. c.cmd \in {"GHOST", "IDENTIFY"} /\ asked # <<>>
    BY <1>7 DEF Ghosts, Identifies, Taking
  <2> QED
    BY <2>1, AskedThen
<1> QED
  BY <1>3, <1>4, <1>5, <1>6, <1>7 DEF Serves

\* What it does for one that is.
LEMMA FreshUpServes ==
  ASSUME NickTypeOK, NickTypeOK', Apart, link = "up", Unbounced, Followed, Serves
  PROVE  link' = "up" /\ Unbounced' /\ Followed'
<1> DEFINE c == Head(asked)
<1>0. mine \in Names
  BY DEF Apart, NickTypeOK
<1>1. ASSUME NEW cmd, Taking(cmd)
      PROVE  /\ asked # <<>> /\ asked' = Tail(asked) /\ c.cmd = cmd /\ me' = me
             /\ greeting' = greeting /\ c \in ClientLine
  BY <1>1, Taken DEF Taking, client, NickTypeOK
<1>2. ASSUME NEW cmd, Taking(cmd), cmd # "IDENTIFY"
      PROVE  \A i \in 1..Len(asked) : asked[i] = Identify =>
               \E j \in 1..Len(asked') : asked'[j] = Identify
  <2>1. c # Identify
    BY <1>1, <1>2 DEF Identify
  <2>2. asked # <<>> /\ asked' = Tail(asked)
    BY <1>1, <1>2
  <2>3. \A i \in 1..Len(asked) : asked[i] # c => \E j \in 1..Len(asked') : asked'[j] = asked[i]
    BY <2>2, OneTaken
  <2> SUFFICES ASSUME NEW i \in 1..Len(asked), asked[i] = Identify
               PROVE  \E j \in 1..Len(asked') : asked'[j] = Identify
    OBVIOUS
  <2>4. asked[i] # c
    BY <2>1
  <2> QED
    BY <2>3, <2>4
<1>3. lines \o <<>> = lines /\ <<>> \in Seq(ServerLine) /\ Len(<<>>) = 0
  BY DEF NickTypeOK
<1>4. CASE Refuses
  <2>1. /\ Taking("NICK") /\ lines' = lines \o <<Refusal(c.nick)>> /\ bounced' = TRUE
        /\ link' = link /\ mine' = mine /\ known' = known /\ c.nick \in others
    BY <1>4 DEF Refuses, Reply
  <2>2. c.nick \in Names /\ Refusal(c.nick) \in ServerLine
    BY <1>1, <2>1, AskedIs, Sayings
  <2>3. Calls(Refusal(c.nick), mine, mine)
    BY <2>1 DEF Calls, Refusal, Apart
  <2>4. \A i \in 1..Len(<<Refusal(c.nick)>>) : Calls(<<Refusal(c.nick)>>[i], mine, mine)
    BY <2>3
  <2>5. <<Refusal(c.nick)>> \in Seq(ServerLine)
    BY <2>2
  <2>6. Followed'
    BY <1>0, <1>1, <1>2, <2>1, <2>4, <2>5, FollowedMore
  <2>7. Unbounced'
    BY <1>1, <2>1, UnboundedTaken
  <2> QED
    BY <2>1, <2>6, <2>7
<1>5. CASE Grants
  <2>1. /\ Taking("NICK") /\ mine' = c.nick /\ bounced' = bounced /\ link' = link
        /\ lines' = lines \o <<NickLine(mine, c.nick)>>
    BY <1>5 DEF Grants, Reply
  <2>2. c.nick \in Names /\ NickLine(mine, c.nick) \in ServerLine
    BY <1>0, <1>1, <2>1, AskedIs, Sayings
  <2>3. Followed'
    BY <1>0, <1>1, <2>1, <2>2, FollowedName
  <2>4. ~bounced => \A i \in 1..Len(lines') : lines'[i].cmd # "433"
    <3>1. <<NickLine(mine, c.nick)>> \in Seq(ServerLine)
          /\ \A i \in 1..Len(<<NickLine(mine, c.nick)>>) : <<NickLine(mine, c.nick)>>[i].cmd # "433"
      BY <2>2 DEF NickLine
    <3> QED
      BY <2>1, <3>1, NoRefusal DEF Unbounced
  <2>5. Unbounced'
    BY <1>1, <2>1, <2>4, UnboundedTaken
  <2> QED
    BY <2>1, <2>3, <2>5
<1>6. ASSUME NEW cmd \in {"NICK", "USER"}, Taking(cmd), UNCHANGED <<link, lines, mine, known, bounced>>
      PROVE  link' = "up" /\ Unbounced' /\ Followed'
  <2>a. lines' = lines \o <<>> /\ me' = me
    BY <1>1, <1>3, <1>6
  <2>b. \A i \in 1..Len(<<>>) : Calls(<<>>[i], mine, mine)
    BY <1>3
  <2>c. \A i \in 1..Len(asked) : asked[i] = Identify =>
          \E j \in 1..Len(asked') : asked'[j] = Identify
    BY <1>2, <1>6
  <2>1. Followed'
    BY <1>0, <1>3, <1>6, <2>a, <2>b, <2>c, FollowedMore
  <2>2. Unbounced'
    BY <1>1, <1>6, UnboundedTaken DEF Unbounced
  <2> QED
    BY <1>6, <2>1, <2>2
<1>7. CASE HasIt
  BY <1>6, <1>7 DEF HasIt, server
<1>8. CASE Admits
  BY <1>6, <1>8 DEF Admits
<1>9. ASSUME NEW t \in Seq(ServerLine), NEW cmd, Taking(cmd), lines' = lines \o t,
             \A i \in 1..Len(t) : t[i].cmd \in {"QUIT", "NOTICE"},
             UNCHANGED <<link, mine, bounced>>, mine = BotNick => (known => known'),
             cmd # "IDENTIFY" \/ (mine = BotNick => known')
      PROVE  link' = "up" /\ Unbounced' /\ Followed'
  <2>1. \A i \in 1..Len(t) : Calls(t[i], mine, mine)
    BY <1>9 DEF Calls
  <2>2. mine = BotNick => \A i \in 1..Len(asked) : asked[i] = Identify =>
           known' \/ \E j \in 1..Len(asked') : asked'[j] = Identify
    BY <1>2, <1>9
  <2>3. Followed'
    BY <1>0, <1>1, <1>9, <2>1, <2>2, FollowedMore
  <2>4. \A i \in 1..Len(t) : t[i].cmd # "433"
    BY <1>9
  <2>5. ~bounced => \A i \in 1..Len(lines') : lines'[i].cmd # "433"
    BY <1>9, <2>4, NoRefusal DEF Unbounced
  <2>6. Unbounced'
    BY <1>1, <1>9, <2>5, UnboundedTaken
  <2> QED
    BY <1>9, <2>3, <2>6
<1>10. Notice("ghost").cmd = "NOTICE" /\ Notice("other").cmd = "NOTICE"
       /\ Notice("identified").cmd = "NOTICE" /\ QuitLine(BotNick).cmd = "QUIT"
  BY DEF Notice, QuitLine
<1>11. /\ <<Notice("ghost")>> \in Seq(ServerLine) /\ <<Notice("other")>> \in Seq(ServerLine)
       /\ <<Notice("identified")>> \in Seq(ServerLine)
       /\ <<QuitLine(BotNick), Notice("ghost")>> \in Seq(ServerLine)
  BY Sayings, NickConstants
<1>12. CASE Ghosts
  <2>1. Taking("GHOST") /\ UNCHANGED <<link, mine, bounced>> /\ known' = known
    BY <1>12 DEF Ghosts
  <2>2. ASSUME NEW t \in Seq(ServerLine), \A i \in 1..Len(t) : t[i].cmd \in {"QUIT", "NOTICE"},
               lines' = lines \o t
        PROVE  link' = "up" /\ Unbounced' /\ Followed'
    BY <2>1, <2>2, <1>9
  <2>3. \/ lines' = lines \o <<Notice("ghost")>> \/ lines' = lines \o <<Notice("other")>>
        \/ lines' = lines \o <<QuitLine(BotNick), Notice("ghost")>>
    BY <1>12 DEF Ghosts, Reply
  <2>4. \A i \in 1..Len(<<QuitLine(BotNick), Notice("ghost")>>) :
          <<QuitLine(BotNick), Notice("ghost")>>[i].cmd \in {"QUIT", "NOTICE"}
    BY <1>10
  <2>5. /\ \A i \in 1..Len(<<Notice("ghost")>>) : <<Notice("ghost")>>[i].cmd \in {"QUIT", "NOTICE"}
        /\ \A i \in 1..Len(<<Notice("other")>>) : <<Notice("other")>>[i].cmd \in {"QUIT", "NOTICE"}
    BY <1>10
  <2>6. CASE lines' = lines \o <<Notice("ghost")>>
    BY <1>11, <2>2, <2>5, <2>6
  <2>7. CASE lines' = lines \o <<Notice("other")>>
    BY <1>11, <2>2, <2>5, <2>7
  <2>8. CASE lines' = lines \o <<QuitLine(BotNick), Notice("ghost")>>
    BY <1>11, <2>2, <2>4, <2>8
  <2> QED
    BY <2>3, <2>6, <2>7, <2>8
<1>13. CASE Identifies
  <2>1. Taking("IDENTIFY") /\ UNCHANGED <<link, mine, bounced>>
    BY <1>13 DEF Identifies
  <2>2. CASE mine = BotNick
    <3>1. known' = TRUE /\ lines' = lines \o <<Notice("identified")>>
      BY <1>13, <2>2 DEF Identifies, Reply
    <3>2. \A i \in 1..Len(<<Notice("identified")>>) :
            <<Notice("identified")>>[i].cmd \in {"QUIT", "NOTICE"}
      BY <1>10
    <3> QED
      BY <2>1, <3>1, <3>2, <1>9, <1>11
  <2>3. CASE mine # BotNick
    <3>1. lines' = lines \o <<>>
      BY <1>3, <1>13, <2>3 DEF Identifies
    <3>2. \A i \in 1..Len(<<>>) : <<>>[i].cmd \in {"QUIT", "NOTICE"}
      OBVIOUS
    <3> QED
      BY <2>1, <2>3, <3>1, <3>2, <1>3, <1>9
  <2> QED
    BY <2>2, <2>3
<1> QED
  BY <1>4, <1>5, <1>7, <1>8, <1>12, <1>13 DEF Serves

\* What others do.
LEMMA FreshWorld ==
  ASSUME NickTypeOK, NickTypeOK', Apart, Fresh, World
  PROVE  Fresh'
<1>1. PICK n \in Names : Comes(n) \/ Goes(n) \/ Evicts(n) \/ \E m \in Names : Renames(n, m)
  BY DEF World
<1>2. UNCHANGED <<me, greeting, asked, link, bounced>>
  BY <1>1 DEF Comes, Goes, Evicts, Renames, Others, client
<1>3. ASSUME UNCHANGED <<lines, mine, known>>
      PROVE  Fresh'
  <2>1. link = "down" => asked' = <<>> /\ lines' = <<>>
    BY <1>2, <1>3 DEF Fresh
  <2>2. Registering => Registering'
    BY <1>2, <1>3 DEF Registering, OnlyUser
  <2>3. Unbounced => Unbounced'
    BY <1>2, <1>3 DEF Unbounced
  <2>4. Followed => Followed'
    <3>1. ASSUME NEW w PROVE (Leading(w) => Leading(w)') /\ (Proving(w) => Proving(w)')
      BY <1>2, <1>3 DEF Leading, Proving, Calls
    <3> QED
      BY <3>1, <1>2, <1>3 DEF Followed
  <2> QED
    BY <2>1, <2>2, <2>3, <2>4, <1>2 DEF Fresh
<1>4. ASSUME NEW l \in ServerLine, lines' = lines \o <<l>>, link = "up",
             l.cmd # "433", Followed'
      PROVE  Fresh'
  <2>1. <<l>> \in Seq(ServerLine) /\ Len(<<l>>) = 1 /\ <<l>>[1] = l
    BY <1>4
  <2>2. (\A i \in 1..Len(lines) : lines[i].cmd # "433")
          => \A i \in 1..Len(lines') : lines'[i].cmd # "433"
    BY <1>4, <2>1, NoRefusal
  <2>3. Unbounced'
    BY <1>2, <1>4, <2>2 DEF Fresh, Unbounced
  <2> QED
    BY <1>2, <1>4, <2>3 DEF Fresh
<1>5. link = "up" => mine \in Names /\ Followed
  BY DEF Fresh, Apart, NickTypeOK
<1>6. ASSUME NEW l \in ServerLine, lines' = lines \o <<l>>, link = "up",
             l.cmd # "433", Calls(l, mine, mine), UNCHANGED <<mine, known>>
      PROVE  Fresh'
  <2>1. <<l>> \in Seq(ServerLine) /\ \A i \in 1..Len(<<l>>) : Calls(<<l>>[i], mine, mine)
    BY <1>6
  <2>2. \A i \in 1..Len(asked) : asked[i] = Identify => \E j \in 1..Len(asked') : asked'[j] = Identify
    BY <1>2
  <2>3. me' = me
    BY <1>2
  <2>4. Followed'
    BY <1>5, <1>6, <2>1, <2>2, <2>3, FollowedMore
  <2> QED
    BY <1>4, <1>6, <2>4
<1>7. CASE Comes(n)
  BY <1>3, <1>7 DEF Comes
<1>8. CASE Goes(n)
  <2>1. QuitLine(n).cmd = "QUIT" /\ QuitLine(n) \in ServerLine
    BY Sayings DEF QuitLine
  <2>2. Calls(QuitLine(n), mine, mine)
    BY <2>1 DEF Calls
  <2> QED
    BY <1>3, <1>6, <1>8, <2>1, <2>2 DEF Goes, Shown, Reply
<1>9. ASSUME NEW m \in Names, Renames(n, m) PROVE Fresh'
  <2>1. n # mine /\ m # mine
    BY <1>9 DEF Renames, Apart
  <2>2. NickLine(n, m).cmd = "NICK" /\ NickLine(n, m).from = n /\ NickLine(n, m).nick = m
        /\ NickLine(n, m) \in ServerLine
    BY Sayings DEF NickLine
  <2>3. Calls(NickLine(n, m), mine, mine)
    BY <2>1, <2>2 DEF Calls
  <2> QED
    BY <1>3, <1>6, <1>9, <2>2, <2>3 DEF Renames, Shown, Reply
<1>10. CASE Evicts(n)
  <2>1. link = "up" /\ mine' = n /\ lines' = lines \o <<NickLine(mine, n)>>
    BY <1>10 DEF Evicts, Reply
  <2>2. NickLine(mine, n) \in ServerLine /\ NickLine(mine, n).cmd = "NICK"
    BY <1>5, <2>1, Sayings DEF NickLine
  <2>3. Followed'
    BY <1>2, <1>5, <2>1, FollowedName
  <2> QED
    BY <1>4, <2>1, <2>2, <2>3
<1> QED
  BY <1>1, <1>7, <1>8, <1>9, <1>10

LEMMA NameInvInit == NickInit => NameInv
<1> SUFFICES ASSUME NickInit PROVE NameInv
  OBVIOUS
<1>1. Apart
  BY NickConstants DEF NickInit, Apart
<1>2. Fresh
  BY DEF NickInit, Fresh
<1> QED
  BY <1>1, <1>2, NickTypesInit DEF NameInv

LEMMA NameInvNext == NameInv /\ [NickNext]_nickVars => NameInv'
<1> SUFFICES ASSUME NameInv, [NickNext]_nickVars PROVE NameInv'
  OBVIOUS
<1>1. NickTypeOK /\ Apart /\ (~stale => Fresh)
  BY DEF NameInv
<1>2. Apart'
  BY <1>1, ApartStep
<1>3. NickTypeOK'
  BY <1>1, NickTypes DEF Apart
<1> SUFFICES ASSUME ~stale' PROVE Fresh'
  BY <1>2, <1>3 DEF NameInv
<1>4. CASE Loses
  BY <1>4 DEF Loses, Fresh
<1>5. CASE ~stale /\ Connects
  <2>1. asked = <<>> /\ lines = <<>> /\ mine = Nobody
    BY <1>1, <1>5 DEF Connects, Fresh, Apart
  <2>2. greeting' = "NICK" /\ asked' = <<>> /\ lines' = <<>> /\ mine' = Nobody /\ link' = "open"
    BY <1>5, <2>1 DEF Connects
  <2> QED
    BY <2>2 DEF Fresh, Registering
<1>6. CASE ~stale /\ h_REGISTER
  <2>1. UNCHANGED <<me, lines, link, mine, known, bounced>>
    BY <1>6 DEF h_REGISTER, server
  <2>2. CASE link = "down"
    BY <1>1, <1>6, <2>2 DEF Apart, h_REGISTER
  <2>3. CASE link = "open"
    BY <1>1, <1>6, <2>1, <2>3, RegisterStep DEF Fresh
  <2>4. CASE link = "up"
    <3>1. greeting = "USER" /\ greeting' = "none" /\ asked' = asked \o <<UserCmd>>
      BY <1>1, <1>6, <2>4 DEF h_REGISTER, Fresh, Unbounced, Ask
    <3>2. /\ Len(asked) \in Nat /\ Len(asked') = Len(asked) + 1
          /\ \A i \in 1..Len(asked) : asked'[i] = asked[i]
          /\ asked'[Len(asked) + 1] = UserCmd
      BY <1>1, <3>1, Sayings, QueuedOne DEF NickTypeOK
    <3>3. ~bounced => \A i \in 1..Len(asked') : asked'[i].cmd = "NICK" => asked'[i].nick = BotNick
      BY <1>1, <1>6, <2>4, <3>2 DEF Fresh, Unbounced, UserCmd
    <3>4. Unbounced'
      BY <1>1, <1>6, <2>1, <2>4, <3>1, <3>3 DEF Fresh, Unbounced
    <3>5. ASSUME NEW w PROVE (Leading(w) => Leading(w)') /\ (Proving(w) => Proving(w)')
      BY <2>1, <3>2 DEF Leading, Proving, Calls
    <3>6. Followed'
      BY <1>1, <1>6, <2>1, <2>4, <3>5 DEF Fresh, Followed
    <3> QED
      BY <2>1, <2>4, <3>4, <3>6 DEF Fresh
  <2>5. link \in {"down", "open", "up"}
    BY <1>1 DEF NickTypeOK
  <2> QED
    BY <2>2, <2>3, <2>4, <2>5
<1>7. CASE ~stale /\ Handles
  BY <1>1, <1>3, <1>7, FreshHandles
<1>8. CASE ~stale /\ Serves
  <2>1. link # "down"
    BY <1>8 DEF Serves, Refuses, Grants, HasIt, Admits, Ghosts, Identifies, Taking
  <2>2. CASE link = "open"
    BY <1>1, <1>3, <1>8, <2>2, FreshOpenServes DEF Fresh
  <2>3. CASE link = "up"
    BY <1>1, <1>3, <1>8, <2>3, FreshUpServes DEF Fresh
  <2> QED
    BY <1>1, <2>1, <2>2, <2>3 DEF NickTypeOK
<1>9. CASE ~stale /\ World
  BY <1>1, <1>3, <1>9, FreshWorld
<1>10. CASE UNCHANGED nickVars
  <2>1. /\ UNCHANGED <<me, greeting, asked, lines, link, mine, known, bounced>>
        /\ stale' = stale
    BY <1>10 DEF nickVars, client, server, counts
  <2>2. ASSUME NEW w PROVE (Leading(w) => Leading(w)') /\ (Proving(w) => Proving(w)')
    BY <2>1 DEF Leading, Proving, Calls
  <2>3. Followed => Followed'
    BY <2>1, <2>2 DEF Followed
  <2>4. Registering => Registering'
    BY <2>1 DEF Registering, OnlyUser
  <2> QED
    BY <1>1, <2>1, <2>3, <2>4 DEF Fresh, Unbounced
<1>11. CASE stale /\ ~Loses
  BY <1>11 DEF NickNext, Connects, h_REGISTER, Handles, h_433, h_001, h_NICK, onQuit, onNotice,
    Handling, Serves, Refuses, Grants, HasIt, Admits, Ghosts, Identifies, Taking,
    World, Comes, Goes, Renames, Evicts, Others, counts, nickVars
<1> QED
  BY <1>4, <1>5, <1>6, <1>7, <1>8, <1>9, <1>10, <1>11 DEF NickNext

THEOREM NamesLead == NickSpec => []NameInv
<1> QED
  BY NameInvInit, NameInvNext, PTL DEF NickSpec

-----------------------------------------------------------------------------
(* What follows from it.                                                   *)

\* A registered client that has handled what the server sent is called what it
\* believes (cfg.Me.Nick, handlers.go:66-96), unless lines of an earlier
\* connection were left for this one.
THEOREM NameIsFollowed == NickSpec => []MeFollowed
<1>1. NameInv => MeFollowed
  <2> SUFFICES ASSUME NameInv, link = "up", lines = <<>>, ~stale PROVE me = mine
    BY DEF MeFollowed
  <2>1. PICK w \in [1..(Len(lines) + 1) -> Names] : Leading(w)
    BY DEF NameInv, Fresh, Followed
  <2>2. Len(lines) + 1 = 1
    OBVIOUS
  <2> QED
    BY <2>1, <2>2 DEF Leading
<1> QED
  BY NamesLead, <1>1, PTL

\* A bot that has its own name and a password has identified once nothing is on
\* its way (bot.go:424-434, 458-466), however it came by the name.
THEOREM NameIsProved == NickSpec => []IdentifiedAsItself
<1>1. NameInv => IdentifiedAsItself
  <2> SUFFICES ASSUME NameInv, link = "up", lines = <<>>, asked = <<>>, ~stale,
                      NickPass, mine = BotNick
               PROVE  known
    BY DEF IdentifiedAsItself
  <2>1. PICK w \in [1..(Len(lines) + 1) -> Names] : Proving(w)
    BY DEF NameInv, Fresh, Followed
  <2>2. Len(lines) = 0 /\ Len(asked) = 0
    OBVIOUS
  <2> QED
    BY <2>1, <2>2 DEF Proving
<1> QED
  BY NamesLead, <1>1, PTL

\* Only after a refusal does the bot ask for a name that is not its own
\* (handlers.go:68), and so give its own up.
THEOREM NameIsKept == NickSpec => GivesUpOnlyBounced
<1> DEFINE Keeps == link = "up" /\ mine = BotNick /\ mine' # BotNick /\ asked' # asked /\ link' = "up"
                      => bounced \/ stale
<1>1. NameInv /\ [NickNext]_nickVars => [Keeps]_nickVars
  <2> SUFFICES ASSUME NameInv, NickNext, link = "up", mine = BotNick, mine' # BotNick,
                      asked' # asked, ~bounced, ~stale, link' = "up"
               PROVE  FALSE
    OBVIOUS
  <2>1. Unbounced /\ NickTypeOK
    BY DEF NameInv, Fresh
  <2>2. Grants
    <3>1. CASE Connects
      BY <3>1 DEF Connects
    <3>2. CASE h_REGISTER
      BY <3>2 DEF h_REGISTER, server
    <3>3. CASE Handles
      BY <3>3, HandlesOnly DEF server
    <3>4. CASE Loses
      BY <3>4 DEF Loses
    <3>5. CASE World
      BY <3>5 DEF World, Comes, Goes, Renames, Evicts, Others
    <3>6. CASE Refuses \/ HasIt \/ Admits \/ Ghosts \/ Identifies
      BY <3>6 DEF Refuses, HasIt, Admits, Ghosts, Identifies, server
    <3> QED
      BY <3>1, <3>2, <3>3, <3>4, <3>5, <3>6 DEF NickNext, Serves
  <2>3. Head(asked).cmd = "NICK" /\ Head(asked) = asked[1] /\ Len(asked) >= 1 /\ Len(asked) \in Nat
    BY <2>1, <2>2, Taken DEF Grants, Taking, NickTypeOK
  <2>4. Head(asked).nick = BotNick
    BY <2>1, <2>3 DEF Unbounced
  <2> QED
    BY <2>2, <2>4 DEF Grants
<1> QED
  BY NamesLead, <1>1, PTL DEF NickSpec, GivesUpOnlyBounced

=============================================================================
