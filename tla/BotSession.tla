----------------------------- MODULE BotSession -----------------------------
(***************************************************************************)
(* The life of the bot's connection as main (bot.go) sees it, on top of    *)
(* Connection: the first ConnectTo, the DISCONNECTED handler and the       *)
(* goroutines it starts to reconnect, and the end of the process after a   *)
(* signal.                                                                 *)
(*                                                                         *)
(* Caller 0 of ConnectTo is main itself; caller i is the goroutine started *)
(* for the i-th DISCONNECTED event.                                        *)
(*                                                                         *)
(* Abstractions.  How long a goroutine sleeps is left out.  Which channels *)
(* resetIdentifiedCache closes is in Identification: here it returns or    *)
(* panics.  What is saved, and when the cache's lock is lost, is in        *)
(* CacheFile and GoCache: here saveCacheNow ends unless the lock is lost.  *)
(***************************************************************************)
EXTENDS Connection

VARIABLES
  caller,    \* where main's first ConnectTo and each reconnecting goroutine are
  holder,    \* the caller inside Connect, when there is one
  main,      \* where main is after its ConnectTo
  quitting,  \* the flag of the same name
  handler,   \* what the DISCONNECTED handler has still to do
  jammed,    \* nobody gets the cache's lock any more
  forsaken   \* history: the last DISCONNECTED handler to run panicked

cacheVars == <<jammed, forsaken>>
sessVars == <<caller, holder, main, quitting, handler, cacheVars>>
vars == <<connVars, sessVars>>

Callers == 0..MaxConns

\* The process has not ended.
Alive == main # "exited"

Init ==
  /\ ConnInit
  /\ caller = [i \in Callers |-> IF i = 0 THEN "lock" ELSE "none"]
  /\ holder = 0
  /\ main = "connecting"
  /\ quitting = FALSE
  /\ handler = "none"
  /\ jammed = FALSE /\ forsaken = FALSE

-----------------------------------------------------------------------------
(* ConnectTo, by main or by a goroutine that reconnects.                   *)

\* Mutated form: an error ends the goroutine.
GiveUpAfterError(i) == "none"

\* An error is logged; the goroutine sleeps and looks again, main goes on.
AfterError(i) == IF i = 0 THEN "none" ELSE "test"
AfterSuccess(i) == IF i = 0 THEN "none" ELSE "test"

Refused(i) ==
  /\ Alive /\ caller[i] = "lock" /\ ConnectRefused
  /\ caller' = [caller EXCEPT ![i] = AfterError(i)]
  /\ UNCHANGED <<holder, main, quitting, handler, cacheVars>>

Enter(i) ==
  /\ Alive /\ caller[i] = "lock" /\ ConnectBegin
  /\ caller' = [caller EXCEPT ![i] = "inside"]
  /\ holder' = i
  /\ UNCHANGED <<main, quitting, handler, cacheVars>>

Fail(i) ==
  /\ Alive /\ caller[i] = "inside" /\ DialFails
  /\ caller' = [caller EXCEPT ![i] = AfterError(i)]
  /\ holder' = 0
  /\ UNCHANGED <<main, quitting, handler, cacheVars>>

Succeed(i) ==
  /\ Alive /\ caller[i] = "inside" /\ Registered
  /\ caller' = [caller EXCEPT ![i] = AfterSuccess(i)]
  /\ holder' = 0
  /\ UNCHANGED <<main, quitting, handler, cacheVars>>

\* for !irc.Connected(), which takes conn.mu for reading, after any sleep.
Test(i) ==
  /\ Alive /\ caller[i] = "test" /\ mu = "free"
  /\ caller' = [caller EXCEPT ![i] = IF connected THEN "none" ELSE "lock"]
  /\ UNCHANGED <<connVars, holder, main, quitting, handler, cacheVars>>

-----------------------------------------------------------------------------
(* The DISCONNECTED handler, which shutdown waits for.                     *)


HandlerReads ==
  /\ mu = "disconnected" /\ handler = "none"
  /\ handler' = IF quitting THEN "quit" ELSE "reset"
  /\ forsaken' = FALSE
  /\ UNCHANGED <<connVars, caller, holder, main, quitting, jammed>>

\* resetIdentifiedCache finds every channel open.
HandlerResets ==
  /\ handler = "reset"
  /\ handler' = "save"
  /\ UNCHANGED <<connVars, caller, holder, main, quitting, cacheVars>>

\* It finds one that is closed already, or nil, and panics; dispatch recovers,
\* and neither the save nor the goroutine that reconnects comes about.
HandlerPanics ==
  /\ handler = "reset" /\ ShutdownEnds
  /\ handler' = "none"
  /\ forsaken' = TRUE
  /\ UNCHANGED <<caller, holder, main, quitting, jammed>>

\* saveCacheNow, which waits for the cache's lock, returns.
Saves == ~jammed

HandlerReconnects ==
  /\ handler = "save" /\ Saves /\ ShutdownEnds
  /\ caller' = [caller EXCEPT ![reported] = "test"]
  /\ handler' = "none"
  /\ UNCHANGED <<holder, main, quitting, cacheVars>>

\* quit <- true, which main must be ready to receive.
HandlerQuits ==
  /\ handler = "quit" /\ main = "await" /\ ShutdownEnds
  /\ main' = "exited"
  /\ handler' = "none"
  /\ UNCHANGED <<caller, holder, quitting, cacheVars>>

-----------------------------------------------------------------------------
(* main, and the cache's lock.                                             *)

MainWaits ==
  /\ main = "connecting" /\ caller[0] = "none"
  /\ main' = "running"
  /\ UNCHANGED <<connVars, caller, holder, quitting, handler, cacheVars>>

Signal ==
  /\ main = "running"
  /\ main' = "quit" /\ quitting' = TRUE
  /\ UNCHANGED <<connVars, caller, holder, handler, cacheVars>>

MainQuits ==
  /\ main = "quit"
  /\ Queue(QUIT)
  /\ main' = "save"
  /\ UNCHANGED <<connected, die, sock, mu, toRegister, goroutines, in, conns,
                 reported, caller, holder, quitting, handler, cacheVars>>

MainSaves ==
  /\ main = "save" /\ Saves
  /\ main' = "await"
  /\ UNCHANGED <<connVars, caller, holder, quitting, handler, cacheVars>>

\* A save, this one or another goroutine's, takes the read lock twice with a
\* writer between, and the lock is lost for good.  It may have been lost long
\* before one of these two saves waits for it; it is told then.
Jam ==
  /\ Alive /\ ~jammed /\ "save" \in {main, handler}
  /\ jammed' = TRUE
  /\ UNCHANGED <<connVars, caller, holder, main, quitting, handler, forsaken>>

-----------------------------------------------------------------------------
Reconnect(i) ==
  \/ Test(i) \/ Refused(i) \/ Enter(i) \/ Fail(i) \/ Succeed(i)

\* A step of Conn that main and its handlers take no part in.
Library(A) == Alive /\ A /\ UNCHANGED sessVars

Conn ==
  \/ Library(Say) \/ Library(Dial) \/ Library(Register)
  \/ Library(SendTake) \/ Library(SendWrites) \/ Library(SendFails) \/ Library(SendDies)
  \/ Library(RecvLine) \/ Library(RecvPush) \/ Library(RecvFails)
  \/ Library(LoopTake) \/ Library(LoopReply) \/ Library(LoopDies)
  \/ Library(PingTick) \/ Library(PingPush) \/ Library(PingDies)
  \/ Library(ShutdownBegin) \/ Library(ShutdownWaited)
  \/ Library(Lose) \/ Library(ServerCloses)

Handler ==
  \/ HandlerReads \/ HandlerResets \/ HandlerPanics
  \/ HandlerReconnects \/ HandlerQuits
MainGoes == MainWaits \/ MainQuits \/ MainSaves
Main == MainGoes \/ Signal

Next == Conn \/ Handler \/ Main \/ Jam \/ \E i \in Callers : Reconnect(i)

Spec == Init /\ [][Next]_vars

\* Goroutines that can run do run, a dial that is tried again and again succeeds
\* in the end, a select does not for ever overlook conn.die, and the server
\* answers QUIT.  Nothing makes the user, the network, a command or another save
\* act, nor a reset panic.
FairSpec ==
  /\ Spec
  /\ SF_vars(Library(Dial))
  /\ WF_vars(Library(Register))
  /\ WF_vars(Library(Send)) /\ WF_vars(Library(Recv))
  /\ WF_vars(Library(RunLoop))
  /\ WF_vars(Library(Ping)) /\ SF_vars(Library(PingDies))
  /\ WF_vars(Library(Shutdown))
  /\ WF_vars(Library(ServerCloses))
  /\ WF_vars(Handler) /\ WF_vars(MainGoes)
  /\ \A i \in Callers : WF_vars(Reconnect(i))

-----------------------------------------------------------------------------
(* Properties.                                                             *)

\* Each variable has its type, and neither channel holds more than it can.
TypeOK ==
  /\ ConnTypeOK
  /\ caller \in [Callers -> {"none", "test", "lock", "inside"}]
  /\ holder \in Callers
  /\ main \in {"connecting", "running", "quit", "save", "await", "exited"}
  /\ quitting \in BOOLEAN
  /\ handler \in {"none", "quit", "reset", "save"}
  /\ jammed \in BOOLEAN /\ forsaken \in BOOLEAN

\* When a connection is dialled, nothing of the one before it is left: no
\* goroutine that would read the new one's socket or take its lines, and no
\* closed control channel that would stop its goroutines.
NoLeftovers ==
  mu \in {"dial", "disconnected"} =>
    /\ sender = "off" /\ looper = "off" /\ pinger = "off"
    /\ receiver \in {"off", "wait"}
    /\ ~die

\* Every connection that was made and lost is reported by exactly one
\* DISCONNECTED event, whichever of send and recv notices it.
LossesReported ==
  conns = reported + (IF connected \/ mu = "shutdown" THEN 1 ELSE 0)

\* A bot that was connected once, and was not told to quit, has somebody to
\* bring the connection back, however many goroutines reconnect at a time and
\* whichever of them loses the next connection again.  It has one way to be
\* left without: a reset that panics in the last handler (bot.go:480).
SomeoneReconnects ==
  conns > 0 /\ ~connected /\ mu \in {"free", "dial"} /\ ~quitting /\ ~forsaken =>
    \E i \in Callers : caller[i] # "none"




\* shutdown returns, also when an error in send() called it.
ShutdownReturns == mu = "shutdown" ~> mu # "shutdown"
=============================================================================
