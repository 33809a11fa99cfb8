----------------------------- MODULE Connection -----------------------------
(***************************************************************************)
(* Conn of goirc's client package (connection.go): one connection to an    *)
(* IRC server after another, each served by the goroutines send, recv,     *)
(* runLoop and ping, which shutdown stops and waits for with conn.mu held. *)
(*                                                                         *)
(* Abstractions.  A line is one value; only QUIT is told from the others,  *)
(* since the server answers it by closing the connection.  A handler that  *)
(* runLoop dispatches to returns, or sends one line and returns (PONG, a   *)
(* usage message, JOIN); handlers that wait are in Identification.  Dial,  *)
(* the flood control's sleeps and the ping interval take any time.         *)
(***************************************************************************)
EXTENDS Naturals, Sequences

CONSTANTS
  InCap, OutCap,  \* capacity of conn.in and conn.out, 32 each in Client
  RegisterLines,  \* how many lines h_REGISTER sends: NICK, USER and perhaps PASS
  MaxConns        \* bound: connections made

ASSUME ConnectionConstants ==
  /\ InCap \in Nat \ {0} /\ OutCap \in Nat \ {0}
  /\ RegisterLines \in Nat \ {0}
  /\ MaxConns \in Nat \ {0}

VARIABLES
  connected, die, sock,  \* the fields; die: the control channel is closed
  mu,         \* conn.mu and what its holder is doing
  toRegister, \* lines h_REGISTER has still to send
  sender, receiver, looper, pinger,  \* where each goroutine is
  writing,    \* the line send is writing, when it does
  in, out,    \* how many lines conn.in holds; the lines in conn.out
  conns,      \* connections made so far
  reported,   \* history: DISCONNECTED events dispatched
  calm        \* history: no write has failed and neither channel was ever full

goroutines == <<sender, receiver, looper, pinger, writing>>
connVars == <<connected, die, sock, mu, toRegister, goroutines, in, out, conns,
              reported, calm>>

Line == "line"
QUIT == "QUIT"

ConnInit ==
  /\ connected = FALSE /\ die = FALSE /\ sock = "none"
  /\ mu = "free" /\ toRegister = 0
  /\ sender = "off" /\ receiver = "off" /\ looper = "off" /\ pinger = "off"
  /\ writing = Line
  /\ in = 0 /\ out = <<>>
  /\ conns = 0 /\ reported = 0 /\ calm = TRUE

-----------------------------------------------------------------------------
(* Raw: whoever sends a line waits for room in conn.out.                   *)

Room == Len(out) < OutCap

\* Mutated form: without waiting.
QueueAlways(line) ==
  /\ out' = Append(out, line)
  /\ calm' = (calm /\ Len(out) + 1 < OutCap)

Queue(line) ==
  /\ Room
  /\ out' = Append(out, line)
  /\ calm' = (calm /\ Len(out) + 1 < OutCap)

\* A command's goroutine sends.
Say ==
  /\ Queue(Line)
  /\ UNCHANGED <<connected, die, sock, mu, toRegister, goroutines, in, conns, reported>>

-----------------------------------------------------------------------------
(* Connect, which holds conn.mu throughout.                                *)

ConnectRefused ==
  /\ mu = "free" /\ connected
  /\ UNCHANGED connVars

ConnectBegin ==
  /\ mu = "free" /\ ~connected
  /\ mu' = "dial"
  /\ UNCHANGED <<connected, die, sock, toRegister, goroutines, in, out, conns,
                 reported, calm>>

DialFails ==
  /\ mu = "dial"
  /\ mu' = "free"
  /\ UNCHANGED <<connected, die, sock, toRegister, goroutines, in, out, conns,
                 reported, calm>>

\* postConnect starts the goroutines, and REGISTER is dispatched.
Dial ==
  /\ mu = "dial" /\ conns < MaxConns
  /\ sock' = "up" /\ connected' = TRUE
  /\ sender' = "select" /\ receiver' = "read" /\ looper' = "select" /\ pinger' = "select"
  /\ mu' = "register" /\ toRegister' = RegisterLines
  /\ conns' = conns + 1
  /\ UNCHANGED <<die, writing, in, out, reported, calm>>

Register ==
  /\ mu = "register" /\ toRegister > 0
  /\ Queue(Line)
  /\ toRegister' = toRegister - 1
  /\ UNCHANGED <<connected, die, sock, mu, goroutines, in, conns, reported>>

Registered ==
  /\ mu = "register" /\ toRegister = 0
  /\ mu' = "free"
  /\ UNCHANGED <<connected, die, sock, toRegister, goroutines, in, out, conns,
                 reported, calm>>

-----------------------------------------------------------------------------
(* The goroutines.  A select with several ready cases takes any of them.   *)

SendTake ==
  /\ sender = "select" /\ out # <<>>
  /\ sender' = "write" /\ writing' = Head(out) /\ out' = Tail(out)
  /\ UNCHANGED <<connected, die, sock, mu, toRegister, receiver, looper, pinger,
                 in, conns, reported, calm>>

\* What is written to a connection whose other end is gone may still be taken.
SendWrites ==
  /\ sender = "write" /\ sock \in {"up", "quitting", "lost"}
  /\ sender' = "select"
  /\ sock' = IF writing = QUIT /\ sock = "up" THEN "quitting" ELSE sock
  /\ writing' = Line
  /\ UNCHANGED <<connected, die, mu, toRegister, receiver, looper, pinger,
                 in, out, conns, reported, calm>>

\* A failed write calls shutdown.
SendFails ==
  /\ sender = "write" /\ sock \in {"lost", "closed"}
  /\ sender' = "shutdown"
  /\ writing' = Line
  /\ calm' = FALSE
  /\ UNCHANGED <<connected, die, sock, mu, toRegister, receiver, looper, pinger,
                 in, out, conns, reported>>

SendDies ==
  /\ sender = "select" /\ die
  /\ sender' = "off"
  /\ UNCHANGED <<connected, die, sock, mu, toRegister, receiver, looper, pinger,
                 writing, in, out, conns, reported, calm>>

RecvLine ==
  /\ receiver = "read" /\ sock \in {"up", "quitting"}
  /\ receiver' = "push"
  /\ UNCHANGED <<connected, die, sock, mu, toRegister, sender, looper, pinger,
                 writing, in, out, conns, reported, calm>>

RecvPush ==
  /\ receiver = "push" /\ in < InCap
  /\ in' = in + 1
  /\ receiver' = "read"
  /\ calm' = (calm /\ in + 1 < InCap)
  /\ UNCHANGED <<connected, die, sock, mu, toRegister, sender, looper, pinger,
                 writing, out, conns, reported>>

\* A failed read leaves the WaitGroup and calls shutdown.
RecvFails ==
  /\ receiver = "read" /\ sock \in {"lost", "closed"}
  /\ receiver' = "shutdown"
  /\ UNCHANGED <<connected, die, sock, mu, toRegister, sender, looper, pinger,
                 writing, in, out, conns, reported, calm>>

LoopTake ==
  /\ looper = "select" /\ in > 0
  /\ in' = in - 1
  /\ looper' \in {"select", "reply"}
  /\ UNCHANGED <<connected, die, sock, mu, toRegister, sender, receiver, pinger,
                 writing, out, conns, reported, calm>>

LoopReply ==
  /\ looper = "reply"
  /\ Queue(Line)
  /\ looper' = "select"
  /\ UNCHANGED <<connected, die, sock, mu, toRegister, sender, receiver, pinger,
                 writing, in, conns, reported>>

LoopDies ==
  /\ looper = "select" /\ die
  /\ looper' = "off"
  /\ UNCHANGED <<connected, die, sock, mu, toRegister, sender, receiver, pinger,
                 writing, in, out, conns, reported, calm>>

PingTick ==
  /\ pinger = "select"
  /\ pinger' = "push"
  /\ UNCHANGED <<connected, die, sock, mu, toRegister, sender, receiver, looper,
                 writing, in, out, conns, reported, calm>>

PingPush ==
  /\ pinger = "push"
  /\ Queue(Line)
  /\ pinger' = "select"
  /\ UNCHANGED <<connected, die, sock, mu, toRegister, sender, receiver, looper,
                 writing, in, conns, reported>>

PingDies ==
  /\ pinger = "select" /\ die
  /\ pinger' = "off"
  /\ UNCHANGED <<connected, die, sock, mu, toRegister, sender, receiver, looper,
                 writing, in, out, conns, reported, calm>>

-----------------------------------------------------------------------------
(* shutdown, called by recv or by send.                                    *)

\* The early return for a caller who finds ~connected is left out.  It is there
\* for the second of two errors, but send and recv never come to it: shutdown
\* waits for send to end before it releases conn.mu, and recv calls it once
\* (NoSecondShutdown in BotSessionProofs).
\* Mutated form: conn.connected is left as it is.
ShutdownForgets ==
  /\ mu = "free" /\ connected
  /\ \/ receiver = "shutdown" /\ receiver' = "wait" /\ UNCHANGED sender
     \/ sender = "shutdown" /\ sender' = "wait" /\ UNCHANGED receiver
  /\ sock' = "closed" /\ die' = TRUE
  /\ mu' = "shutdown"
  /\ UNCHANGED <<connected, toRegister, looper, pinger, writing, in, out, conns,
                 reported, calm>>

ShutdownBegin ==
  /\ mu = "free" /\ connected
  /\ \/ receiver = "shutdown" /\ receiver' = "wait" /\ UNCHANGED sender
     \/ sender = "shutdown" /\ sender' = "wait" /\ UNCHANGED receiver
  /\ connected' = FALSE /\ sock' = "closed" /\ die' = TRUE
  /\ mu' = "shutdown"
  /\ UNCHANGED <<toRegister, looper, pinger, writing, in, out, conns, reported, calm>>


\* Nothing is left in the WaitGroup.  recv has left it when it calls shutdown,
\* send never does.
AllDone ==
  /\ sender = "off" /\ looper = "off" /\ pinger = "off"
  /\ receiver \in {"off", "shutdown", "wait"}

\* Mutated form: shutdown does not wait for the event loop.
ShutdownHasty ==
  /\ mu = "shutdown" /\ sender = "off" /\ pinger = "off"
  /\ receiver \in {"off", "shutdown", "wait"}
  /\ die' = FALSE /\ sock' = "none"
  /\ mu' = "disconnected"
  /\ reported' = reported + 1
  /\ UNCHANGED <<connected, toRegister, goroutines, in, out, conns, calm>>

\* wg.Wait() returns, initialise makes a new die, and DISCONNECTED is dispatched.
ShutdownWaited ==
  /\ mu = "shutdown" /\ AllDone
  /\ die' = FALSE /\ sock' = "none"
  /\ mu' = "disconnected"
  /\ reported' = reported + 1
  /\ UNCHANGED <<connected, toRegister, goroutines, in, out, conns, calm>>

\* The handlers of DISCONNECTED have returned.
ShutdownEnds ==
  /\ mu = "disconnected"
  /\ mu' = "free"
  /\ receiver' = IF receiver = "wait" THEN "off" ELSE receiver
  /\ sender' = IF sender = "wait" THEN "select" ELSE sender
  /\ UNCHANGED <<connected, die, sock, toRegister, looper, pinger, writing, in, out,
                 conns, reported, calm>>

-----------------------------------------------------------------------------
(* The network and the server.                                             *)

Lose ==
  /\ sock = "up" /\ conns < MaxConns
  /\ sock' = "lost"
  /\ UNCHANGED <<connected, die, mu, toRegister, goroutines, in, out, conns,
                 reported, calm>>

\* The server closes the connection of a client that has sent QUIT.
ServerCloses ==
  /\ sock = "quitting"
  /\ sock' = "lost"
  /\ UNCHANGED <<connected, die, mu, toRegister, goroutines, in, out, conns,
                 reported, calm>>

-----------------------------------------------------------------------------
ConnTypeOK ==
  /\ connected \in BOOLEAN /\ die \in BOOLEAN /\ calm \in BOOLEAN
  /\ sock \in {"none", "up", "quitting", "lost", "closed"}
  /\ mu \in {"free", "dial", "register", "shutdown", "disconnected"}
  /\ toRegister \in 0..RegisterLines
  /\ sender \in {"off", "select", "write", "shutdown", "wait"}
  /\ receiver \in {"off", "read", "push", "shutdown", "wait"}
  /\ looper \in {"off", "select", "reply"}
  /\ pinger \in {"off", "select", "push"}
  /\ writing \in {Line, QUIT}
  /\ in \in 0..InCap
  /\ out \in Seq({Line, QUIT}) /\ Len(out) <= OutCap
  /\ conns \in 0..MaxConns /\ reported \in 0..MaxConns

Send == SendTake \/ SendWrites \/ SendFails \/ SendDies
Recv == RecvPush \/ RecvFails
RunLoop == LoopTake \/ LoopReply \/ LoopDies
Ping == PingPush \/ PingDies
Shutdown == ShutdownBegin \/ ShutdownWaited
=============================================================================
