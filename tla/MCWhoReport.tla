---------------------------- MODULE MCWhoReport ----------------------------
(* Small instances of WhoReport for TLC.                                   *)
EXTENDS WhoReport, TLC

CONSTANTS r1, r2, c1, c2

\* r1 and r2 ask about the same channel, or each about its own.
OneChannel == [r \in Requests |-> c1]
OwnChannel == [r \in Requests |-> IF r = r1 THEN c1 ELSE c2]

Others2 == [c \in Channels |-> 2]
Others1 == [c \in Channels |-> 1]
Others3and2 == (c1 :> 3) @@ (c2 :> 2)
=============================================================================
