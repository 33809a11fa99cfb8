----------------------------- MODULE MCTracker -----------------------------
(* Small instances of Tracker for TLC.                                     *)
EXTENDS Tracker

Channels == Permutations(Chans)

\* The fallback name, which nobody else takes.
MCNewNick == [n \in Names |-> "bot_"]
=============================================================================
