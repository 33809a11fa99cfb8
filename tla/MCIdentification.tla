------------------------- MODULE MCIdentification -------------------------
(* Small instances of Identification for TLC.                              *)
EXTENDS Identification, TLC

CONSTANTS c1, c2, al

\* Two checks of the same nick.
SameNickOf == [c \in Checkers |-> al]

\* Checks of the same nick are interchangeable.
SameNickSymmetry == Permutations(Commands)
=============================================================================
