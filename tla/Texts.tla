------------------------------- MODULE Texts -------------------------------
(***************************************************************************)
(* What goirc makes of a message (commands.go): its pieces, the lines sent *)
(* for them, and what a client that gets such a line reads in it (line.go).*)
(*                                                                         *)
(* A text is a sequence of characters, of which the code tells apart "." (a*)
(* mark that may end a fragment), " ", "nl" and "ctl" (\001); a CTCP verb  *)
(* is one of them.                                                         *)
(***************************************************************************)
EXTENDS Integers, Sequences, FiniteSetsExt

CONSTANTS
  Characters,
  SplitLen,  \* of the configuration, 450 by default
  MinSplit   \* 10

ASSUME TextConstants ==
  /\ {".", " ", "nl", "ctl"} \subseteq Characters
  /\ SplitLen \in Nat /\ MinSplit \in Nat \ {0}

Positions(text, char) == {i \in 1..Len(text) : text[i] = char}

\* Up to the first line break.
CutNewLines(text) ==
  LET breaks == Positions(text, "nl")
  IN  IF breaks = {} THEN text ELSE SubSeq(text, 1, Min(breaks) - 1)

\* How much of the text there is up to its last fragment, or else word; 0 if
\* it has neither.  A separator at the very beginning does not count.
IndexFragment(text) ==
  LET fragments == {i \in 2..(Len(text) - 1) : text[i] = "." /\ text[i + 1] = " "}
      words == Positions(text, " ") \ {1}
  IN  IF fragments # {} THEN Max(fragments) + 1
      ELSE IF words # {} THEN Max(words) ELSE 0

Dots == <<".", ".", ".">>
MaxPiece == IF SplitLen < MinSplit THEN MinSplit ELSE SplitLen

\* Mutated form: the space after a fragment or a word is dropped.
SplitDropping(text) ==
  LET Pieces[from \in 1..(Len(text) + 1)] ==
        LET rest == SubSeq(text, from, Len(text))
            i == IndexFragment(SubSeq(rest, 1, MaxPiece))
            cut == IF i = 0 THEN MaxPiece ELSE i
        IN  IF Len(rest) <= MaxPiece THEN <<rest>>
            ELSE <<SubSeq(rest, 1, IF i = 0 THEN cut ELSE cut - 1) \o Dots>> \o Pieces[from + cut]
  IN  Pieces[1]

SplitMessage(text) ==
  LET Pieces[from \in 1..(Len(text) + 1)] ==
        LET rest == SubSeq(text, from, Len(text))
            i == IndexFragment(SubSeq(rest, 1, MaxPiece))
            cut == IF i = 0 THEN MaxPiece ELSE i
        IN  IF Len(rest) <= MaxPiece THEN <<rest>>
            ELSE <<SubSeq(rest, 1, cut) \o Dots>> \o Pieces[from + cut]
  IN  Pieces[1]

\* Privmsg, Notice, Ctcp and CtcpReply, and Raw for each line.
Wrapped(verb, piece) ==
  <<"ctl", verb>> \o (IF piece = <<>> THEN <<>> ELSE <<" ">> \o piece) \o <<"ctl">>
Lines(msg) ==
  LET pieces == SplitMessage(msg.text)
      cmd == IF msg.cmd \in {"CTCP", "PRIVMSG"} THEN "PRIVMSG" ELSE "NOTICE"
  IN  [i \in DOMAIN pieces |->
        [cmd |-> cmd,
         text |-> CutNewLines(IF msg.cmd \in {"CTCP", "CTCPREPLY"}
                              THEN Wrapped(msg.verb, pieces[i]) ELSE pieces[i])]]

\* ParseLine of such a line, whose target is left out of the arguments.  A CTCP
\* without an argument keeps the whole text in the argument's place.
ParseLine(line) ==
  LET text == line.text
      Inner == SubSeq(text, 2, Len(text) - 1)
      spaces == Positions(Inner, " ")
      arg == IF spaces = {} THEN text ELSE SubSeq(Inner, Min(spaces) + 1, Len(Inner))
      Verb == Inner[1]
  IN  IF Len(text) > 2 /\ text[1] = "ctl" /\ text[Len(text)] = "ctl"
      THEN IF line.cmd = "PRIVMSG" /\ Verb = "ACTION" THEN [cmd |-> "ACTION", args |-> <<arg>>]
           ELSE [cmd |-> IF line.cmd = "PRIVMSG" THEN "CTCP" ELSE "CTCPREPLY",
                 args |-> <<Verb, arg>>]
      ELSE [cmd |-> line.cmd, args |-> <<text>>]
=============================================================================
