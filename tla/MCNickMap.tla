---------------------------- MODULE MCNickMap ----------------------------
(* Small instances of NickMap for TLC.  A lower-case name is its own fold.  *)
EXTENDS NickMap, TLC

\* Two owners, one of whom types the nick in two ways.
TwoSpellings == {"al", "AL", "bob"}
\* Owners who always type their nick the same way.
OneSpelling == {"al", "bob"}

FoldNicks == ("al" :> "al") @@ ("AL" :> "al") @@ ("bob" :> "bob")
FoldOneSpelling == [n \in OneSpelling |-> n]
NickKeys == {"al", "bob"}

MCUsers == {"", "rj", "RJ"}
MCUserKeys == {"", "rj"}
FoldUsers == ("" :> "") @@ ("rj" :> "rj") @@ ("RJ" :> "rj")

TwoUsers == {"", "rj"}
FoldTwoUsers == [u \in TwoUsers |-> u]

File(nicksOf) == [u \in Users |-> IF u \in DOMAIN nicksOf THEN nicksOf[u] ELSE {}]

\* A file with one association and one with an ignored nick as well.
Edits == {File("rj" :> {"al"}), File(("rj" :> {"bob"}) @@ ("" :> {"al"}))}
=============================================================================
