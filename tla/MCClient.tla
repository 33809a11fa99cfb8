------------------------------ MODULE MCClient ------------------------------
(* Six scenarios for TLC: a talkative handler, the internal handlers of a *)
(* registration, handlers edited by main or by a handler, and a flood.    *)
EXTENDS Client

MCCharacters == {"x", ".", " ", "nl", "ctl", "", "VERSION", "ACTION", "PING"}

MCHome == [i001 |-> "int", iReg |-> "int", connected |-> "fg", talks |-> "fg", returns |-> "fg",
           panics |-> "fg", background |-> "bg", edits |-> "fg", floods |-> "fg", spare |-> "fg"]
MCEvent == [n \in Nodes |-> CASE n = "i001" -> "001" [] n = "iReg" -> "REGISTER"
                              [] n = "connected" -> "CONNECTED" [] OTHER -> "PRIVMSG"]

Message(c, v, t) == [cmd |-> c, verb |-> v, text |-> t]
Alphabet == {"x", ".", " ", "nl"}
Long == UNION {[1..k -> Alphabet] : k \in 0..3} \cup [1..5 -> {"x", ".", " "}]
Talk == {Message(c, "VERSION", <<"ctl", "x", "ctl">>) : c \in {"PRIVMSG", "NOTICE", "CTCP"}}
          \cup {Message(c, "VERSION", t) : c \in {"PRIVMSG", "CTCPREPLY"}, t \in Long}
          \cup {Message("CTCP", "ACTION", t) : t \in Long}
Short == {Message("PRIVMSG", "", <<"x">>)}
Flooding == {Message("CTCP", "PING", [i \in 1..15 |-> IF i \in gaps THEN " " ELSE "x"]) :
               gaps \in {{}, {2, 4, 6}}}

Say == [do |-> "say"]
MCBody == [i001 |-> [do |-> "dispatch", event |-> "CONNECTED"], iReg |-> Say,
           connected |-> Say, talks |-> Say, returns |-> [do |-> "return"],
           panics |-> [do |-> "panic"], background |-> Say, floods |-> Say,
           edits |-> [do |-> "remove", node |-> "panics"],
           spare |-> [do |-> "return"]]
MCMsgs == [n \in Nodes |-> CASE n = "talks" -> Talk [] n = "floods" -> Flooding [] OTHER -> Short]

Edit(what, n) == [do |-> what, node |-> n]
Scenario(first, main, flood, takes) ==
  [first |-> [l \in Lists |-> SelectSeq(first, LAMBDA n : ListOf(n) = l)], main |-> main, Flood |-> flood, takes |-> takes]
MCScenarios ==
  {Scenario(<<"talks">>, <<>>, TRUE, 1),
   Scenario(<<"i001", "iReg", "connected", "background">>,
            <<[do |-> "dispatch", event |-> "REGISTER"]>>, TRUE, 1),
   Scenario(<<"returns", "panics", "spare">>,
            <<Edit("remove", "panics"), Edit("remove", "returns"), Edit("add", "panics")>>, TRUE, 2),
   Scenario(<<"panics", "edits", "background">>, <<Edit("remove", "panics"), Edit("add", "spare")>>, TRUE, 2),
   Scenario(<<"i001", "connected">>, <<Edit("add", "iReg")>>, TRUE, 2),
   Scenario(<<"floods">>, <<>>, FALSE, 1)}
=============================================================================
