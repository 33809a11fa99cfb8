--------------------------- MODULE MCNickRecovery ---------------------------
(* A small instance of NickRecovery for TLC.                               *)
EXTENDS NickRecovery

MCNames == {"bot", "bot_", "bot__", "bot___"}
MCNewNick == [n \in MCNames |-> CASE n = "bot" -> "bot_" [] n = "bot_" -> "bot__"
                                  [] OTHER -> "bot___"]
MCGuests == {"bot__"}
=============================================================================
