---------------------------- MODULE MCBotSession ----------------------------
(* Small instances of BotSession for TLC.                                  *)
EXTENDS BotSession
=============================================================================
