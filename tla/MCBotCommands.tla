--------------------------- MODULE MCBotCommands ---------------------------
(* A small instance of BotCommands for TLC. *)
EXTENDS BotCommands
=============================================================================
