-------------------------- MODULE MCTelegramBridge --------------------------
(* A small instance of TelegramBridge for TLC: every constant is given in the cfg. *)
EXTENDS TelegramBridge
=============================================================================
