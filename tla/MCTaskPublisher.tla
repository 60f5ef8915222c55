---------------------------- MODULE MCTaskPublisher ----------------------------
(* A small instance of TaskPublisher for TLC: one task of an issue, one of the  *)
(* Telegram bridge.                                                              *)
EXTENDS TaskPublisher

MCSource == [t \in Tasks |-> IF t = "t1" THEN "issue" ELSE "telegram"]
=============================================================================
