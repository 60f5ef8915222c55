-------------------------- MODULE MCLifecycleStore --------------------------
(* Small instances of LifecycleStore for TLC. *)
EXTENDS LifecycleStore

MCTableOf == [x \in EntryKeys |-> IF x = "attempt" THEN "stage_evidence" ELSE "outbox"]
=============================================================================
