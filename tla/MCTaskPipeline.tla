--------------------------- MODULE MCTaskPipeline ---------------------------
(* Small instances of TaskPipeline for TLC. *)
EXTENDS TaskPipelineLock

CONSTANTS b1, b2, b3, main

MCBranches == {b1, b2, b3}

OwnBranch == [t \in Tasks |-> IF t = 1 THEN b1 ELSE IF t = 2 THEN b2 ELSE b3]

=============================================================================
