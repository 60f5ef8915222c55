-------------------------- MODULE TaskPipelineLock --------------------------
(***************************************************************************)
(* The pipeline implements CheckoutLock.  The checkout is the working tree *)
(* and the lock belongs to the task the tree is named after; a task counts *)
(* as checked while some later step still trusts the checkout for it.      *)
(***************************************************************************)
EXTENDS TaskPipeline

\* A passed implementation that waits for its audit, is being audited, or waits
\* for a higher review cap.
Waiting(t) ==
  \/ loc[t] = "pending_codex"
  \/ loc[t] = "active" /\ cur = t /\ pc \in {"c_audit", "c_verdict"}
  \/ loc[t] = "blocked" /\ log01C[t] = "exceeded" /\ log01B[t] = "pass"

LockStage(t) ==
  CASE Waiting(t)                              -> "checked"
    [] loc[t] = "approved" /\ ~Committed(t)    -> "approved"
    [] loc[t] = "approved" /\ Committed(t)     -> "committed"
    [] loc[t] = "completed" /\ Committed(t)    -> "completed"
    [] OTHER                                   -> "open"

LockPublished(t) == IF Committed(t) THEN commit[WorkBranch[t]].content ELSE Clean

Lock == INSTANCE CheckoutLock
          WITH checkout  <- tree,
               stage     <- [t \in Tasks |-> LockStage(t)],
               passed    <- checkedC,
               published <- [t \in Tasks |-> LockPublished(t)]

\* Without owner edits, and with a work branch for every task of its own, every
\* behaviour of the pipeline, with its kills, restarts and repairs, is one of the
\* checkout lock.
ImplementsLock == Lock!Spec

=============================================================================
