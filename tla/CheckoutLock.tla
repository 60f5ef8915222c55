---------------------------- MODULE CheckoutLock ----------------------------
(***************************************************************************)
(* What the task pipeline promises about the one checkout of a project:    *)
(* the checkout is a lock.  A task takes it with its first change, and as  *)
(* long as the lock is taken no other task is implemented.  What passed    *)
(* the required checks is what is audited, and what was audited is what is *)
(* committed; the commit or the task itself gives the lock back.           *)
(*                                                                         *)
(* There are no queues, children, attempts, kills or restarts here.        *)
(***************************************************************************)
CONSTANTS
  Tasks,
  Trees,      \* the contents of the checkout; x.by is the task it belongs to
  Clean       \* the checkout without anybody's work

VARIABLES
  checkout,   \* what the checkout holds
  stage,      \* how far each task has come
  passed,     \* the tree of each task that passed its required checks last
  published   \* the tree committed for each task; Clean when there is none

lockVars == <<checkout, stage, passed, published>>

Stages == {"open", "checked", "approved", "committed", "completed"}

\* The lock is free, or the task has it.
Free(t) == checkout = Clean \/ checkout.by = t

Advance(t, from, to) ==
  /\ stage[t] = from
  /\ stage' = [stage EXCEPT ![t] = to]

\* An implementation, a part of one, or the way back to the clean checkout.
Implement(t) ==
  /\ stage[t] = "open"
  /\ Free(t)
  /\ checkout' \in Trees
  /\ checkout' = Clean \/ checkout'.by = t
  /\ UNCHANGED <<stage, passed, published>>

Check(t) ==
  /\ Advance(t, "open", "checked")
  /\ Free(t)
  /\ passed' = [passed EXCEPT ![t] = checkout]
  /\ UNCHANGED <<checkout, published>>

Reject(t) == Advance(t, "checked", "open") /\ UNCHANGED <<checkout, passed, published>>

Approve(t) ==
  /\ Advance(t, "checked", "approved")
  /\ checkout = passed[t]
  /\ UNCHANGED <<checkout, passed, published>>

Commit(t) ==
  /\ Advance(t, "approved", "committed")
  /\ checkout = passed[t] /\ checkout # Clean
  /\ published' = [published EXCEPT ![t] = checkout]
  /\ checkout' = Clean
  /\ UNCHANGED passed

Complete(t) ==
  /\ Advance(t, "committed", "completed")
  /\ UNCHANGED <<checkout, passed, published>>

Init ==
  /\ checkout = Clean
  /\ stage = [t \in Tasks |-> "open"]
  /\ passed = [t \in Tasks |-> Clean]
  /\ published = [t \in Tasks |-> Clean]

Next ==
  \E t \in Tasks :
    Implement(t) \/ Check(t) \/ Reject(t) \/ Approve(t) \/ Commit(t) \/ Complete(t)

Spec == Init /\ [][Next]_lockVars

=============================================================================
