------------------------- MODULE MCShadowLifecycle -------------------------
(* A small instance of ShadowLifecycle for TLC. *)
EXTENDS ShadowLifecycle

Edged == {"validate", "implement", "audit", "fix", "terminate"}

Full        == [a \in Edged |-> "autonomous"]
OwnerOnly   == [a \in Edged |-> IF a = "terminate" THEN "owner_only" ELSE "autonomous"]
NothingElse == [a \in {"validate", "implement"} |-> "autonomous"]

MCGrants == {Full, OwnerOnly, NothingElse}

\* What one edge needs, nothing, or evidence that comes before its time.
MCSupplies == {e.needs : e \in Edges} \cup {{}}
=============================================================================
