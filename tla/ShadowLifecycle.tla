--------------------------- MODULE ShadowLifecycle ---------------------------
(***************************************************************************)
(* universal_task_lifecycle.py, Slice 1: the snapshot of a task, its legal *)
(* transitions, the authority they need and the reconciliation of a shadow *)
(* with what is observed.                                                  *)
(*                                                                         *)
(* The functions are pure; the machine around them is the one the file is  *)
(* written for.  The task moves by apply_transition.  An observer reports  *)
(* its snapshot, late and possibly without its evidence; the holder of the *)
(* shadow calls reconcile and follows the decision ADVANCE_SHADOW, itself  *)
(* by apply_transition.                                                    *)
(***************************************************************************)
EXTENDS Integers

CONSTANTS
  Identities,  \* TaskIdentity values
  Grants,      \* authority of a snapshot or a layer: functions from a set of actions
  Supplies,    \* the sets of evidence kinds a caller supplies
  MaxVersion   \* bound: transitions of the task

States == {"pending", "review", "pending_codex", "approved", "blocked", "failed", "terminal"}

Actions == {"validate", "implement", "execute", "test", "audit", "fix", "terminate",
            "commit", "push", "publish", "pr", "merge"}

Outcomes == {"succeeded", "failed", "blocked", "cancelled", "superseded"}

Authorities == {"denied", "owner_only", "autonomous"}

Kinds == {"task_validated", "implementation", "required_checks", "stage_01c_pass",
          "stage_01c_failure", "terminal_outcome", "block_reason", "failure"}

ASSUME GrantsAssumption ==
  \A g \in Grants : DOMAIN g \subseteq Actions /\ \A a \in DOMAIN g : g[a] \in Authorities
ASSUME SuppliesAssumption == \A s \in Supplies : s \subseteq Kinds
ASSUME MaxVersionAssumption == MaxVersion \in Nat

VARIABLES
  observed,  \* the LifecycleSnapshot of the task
  report,    \* the snapshot an observer last passed on
  shadow,    \* the LifecycleSnapshot of the shadow
  layer      \* the authority layer in force beside that of the snapshots

vars == <<observed, report, shadow, layer>>

None == "none"

\* LifecycleSnapshot: an outcome if and only if the state is terminal.  Of the
\* evidence only the kinds count here.
Snapshots ==
  {s \in [identity: Identities, state: States, outcome: Outcomes \cup {None},
          authority: Grants, evidence: SUBSET Kinds, version: Nat] :
     s.state = "terminal" <=> s.outcome # None}

-----------------------------------------------------------------------------
(* Authority *)

Rank(a) == CASE a = "denied" -> 0 [] a = "owner_only" -> 1 [] a = "autonomous" -> 2

\* authority_for and intersect_authorities: the least one; what a layer does
\* not name is denied.
AuthorityFor(action, layers) ==
  LET values == {l[action] : l \in layers}
  IN IF layers = {} \/ \E l \in layers : action \notin DOMAIN l
     THEN "denied"
     ELSE CHOOSE a \in values : \A b \in values : Rank(a) <= Rank(b)

-----------------------------------------------------------------------------
(* Transitions *)

Live == {"pending", "review", "pending_codex", "approved"}

\* _LEGAL_TRANSITIONS and _transition_requirement
Edges ==
  { [from |-> "pending", to |-> "review",
     action |-> "validate", needs |-> {"task_validated"}],
    [from |-> "review", to |-> "pending_codex",
     action |-> "implement", needs |-> {"implementation", "required_checks"}],
    [from |-> "pending_codex", to |-> "approved",
     action |-> "audit", needs |-> {"stage_01c_pass"}],
    [from |-> "pending_codex", to |-> "review",
     action |-> "fix", needs |-> {"stage_01c_failure"}],
    [from |-> "approved", to |-> "terminal",
     action |-> "terminate", needs |-> {"terminal_outcome"}] }
  \cup [from: Live, to: {"blocked"}, action: {"terminate"}, needs: {{"block_reason"}}]
  \cup [from: Live, to: {"failed"}, action: {"terminate"}, needs: {{"failure"}}]

\* legal_transitions
Legal(from) == {e.to : e \in {x \in Edges : x.from = from}}

Edge(from, to) == CHOOSE e \in Edges : e.from = from /\ e.to = to

\* _STATE_EVIDENCE_REQUIREMENTS
StateNeeds(state) ==
  CASE state = "pending"       -> {}
    [] state = "review"        -> {"task_validated"}
    [] state = "pending_codex" -> {"task_validated", "implementation", "required_checks"}
    [] state = "approved"      -> {"task_validated", "implementation", "required_checks",
                                   "stage_01c_pass"}
    [] state = "blocked"       -> {"block_reason"}
    [] state = "failed"        -> {"failure"}
    [] state = "terminal"      -> {"task_validated", "implementation", "required_checks",
                                   "stage_01c_pass", "terminal_outcome"}

\* _missing_state_evidence is empty.
Supported(s) == StateNeeds(s.state) \subseteq s.evidence

\* evaluate_transition(...).allowed
Allowed(s, to, supplied, outcome, layers, expected) ==
  /\ expected = s.identity
  /\ Supported(s)
  /\ to \in Legal(s.state)
  /\ LET edge == Edge(s.state, to)
     IN /\ edge.needs \subseteq s.evidence \cup supplied
        /\ AuthorityFor(edge.action, {s.authority} \cup layers) = "autonomous"
  /\ to = "terminal" <=> outcome # None

\* Mutant: the evidence of earlier states is dropped.
Applied_Replaces(s, to, supplied, outcome) ==
  [s EXCEPT !.state = to, !.outcome = outcome, !.evidence = supplied, !.version = @ + 1]

\* apply_transition of an allowed transition: evidence accumulates.
Applied(s, to, supplied, outcome) ==
  [s EXCEPT !.state = to, !.outcome = outcome,
            !.evidence = @ \cup supplied, !.version = @ + 1]

-----------------------------------------------------------------------------
(* reconcile(shadow, observed, action, layers) *)

\* Mutant: only the shadow's own authority is asked.
GatedBy_OwnOnly(action, s, layers, decision) ==
  CASE AuthorityFor(action, {s.authority}) = "denied"     -> "block"
    [] AuthorityFor(action, {s.authority}) = "owner_only" -> "owner_action_required"
    [] AuthorityFor(action, {s.authority}) = "autonomous" -> decision

GatedBy(action, s, layers, decision) ==
  LET effective == AuthorityFor(action, {s.authority} \cup layers)
  IN CASE effective = "denied"     -> "block"
       [] effective = "owner_only" -> "owner_action_required"
       [] effective = "autonomous" -> decision

Agree(s, o) == s.state = o.state /\ s.outcome = o.outcome

\* One side is one legal edge ahead of the other and holds its evidence.
Across(edge, action, s, layers, evidence, decision) ==
  IF action # edge.action
  THEN "block"
  ELSE GatedBy(action, s, layers, IF edge.needs \subseteq evidence THEN decision ELSE "block")

Advance(s, o, action, layers) ==
  Across(Edge(s.state, o.state), action, s, layers, o.evidence, "advance_shadow")

\* Mutant: the evidence of the shadow's own edge is looked for on the other side.
Keep_TheirEvidence(s, o, action, layers) ==
  Across(Edge(o.state, s.state), action, s, layers, o.evidence, "keep_shadow")

Keep(s, o, action, layers) ==
  Across(Edge(o.state, s.state), action, s, layers, s.evidence, "keep_shadow")

Comparable(s, o) == s.identity = o.identity /\ Supported(s) /\ Supported(o)

Reconcile(s, o, action, layers) ==
  IF ~Comparable(s, o) THEN "block"
  ELSE IF Agree(s, o)
    THEN IF action = None THEN "no_action" ELSE GatedBy(action, s, layers, "no_action")
  ELSE IF o.state \in Legal(s.state) THEN Advance(s, o, action, layers)
  ELSE IF s.state \in Legal(o.state) THEN Keep(s, o, action, layers)
  ELSE "block"

-----------------------------------------------------------------------------
(* The machine *)

OutcomesFor(to) == IF to = "terminal" THEN Outcomes ELSE {None}

\* A caller moves the task.
Move(to, supplied, outcome) ==
  /\ observed.version < MaxVersion
  /\ Allowed(observed, to, supplied, outcome, {layer}, observed.identity)
  /\ observed' = Applied(observed, to, supplied, outcome)
  /\ UNCHANGED <<report, shadow, layer>>

\* The observer sees the state, with or without its evidence, and sometimes of
\* a task whose document or source revision is another one by now.
Observe(identity, evidence) ==
  /\ report' = [observed EXCEPT !.identity = identity, !.evidence = evidence]
  /\ UNCHANGED <<observed, shadow, layer>>

\* The holder of the shadow follows the decision.
Follow(action) ==
  /\ Reconcile(shadow, report, action, {layer}) = "advance_shadow"
  /\ shadow' = Applied(shadow, report.state, report.evidence, report.outcome)
  /\ UNCHANGED <<observed, report, layer>>

\* The policy in force changes.
SetLayer(g) ==
  /\ layer' = g
  /\ UNCHANGED <<observed, report, shadow>>

Init ==
  /\ \E identity \in Identities, own \in Grants :
       observed = [identity |-> identity, state |-> "pending", outcome |-> None,
                   authority |-> own, evidence |-> {}, version |-> 0]
  /\ report = observed
  /\ shadow = observed
  /\ layer \in Grants

Next ==
  \/ \E to \in States, supplied \in Supplies : \E outcome \in OutcomesFor(to) :
       Move(to, supplied, outcome)
  \/ \E identity \in Identities, evidence \in {observed.evidence, {}} :
       Observe(identity, evidence)
  \/ \E action \in Actions : Follow(action)
  \/ \E g \in Grants : SetLayer(g)

Spec == Init /\ [][Next]_vars

-----------------------------------------------------------------------------
(* Properties *)

TypeOK ==
  /\ observed \in Snapshots
  /\ report \in Snapshots
  /\ shadow \in Snapshots
  /\ layer \in Grants

\* Whatever evidence callers supply and in whatever order, the snapshots that
\* transitions produce hold the evidence their state needs, so the next call of
\* evaluate_transition or reconcile does not refuse them for it.
AlwaysSupported == Supported(observed) /\ Supported(shadow)

\* reconcile decides ADVANCE_SHADOW by rules of its own; whenever it does, the
\* transition it asks for is one evaluate_transition allows with the evidence
\* of the observation, under the same authority.
AdvanceIsAllowed ==
  \A action \in Actions :
    Reconcile(shadow, report, action, {layer}) = "advance_shadow" =>
      Allowed(shadow, report.state, report.evidence, report.outcome, {layer}, report.identity)

\* What one side calls an advance the other calls being ahead: if the shadow may
\* advance to the observation, then a holder of the observation with the same
\* authority keeps it.  The fix edge is the exception: review and pending_codex
\* are each one legal edge ahead of the other, and reconcile tries the advance first.
AdvanceMirrorsKeep ==
  \A action \in Actions :
    LET forth == Reconcile(shadow, report, action, {layer})
        back  == Reconcile([report EXCEPT !.authority = shadow.authority], shadow, action, {layer})
    IN {shadow.state, report.state} # {"review", "pending_codex"} =>
         (forth = "advance_shadow" <=> back = "keep_shadow")

=============================================================================
