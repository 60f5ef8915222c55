------------------------ MODULE ShadowLifecycleProofs ------------------------
(***************************************************************************)
(* Proofs about ShadowLifecycle, for any identities, grants and evidence   *)
(* that callers supply.  The table of legal transitions is finite; what is *)
(* proved of it edge by edge is that the evidence an edge needs completes  *)
(* that of the state it leaves, and that reconcile, which asks in its own  *)
(* order, agrees with evaluate_transition on every snapshot there can be.  *)
(***************************************************************************)
EXTENDS ShadowLifecycle, TLAPS

-----------------------------------------------------------------------------
(* The table of transitions *)

\* What an edge is made of: it leaves a live state, for another one, with evidence.
LEMMA EdgeTypes ==
  \A e \in Edges : /\ e.from \in Live /\ e.to \in States /\ e.from # e.to
                   /\ e.action \in Actions /\ e.needs \subseteq Kinds
BY DEF Edges, Live, States, Actions, Kinds

\* What a state needs is what the state before needs, and what the edge adds
\* (_STATE_EVIDENCE_REQUIREMENTS against _transition_requirement).
LEMMA EdgesComplete == \A e \in Edges : StateNeeds(e.to) \subseteq StateNeeds(e.from) \cup e.needs
<1> SUFFICES ASSUME NEW e \in Edges
             PROVE  StateNeeds(e.to) \subseteq StateNeeds(e.from) \cup e.needs
  OBVIOUS
<1>1. CASE e.to = "blocked"
  BY <1>1 DEF Edges, StateNeeds, Live
<1>2. CASE e.to = "failed"
  BY <1>2 DEF Edges, StateNeeds, Live
<1>3. CASE e.to \notin {"blocked", "failed"}
  BY <1>3 DEF Edges, StateNeeds
<1> QED
  BY <1>1, <1>2, <1>3

\* Only review and pending_codex are one edge ahead of each other.
LEMMA EdgesOneWay ==
  \A d, e \in Edges : d.from = e.to /\ d.to = e.from => {d.from, d.to} = {"review", "pending_codex"}
BY DEF Edges, Live

\* The edge of a legal transition is in the table.
LEMMA EdgeOfLegal ==
  ASSUME NEW from, NEW to \in Legal(from)
  PROVE  Edge(from, to) \in Edges /\ Edge(from, to).from = from /\ Edge(from, to).to = to
<1>1. \E e \in Edges : e.from = from /\ e.to = to
  BY DEF Legal
<1> QED
  BY <1>1 DEF Edge

-----------------------------------------------------------------------------
(* Authority *)

\* Two grants give one of the three values: reconcile decides every case.
LEMMA AuthorityIsKnown ==
  ASSUME NEW g \in Grants, NEW h \in Grants, NEW action
  PROVE  AuthorityFor(action, {g, h}) \in Authorities
<1>1. CASE action \notin DOMAIN g \/ action \notin DOMAIN h
  BY <1>1 DEF AuthorityFor, Authorities
<1>2. CASE action \in DOMAIN g /\ action \in DOMAIN h
  <2>1. g[action] \in Authorities /\ h[action] \in Authorities
    BY <1>2, GrantsAssumption
  <2>2. {l[action] : l \in {g, h}} = {g[action], h[action]}
    OBVIOUS
  <2>3. \E a \in {g[action], h[action]} : \A b \in {g[action], h[action]} : Rank(a) <= Rank(b)
    BY <2>1 DEF Authorities, Rank
  <2>4. AuthorityFor(action, {g, h}) =
          CHOOSE a \in {g[action], h[action]} :
            \A b \in {g[action], h[action]} : Rank(a) <= Rank(b)
    BY <1>2, <2>2 DEF AuthorityFor
  <2> QED
    BY <2>1, <2>3, <2>4
<1> QED
  BY <1>1, <1>2

-----------------------------------------------------------------------------
(* reconcile *)

\* The authority of a decision about s under one layer.
Effective(s, action, layers) == AuthorityFor(action, {s.authority} \cup layers)

OneLayer(layers) == \E h \in Grants : layers = {h}

\* It is one of the three, so that every case of a decision is covered.
LEMMA EffectiveIsKnown ==
  ASSUME NEW s, s.authority \in Grants, NEW action, NEW layers, OneLayer(layers)
  PROVE  Effective(s, action, layers) \in Authorities
<1>1. PICK h \in Grants : layers = {h}
  BY DEF OneLayer
<1>2. {s.authority} \cup layers = {s.authority, h}
  BY <1>1
<1>3. AuthorityFor(action, {s.authority, h}) \in Authorities
  BY AuthorityIsKnown
<1> QED
  BY <1>2, <1>3 DEF Effective

\* A decision across an edge is taken when its action is asked for, its evidence is
\* there, and the authority is autonomous.
LEMMA AcrossFacts ==
  ASSUME NEW edge, NEW action, NEW s, s.authority \in Grants, NEW layers, OneLayer(layers),
         NEW evidence, NEW decision \in {"advance_shadow", "keep_shadow"},
         NEW result \in {"advance_shadow", "keep_shadow"}
  PROVE  Across(edge, action, s, layers, evidence, decision) = result <=>
           /\ result = decision
           /\ action = edge.action /\ edge.needs \subseteq evidence
           /\ Effective(s, action, layers) = "autonomous"
BY EffectiveIsKnown DEF Across, GatedBy, Authorities, Effective

\* Two snapshots that agree are neither advanced nor kept.
LEMMA AgreedFacts ==
  ASSUME NEW s, NEW action, s.authority \in Grants, NEW layers, OneLayer(layers)
  PROVE  GatedBy(action, s, layers, "no_action") \notin {"advance_shadow", "keep_shadow"}
BY EffectiveIsKnown DEF GatedBy, Authorities, Effective

\* When a holder of s that looks at o is told to advance.
LEMMA AdvanceFacts ==
  ASSUME NEW s, NEW o, NEW action, s.authority \in Grants, NEW layers, OneLayer(layers)
  PROVE  Reconcile(s, o, action, layers) = "advance_shadow" <=>
           /\ Comparable(s, o) /\ ~Agree(s, o)
           /\ o.state \in Legal(s.state)
           /\ action = Edge(s.state, o.state).action
           /\ Edge(s.state, o.state).needs \subseteq o.evidence
           /\ Effective(s, action, layers) = "autonomous"
<1>1. Advance(s, o, action, layers) = "advance_shadow" <=>
        /\ action = Edge(s.state, o.state).action
        /\ Edge(s.state, o.state).needs \subseteq o.evidence
        /\ Effective(s, action, layers) = "autonomous"
  BY AcrossFacts DEF Advance
<1>2. Keep(s, o, action, layers) # "advance_shadow"
  BY AcrossFacts DEF Keep
<1> QED
  BY <1>1, <1>2, AgreedFacts DEF Reconcile

\* When it is told to keep what it has.
LEMMA KeepFacts ==
  ASSUME NEW s, NEW o, NEW action, s.authority \in Grants, NEW layers, OneLayer(layers)
  PROVE  Reconcile(s, o, action, layers) = "keep_shadow" <=>
           /\ Comparable(s, o) /\ ~Agree(s, o)
           /\ o.state \notin Legal(s.state) /\ s.state \in Legal(o.state)
           /\ action = Edge(o.state, s.state).action
           /\ Edge(o.state, s.state).needs \subseteq s.evidence
           /\ Effective(s, action, layers) = "autonomous"
<1>1. Keep(s, o, action, layers) = "keep_shadow" <=>
        /\ action = Edge(o.state, s.state).action
        /\ Edge(o.state, s.state).needs \subseteq s.evidence
        /\ Effective(s, action, layers) = "autonomous"
  BY AcrossFacts DEF Keep
<1>2. Advance(s, o, action, layers) # "keep_shadow"
  BY AcrossFacts DEF Advance
<1> QED
  BY <1>1, <1>2, AgreedFacts DEF Reconcile

\* reconcile and evaluate_transition agree about an advance, whatever the snapshots are.
LEMMA AdvancesAllowed == TypeOK => AdvanceIsAllowed
<1> DEFINE layers == {layer}
<1> SUFFICES ASSUME TypeOK, NEW action \in Actions,
                    Reconcile(shadow, report, action, layers) = "advance_shadow"
             PROVE  Allowed(shadow, report.state, report.evidence, report.outcome, layers,
                            report.identity)
  BY DEF AdvanceIsAllowed
<1>1. shadow.authority \in Grants /\ OneLayer(layers)
  BY DEF TypeOK, Snapshots, OneLayer
<1>2. report.state = "terminal" <=> report.outcome # None
  BY DEF TypeOK, Snapshots
<1> HIDE DEF layers
<1>3. /\ Comparable(shadow, report) /\ report.state \in Legal(shadow.state)
      /\ action = Edge(shadow.state, report.state).action
      /\ Edge(shadow.state, report.state).needs \subseteq report.evidence
      /\ Effective(shadow, action, layers) = "autonomous"
  BY <1>1, AdvanceFacts
<1> QED
  BY <1>2, <1>3 DEF Allowed, Comparable, Effective

\* Where the edge goes one way only, an advance on one side is a keep on the other.
LEMMA AdvancesMirrored == TypeOK => AdvanceMirrorsKeep
<1> DEFINE layers == {layer}
           r == [report EXCEPT !.authority = shadow.authority]
<1> SUFFICES ASSUME TypeOK, NEW action \in Actions,
                    {shadow.state, report.state} # {"review", "pending_codex"}
             PROVE  Reconcile(shadow, report, action, layers) = "advance_shadow" <=>
                    Reconcile(r, shadow, action, layers) = "keep_shadow"
  BY DEF AdvanceMirrorsKeep
<1>1. /\ shadow.authority \in Grants /\ OneLayer(layers) /\ r.authority = shadow.authority
      /\ r.state = report.state /\ r.outcome = report.outcome /\ r.identity = report.identity
      /\ r.evidence = report.evidence
  BY DEF TypeOK, Snapshots, OneLayer
<1> HIDE DEF r, layers
<1>2. (Comparable(shadow, report) <=> Comparable(r, shadow))
      /\ (Agree(shadow, report) <=> Agree(r, shadow))
  BY <1>1 DEF Comparable, Agree, Supported
<1>3. report.state \in Legal(shadow.state) => shadow.state \notin Legal(report.state)
  BY EdgesOneWay DEF Legal
<1>4. Effective(r, action, layers) = Effective(shadow, action, layers)
  BY <1>1 DEF Effective
<1>5. Reconcile(r, shadow, action, layers) = "keep_shadow" <=>
        /\ Comparable(r, shadow) /\ ~Agree(r, shadow)
        /\ shadow.state \notin Legal(r.state) /\ r.state \in Legal(shadow.state)
        /\ action = Edge(shadow.state, r.state).action
        /\ Edge(shadow.state, r.state).needs \subseteq r.evidence
        /\ Effective(r, action, layers) = "autonomous"
  BY <1>1, KeepFacts
<1>6. Reconcile(shadow, report, action, layers) = "advance_shadow" <=>
        /\ Comparable(shadow, report) /\ ~Agree(shadow, report)
        /\ report.state \in Legal(shadow.state)
        /\ action = Edge(shadow.state, report.state).action
        /\ Edge(shadow.state, report.state).needs \subseteq report.evidence
        /\ Effective(shadow, action, layers) = "autonomous"
  BY <1>1, AdvanceFacts
<1> QED
  BY <1>1, <1>2, <1>3, <1>4, <1>5, <1>6

-----------------------------------------------------------------------------
(* The machine *)

IInv == TypeOK /\ AlwaysSupported

\* A transition with the evidence its edge needs gives a snapshot that supports its state.
LEMMA AppliedFacts ==
  ASSUME NEW s \in Snapshots, Supported(s), NEW to \in Legal(s.state),
         NEW supplied \in SUBSET Kinds, NEW outcome \in Outcomes \cup {None},
         to = "terminal" <=> outcome # None,
         Edge(s.state, to).needs \subseteq s.evidence \cup supplied
  PROVE  Applied(s, to, supplied, outcome) \in Snapshots /\ Supported(Applied(s, to, supplied, outcome))
<1> DEFINE a == Applied(s, to, supplied, outcome)
<1>1. s \in [identity: Identities, state: States, outcome: Outcomes \cup {None},
            authority: Grants, evidence: SUBSET Kinds, version: Nat]
  BY DEF Snapshots
<1>2. Edge(s.state, to) \in Edges /\ Edge(s.state, to).from = s.state /\ Edge(s.state, to).to = to
  BY EdgeOfLegal
<1>3. to \in States /\ s.evidence \cup supplied \in SUBSET Kinds /\ s.version + 1 \in Nat
  BY <1>1, <1>2, EdgeTypes
<1>4. a.state = to /\ a.outcome = outcome /\ a.evidence = s.evidence \cup supplied
  BY <1>1 DEF Applied
<1>5. a \in [identity: Identities, state: States, outcome: Outcomes \cup {None},
             authority: Grants, evidence: SUBSET Kinds, version: Nat]
  BY <1>1, <1>3 DEF Applied
<1>6. StateNeeds(to) \subseteq StateNeeds(s.state) \cup Edge(s.state, to).needs
  BY <1>2, EdgesComplete
<1>7. Supported(a)
  BY <1>4, <1>6 DEF Supported
<1> QED
  BY <1>4, <1>7, <1>5 DEF Snapshots

\* A task and its shadow begin in pending, which needs nothing (LifecycleSnapshot).
LEMMA InitIInv == Init => IInv
<1> SUFFICES ASSUME Init PROVE IInv
  OBVIOUS
<1>1. PICK identity \in Identities, own \in Grants :
        observed = [identity |-> identity, state |-> "pending", outcome |-> None,
                    authority |-> own, evidence |-> {}, version |-> 0]
  BY DEF Init
<1>2. observed \in Snapshots /\ Supported(observed)
  BY <1>1 DEF Snapshots, States, None, Supported, StateNeeds
<1> QED
  BY <1>2 DEF Init, IInv, TypeOK, AlwaysSupported

\* A caller's move, the observer's report, the shadow's advance and a new policy.
LEMMA StepIInv == IInv /\ [Next]_vars => IInv'
<1> SUFFICES ASSUME IInv, [Next]_vars PROVE IInv'
  OBVIOUS
<1> USE DEF IInv, TypeOK, AlwaysSupported
<1>1. ASSUME NEW to \in States, NEW supplied \in Supplies, NEW outcome \in OutcomesFor(to),
             Move(to, supplied, outcome)
      PROVE  IInv'
  <2>1. /\ to \in Legal(observed.state) /\ (to = "terminal" <=> outcome # None)
        /\ Edge(observed.state, to).needs \subseteq observed.evidence \cup supplied
    BY <1>1 DEF Move, Allowed
  <2>2. supplied \in SUBSET Kinds /\ outcome \in Outcomes \cup {None}
    BY SuppliesAssumption DEF OutcomesFor
  <2>3. observed' \in Snapshots /\ Supported(observed')
    BY <1>1, <2>1, <2>2, AppliedFacts DEF Move
  <2> QED
    BY <1>1, <2>3 DEF Move
<1>2. ASSUME NEW identity \in Identities, NEW evidence \in {observed.evidence, {}},
             Observe(identity, evidence)
      PROVE  IInv'
  <2>1. report' \in Snapshots
    BY <1>2 DEF Observe, Snapshots
  <2> QED
    BY <1>2, <2>1 DEF Observe
<1>3. ASSUME NEW action \in Actions, Follow(action) PROVE IInv'
  <2>1. shadow.authority \in Grants /\ OneLayer({layer})
    BY DEF Snapshots, OneLayer
  <2>2. /\ report.state \in Legal(shadow.state)
        /\ Edge(shadow.state, report.state).needs \subseteq report.evidence
    BY <1>3, <2>1, AdvanceFacts DEF Follow
  <2>3. /\ report.evidence \in SUBSET Kinds /\ report.outcome \in Outcomes \cup {None}
        /\ report.state = "terminal" <=> report.outcome # None
    BY DEF Snapshots
  <2>4. shadow' \in Snapshots /\ Supported(shadow')
    BY <1>3, <2>2, <2>3, AppliedFacts DEF Follow
  <2> QED
    BY <1>3, <2>4 DEF Follow
<1>4. ASSUME NEW g \in Grants, SetLayer(g) PROVE IInv'
  BY <1>4 DEF SetLayer
<1>5. CASE UNCHANGED vars
  BY <1>5 DEF vars
<1> QED
  BY <1>1, <1>2, <1>3, <1>4, <1>5 DEF Next

LEMMA InvariantIInv == Spec => []IInv
BY InitIInv, StepIInv, PTL DEF Spec

\* The task, its reports and its shadow are snapshots: terminal if and only if they have
\* an outcome.
THEOREM TypeCorrect == Spec => []TypeOK
<1>1. IInv => TypeOK
  BY DEF IInv
<1> QED
  BY InvariantIInv, <1>1, PTL

\* No transition leads to a snapshot that the next call refuses for missing evidence
\* (_missing_state_evidence), for the task as for a shadow that follows it late.
THEOREM SnapshotsSupported == Spec => []AlwaysSupported
<1>1. IInv => AlwaysSupported
  BY DEF IInv
<1> QED
  BY InvariantIInv, <1>1, PTL

\* Every advance that reconcile decides is a transition that evaluate_transition allows.
THEOREM AdvancesAreAllowed == Spec => []AdvanceIsAllowed
<1>1. IInv => AdvanceIsAllowed
  BY AdvancesAllowed DEF IInv
<1> QED
  BY InvariantIInv, <1>1, PTL

\* Advance and keep are two views of one edge, except for the fix edge (reconcile).
THEOREM AdvanceIsKeepReversed == Spec => []AdvanceMirrorsKeep
<1>1. IInv => AdvanceMirrorsKeep
  BY AdvancesMirrored DEF IInv
<1> QED
  BY InvariantIInv, <1>1, PTL

=============================================================================
