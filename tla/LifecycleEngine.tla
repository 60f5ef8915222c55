--------------------------- MODULE LifecycleEngine ---------------------------
(***************************************************************************)
(* universal_task_lifecycle.py, the orchestration of its Slice 3, and the  *)
(* loop that drives it, control_loop_service.run_lifecycle_shadow: three   *)
(* adapters EXECUTE, TEST and AUDIT are called in turn; each must return   *)
(* evidence that repeats the binding it was asked about; a failed TEST or  *)
(* AUDIT is repaired while the budget lasts.                               *)
(*                                                                         *)
(* The adapters are supplied from outside: here they answer anything.      *)
(* Actions follow the code's early returns: one turn of the loop is one    *)
(* step, since nothing else reads or writes the snapshot.                  *)
(***************************************************************************)
EXTENDS Integers, Sequences, FiniteSets

CONSTANTS
  Lives,         \* values of what a repair may not change: task, scope, base,
                 \* policy version and evidence version
  Candidates,    \* candidate identities: a commit or a digest
  Attempts,      \* attempt numbers of the bindings
  Fingerprints,  \* failure fingerprints
  NoFailure,     \* the fingerprint of evidence that passed
  FixLimits,     \* the max_fix_attempts of the budgets
  RepeatLimits,  \* the max_repeated_failures of the budgets
  Before         \* bound: the repeated_failures a budget may come with

ASSUME FixLimitsAssumption == FixLimits \subseteq Nat
ASSUME RepeatLimitsAssumption == RepeatLimits \subseteq Nat
ASSUME BeforeAssumption == Before \subseteq Nat
ASSUME AttemptsAssumption == Attempts \subseteq Nat \ {0}
ASSUME NoFailureAssumption == NoFailure \notin Fingerprints

VARIABLES
  binding,   \* StageBinding of the snapshot
  state,     \* OrchestrationState
  budget,    \* FixLoopBudget
  evidence,  \* the accepted StageEvidence, oldest first
  calls,     \* stage_calls
  ended      \* why the loop stopped, as far as the reason tells

snapshot == <<binding, state, budget, evidence>>
vars == <<snapshot, calls, ended>>

-----------------------------------------------------------------------------
Stages   == {"execute", "test", "audit"}
Terminal == {"approved", "failed"}
States   == Stages \cup {"fix_loop"} \cup Terminal

Bindings == [life: Lives, candidate: Candidates, attempt: Attempts]

Budgets == [max: FixLimits, maxRepeated: RepeatLimits, fixes: Nat, repeated: Nat,
            last: Fingerprints \cup {NoFailure}]

\* StageEvidence with a content hash of the given set.
Evidence(hashes) ==
  {e \in [stage: Stages, passed: BOOLEAN, binding: Bindings, sha: hashes,
          failure: Fingerprints \cup {NoFailure}] : e.passed <=> e.failure = NoFailure}

\* What an adapter may return.  A hash stands for the position at which it
\* first occurs, so the length of the evidence is a hash not seen before.
Replies == Evidence(0..Len(evidence))

\* Mutant: the candidate does not take part in the comparison.
SameBinding_NoCandidate(a, b) == a.life = b.life /\ a.attempt = b.attempt

\* The generated equality of the frozen dataclass StageBinding.
SameBinding(a, b) == a = b

\* Mutant: a repair may come back for another task, scope, base or policy.
SameLifecycle_Any(a, b) == a.attempt <= b.attempt + 1

\* _same_lifecycle
SameLifecycle(a, b) == a.life = b.life

-----------------------------------------------------------------------------
(* classify_retry and decide_retry *)

ClassifyRetry(kind) ==
  CASE kind \in {"transient_infrastructure", "timeout"} -> "transient"
    [] kind \in {"audit_rejected", "check_failed"}      -> "fix_loop"
    [] kind \in {"authority_denied", "owner_gate"}      -> "owner_action_required"
    [] OTHER                                            -> "never"

Repeated(b, failure) == IF failure = b.last THEN b.repeated + 1 ELSE 1

Fixes(kind, b) == b.fixes + (IF ClassifyRetry(kind) = "fix_loop" THEN 1 ELSE 0)

\* Mutant: a repair is not counted.
NextBudget_NotCounted(kind, b, failure) ==
  [b EXCEPT !.repeated = Repeated(b, failure), !.last = failure]

\* The exhausted budget stays at its maximum.
NextBudget(kind, b, failure) ==
  [b EXCEPT !.fixes = IF Fixes(kind, b) <= b.max THEN Fixes(kind, b) ELSE b.max,
            !.repeated = Repeated(b, failure),
            !.last = failure]

\* Mutant: one repetition more than the limit.
ShouldRetry_OneMore(kind, b, failure) ==
  Repeated(b, failure) <= b.maxRepeated /\ Fixes(kind, b) <= b.max

ShouldRetry(kind, b, failure) ==
  /\ ClassifyRetry(kind) \in {"transient", "fix_loop"}
  /\ Repeated(b, failure) < b.maxRepeated
  /\ ClassifyRetry(kind) = "fix_loop" => Fixes(kind, b) <= b.max

-----------------------------------------------------------------------------
(* validate_stage_evidence: what the snapshot accepts *)

ExpectedStage == IF state = "fix_loop" THEN "execute" ELSE state

MatchingPass(stage, b) ==
  \E i \in DOMAIN evidence :
    /\ evidence[i].stage = stage /\ evidence[i].passed
    /\ SameBinding(evidence[i].binding, b)

Replayed(e) == \E i \in DOMAIN evidence : evidence[i].sha = e.sha

Acceptable(e) ==
  /\ e.stage = ExpectedStage
  /\ IF state = "fix_loop"
     THEN /\ SameLifecycle(e.binding, binding)
          /\ e.binding.attempt = binding.attempt + 1
     ELSE SameBinding(e.binding, binding)
  /\ ~Replayed(e)
  /\ e.stage = "test"  => MatchingPass("execute", e.binding)
  /\ e.stage = "audit" => MatchingPass("test", e.binding)

-----------------------------------------------------------------------------
(* One turn of the loop of run_lifecycle_shadow *)

MaximumStageCalls == 3 * (budget.max + 1)

\* fail_orchestration
Fail(why) == state' = "failed" /\ ended' = why /\ UNCHANGED <<binding, budget, evidence>>

Call ==
  /\ state \notin Terminal
  /\ calls < MaximumStageCalls
  /\ calls' = calls + 1

\* The bound is exceeded; or the adapter raises or returns what is no evidence.
GiveUp ==
  /\ state \notin Terminal
  /\ calls' = calls + 1
  /\ Fail(IF calls < MaximumStageCalls THEN "adapter" ELSE "bound")

Refuse(e) == Call /\ ~Acceptable(e) /\ Fail("adapter")

Collect(e) == evidence' = Append(evidence, e) /\ ended' = ended

\* EXECUTE adopts the binding of its evidence: a repair has a new candidate.
Executed(e) ==
  /\ Call /\ e.stage = "execute" /\ Acceptable(e)
  /\ Collect(e)
  /\ binding' = e.binding
  /\ state' = IF e.passed THEN "test" ELSE "failed"
  /\ UNCHANGED budget

Passed(e) ==
  /\ Call /\ e.stage # "execute" /\ e.passed /\ Acceptable(e)
  /\ Collect(e)
  /\ state' = IF e.stage = "test" THEN "audit" ELSE "approved"
  /\ UNCHANGED <<binding, budget>>

FailureKind(stage) == IF stage = "test" THEN "check_failed" ELSE "audit_rejected"

\* Mutant: a rejected candidate is tested again without a repair.
Failed_TestsAgain(e) ==
  /\ Call /\ e.stage # "execute" /\ ~e.passed /\ Acceptable(e)
  /\ Collect(e)
  /\ state' = IF ShouldRetry(FailureKind(e.stage), budget, e.failure) THEN "test" ELSE "failed"
  /\ budget' = NextBudget(FailureKind(e.stage), budget, e.failure)
  /\ UNCHANGED binding

Failed(e) ==
  /\ Call /\ e.stage # "execute" /\ ~e.passed /\ Acceptable(e)
  /\ Collect(e)
  /\ state' = IF ShouldRetry(FailureKind(e.stage), budget, e.failure) THEN "fix_loop" ELSE "failed"
  /\ budget' = NextBudget(FailureKind(e.stage), budget, e.failure)
  /\ UNCHANGED binding

-----------------------------------------------------------------------------
\* start_orchestration: a binding of any attempt, a budget that may be partly used.
Init ==
  /\ binding \in Bindings
  /\ \E max \in FixLimits, maxRepeated \in RepeatLimits, repeated \in Before,
        last \in Fingerprints \cup {NoFailure} : \E fixes \in 0..max :
       budget = [max |-> max, maxRepeated |-> maxRepeated, fixes |-> fixes,
                 repeated |-> repeated, last |-> last]
  /\ state = "execute"
  /\ evidence = <<>>
  /\ calls = 0
  /\ ended = "no"

Answer(e) == Refuse(e) \/ Executed(e) \/ Passed(e) \/ Failed(e)

Next == GiveUp \/ \E e \in Replies : Answer(e)

Spec == Init /\ [][Next]_vars

-----------------------------------------------------------------------------
(* Properties *)

TypeOK ==
  /\ binding \in Bindings
  /\ state \in States
  /\ budget \in Budgets /\ budget.fixes <= budget.max
  /\ evidence \in Seq(Evidence(Nat))
  /\ calls \in Nat
  /\ ended \in {"no", "adapter", "bound"}

\* The budget alone ends the loop: whatever the adapters answer, the bound
\* "finite orchestration bound reached" of run_lifecycle_shadow is never what
\* stops it, because every repair has used up budget before EXECUTE runs again.
BoundNeverReached == ended # "bound"

\* An approved snapshot holds EXECUTE, TEST and AUDIT evidence that passed for
\* exactly its binding, and none that failed for it, however many repairs came
\* before: a rejected candidate comes back only as a new attempt (apply_stage_evidence).
ApprovedWasChecked ==
  state = "approved" =>
    /\ \A s \in Stages : \E i \in DOMAIN evidence :
         evidence[i].stage = s /\ evidence[i].passed /\ evidence[i].binding = binding
    /\ \A i \in DOMAIN evidence : evidence[i].binding = binding => evidence[i].passed

\* The evidence of one attempt is about one candidate, and the evidence of all
\* attempts about one task, scope, base and policy: a stage never mixes in the
\* answer for another candidate or another lifecycle (validate_stage_evidence).
OneCandidatePerAttempt ==
  \A i, j \in DOMAIN evidence :
    LET a == evidence[i].binding
        b == evidence[j].binding
    IN a.life = b.life /\ (a.attempt = b.attempt => a = b)

FailuresSince(k) == {j \in DOMAIN evidence : j >= k /\ ~evidence[j].passed}

\* A repair starts only while the latest failures, as far back as they are all the
\* same one, are fewer than maxRepeated, whatever passed in between (the
\* repeated-failure limit of decide_retry).
RepeatedFailureStops ==
  state = "fix_loop" =>
    \A k \in DOMAIN evidence :
      (\A i, j \in FailuresSince(k) : evidence[i].failure = evidence[j].failure)
        => Cardinality(FailuresSince(k)) < budget.maxRepeated

=============================================================================
