------------------------ MODULE LifecycleEngineProofs ------------------------
(***************************************************************************)
(* Proofs about LifecycleEngine, for any bindings, fingerprints and        *)
(* budgets, and for evidence of any length.  The invariant counts the      *)
(* calls against the budget and relates the evidence to the binding, and   *)
(* the failures of the evidence to the two numbers that the budget keeps   *)
(* of them.                                                                *)
(***************************************************************************)
EXTENDS LifecycleEngine, FiniteSetTheorems, TLAPS

\* Each repair is worth three calls: EXECUTE, TEST and AUDIT.
CallsPaid ==
  /\ state = "execute"  => calls = 0
  /\ state = "test"     => calls <= 3 * budget.fixes + 1
  /\ state = "audit"    => calls <= 3 * budget.fixes + 2
  /\ state = "fix_loop" => calls <= 3 * budget.fixes

\* The evidence is about the lifecycle of the binding, and that of its attempt about
\* its candidate; no evidence is ahead of it.
AboutBinding ==
  \A i \in DOMAIN evidence :
    /\ evidence[i].binding.life = binding.life
    /\ evidence[i].binding.attempt <= binding.attempt
    /\ evidence[i].binding.attempt = binding.attempt => evidence[i].binding = binding

\* What was passed on the way to the state, and that nothing was failed for the binding.
PassedFor(stage) == \E i \in DOMAIN evidence :
  evidence[i].stage = stage /\ evidence[i].passed /\ evidence[i].binding = binding

NotRejected == \A i \in DOMAIN evidence : evidence[i].binding = binding => evidence[i].passed

OnTheWay ==
  /\ state = "execute" => evidence = <<>>
  /\ state \in {"test", "audit", "approved"} => PassedFor("execute") /\ NotRejected
  /\ state \in {"audit", "approved"} => PassedFor("test")
  /\ state = "approved" => PassedFor("audit")

\* The budget remembers the failure that came last and, at least, how many of the
\* latest failures were that one; a repair has room for one more.
BudgetRemembers ==
  state \notin Terminal =>
    /\ \A k \in DOMAIN evidence : FailuresSince(k) # {} =>
         \E j \in FailuresSince(k) : evidence[j].failure = budget.last
    /\ \A k \in DOMAIN evidence :
         (\A j \in FailuresSince(k) : evidence[j].failure = budget.last)
           => Cardinality(FailuresSince(k)) <= budget.repeated
    /\ state = "fix_loop" => budget.repeated < budget.maxRepeated

IInv ==
  /\ TypeOK
  /\ CallsPaid /\ BoundNeverReached
  /\ AboutBinding /\ OneCandidatePerAttempt
  /\ OnTheWay
  /\ BudgetRemembers

-----------------------------------------------------------------------------
LEMMA InitIInv == Init => IInv
<1> SUFFICES ASSUME Init PROVE IInv
  OBVIOUS
<1>1. evidence = <<>> /\ DOMAIN evidence = {}
  BY DEF Init
<1>2. TypeOK
  BY FixLimitsAssumption, RepeatLimitsAssumption, BeforeAssumption DEF Init, TypeOK, Budgets, States, Stages
<1>3. CallsPaid /\ BoundNeverReached
  BY DEF Init, CallsPaid, BoundNeverReached
<1>4. AboutBinding /\ OneCandidatePerAttempt
  BY <1>1 DEF AboutBinding, OneCandidatePerAttempt
<1>5. OnTheWay
  BY DEF Init, OnTheWay
<1>6. BudgetRemembers
  BY <1>1 DEF Init, BudgetRemembers
<1> QED BY <1>2, <1>3, <1>4, <1>5, <1>6 DEF IInv

\* The budget is never beyond its limits, and a repair is begun only where it has
\* room for one more.
LEMMA BudgetFacts ==
  ASSUME IInv, NEW stage \in {"test", "audit"}, NEW failure \in Fingerprints \cup {NoFailure}
  PROVE  /\ NextBudget(FailureKind(stage), budget, failure) \in Budgets
         /\ NextBudget(FailureKind(stage), budget, failure).max = budget.max
         /\ NextBudget(FailureKind(stage), budget, failure).fixes <= budget.max
         /\ ShouldRetry(FailureKind(stage), budget, failure) =>
              /\ budget.fixes + 1 <= budget.max
              /\ NextBudget(FailureKind(stage), budget, failure).fixes = budget.fixes + 1
<1>1. budget \in Budgets /\ budget.fixes <= budget.max /\ budget.max \in Nat /\ budget.fixes \in Nat
      /\ budget.repeated \in Nat
  BY FixLimitsAssumption DEF IInv, TypeOK, Budgets
<1>2. FailureKind(stage) \in {"check_failed", "audit_rejected"}
  BY DEF FailureKind
<1>3. ClassifyRetry(FailureKind(stage)) = "fix_loop"
  BY <1>2 DEF ClassifyRetry
<1>4. Fixes(FailureKind(stage), budget) = budget.fixes + 1
  BY <1>3 DEF Fixes
<1>5. Repeated(budget, failure) \in Nat
  BY <1>1 DEF Repeated
<1> DEFINE k == FailureKind(stage)
           n == IF Fixes(k, budget) <= budget.max THEN Fixes(k, budget) ELSE budget.max
           b == NextBudget(k, budget, failure)
<1>6. n \in Nat /\ n <= budget.max
  BY <1>1, <1>4
<1>7. b = [budget EXCEPT !.fixes = n, !.repeated = Repeated(budget, failure), !.last = failure]
  BY DEF NextBudget
<1> HIDE DEF n, b
<1>8. b \in Budgets /\ b.max = budget.max /\ b.fixes = n
  BY <1>1, <1>5, <1>6, <1>7 DEF Budgets
<1>9. ShouldRetry(k, budget, failure) => budget.fixes + 1 <= budget.max /\ n = budget.fixes + 1
  BY <1>1, <1>3, <1>4 DEF ShouldRetry, n
<1> QED
  BY <1>6, <1>8, <1>9 DEF b

\* A call is within the bound in every state that is not final.
LEMMA WithinBound == IInv /\ state \notin Terminal => calls < MaximumStageCalls
<1> SUFFICES ASSUME IInv, state \notin Terminal PROVE calls < MaximumStageCalls
  OBVIOUS
<1>1. budget.fixes \in Nat /\ budget.max \in Nat /\ budget.fixes <= budget.max /\ calls \in Nat
  BY FixLimitsAssumption DEF IInv, TypeOK, Budgets
<1>2. calls <= 3 * budget.fixes + 2
  BY <1>1 DEF IInv, TypeOK, CallsPaid, States, Stages, Terminal
<1> QED BY <1>1, <1>2 DEF MaximumStageCalls

\* What an accepted answer adds to the evidence.
LEMMA CollectFacts ==
  ASSUME IInv, NEW e \in Replies, Collect(e)
  PROVE  /\ e \in Evidence(Nat) /\ e.binding \in Bindings
         /\ evidence' \in Seq(Evidence(Nat))
         /\ DOMAIN evidence' = DOMAIN evidence \cup {Len(evidence) + 1}
         /\ Len(evidence) + 1 \notin DOMAIN evidence
         /\ evidence'[Len(evidence) + 1] = e
         /\ \A i \in DOMAIN evidence : evidence'[i] = evidence[i] /\ evidence[i].binding \in Bindings
<1>1. evidence \in Seq(Evidence(Nat)) /\ Len(evidence) \in Nat
  BY DEF IInv, TypeOK
<1>2. e \in Evidence(Nat) /\ e.binding \in Bindings
  BY <1>1 DEF Replies, Evidence
<1>3. \A i \in DOMAIN evidence : evidence[i] \in Evidence(Nat)
  BY <1>1
<1>4. \A i \in DOMAIN evidence : evidence[i].binding \in Bindings
  BY <1>3 DEF Evidence
<1> QED BY <1>1, <1>2, <1>4 DEF Collect

\* The failures since a position are finitely many.
LEMMA FailuresFinite ==
  ASSUME TypeOK, NEW k \in Nat
  PROVE  IsFiniteSet(FailuresSince(k)) /\ Cardinality(FailuresSince(k)) \in Nat
<1>1. DOMAIN evidence = 1..Len(evidence) /\ Len(evidence) \in Nat
  BY DEF TypeOK
<1>2. IsFiniteSet(1..Len(evidence))
  BY <1>1, FS_Interval
<1>3. FailuresSince(k) \subseteq 1..Len(evidence)
  BY <1>1 DEF FailuresSince
<1> QED BY <1>2, <1>3, FS_Subset, FS_CardinalityType

\* An answer that passed adds no failure.
LEMMA PassedAddsNone ==
  ASSUME IInv, NEW e \in Replies, Collect(e), e.passed, state \notin Terminal,
         UNCHANGED budget, state' # "fix_loop"
  PROVE  BudgetRemembers'
<1> PICK n \in Nat : n = Len(evidence) + 1
  BY DEF IInv, TypeOK
<1>1. n \in Nat /\ DOMAIN evidence = 1..(n - 1) /\ DOMAIN evidence' = 1..n
  BY CollectFacts DEF IInv, TypeOK
<1>2. evidence'[n] = e /\ \A i \in DOMAIN evidence : evidence'[i] = evidence[i]
  BY CollectFacts
<1>3. \A k \in DOMAIN evidence : FailuresSince(k)' = FailuresSince(k)
  BY <1>1, <1>2 DEF FailuresSince
<1>4. \A k : k = n => FailuresSince(k)' = {}
  BY <1>1, <1>2 DEF FailuresSince
<1>5. budget.repeated \in Nat
  BY DEF IInv, TypeOK, Budgets
<1>6. ASSUME NEW k \in DOMAIN evidence', FailuresSince(k)' # {}
      PROVE  \E j \in FailuresSince(k)' : evidence'[j].failure = budget.last
  <2>1. k \in DOMAIN evidence
    BY <1>1, <1>4, <1>6
  <2>2. PICK j \in FailuresSince(k) : evidence[j].failure = budget.last
    BY <2>1, <1>3, <1>6 DEF IInv, BudgetRemembers
  <2>3. j \in DOMAIN evidence
    BY DEF FailuresSince
  <2> QED BY <2>1, <2>2, <2>3, <1>2, <1>3
<1>7. ASSUME NEW k \in DOMAIN evidence',
             \A j \in FailuresSince(k)' : evidence'[j].failure = budget.last
      PROVE  Cardinality(FailuresSince(k)') <= budget.repeated
  <2>1. CASE k = n
    <3>1. FailuresSince(k)' = {}
      BY <2>1, <1>4
    <3>2. Cardinality({}) = 0
      BY FS_EmptySet
    <3>3. Cardinality(FailuresSince(k)') = 0
      BY <3>1, <3>2, Zenon
    <3> QED BY <3>3, <1>5
  <2>2. CASE k \in DOMAIN evidence
    <3>1. \A j \in FailuresSince(k) : evidence[j].failure = budget.last
      BY <2>2, <1>2, <1>3, <1>7 DEF FailuresSince
    <3> QED BY <2>2, <3>1, <1>3 DEF IInv, BudgetRemembers
  <2> QED BY <2>1, <2>2, <1>1
<1> QED BY <1>6, <1>7 DEF BudgetRemembers

\* A failure that is repaired is the last one the budget knows, and is counted.
LEMMA FailureIsCounted ==
  ASSUME IInv, NEW e \in Replies, Failed(e)
  PROVE  BudgetRemembers'
<1> PICK n \in Nat : n = Len(evidence) + 1
  BY DEF IInv, TypeOK
<1> DEFINE b == NextBudget(FailureKind(e.stage), budget, e.failure)
<1>0. Collect(e)
  BY DEF Failed
<1>1. n \in Nat /\ DOMAIN evidence = 1..(n - 1) /\ DOMAIN evidence' = 1..n
  BY <1>0, CollectFacts DEF IInv, TypeOK
<1>2. evidence'[n] = e /\ \A i \in DOMAIN evidence : evidence'[i] = evidence[i]
  BY <1>0, CollectFacts
<1>3. ~e.passed /\ state \notin Terminal /\ state' \in {"fix_loop", "failed"}
      /\ (state' = "fix_loop" => ShouldRetry(FailureKind(e.stage), budget, e.failure))
      /\ budget' = b
  BY DEF Failed, Call
<1>4. budget.repeated \in Nat /\ budget \in Budgets
  BY DEF IInv, TypeOK, Budgets
<1>5. b.last = e.failure /\ b.repeated = Repeated(budget, e.failure)
      /\ b.maxRepeated = budget.maxRepeated
  BY <1>4 DEF NextBudget, Budgets
<1> HIDE DEF b
<1>6. state' = "fix_loop" => b.repeated < b.maxRepeated
  BY <1>3, <1>5 DEF ShouldRetry
<1>7. \A k \in DOMAIN evidence : FailuresSince(k)' = FailuresSince(k) \cup {n}
  BY <1>1, <1>2, <1>3 DEF FailuresSince
<1>8. \A k : k = n => FailuresSince(k)' = {n}
  BY <1>1, <1>2, <1>3 DEF FailuresSince
<1>9. \A k \in DOMAIN evidence : n \notin FailuresSince(k)
  BY <1>1 DEF FailuresSince
<1>10. Repeated(budget, e.failure) \in Nat \ {0}
  BY <1>4 DEF Repeated
<1>11. Cardinality({n}) = 1 /\ Cardinality({}) = 0
  BY FS_Singleton, FS_EmptySet
<1>12. ASSUME NEW k \in DOMAIN evidence'
       PROVE  \E j \in FailuresSince(k)' : evidence'[j].failure = b.last
  <2>1. n \in FailuresSince(k)'
    BY <1>1, <1>7, <1>8
  <2> QED BY <2>1, <1>2, <1>5
<1>13. ASSUME NEW k \in DOMAIN evidence',
              \A j \in FailuresSince(k)' : evidence'[j].failure = b.last
       PROVE  Cardinality(FailuresSince(k)') <= b.repeated
  <2>1. CASE k = n
    <3>1. FailuresSince(k)' = {n}
      BY <2>1, <1>8
    <3>2. Cardinality(FailuresSince(k)') = 1
      BY <3>1, <1>11, Zenon
    <3> QED BY <3>2, <1>5, <1>10
  <2>2. CASE k \in DOMAIN evidence
    <3>1. \A j \in FailuresSince(k) : evidence[j].failure = e.failure
      BY <2>2, <1>2, <1>5, <1>7, <1>13 DEF FailuresSince
    <3>2. IsFiniteSet(FailuresSince(k)) /\ Cardinality(FailuresSince(k)) \in Nat
      BY <2>2, <1>1, FailuresFinite DEF IInv
    <3>3. Cardinality(FailuresSince(k)') = Cardinality(FailuresSince(k)) + 1
      BY <2>2, <3>2, <1>7, <1>9, FS_AddElement
    <3>4. CASE e.failure = budget.last
      <4>1. Cardinality(FailuresSince(k)) <= budget.repeated
        BY <2>2, <3>1, <3>4, <1>3 DEF IInv, BudgetRemembers
      <4> QED BY <4>1, <3>2, <3>3, <3>4, <1>4, <1>5 DEF Repeated
    <3>5. CASE e.failure # budget.last
      <4>1. FailuresSince(k) = {}
        BY <2>2, <3>1, <3>5, <1>3 DEF IInv, BudgetRemembers
      <4> QED BY <4>1, <3>3, <3>5, <1>5, <1>11 DEF Repeated
    <3> QED BY <3>4, <3>5
  <2> QED BY <2>1, <2>2, <1>1
<1> QED BY <1>3, <1>6, <1>12, <1>13 DEF BudgetRemembers

LEMMA FailIInv == ASSUME IInv, calls' = calls + 1, state \notin Terminal, Fail("adapter") PROVE IInv'
<1>1. TypeOK'
  BY DEF IInv, TypeOK, Fail, States, Terminal
<1>2. CallsPaid' /\ BoundNeverReached' /\ OnTheWay' /\ BudgetRemembers'
  BY DEF Fail, CallsPaid, BoundNeverReached, OnTheWay, BudgetRemembers, Terminal
<1>3. AboutBinding' /\ OneCandidatePerAttempt'
  BY DEF IInv, Fail, AboutBinding, OneCandidatePerAttempt
<1> QED BY <1>1, <1>2, <1>3 DEF IInv

\* EXECUTE keeps the binding or, after a failure, takes the next attempt of it.
LEMMA ExecutedIInv == ASSUME IInv, NEW e \in Replies, Executed(e) PROVE IInv'
<1>1. state \in {"execute", "fix_loop"} /\ calls' = calls + 1 /\ binding' = e.binding
      /\ UNCHANGED <<budget, ended>> /\ Collect(e) /\ e.stage = "execute"
      /\ state' \in {"test", "failed"} /\ (state' = "test" => e.passed)
  BY DEF IInv, TypeOK, States, Stages, Terminal, Executed, Call, Acceptable, ExpectedStage, Collect
<1>2. TypeOK'
  BY <1>1, CollectFacts DEF IInv, TypeOK, States, Stages, Terminal
<1>3. CallsPaid' /\ BoundNeverReached'
  BY <1>1, FixLimitsAssumption DEF IInv, TypeOK, Budgets, CallsPaid, BoundNeverReached
<1>4. \A i \in DOMAIN evidence : evidence[i].binding.life = e.binding.life
                                /\ evidence[i].binding.attempt < e.binding.attempt
  <2>1. CASE state = "execute"
    BY <2>1 DEF IInv, OnTheWay
  <2>2. CASE state = "fix_loop"
    <3>1. e.binding.life = binding.life /\ e.binding.attempt = binding.attempt + 1
      BY <2>2 DEF Executed, Acceptable, SameLifecycle
    <3>2. binding.attempt \in Nat /\ \A i \in DOMAIN evidence : evidence[i].binding.attempt \in Nat
      BY <1>1, CollectFacts, AttemptsAssumption DEF IInv, TypeOK, Bindings
    <3> QED BY <3>1, <3>2 DEF IInv, AboutBinding
  <2> QED BY <1>1, <2>1, <2>2
<1>5. \A i \in DOMAIN evidence : evidence[i].binding.attempt \in Nat
  BY <1>1, CollectFacts, AttemptsAssumption DEF Bindings
<1>6. e.binding.attempt \in Nat
  BY <1>1, CollectFacts, AttemptsAssumption DEF Bindings
<1>7. AboutBinding'
  BY <1>1, <1>4, <1>5, <1>6, CollectFacts DEF AboutBinding
<1>8. OneCandidatePerAttempt'
  BY <1>1, <1>4, <1>5, <1>6, CollectFacts DEF IInv, OneCandidatePerAttempt
<1>9. OnTheWay'
  BY <1>1, <1>4, <1>5, <1>6, CollectFacts DEF OnTheWay, PassedFor, NotRejected
<1>10. BudgetRemembers'
  <2>1. CASE state' = "failed"
    BY <2>1 DEF BudgetRemembers, Terminal
  <2>2. CASE state' = "test"
    BY <2>2, <1>1, PassedAddsNone DEF Executed, Call
  <2> QED BY <1>1, <2>1, <2>2
<1> QED BY <1>2, <1>3, <1>7, <1>8, <1>9, <1>10 DEF IInv

\* TEST and AUDIT answer for the binding as it is.
LEMMA AnsweredFacts ==
  ASSUME IInv, NEW e \in Replies, e.stage # "execute", Acceptable(e), state \notin Terminal,
         Collect(e), UNCHANGED binding
  PROVE  /\ state \in {"test", "audit"} /\ e.stage = state /\ e.binding = binding
         /\ AboutBinding' /\ OneCandidatePerAttempt'
         /\ \A stage \in Stages : PassedFor(stage) => PassedFor(stage)'
         /\ state = "audit" => PassedFor("test")
<1>1. state \in {"test", "audit"} /\ e.stage = state /\ e.binding = binding
  BY DEF IInv, TypeOK, States, Stages, Terminal, Acceptable, ExpectedStage, SameBinding
<1>2. AboutBinding'
  <2>1. binding.attempt \in Nat
    BY AttemptsAssumption DEF IInv, TypeOK, Bindings
  <2>2. \A i \in DOMAIN evidence' :
          \/ evidence'[i].binding = binding
          \/ i \in DOMAIN evidence /\ evidence'[i] = evidence[i]
    BY <1>1, CollectFacts
  <2>3. AboutBinding
    BY DEF IInv
  <2> QED BY <2>1, <2>2, <2>3 DEF AboutBinding
<1>3. OneCandidatePerAttempt'
  BY <1>1, CollectFacts DEF IInv, AboutBinding, OneCandidatePerAttempt
<1>4. \A stage \in Stages : PassedFor(stage) => PassedFor(stage)'
  BY CollectFacts DEF PassedFor
<1>5. state = "audit" => PassedFor("test")
  BY DEF IInv, OnTheWay
<1> QED BY <1>1, <1>2, <1>3, <1>4, <1>5

LEMMA PassedIInv == ASSUME IInv, NEW e \in Replies, Passed(e) PROVE IInv'
<1>1. state \notin Terminal /\ e.stage # "execute" /\ e.passed /\ Acceptable(e) /\ Collect(e)
      /\ calls' = calls + 1 /\ UNCHANGED <<binding, budget, ended>>
      /\ state' = IF e.stage = "test" THEN "audit" ELSE "approved"
  BY DEF Passed, Call, Collect
<1>2. TypeOK'
  BY <1>1, CollectFacts DEF IInv, TypeOK, States, Stages, Terminal
<1>3. CallsPaid' /\ BoundNeverReached'
  BY <1>1, AnsweredFacts, FixLimitsAssumption DEF IInv, TypeOK, Budgets, CallsPaid, BoundNeverReached
<1>4. PassedFor(e.stage)'
  BY <1>1, AnsweredFacts, CollectFacts DEF PassedFor
<1>5. NotRejected'
  BY <1>1, AnsweredFacts, CollectFacts DEF IInv, OnTheWay, NotRejected
<1>6. OnTheWay'
  BY <1>1, <1>4, <1>5, AnsweredFacts DEF IInv, OnTheWay, Stages
<1>7. BudgetRemembers'
  BY <1>1, PassedAddsNone
<1> QED BY <1>1, <1>2, <1>3, <1>6, <1>7, AnsweredFacts DEF IInv

LEMMA FailedIInv == ASSUME IInv, NEW e \in Replies, Failed(e) PROVE IInv'
<1>1. state \notin Terminal /\ e.stage # "execute" /\ Acceptable(e) /\ Collect(e)
      /\ calls' = calls + 1 /\ UNCHANGED <<binding, ended>>
      /\ state' = (IF ShouldRetry(FailureKind(e.stage), budget, e.failure) THEN "fix_loop" ELSE "failed")
      /\ budget' = NextBudget(FailureKind(e.stage), budget, e.failure)
  BY DEF Failed, Call, Collect
<1>2. e.failure \in Fingerprints \cup {NoFailure} /\ e.stage \in {"test", "audit"}
  BY <1>1, CollectFacts, AnsweredFacts DEF Evidence
<1>3. TypeOK'
  BY <1>1, <1>2, CollectFacts, BudgetFacts DEF IInv, TypeOK, States, Stages, Terminal
<1>4. CallsPaid' /\ BoundNeverReached'
  BY <1>1, <1>2, AnsweredFacts, BudgetFacts, FixLimitsAssumption
     DEF IInv, TypeOK, Budgets, CallsPaid, BoundNeverReached
<1>5. OnTheWay'
  BY <1>1 DEF OnTheWay
<1> QED BY <1>1, <1>3, <1>4, <1>5, AnsweredFacts, FailureIsCounted DEF IInv

LEMMA StepIInv == IInv /\ [Next]_vars => IInv'
<1> SUFFICES ASSUME IInv, [Next]_vars PROVE IInv'
  OBVIOUS
<1>1. CASE GiveUp
  BY <1>1, WithinBound, FailIInv DEF GiveUp
<1>2. ASSUME NEW e \in Replies, Refuse(e) PROVE IInv'
  BY <1>2, FailIInv DEF Refuse, Call
<1>3. ASSUME NEW e \in Replies, Executed(e) PROVE IInv'
  BY <1>3, ExecutedIInv
<1>4. ASSUME NEW e \in Replies, Passed(e) PROVE IInv'
  BY <1>4, PassedIInv
<1>5. ASSUME NEW e \in Replies, Failed(e) PROVE IInv'
  BY <1>5, FailedIInv
<1>6. CASE UNCHANGED vars
  <2>1. TypeOK' /\ CallsPaid' /\ BoundNeverReached'
    BY <1>6 DEF vars, snapshot, IInv, TypeOK, CallsPaid, BoundNeverReached
  <2>2. AboutBinding' /\ OneCandidatePerAttempt' /\ OnTheWay'
    BY <1>6 DEF vars, snapshot, IInv, AboutBinding, OneCandidatePerAttempt, OnTheWay,
                PassedFor, NotRejected
  <2>3. BudgetRemembers'
    BY <1>6 DEF vars, snapshot, IInv, BudgetRemembers, FailuresSince
  <2> QED BY <2>1, <2>2, <2>3 DEF IInv
<1> QED BY <1>1, <1>2, <1>3, <1>4, <1>5, <1>6 DEF Next, Answer

LEMMA InvariantIInv == Spec => []IInv
  BY InitIInv, StepIInv, PTL DEF Spec

-----------------------------------------------------------------------------
\* Every variable keeps its type, and no budget is overdrawn (decide_retry).
THEOREM TypeCorrect == Spec => []TypeOK
<1>1. IInv => TypeOK
  BY DEF IInv
<1> QED BY <1>1, InvariantIInv, PTL

\* For every budget, the budget alone ends the loop of run_lifecycle_shadow: its bound
\* of 3 * (max_fix_attempts + 1) calls is never exceeded.
THEOREM BudgetEndsLoop == Spec => []BoundNeverReached
<1>1. IInv => BoundNeverReached
  BY DEF IInv
<1> QED BY <1>1, InvariantIInv, PTL

\* What is approved has passed all three stages for exactly its binding and failed none
\* for it, however long the evidence is (apply_stage_evidence).
THEOREM ApprovedIsChecked == Spec => []ApprovedWasChecked
<1>1. IInv => ApprovedWasChecked
  BY DEF IInv, OnTheWay, ApprovedWasChecked, PassedFor, NotRejected, Stages
<1> QED BY <1>1, InvariantIInv, PTL

\* The evidence of one attempt is about one candidate, and all of it about one
\* lifecycle (validate_stage_evidence).
THEOREM AttemptsHaveOneCandidate == Spec => []OneCandidatePerAttempt
<1>1. IInv => OneCandidatePerAttempt
  BY DEF IInv
<1> QED BY <1>1, InvariantIInv, PTL

\* Whatever the adapters answer, and however often something else passed or failed in
\* between, a failure that has come maxRepeated times in a row is not repaired again
\* (the repeated-failure limit of decide_retry).
THEOREM RepeatedFailuresStop == Spec => []RepeatedFailureStops
<1>1. ASSUME IInv, state = "fix_loop", NEW k \in DOMAIN evidence,
             \A i, j \in FailuresSince(k) : evidence[i].failure = evidence[j].failure
      PROVE  Cardinality(FailuresSince(k)) < budget.maxRepeated
  <2>1. budget.repeated < budget.maxRepeated /\ state \notin Terminal
    BY <1>1 DEF IInv, BudgetRemembers, Terminal
  <2>2. \A j \in FailuresSince(k) : evidence[j].failure = budget.last
    BY <1>1, <2>1 DEF IInv, BudgetRemembers
  <2>3. Cardinality(FailuresSince(k)) <= budget.repeated
    BY <1>1, <2>1, <2>2 DEF IInv, BudgetRemembers
  <2>4. Cardinality(FailuresSince(k)) \in Nat
    BY <1>1, FailuresFinite DEF IInv, TypeOK
  <2>5. budget.repeated \in Nat /\ budget.maxRepeated \in Nat
    BY <1>1, RepeatLimitsAssumption DEF IInv, TypeOK, Budgets
  <2> QED BY <2>1, <2>3, <2>4, <2>5
<1>2. IInv => RepeatedFailureStops
  BY <1>1 DEF RepeatedFailureStops
<1> QED BY <1>2, InvariantIInv, PTL

=============================================================================
