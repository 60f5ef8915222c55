------------------------- MODULE TaskPipelineProofs -------------------------
(* Theorems about TaskPipeline, for every set of tasks, branches and caps. *)
EXTENDS TaskPipelineLock, TLAPS

\* The tasks do not share work branches.
DistinctBranches ==
  \A t, u \in Tasks : WorkBranch[t] = WorkBranch[u] => t = u

-----------------------------------------------------------------------------
(* The inductive invariants *)

ActivePcs == {"a_check", "b_guard", "b_model", "b_apply", "b_check", "c_audit",
              "c_verdict", "o_run"}
RepairPcs == {"r_restore", "r_requeue"}
PublishPcs == {"p_commit", "p_remote", "p_switch", "p_sync", "p_move"}

\* The task the running child works on is in the queue the child took it to.
ProcInv ==
  /\ pc \in ActivePcs => loc[cur] = "active"
  /\ pc \in RepairPcs => loc[cur] = "failed"
  /\ pc \in PublishPcs => loc[cur] = "approved"
  /\ pc = "o_run" => cur \in OpTasks

\* Commits are on the branch of their task, the publisher passes PublishCommit
\* with a commit only, and CompletedMeansCommitted.
CommitInv ==
  /\ \A b \in Branches : commit[b] # NoCommit =>
       commit[b].task \in Tasks /\ WorkBranch[commit[b].task] = b
  /\ pc \in PublishPcs \ {"p_commit"} => Committed(cur)
  /\ \A t \in Tasks :
       /\ t \in CodeTasks /\ loc[t] = "completed" => Committed(t)
       /\ Committed(t) => loc[t] \in {"approved", "completed"}

\* A task whose last audit log says "exceeded" has not gone on to another stage.
ExceededInv ==
  \A t \in Tasks : log01C[t] = "exceeded" =>
    \/ loc[t] \in {"blocked", "pending_codex"}
    \/ loc[t] = "active" /\ (cur = t => pc \in {"c_audit", "c_verdict"})

\* HoldsCandidate without the case of an implementation equal to HEAD.
Trusted(t) ==
  \/ loc[t] = "pending_codex"
  \/ loc[t] = "active" /\ cur = t /\ pc \in {"c_audit", "c_verdict"}
  \/ loc[t] = "blocked" /\ log01C[t] = "exceeded" /\ log01B[t] = "pass"
  \/ loc[t] = "approved" /\ ~Committed(t)

\* What the checkout holds while the owner leaves it alone.
TreeInv ==
  /\ tree.edit = {}
  /\ tree.by = 0 => tree = Clean
  /\ tree.by # 0 => head = WorkBranch[tree.by]

PhaseInv ==
  /\ pc \in {"b_model", "b_apply"} => WorktreeReady(cur)
  /\ pc \in {"b_check", "c_verdict", "r_restore"} => head = WorkBranch[cur]

TrustInv ==
  \A t \in Tasks : Trusted(t) =>
    /\ tree.by = t => tree = checkedC[t]
    /\ checkedC[t] # Clean => head = WorkBranch[t] /\ tree = checkedC[t]

ApprovalInv ==
  \A t \in Tasks :
    /\ loc[t] = "approved" => approvedC[t] = checkedC[t]
    /\ Committed(t) => /\ commit[WorkBranch[t]].content = approvedC[t]
                       /\ approvedC[t] = checkedC[t]

GitInv == edits = 0 => TreeInv /\ PhaseInv /\ TrustInv /\ ApprovalInv

\* The publisher runs before anything else while a task with a firm gate is
\* approved, and never for a task without Publication-Action.
ApprovedInv ==
  /\ \A t, u \in InQueue("approved") : Firm(t) /\ Firm(u) => t = u
  /\ \A t \in InQueue("approved") : Firm(t) => Stage = "publish"
  /\ pc \in PublishPcs /\ Maintenance => contract[cur] # "none"
  /\ cfgs = 0 => profile = "valid"
  /\ \A t \in Tasks : loc[t] \in {"pending_codex", "approved"} => log01B[t] = "pass"
  /\ \A t \in Tasks : loc[t] = "approved" => log01C[t] = "pass"
  /\ pc \in {"c_audit", "c_verdict"} => log01B[cur] = "pass"
  /\ pc \in {"c_audit", "c_verdict"} => Stage = "stage_01c"

\* A launch is still due before Stage 01B, and used up after it.
BudgetInv ==
  \A t \in Tasks :
    /\ launches[t] <= attempt[t] + 1
    /\ loc[t] \in {"none", "pending", "review"} => launches[t] <= attempt[t]
    /\ loc[t] = "active" /\ cur = t /\ pc \in {"a_check", "b_guard"}
         => launches[t] <= attempt[t]
    /\ cfgs = 0 => attempt[t] <= CapReview \/ attempt[t] <= CapRepair
    /\ pc = "r_requeue" => attempt[cur] + 1 <= CapRepair

\* While config.json is left alone, a task blocked at its cap stays at the cap.
LimitInv ==
  \A t \in Tasks : cfgs = 0 /\ log01C[t] = "exceeded" => attempt[t] + 1 > CapReview

-----------------------------------------------------------------------------
(* Every variable keeps its type. *)

LEMMA CleanIsTree == Clean \in Trees /\ NoCommit \in Commits
  BY DEF Clean, Trees, NoCommit, Commits

LEMMA TypeInit == Init => TypeOK
<1> SUFFICES ASSUME Init PROVE TypeOK
  OBVIOUS
<1> USE CleanIsTree DEF Init
<1>1. /\ loc \in [Tasks -> Queues] /\ attempt \in [Tasks -> Nat]
      /\ log01B \in [Tasks -> {"none", "pass", "check", "other"}]
      /\ log01C \in [Tasks -> {"none", "pass", "fail", "exceeded", "blocked"}]
      /\ checkLog \in [Tasks -> BOOLEAN]
  BY DEF Queues
<1>2. head \in Branches \cup {Base} /\ tree \in Trees /\ commit \in [Branches -> Commits]
  OBVIOUS
<1>3. /\ slot \in 1..8 /\ pc \in Pcs /\ snap \in Trees
      /\ cur \in Tasks \cup {0} /\ (pc = "idle" <=> cur = 0)
  BY DEF Pcs
<1>4. skip01A \in BOOLEAN
  OBVIOUS
<1>5. cfg \in Caps /\ faults \in 0..MaxFaults /\ edits \in 0..MaxEdits /\ cfgs \in 0..MaxCfg
  BY BoundAssumption
<1>6. launches \in [Tasks -> Nat] /\ checkedC \in [Tasks -> Trees] /\ approvedC \in [Tasks -> Trees]
  OBVIOUS
<1>7. QED
  BY <1>1, <1>2, <1>3, <1>4, <1>5, <1>6 DEF TypeOK

LEMMA CandidateType ==
  ASSUME NEW t \in Tasks \cup {0}, NEW n \in Nat, NEW f \in BOOLEAN, NEW e \in SUBSET {"in", "out"}
  PROVE  Candidate(t, n, f, e) \in Trees
  BY DEF Candidate, Trees

\* The fields of a tree; every mixture of them is a tree.
LEMMA TreeFields ==
  ASSUME TypeOK
  PROVE  /\ tree.by \in Tasks \cup {0} /\ tree.ver \in Nat /\ tree.full \in BOOLEAN
         /\ tree.edit \in SUBSET {"in", "out"}
  BY DEF TypeOK, Trees

LEMMA RunningTask == ASSUME TypeOK, pc # "idle" PROVE cur \in Tasks
  BY DEF TypeOK

\* What the helpers of the actions return has the type of the variables they set.
LoopTypes ==
  /\ slot' \in 1..8 /\ pc' \in Pcs /\ snap' \in Trees /\ skip01A' \in BOOLEAN
  /\ cur' \in Tasks \cup {0} /\ (pc' = "idle" <=> cur' = 0)

LEMMA GoToType == ASSUME TypeOK, NEW s \in 1..8, GoTo(s) PROVE LoopTypes
<1>1. /\ slot' \in 1..8 /\ pc' \in Pcs /\ snap' \in Trees
      /\ cur' \in Tasks \cup {0} /\ (pc' = "idle" <=> cur' = 0)
  BY CleanIsTree DEF GoTo, Pcs
<1>2. InFlight' \in BOOLEAN
  BY DEF InFlight
<1>3. skip01A' \in BOOLEAN
  BY <1>2, BoundAssumption DEF GoTo, TypeOK
<1>4. QED
  BY <1>1, <1>3 DEF LoopTypes

LEMMA EndType == ASSUME TypeOK, EndChild \/ AbortCycle PROVE LoopTypes
<1>1. Len(Cycle) = 8
  BY DEF Cycle
<1>2. IF slot = Len(Cycle) THEN 1 \in 1..8 ELSE slot + 1 \in 1..8
  BY <1>1 DEF TypeOK
<1>3. QED
  BY <1>2, GoToType DEF EndChild, AbortCycle

LEMMA StartType ==
  ASSUME TypeOK, NEW p \in Pcs \ {"idle"}, NEW t \in Tasks, NEW s \in Trees, Start(p, t, s)
  PROVE  LoopTypes
  BY TasksAssumption DEF LoopTypes, TypeOK, Start

LEMMA ContinueType ==
  ASSUME TypeOK, pc # "idle", NEW p \in Pcs \ {"idle"}, Continue(p)
  PROVE  LoopTypes
  BY DEF LoopTypes, TypeOK, Continue

LEMMA MoveType ==
  ASSUME TypeOK, NEW t, NEW q \in Queues, Move(t, q)
  PROVE  loc' \in [Tasks -> Queues]
  BY DEF TypeOK, Move

LEMMA StopType ==
  ASSUME TypeOK, NEW q \in Queues, NEW class \in {"check", "other"}, Stage01BStop(q, class)
  PROVE  /\ loc' \in [Tasks -> Queues]
         /\ log01B' \in [Tasks -> {"none", "pass", "check", "other"}]
         /\ checkLog' \in [Tasks -> BOOLEAN]
         /\ UNCHANGED <<attempt, log01C>>
         /\ LoopTypes
<1>1. loc' \in [Tasks -> Queues]
  BY MoveType DEF Stage01BStop
<1>2. log01B' \in [Tasks -> {"none", "pass", "check", "other"}]
  BY DEF TypeOK, Stage01BStop
<1>3. checkLog' \in [Tasks -> BOOLEAN]
  BY Zenon DEF TypeOK, Stage01BStop
<1>4. LoopTypes
  BY EndType DEF Stage01BStop
<1>5. QED
  BY <1>1, <1>2, <1>3, <1>4 DEF Stage01BStop

LEMMA TypeNext == TypeOK /\ [Next]_vars => TypeOK'
<1> SUFFICES ASSUME TypeOK, [Next]_vars PROVE TypeOK'
  OBVIOUS
<1> USE TasksAssumption, BranchAssumption, CapAssumption, BoundAssumption
    DEF TypeOK, LoopTypes, taskVars, gitVars, loopVars, envVars, histVars
<1>1. CASE IdleChild
  BY <1>1, EndType DEF IdleChild
<1>2. CASE \E t \in Tasks : Stage01AClaim(t)
  BY <1>2, MoveType, StartType, CleanIsTree DEF Stage01AClaim, Queues, Pcs
<1>3. CASE Stage01AFinish
  BY <1>3, EndType, MoveType DEF Stage01AFinish, Run, Queues
<1>4. CASE \E t \in Tasks : Stage01BClaim(t)
  BY <1>4, MoveType, StartType, CleanIsTree DEF Stage01BClaim, Queues, Pcs
<1>5. CASE Stage01BLaunch
  <2>1. launches' \in [Tasks -> Nat]
    BY <1>5, RunningTask DEF Stage01BLaunch, Run
  <2>2. snap' \in Trees
    BY <1>5 DEF Stage01BLaunch, ScopeView, Trees
  <2>3. QED
    BY <1>5, <2>1, <2>2 DEF Stage01BLaunch, Run, Pcs
<1>6. CASE Stage01BRefuse
  BY <1>6, StopType DEF Stage01BRefuse, Queues
<1>7. CASE Stage01BModel
  BY <1>7, StopType, ContinueType DEF Stage01BModel, Run, Queues, Pcs
<1>8. CASE Stage01BApply
  <2>1. Coverage \subseteq BOOLEAN
    BY DEF Coverage
  <2>2. tree' \in Trees
    <3>1. cur \in Tasks /\ launches[cur] \in Nat
      BY <1>8, RunningTask DEF Stage01BApply, Run
    <3>2. ASSUME NEW f \in Coverage, tree' = Candidate(cur, launches[cur], f, tree.edit)
          PROVE  tree' \in Trees
      <4>1. f \in BOOLEAN
        BY <2>1
      <4>2. QED
        BY <3>1, <3>2, <4>1, CandidateType, TreeFields
    <3>3. CASE tree' = Candidate(0, 0, FALSE, tree.edit)
      BY <3>3, CandidateType, TreeFields
    <3>4. QED
      BY <1>8, <3>2, <3>3 DEF Stage01BApply
  <2>3. head' \in Branches \cup {Base}
    BY <1>8, RunningTask DEF Stage01BApply, Run
  <2>4. LoopTypes
    BY <1>8, ContinueType DEF Stage01BApply, Run, Pcs
  <2>5. QED
    BY <1>8, <2>2, <2>3, <2>4 DEF Stage01BApply
<1>9. CASE Stage01BApplyFails
  BY <1>9, RunningTask, StopType DEF Stage01BApplyFails, Run, Queues
<1>10. CASE Stage01BPass
  BY <1>10, EndType, MoveType DEF Stage01BPass, Run, Queues
<1>11. CASE Stage01BFail
  BY <1>11, StopType DEF Stage01BFail, Run, Queues
<1>12. CASE \E t \in Tasks : Stage01CClaim(t)
  BY <1>12, MoveType, StartType, CleanIsTree DEF Stage01CClaim, Queues, Pcs
<1>13. CASE Stage01CEvidence
  BY <1>13, EndType, MoveType DEF Stage01CEvidence, Run, Stage01CBlock, Queues, Pcs
<1>14. CASE Stage01CPass
  BY <1>14, EndType, MoveType DEF Stage01CPass, Run, Queues
<1>15. CASE Stage01CFail
  BY <1>15, RunningTask, EndType, MoveType DEF Stage01CFail, Run, Stage01CBlock, Queues
<1>16. CASE Stage01CInfraBlock
  BY <1>16, EndType, MoveType DEF Stage01CInfraBlock, Run, Stage01CBlock, Queues
<1>17. CASE \E t \in Tasks : RecoverReviewLimit(t)
  BY <1>17, EndType, MoveType DEF RecoverReviewLimit, Queues
<1>18. CASE \E t \in Tasks : RepairBegin(t)
  BY <1>18, StartType, CleanIsTree DEF RepairBegin, Pcs
<1>19. CASE RepairRaises
  BY <1>19, EndType DEF RepairRaises, Run
<1>20. CASE RepairRestore
  BY <1>20, EndType, ContinueType, CleanIsTree DEF RepairRestore, Run, Pcs
<1>21. CASE RepairRequeue
  BY <1>21, RunningTask, EndType, MoveType DEF RepairRequeue, Run, Queues
<1>22. CASE \E t \in Tasks : OperationClaim(t)
  BY <1>22, MoveType, StartType, CleanIsTree DEF OperationClaim, Queues, Pcs
<1>23. CASE OperationFinish
  BY <1>23, EndType, MoveType DEF OperationFinish, Run, Queues
<1>24. CASE \E t \in Tasks : PublishClaim(t)
  BY <1>24, StartType, CleanIsTree DEF PublishClaim, Pcs
<1>25a. CASE PublishDecline
  BY <1>25a, EndType DEF PublishDecline
<1>25. CASE PublishRefuse
  BY <1>25, EndType DEF PublishRefuse
<1>26. CASE PublishCommit
  BY <1>26, RunningTask, ContinueType, CleanIsTree DEF PublishCommit, Run, Pcs, Commits
<1>27. CASE PublishRemote
  BY <1>27, ContinueType DEF PublishRemote, Run, Pcs
<1>28. CASE PublishSwitch
  BY <1>28, ContinueType DEF PublishSwitch, Run, Pcs
<1>29. CASE PublishSync
  BY <1>29, ContinueType DEF PublishSync, Run, Pcs
<1>30. CASE PublishMove
  BY <1>30, EndType, MoveType DEF PublishMove, Run, Queues
<1>31. CASE Kill
  BY <1>31, EndType DEF Kill, Fault
<1>32. CASE KillDuringApply
  <2>1. cur \in Tasks /\ Candidate(cur, 0, FALSE, tree.edit) \in Trees
    BY <1>32, RunningTask, CandidateType, TreeFields DEF KillDuringApply, Run
  <2>2. tree' = tree \/ tree' = Candidate(cur, 0, FALSE, tree.edit)
    BY <1>32 DEF KillDuringApply
  <2>2a. head' \in {head, Base, WorkBranch[cur]}
    BY <1>32 DEF KillDuringApply
  <2>3. tree' \in Trees
    <3>1. CASE tree' = tree
      BY <3>1
    <3>2. CASE tree' = Candidate(cur, 0, FALSE, tree.edit)
      BY <2>1, <3>2
    <3>3. QED
      BY <2>2, <3>1, <3>2
  <2>4. WorkBranch[cur] \in Branches
    BY <2>1
  <2>5. head' \in Branches \cup {Base}
    BY <2>2a, <2>4
  <2>6. QED
    BY <1>32, <2>3, <2>5, EndType DEF KillDuringApply, Fault
<1>32a. CASE RollbackFails
  <2>1. cur \in Tasks /\ Candidate(cur, 0, FALSE, tree.edit) \in Trees
    BY <1>32a, RunningTask, CandidateType, TreeFields DEF RollbackFails, Run
  <2>2. tree' \in Trees /\ head' \in Branches \cup {Base}
    BY <1>32a, <2>1 DEF RollbackFails
  <2>3. Stage01BStop("blocked", "other") /\ "blocked" \in Queues
    BY <1>32a DEF RollbackFails, Queues
  <2>4. /\ loc' \in [Tasks -> Queues]
        /\ log01B' \in [Tasks -> {"none", "pass", "check", "other"}]
        /\ checkLog' \in [Tasks -> BOOLEAN]
        /\ UNCHANGED <<attempt, log01C>>
        /\ LoopTypes
    BY <2>3, StopType
  <2>5. /\ UNCHANGED <<commit, launches, checkedC, approvedC, cfg, contract, profile, edits, cfgs>>
        /\ faults' \in 0..MaxFaults
    BY <1>32a DEF RollbackFails, Fault
  <2>6. QED
    BY <2>2, <2>4, <2>5
<1>33. CASE KillDuringRestore
  <2>1. tree' \in Trees
    <3>1. tree' = Clean \/ tree' = [tree EXCEPT !.ver = 0]
      BY <1>33 DEF KillDuringRestore
    <3>2. [tree EXCEPT !.ver = 0] \in Trees
      BY DEF Trees
    <3>3. QED
      BY <3>1, <3>2, CleanIsTree
  <2>2. LoopTypes
    BY <1>33, EndType DEF KillDuringRestore
  <2>3. /\ UNCHANGED <<head, commit, cfg, contract, profile, edits, cfgs>>
        /\ UNCHANGED <<loc, attempt, log01B, log01C, checkLog, launches, checkedC, approvedC>>
        /\ faults' \in 0..MaxFaults
    BY <1>33 DEF KillDuringRestore, Fault
  <2>4. QED
    BY <2>1, <2>2, <2>3
<1>34. CASE KillBeforeLog
  BY <1>34, EndType, MoveType DEF KillBeforeLog, Fault, Queues
<1>35. CASE KillBeforeMove
  BY <1>35, RunningTask, EndType DEF KillBeforeMove, Run, Fault
<1>36. CASE CycleBreak
  BY <1>36, EndType DEF CycleBreak, Fault
<1>37. CASE \E t \in Tasks : Submit(t)
  BY <1>37, MoveType DEF Submit, Queues
<1>38. CASE \E t \in Tasks : Cancel(t)
  BY <1>38, MoveType DEF Cancel, Queues
<1>39. CASE \E kind \in {"in", "out"} : OperatorEdit(kind)
  <2>1. PICK kind \in {"in", "out"}, f \in BOOLEAN :
               tree' = [tree EXCEPT !.edit = @ \cup {kind}, !.full = f]
    BY <1>39, TreeFields DEF OperatorEdit, Coverage
  <2>2. tree' = [by |-> tree.by, ver |-> tree.ver, full |-> f, edit |-> tree.edit \cup {kind}]
    BY <2>1 DEF Trees
  <2>3. tree' \in Trees
    BY <2>2, TreeFields DEF Trees
  <2>4. QED
    BY <1>39, <2>3 DEF OperatorEdit
<1>40. CASE OperatorReset
  BY <1>40, CleanIsTree DEF OperatorReset
<1>41. CASE \E n \in Caps : SetConfig(n)
  BY <1>41 DEF SetConfig
<1>41a. CASE \E p \in {"valid", "refused", "unreadable"} : SetProfile(p)
  BY <1>41a DEF SetProfile
<1>42. CASE UNCHANGED vars
  BY <1>42 DEF vars
<1>43. QED
  BY <1>1, <1>2, <1>3, <1>4, <1>5, <1>6, <1>7, <1>8, <1>9, <1>10, <1>11, <1>12,
     <1>13, <1>14, <1>15, <1>16, <1>17, <1>18, <1>19, <1>20, <1>21, <1>22, <1>23,
     <1>24, <1>25a, <1>25, <1>26, <1>27, <1>28, <1>29, <1>30, <1>31, <1>32, <1>32a, <1>33, <1>34,
     <1>35, <1>36, <1>37, <1>38, <1>39, <1>40, <1>41, <1>41a, <1>42
  DEF Next, Supervisor, Stage01A, Stage01B, Stage01C, AutoRepair, Operations, Publisher, Faults,
     Environment

\* TypeOK is an invariant of the pipeline.
THEOREM TypeCorrect == Spec => []TypeOK
<1>1. QED
  BY TypeInit, TypeNext, PTL DEF Spec

-----------------------------------------------------------------------------
(* The child and the queue of its task *)

LEMMA Ends == ASSUME EndChild \/ AbortCycle PROVE pc' = "idle" /\ cur' = 0
  BY DEF EndChild, AbortCycle, GoTo

\* The steps that always end the child.
LEMMA EndingSteps ==
  ASSUME \/ IdleChild \/ Stage01AFinish \/ Stage01BRefuse \/ Stage01BApplyFails
         \/ Stage01BPass \/ Stage01BFail \/ Stage01CPass \/ Stage01CFail
         \/ Stage01CInfraBlock \/ (\E t \in Tasks : RecoverReviewLimit(t))
         \/ RepairRaises \/ RepairRequeue \/ OperationFinish \/ PublishDecline \/ PublishRefuse
         \/ PublishMove \/ Faults
  PROVE  pc' = "idle" /\ cur' = 0
  BY Ends DEF IdleChild, Stage01AFinish, Stage01BRefuse, Stage01BApplyFails, Stage01BPass,
     Stage01BFail, Stage01CPass, Stage01CFail, Stage01CInfraBlock, RecoverReviewLimit,
     RepairRaises, RepairRequeue, OperationFinish, PublishDecline, PublishRefuse, PublishMove, Faults, Kill,
     KillDuringApply, RollbackFails, KillDuringRestore, KillBeforeLog, KillBeforeMove, CycleBreak,
     Stage01BStop, Stage01CBlock

LEMMA ProcInit == Init => ProcInv
  BY DEF Init, ProcInv, ActivePcs, RepairPcs, PublishPcs

\* What a stage finds is in the queue it polls.
LEMMA WorkQueue ==
  ASSUME TypeOK, NEW t \in Work
  PROVE  /\ Stage = "stage_01a" => loc[t] = "pending" /\ t \in CodeTasks
         /\ Stage = "operations" => loc[t] = "pending" /\ t \in OpTasks
         /\ Stage = "stage_01b" => loc[t] = "review"
         /\ Stage = "stage_01c" => loc[t] = "pending_codex"
  BY DEF Work, InQueue, CodeTasks

LEMMA ProcNext == TypeOK /\ ProcInv /\ [Next]_vars => ProcInv'
<1> SUFFICES ASSUME TypeOK, ProcInv, [Next]_vars PROVE ProcInv'
  OBVIOUS
<1> USE DEF ActivePcs, RepairPcs, PublishPcs
<1>1. CASE pc' = "idle"
  BY <1>1 DEF ProcInv
<1>2. CASE pc' # "idle"
  <2> USE <1>2
  <2>1. ASSUME NEW t \in Tasks,
               Stage01AClaim(t) \/ Stage01BClaim(t) \/ Stage01CClaim(t) \/ OperationClaim(t)
        PROVE  ProcInv'
    BY <2>1, WorkQueue DEF ProcInv, TypeOK, Stage01AClaim, Stage01BClaim, Stage01CClaim,
       OperationClaim, IsFirst, Start, Move
  <2>2. CASE Stage01BLaunch \/ Stage01BModel \/ Stage01BApply \/ Stage01CEvidence
    BY <2>2, Ends DEF ProcInv, Stage01BLaunch, Stage01BModel, Stage01BApply, Stage01CEvidence,
       Run, Continue, Stage01BStop, Stage01CBlock, taskVars
  <2>3. ASSUME NEW t \in Tasks, RepairBegin(t)
        PROVE  ProcInv'
    BY <2>3 DEF ProcInv, TypeOK, RepairBegin, RepairWork, InQueue, IsFirst, Start, taskVars
  <2>4. CASE RepairRestore
    BY <2>4, Ends DEF ProcInv, RepairRestore, Run, Continue, taskVars
  <2>5. ASSUME NEW t \in Tasks, PublishClaim(t)
        PROVE  ProcInv'
    BY <2>5 DEF ProcInv, TypeOK, PublishClaim, PublishWork, InQueue, IsFirst, Start, taskVars
  <2>6. CASE PublishCommit \/ PublishRemote \/ PublishSwitch \/ PublishSync
    BY <2>6 DEF ProcInv, PublishCommit, PublishRemote, PublishSwitch, PublishSync, Run,
       Continue, taskVars
  <2>7. CASE Environment
    <3>1. pc' = pc /\ cur' = cur
      BY <2>7 DEF Environment, Submit, Cancel, OperatorEdit, OperatorReset, SetConfig, SetProfile, loopVars
    <3>2. ASSUME NEW t \in Tasks, loc[t] \notin {"none", "pending"} PROVE loc'[t] = loc[t]
      BY <2>7, <3>2 DEF TypeOK, Environment, Submit, Cancel, OperatorEdit, OperatorReset, SetConfig, SetProfile,
         Move, taskVars
    <3>3. cur \in Tasks
      BY <3>1, RunningTask
    <3> QED
      BY <3>1, <3>2, <3>3 DEF ProcInv
  <2>8. CASE UNCHANGED vars
    BY <2>8 DEF ProcInv, vars, loopVars, taskVars
  <2>9. QED
    BY <2>1, <2>2, <2>3, <2>4, <2>5, <2>6, <2>7, <2>8, EndingSteps
    DEF Next, Supervisor, Stage01A, Stage01B, Stage01C, AutoRepair, Operations, Publisher
<1>3. QED
  BY <1>1, <1>2

\* A task leaves approved for completed only, and completed never.
LEMMA ApprovedStays ==
  ASSUME TypeOK, ProcInv, [Next]_vars, NEW t \in Tasks, loc[t] \in {"approved", "completed"}
  PROVE  loc'[t] = loc[t] \/ (loc'[t] = "completed" /\ PublishMove /\ cur = t)
<1> USE DEF ActivePcs, RepairPcs, PublishPcs
<1>1. ASSUME NEW u \in Tasks,
             \/ Stage01AClaim(u) \/ Stage01BClaim(u) \/ Stage01CClaim(u) \/ OperationClaim(u)
             \/ RecoverReviewLimit(u) \/ Submit(u) \/ Cancel(u)
      PROVE  loc'[t] = loc[t]
  BY <1>1, WorkQueue DEF TypeOK, Stage01AClaim, Stage01BClaim, Stage01CClaim, OperationClaim,
     RecoverReviewLimit, Submit, Cancel, LimitWork, InQueue, IsFirst, Move
<1>2. CASE Stage01AFinish \/ Stage01BRefuse \/ Stage01BModel \/ Stage01BApplyFails
           \/ Stage01BPass \/ Stage01BFail \/ Stage01CEvidence \/ Stage01CPass \/ Stage01CFail
           \/ Stage01CInfraBlock \/ OperationFinish \/ KillBeforeLog \/ RollbackFails
  BY <1>2, RunningTask DEF TypeOK, ProcInv, Stage01AFinish, Stage01BRefuse, Stage01BModel,
     Stage01BApplyFails, Stage01BPass, Stage01BFail, Stage01CEvidence, Stage01CPass,
     Stage01CFail, Stage01CInfraBlock, OperationFinish, KillBeforeLog, RollbackFails, Stage01BStop,
     Stage01CBlock, Run, Move, taskVars
<1>3. CASE RepairRequeue
  BY <1>3, RunningTask DEF TypeOK, ProcInv, RepairRequeue, Run, Move
<1>4. CASE PublishMove
  BY <1>4, RunningTask DEF TypeOK, ProcInv, PublishMove, Run, Move
<1>5. CASE UNCHANGED loc
  BY <1>5
<1>6. CASE \/ IdleChild \/ Stage01BLaunch \/ Stage01BApply \/ (\E u \in Tasks : RepairBegin(u))
           \/ RepairRaises \/ RepairRestore \/ (\E u \in Tasks : PublishClaim(u))
           \/ PublishDecline \/ PublishRefuse \/ PublishCommit \/ PublishRemote \/ PublishSwitch \/ PublishSync
           \/ Kill \/ KillDuringApply \/ KillDuringRestore \/ KillBeforeMove \/ CycleBreak
           \/ (\E kind \in {"in", "out"} : OperatorEdit(kind)) \/ OperatorReset
           \/ (\E n \in Caps : SetConfig(n))
           \/ (\E p \in {"valid", "refused", "unreadable"} : SetProfile(p)) \/ UNCHANGED vars
  <2>1. UNCHANGED loc
    BY <1>6 DEF IdleChild, Stage01BLaunch, Stage01BApply, RepairBegin, RepairRaises,
       RepairRestore, PublishClaim, PublishDecline, PublishRefuse, PublishCommit, PublishRemote, PublishSwitch,
       PublishSync, Kill, KillDuringApply, RollbackFails, Stage01BStop, KillDuringRestore, KillBeforeMove, CycleBreak,
       OperatorEdit, OperatorReset, SetConfig, SetProfile, taskVars, vars
  <2>2. QED
    BY <2>1
<1>7. QED
  BY <1>1, <1>2, <1>3, <1>4, <1>5, <1>6
  DEF Next, Supervisor, Stage01A, Stage01B, Stage01C, AutoRepair, Operations, Publisher,
      Faults, Environment

-----------------------------------------------------------------------------
(* Commits *)

LEMMA TaskNames ==
  /\ 0 \notin Tasks
  /\ \A t \in Tasks : WorkBranch[t] \in Branches /\ WorkBranch[t] # Base
  BY TasksAssumption, BranchAssumption

LEMMA CommitInit == Init => CommitInv
<1> SUFFICES ASSUME Init PROVE CommitInv
  OBVIOUS
<1>1. \A b \in Branches : commit[b] = NoCommit
  BY DEF Init
<1>2. ASSUME NEW t \in Tasks PROVE ~Committed(t)
  BY <1>1, TaskNames DEF Committed, NoCommit
<1>3. pc \notin PublishPcs /\ \A t \in Tasks : loc[t] = "none"
  BY DEF Init, PublishPcs
<1>4. QED
  BY <1>1, <1>2, <1>3 DEF CommitInv, CodeTasks

\* Only the publisher commits, and only on a branch without a commit.
LEMMA CommitsOnly ==
  ASSUME [Next]_vars, ~(PublishCommit /\ FreshCommit(cur) /\ commit' # commit)
  PROVE  UNCHANGED commit
<1>1. CASE IdleChild \/ Stage01A \/ Stage01B
  BY <1>1 DEF IdleChild, Stage01A, Stage01B, Stage01AClaim, Stage01AFinish, Stage01BClaim,
     Stage01BLaunch, Stage01BRefuse, Stage01BModel, Stage01BApply, Stage01BApplyFails,
     Stage01BPass, Stage01BFail, gitVars
<1>2. CASE Stage01C \/ AutoRepair \/ Operations
  BY <1>2 DEF Stage01C, AutoRepair, Operations, Stage01CClaim, Stage01CEvidence, Stage01CPass,
     Stage01CFail, Stage01CInfraBlock, RecoverReviewLimit, RepairBegin, RepairRaises,
     RepairRestore, RepairRequeue, OperationClaim, OperationFinish, gitVars
<1>3. CASE Publisher
  BY <1>3 DEF Publisher, PublishClaim, PublishDecline, PublishRefuse, PublishCommit, PublishRemote,
     PublishSwitch, PublishSync, PublishMove, gitVars
<1>4. CASE Faults \/ Environment \/ UNCHANGED vars
  BY <1>4 DEF Faults, Environment, Kill, KillDuringApply, RollbackFails, Stage01BStop, KillDuringRestore, KillBeforeLog,
     KillBeforeMove, CycleBreak, Submit, Cancel, OperatorEdit, OperatorReset, SetConfig, SetProfile,
     gitVars, vars
<1>5. QED
  BY <1>1, <1>2, <1>3, <1>4 DEF Next, Supervisor

\* A commit of a task stays, and a new one is of the task the publisher runs for.
LEMMA CommittedStays ==
  ASSUME TypeOK, CommitInv, [Next]_vars, NEW t \in Tasks
  PROVE  /\ Committed(t) => Committed(t)'
         /\ Committed(t)' => Committed(t) \/ (t = cur /\ PublishCommit)
<1>1. CASE UNCHANGED commit
  BY <1>1 DEF Committed
<1>2. CASE PublishCommit /\ FreshCommit(cur) /\ commit' # commit
  <2>1. /\ cur \in Tasks
        /\ commit' = [commit EXCEPT ![WorkBranch[cur]] = [task |-> cur, content |-> tree]]
        /\ commit[WorkBranch[cur]] = NoCommit
    BY <1>2, RunningTask DEF PublishCommit, Run, FreshCommit
  <2>2. CASE WorkBranch[t] = WorkBranch[cur]
    <3>1. ~Committed(t)
      BY <2>1, <2>2, TaskNames DEF Committed, NoCommit
    <3>2. commit'[WorkBranch[t]].task = cur
      BY <2>1, <2>2, TaskNames DEF TypeOK
    <3>3. QED
      BY <1>2, <3>1, <3>2 DEF Committed
  <2>3. CASE WorkBranch[t] # WorkBranch[cur]
    BY <2>1, <2>3, TaskNames DEF Committed, TypeOK
  <2>4. QED
    BY <2>2, <2>3
<1>3. QED
  BY <1>1, <1>2, CommitsOnly

\* A task comes to completed from the publisher, or as an operations task.
LEMMA CompletedBy ==
  ASSUME TypeOK, ProcInv, [Next]_vars, NEW t \in CodeTasks, loc'[t] = "completed"
  PROVE  loc[t] = "completed" \/ (PublishMove /\ t = cur)
<1> USE DEF ActivePcs
<1>1. CASE IdleChild \/ Stage01A \/ Stage01B
  BY <1>1 DEF TypeOK, CodeTasks, IdleChild, Stage01A, Stage01B, Stage01AClaim, Stage01AFinish, Stage01BClaim,
     Stage01BLaunch, Stage01BRefuse, Stage01BModel, Stage01BApply, Stage01BApplyFails,
     Stage01BPass, Stage01BFail, Stage01BStop, Move, taskVars
<1>2. CASE Stage01C \/ AutoRepair
  BY <1>2 DEF TypeOK, CodeTasks, Stage01C, AutoRepair, Stage01CClaim, Stage01CEvidence, Stage01CPass,
     Stage01CFail, Stage01CInfraBlock, Stage01CBlock, RecoverReviewLimit, RepairBegin, RepairRaises,
     RepairRestore, RepairRequeue, Move, taskVars
<1>3. CASE Operations
  BY <1>3 DEF TypeOK, ProcInv, CodeTasks, Operations, OperationClaim, OperationFinish, Run, Move
<1>4. CASE Publisher
  BY <1>4 DEF TypeOK, CodeTasks, Publisher, PublishClaim, PublishDecline, PublishRefuse, PublishCommit, PublishRemote,
     PublishSwitch, PublishSync, PublishMove, Move, taskVars
<1>5. CASE Faults \/ Environment \/ UNCHANGED vars
  BY <1>5 DEF TypeOK, CodeTasks, Faults, Environment, Kill, KillDuringApply, RollbackFails, Stage01BStop, KillDuringRestore, KillBeforeLog,
     KillBeforeMove, CycleBreak, Submit, Cancel, OperatorEdit, OperatorReset, SetConfig, SetProfile, Move,
     taskVars, vars
<1>6. QED
  BY <1>1, <1>2, <1>3, <1>4, <1>5 DEF Next, Supervisor

LEMMA CommitNext == TypeOK /\ ProcInv /\ CommitInv /\ [Next]_vars => CommitInv'
<1> SUFFICES ASSUME TypeOK, ProcInv, CommitInv, [Next]_vars PROVE CommitInv'
  OBVIOUS
<1> DEFINE OwnBranch == \A b \in Branches : commit[b] # NoCommit =>
             commit[b].task \in Tasks /\ WorkBranch[commit[b].task] = b
<1>1. OwnBranch'
  <2>1. CASE UNCHANGED commit
    BY <2>1 DEF CommitInv
  <2>2. CASE PublishCommit /\ FreshCommit(cur) /\ commit' # commit
    BY <2>2, RunningTask, TaskNames DEF CommitInv, TypeOK, PublishCommit, Run
  <2>3. QED
    BY <2>1, <2>2, CommitsOnly
<1>2. (pc \in PublishPcs \ {"p_commit"} => Committed(cur))'
  <2> SUFFICES ASSUME pc' \in PublishPcs \ {"p_commit"} PROVE Committed(cur)'
    OBVIOUS
  <2> USE DEF PublishPcs
  <2>1. CASE PublishCommit
    <3>1. cur' = cur /\ cur \in Tasks
      BY <2>1, RunningTask DEF PublishCommit, Run, Continue
    <3>2. Committed(cur) \/ commit' = [commit EXCEPT ![WorkBranch[cur]] = [task |-> cur, content |-> tree]]
      BY <2>1 DEF PublishCommit, ResumeCommit, StaleCommit, Committed
    <3>3. QED
      BY <3>1, <3>2, CommittedStays, TaskNames DEF Committed, TypeOK
  <2>2. CASE ~PublishCommit
    <3>1. pc \in PublishPcs \ {"p_commit"} /\ cur' = cur
      <4>1. CASE IdleChild \/ Stage01A \/ Stage01B \/ Stage01C \/ AutoRepair \/ Operations
        BY <4>1, EndingSteps DEF Stage01A, Stage01B, Stage01C, AutoRepair, Operations,
           Stage01AClaim, Stage01BClaim, Stage01CClaim, OperationClaim, RepairBegin,
           Stage01BLaunch, Stage01BModel, Stage01BApply, Stage01CEvidence, RepairRestore,
           Start, Continue, Stage01BStop, Stage01CBlock, EndChild, GoTo
      <4>2. CASE Publisher
        BY <2>2, <4>2, EndingSteps DEF Publisher, PublishClaim, PublishRemote, PublishSwitch,
           PublishSync, Start, Continue, Run
      <4>3. CASE Faults \/ Environment \/ UNCHANGED vars
        BY <4>3, EndingSteps DEF Environment, Submit, Cancel, OperatorEdit, OperatorReset,
           SetConfig, SetProfile, loopVars, vars
      <4>4. QED
        BY <4>1, <4>2, <4>3 DEF Next, Supervisor
    <3>2. QED
      BY <3>1, CommittedStays, RunningTask DEF CommitInv, Committed
  <2>3. QED
    BY <2>1, <2>2
<1>3. ASSUME NEW t \in Tasks PROVE (t \in CodeTasks /\ loc[t] = "completed" => Committed(t))'
  BY CompletedBy, CommittedStays DEF CommitInv, PublishMove, Run, PublishPcs
<1>4. ASSUME NEW t \in Tasks PROVE (Committed(t) => loc[t] \in {"approved", "completed"})'
  <2>1. CASE Committed(t)
    BY <2>1, ApprovedStays DEF CommitInv
  <2>2. CASE ~Committed(t) /\ t = cur /\ PublishCommit
    BY <2>2 DEF ProcInv, PublishCommit, Run, PublishPcs, taskVars
  <2>3. QED
    BY <2>1, <2>2, CommittedStays
<1>5. QED
  BY <1>1, <1>2, <1>3, <1>4 DEF CommitInv

\* CompletedMeansCommitted is an invariant, also when children are killed, when
\* the owner edits the checkout and when tasks share a work branch.
THEOREM CompletedCommitted == Spec => []CompletedMeansCommitted
<1>1. Init => TypeOK /\ ProcInv /\ CommitInv
  BY TypeInit, ProcInit, CommitInit
<1>2. TypeOK /\ ProcInv /\ CommitInv /\ [Next]_vars => (TypeOK /\ ProcInv /\ CommitInv)'
  BY TypeNext, ProcNext, CommitNext
<1>3. TypeOK /\ ProcInv /\ CommitInv => CompletedMeansCommitted
  BY DEF CommitInv, CompletedMeansCommitted, CodeTasks
<1>4. QED
  BY <1>1, <1>2, <1>3, PTL DEF Spec
-----------------------------------------------------------------------------
(* What a step does to one task *)

\* The actions that move the file of task t.
MovesTask(t) ==
  \/ Submit(t) \/ Cancel(t)
  \/ Stage01AClaim(t) \/ Stage01BClaim(t) \/ Stage01CClaim(t) \/ OperationClaim(t)
  \/ RecoverReviewLimit(t)
  \/ /\ t = cur
     /\ \/ Stage01AFinish \/ Stage01BRefuse \/ Stage01BModel \/ Stage01BApplyFails
        \/ Stage01BPass \/ Stage01BFail \/ Stage01CEvidence \/ Stage01CPass \/ Stage01CFail
        \/ Stage01CInfraBlock \/ RepairRequeue \/ OperationFinish \/ PublishMove
        \/ KillBeforeLog \/ RollbackFails

LEMMA MoveStep ==
  ASSUME TypeOK, [Next]_vars, NEW t \in Tasks, loc'[t] # loc[t]
  PROVE  MovesTask(t)
<1>1. CASE IdleChild \/ Stage01A \/ Stage01B
  BY <1>1 DEF MovesTask, TypeOK, IdleChild, Stage01A, Stage01B, Stage01AClaim, Stage01AFinish,
     Stage01BClaim, Stage01BLaunch, Stage01BRefuse, Stage01BModel, Stage01BApply,
     Stage01BApplyFails, Stage01BPass, Stage01BFail, Stage01BStop, Move, taskVars
<1>2. CASE Stage01C \/ AutoRepair \/ Operations
  BY <1>2 DEF MovesTask, TypeOK, Stage01C, AutoRepair, Operations, Stage01CClaim,
     Stage01CEvidence, Stage01CPass, Stage01CFail, Stage01CInfraBlock, Stage01CBlock,
     RecoverReviewLimit, RepairBegin, RepairRaises, RepairRestore, RepairRequeue,
     OperationClaim, OperationFinish, Move, taskVars
<1>3. CASE Publisher
  BY <1>3 DEF MovesTask, TypeOK, Publisher, PublishClaim, PublishDecline, PublishRefuse, PublishCommit,
     PublishRemote, PublishSwitch, PublishSync, PublishMove, Move, taskVars
<1>4. CASE Faults \/ Environment \/ UNCHANGED vars
  BY <1>4 DEF MovesTask, TypeOK, Faults, Environment, Kill, KillDuringApply, RollbackFails, Stage01BStop,
     KillDuringRestore, KillBeforeLog, KillBeforeMove, CycleBreak, Submit, Cancel,
     OperatorEdit, OperatorReset, SetConfig, SetProfile, Move, taskVars, vars
<1>5. QED
  BY <1>1, <1>2, <1>3, <1>4 DEF Next, Supervisor

\* Logs are written by the runner of the stage, for its task.
LEMMA LogStep ==
  ASSUME TypeOK, [Next]_vars, NEW t \in Tasks
  PROVE  /\ log01B'[t] = log01B[t] \/ (t = cur /\ pc \in {"b_guard", "b_model", "b_apply", "b_check"})
         /\ log01C'[t] = log01C[t] \/ (t = cur /\ pc \in {"c_audit", "c_verdict"})
<1>1. CASE IdleChild \/ Stage01A \/ Stage01B
  BY <1>1 DEF TypeOK, IdleChild, Stage01A, Stage01B, Stage01AClaim, Stage01AFinish,
     Stage01BClaim, Stage01BLaunch, Stage01BRefuse, Stage01BModel, Stage01BApply,
     Stage01BApplyFails, Stage01BPass, Stage01BFail, Stage01BStop, Run, taskVars
<1>2. CASE Stage01C \/ AutoRepair \/ Operations
  BY <1>2 DEF TypeOK, Stage01C, AutoRepair, Operations, Stage01CClaim,
     Stage01CEvidence, Stage01CPass, Stage01CFail, Stage01CInfraBlock, Stage01CBlock,
     RecoverReviewLimit, RepairBegin, RepairRaises, RepairRestore, RepairRequeue,
     OperationClaim, OperationFinish, Run, taskVars
<1>3. CASE Publisher
  BY <1>3 DEF TypeOK, Publisher, PublishClaim, PublishDecline, PublishRefuse, PublishCommit,
     PublishRemote, PublishSwitch, PublishSync, PublishMove, taskVars
<1>4. CASE Faults \/ Environment \/ UNCHANGED vars
  BY <1>4 DEF TypeOK, Faults, Environment, Kill, KillDuringApply, RollbackFails, Stage01BStop,
     Run, KillDuringRestore, KillBeforeLog, KillBeforeMove, CycleBreak, Submit, Cancel,
     OperatorEdit, OperatorReset, SetConfig, SetProfile, taskVars, vars
<1>5. QED
  BY <1>1, <1>2, <1>3, <1>4 DEF Next, Supervisor

\* The publisher has nothing to do, is done or declines.
Passes == IdleChild \/ PublishMove \/ PublishDecline

\* The cycle: which child follows, and how the publisher is left for the next.
LEMMA SlotStep ==
  ASSUME TypeOK, [Next]_vars
  PROVE  \/ slot' = slot
         \/ slot' = 1
         \/ slot' = slot + 1 /\ slot < 8 /\ (Stage = "publish" => Passes)
<1>1. Len(Cycle) = 8
  BY DEF Cycle
<1>2. ASSUME EndChild \/ AbortCycle, Stage = "publish" => Passes
      PROVE  \/ slot' = 1
             \/ slot' = slot + 1 /\ slot < 8 /\ (Stage = "publish" => Passes)
  BY <1>1, <1>2 DEF EndChild, AbortCycle, GoTo, TypeOK
<1>3. CASE IdleChild \/ Stage01A \/ Stage01B
  BY <1>2, <1>3 DEF Passes, IdleChild, Stage01A, Stage01B, Stage01AClaim, Stage01AFinish,
     Stage01BClaim, Stage01BLaunch, Stage01BRefuse, Stage01BModel, Stage01BApply,
     Stage01BApplyFails, Stage01BPass, Stage01BFail, Stage01BStop, Run, Start, Continue
<1>4. CASE Stage01C \/ AutoRepair \/ Operations
  BY <1>2, <1>4 DEF Stage01C, AutoRepair, Operations, Stage01CClaim,
     Stage01CEvidence, Stage01CPass, Stage01CFail, Stage01CInfraBlock, Stage01CBlock,
     RecoverReviewLimit, RepairBegin, RepairRaises, RepairRestore, RepairRequeue,
     OperationClaim, OperationFinish, Run, Start, Continue
<1>5. CASE Publisher
  BY <1>2, <1>5 DEF Passes, Publisher, PublishClaim, PublishDecline, PublishRefuse, PublishCommit, AbortCycle, GoTo,
     PublishRemote, PublishSwitch, PublishSync, PublishMove, Start, Continue
<1>6. CASE Faults
  BY <1>2, <1>6 DEF Faults, Kill, KillDuringApply, RollbackFails, Stage01BStop, Run,
     KillDuringRestore, KillBeforeLog, KillBeforeMove, CycleBreak, AbortCycle, GoTo
<1>7. CASE Environment \/ UNCHANGED vars
  BY <1>7 DEF Environment, Submit, Cancel, OperatorEdit, OperatorReset, SetConfig, SetProfile, loopVars,
     vars
<1>8. QED
  BY <1>3, <1>4, <1>5, <1>6, <1>7 DEF Next, Supervisor

LEMMA StageNames ==
  ASSUME TypeOK
  PROVE  /\ Stage = "publish" <=> slot \in {1, 8}
         /\ Stage = "auto_repair" <=> slot \in {2, 6}
         /\ Stage = "operations" <=> slot = 3
         /\ Stage = "stage_01a" <=> slot = 4
         /\ Stage = "stage_01b" <=> slot = 5
         /\ Stage = "stage_01c" <=> slot = 7
<1>1. slot \in 1..8 => slot = 1 \/ slot = 2 \/ slot = 3 \/ slot = 4 \/ slot = 5 \/ slot = 6
                       \/ slot = 7 \/ slot = 8
  OBVIOUS
<1>2. QED
  BY <1>1 DEF TypeOK, Stage, Cycle
-----------------------------------------------------------------------------
(* The approved queue *)

LEMMA ApprovedInit == Init => ApprovedInv
  BY DEF Init, ApprovedInv, InQueue, PublishPcs

\* Nobody changes the fields of a task, and the changes of the profile count.
LEMMA MetaStep ==
  ASSUME TypeOK, [Next]_vars
  PROVE  /\ contract' = contract
         /\ cfgs' = 0 => cfgs = 0 /\ profile' = profile /\ cfg' = cfg
<1>1. CASE IdleChild \/ Stage01A \/ Stage01B
  BY <1>1 DEF IdleChild, Stage01A, Stage01B, Stage01AClaim, Stage01AFinish,
     Stage01BClaim, Stage01BLaunch, Stage01BRefuse, Stage01BModel, Stage01BApply,
     Stage01BApplyFails, Stage01BPass, Stage01BFail, envVars
<1>2. CASE Stage01C \/ AutoRepair \/ Operations
  BY <1>2 DEF Stage01C, AutoRepair, Operations, Stage01CClaim,
     Stage01CEvidence, Stage01CPass, Stage01CFail, Stage01CInfraBlock,
     RecoverReviewLimit, RepairBegin, RepairRaises, RepairRestore, RepairRequeue,
     OperationClaim, OperationFinish, envVars
<1>3. CASE Publisher
  BY <1>3 DEF Publisher, PublishClaim, PublishDecline, PublishRefuse, PublishCommit,
     PublishRemote, PublishSwitch, PublishSync, PublishMove, envVars
<1>4. CASE Faults
  BY <1>4 DEF Faults, Kill, KillDuringApply, RollbackFails, KillDuringRestore, KillBeforeLog,
     KillBeforeMove, CycleBreak, Fault
<1>5. CASE Environment \/ UNCHANGED vars
  <2>1. cfgs \in Nat
    BY BoundAssumption DEF TypeOK
  <2>2. CASE \/ \E n \in Caps : SetConfig(n)
             \/ \E p \in {"valid", "refused", "unreadable"} : SetProfile(p)
    BY <2>1, <2>2 DEF SetConfig, SetProfile
  <2>3. CASE \/ \E t \in Tasks : Submit(t) \/ Cancel(t)
             \/ \E kind \in {"in", "out"} : OperatorEdit(kind)
             \/ OperatorReset \/ UNCHANGED vars
    BY <2>3 DEF Submit, Cancel, OperatorEdit, OperatorReset, envVars, vars
  <2>4. QED
    BY <1>5, <2>2, <2>3 DEF Environment
<1>6. QED
  BY <1>1, <1>2, <1>3, <1>4, <1>5 DEF Next, Supervisor

LEMMA FirmStep ==
  ASSUME TypeOK, [Next]_vars, NEW t \in Tasks, Firm(t)'
  PROVE  Firm(t)
  BY MetaStep DEF Firm

\* The publisher runs for the task it claimed or went on with.
LEMMA PublishStep ==
  ASSUME TypeOK, [Next]_vars, pc' \in PublishPcs
  PROVE  \/ \E t \in Tasks : PublishClaim(t)
         \/ pc \in PublishPcs /\ cur' = cur
<1> USE DEF PublishPcs
<1>1. CASE IdleChild \/ Stage01A \/ Stage01B
  BY <1>1, EndingSteps DEF Stage01A, Stage01B, Stage01AClaim, Stage01BClaim, Stage01BLaunch,
     Stage01BModel, Stage01BApply, Stage01BStop, EndChild, GoTo, Start, Continue
<1>2. CASE Stage01C \/ AutoRepair \/ Operations
  BY <1>2, EndingSteps DEF Stage01C, AutoRepair, Operations, Stage01CClaim, Stage01CEvidence,
     Stage01CBlock, RepairBegin, RepairRestore, OperationClaim, EndChild, GoTo, Run, Start,
     Continue, taskVars
<1>3. CASE Publisher
  BY <1>3, EndingSteps DEF Publisher, PublishCommit, PublishRemote, PublishSwitch, PublishSync,
     Run, Continue
<1>4. CASE Faults \/ Environment \/ UNCHANGED vars
  BY <1>4, EndingSteps DEF Environment, Submit, Cancel, OperatorEdit, OperatorReset,
     SetConfig, SetProfile, loopVars, vars
<1>5. QED
  BY <1>1, <1>2, <1>3, <1>4 DEF Next, Supervisor

\* A verdict approves, at the stage after which the publisher runs.
LEMMA ApprovedBy ==
  ASSUME TypeOK, [Next]_vars, NEW t \in Tasks, loc'[t] = "approved"
  PROVE  loc[t] = "approved" \/ (t = cur /\ Stage01CPass)
<1> SUFFICES ASSUME loc[t] # "approved" PROVE t = cur /\ Stage01CPass
  OBVIOUS
<1>1. MovesTask(t)
  BY MoveStep
<1>2. QED
  BY <1>1 DEF TypeOK, MovesTask, Submit, Cancel, Stage01AClaim, Stage01BClaim, Stage01CClaim,
     OperationClaim, RecoverReviewLimit, Stage01AFinish, Stage01BRefuse, Stage01BModel,
     Stage01BApplyFails, Stage01BPass, Stage01BFail, Stage01CEvidence, Stage01CFail,
     Stage01CInfraBlock, RepairRequeue, OperationFinish, PublishMove, KillBeforeLog, RollbackFails,
     Stage01BStop, Stage01CBlock, Move, Continue, taskVars

LEMMA PendingBy ==
  ASSUME TypeOK, [Next]_vars, NEW t \in Tasks, loc'[t] = "pending_codex"
  PROVE  \/ loc[t] = "pending_codex"
         \/ t = cur /\ Stage01BPass
         \/ RecoverReviewLimit(t)
<1> SUFFICES ASSUME loc[t] # "pending_codex"
             PROVE  (t = cur /\ Stage01BPass) \/ RecoverReviewLimit(t)
  OBVIOUS
<1>1. MovesTask(t)
  BY MoveStep
<1>2. QED
  BY <1>1 DEF TypeOK, MovesTask, Submit, Cancel, Stage01AClaim, Stage01BClaim, Stage01CClaim,
     OperationClaim, RecoverReviewLimit, Stage01AFinish, Stage01BRefuse, Stage01BModel,
     Stage01BApplyFails, Stage01BPass, Stage01BFail, Stage01CEvidence, Stage01CFail,
     Stage01CPass,
     Stage01CInfraBlock, RepairRequeue, OperationFinish, PublishMove, KillBeforeLog, RollbackFails,
     Stage01BStop, Stage01CBlock, Move, Continue, taskVars

\* The audit runs for the task it claimed or went on with.
LEMMA AuditStep ==
  ASSUME TypeOK, [Next]_vars, pc' \in {"c_audit", "c_verdict"}
  PROVE  \/ \E t \in Tasks : Stage01CClaim(t)
         \/ pc \in {"c_audit", "c_verdict"} /\ UNCHANGED <<cur, slot>>
<1>1. CASE IdleChild \/ Stage01A \/ Stage01B
  BY <1>1, EndingSteps DEF Stage01A, Stage01B, Stage01AClaim, Stage01BClaim, Stage01BLaunch,
     Stage01BModel, Stage01BApply, Stage01BStop, EndChild, GoTo, Start, Continue
<1>2. CASE Stage01C \/ AutoRepair \/ Operations
  BY <1>2, EndingSteps DEF Stage01C, AutoRepair, Operations, Stage01CEvidence,
     Stage01CBlock, RepairBegin, RepairRestore, OperationClaim, EndChild, GoTo, Run, Start,
     Continue, taskVars
<1>3. CASE Publisher
  BY <1>3, EndingSteps DEF Publisher, PublishClaim, PublishCommit, PublishRemote,
     PublishSwitch, PublishSync, Start, Continue
<1>4. CASE Faults \/ Environment \/ UNCHANGED vars
  BY <1>4, EndingSteps DEF Environment, Submit, Cancel, OperatorEdit, OperatorReset,
     SetConfig, SetProfile, loopVars, vars
<1>5. QED
  BY <1>1, <1>2, <1>3, <1>4 DEF Next, Supervisor

LEMMA ApprovedNext == TypeOK /\ ProcInv /\ ApprovedInv /\ [Next]_vars => ApprovedInv'
<1> SUFFICES ASSUME TypeOK, ProcInv, ApprovedInv, [Next]_vars PROVE ApprovedInv'
  OBVIOUS
<1> USE DEF ActivePcs
<1>a. TypeOK'
  BY TypeNext
<1>b. ASSUME Stage01CPass
      PROVE  /\ cur \in Tasks /\ loc[cur] = "active" /\ log01B[cur] = "pass"
             /\ Stage = "stage_01c" /\ slot' = 8
             /\ \A t \in Tasks : loc[t] = "approved" => ~Firm(t)
             /\ log01C'[cur] = "pass"
  <2>1. Run("stage_01c", "c_verdict") /\ EndChild /\ log01C' = [log01C EXCEPT ![cur] = "pass"]
    BY <1>b DEF Stage01CPass
  <2>2. cur \in Tasks /\ loc[cur] = "active" /\ log01B[cur] = "pass" /\ Stage = "stage_01c"
    BY <2>1, RunningTask DEF Run, ProcInv, ApprovedInv
  <2>3. slot = 7 /\ Len(Cycle) = 8
    BY <2>2, StageNames DEF Cycle
  <2>4. slot' = 8
    BY <2>1, <2>3 DEF EndChild, GoTo
  <2>5. \A t \in Tasks : loc[t] = "approved" => ~Firm(t)
    BY <2>2 DEF ApprovedInv, InQueue
  <2>6. QED
    BY <2>1, <2>2, <2>4, <2>5 DEF TypeOK
<1>1. ASSUME NEW t \in Tasks, NEW u \in Tasks, loc'[t] = "approved", loc'[u] = "approved",
             Firm(t)', Firm(u)'
      PROVE  t = u
  <2>1. Firm(t) /\ Firm(u)
    BY <1>1, FirmStep
  <2>2. /\ loc[t] = "approved" \/ (t = cur /\ Stage01CPass)
        /\ loc[u] = "approved" \/ (u = cur /\ Stage01CPass)
    BY <1>1, ApprovedBy
  <2>3. QED
    BY <1>b, <2>1, <2>2 DEF ApprovedInv, InQueue
<1>2. ASSUME NEW t \in Tasks, loc'[t] = "approved", Firm(t)'
      PROVE  Stage' = "publish"
  <2>1. CASE Stage01CPass
    BY <2>1, <1>a, <1>b, StageNames DEF TypeOK, Stage, Cycle
  <2>2. CASE ~Stage01CPass
    <3>1. loc[t] = "approved" /\ Firm(t) /\ Stage = "publish"
      BY <2>2, <1>2, ApprovedBy, FirmStep DEF ApprovedInv, InQueue
    <3>2. ~IdleChild
      BY <3>1 DEF IdleChild, Work, PublishWork, InQueue, Firm
    <3>2a. ~PublishDecline
      BY <3>1 DEF PublishDecline, Declined, ApprovedInv, Firm
    <3>3. ~PublishMove
      <4>1. SUFFICES ASSUME PublishMove PROVE FALSE
        OBVIOUS
      <4>2. cur \in Tasks /\ loc[cur] = "approved" /\ loc'[cur] = "completed"
        BY <4>1, RunningTask DEF PublishMove, Run, Move, ProcInv, PublishPcs, TypeOK
      <4>3. Firm(cur)
        BY <4>1, <3>1 DEF PublishMove, Run, PublishPcs, ApprovedInv, Firm
      <4>4. QED
        BY <4>2, <4>3, <3>1, <1>2 DEF ApprovedInv, InQueue
    <3>4. slot' = slot \/ slot' = 1
      BY <3>1, <3>2, <3>2a, <3>3, SlotStep DEF Passes
    <3>5. QED
      BY <3>1, <3>4 DEF Stage, Cycle
  <2>3. QED
    BY <2>1, <2>2
<1>3. ASSUME NEW t \in Tasks, loc'[t] \in {"pending_codex", "approved"}
      PROVE  log01B'[t] = "pass"
  <2>1. CASE loc[t] \in {"pending_codex", "approved"}
    BY <2>1, LogStep DEF ProcInv, ApprovedInv
  <2>2. CASE t = cur /\ Stage01BPass
    BY <2>2, RunningTask DEF Stage01BPass, Run, TypeOK
  <2>3. CASE t = cur /\ Stage01CPass
    BY <2>3, <1>b DEF Stage01CPass
  <2>4. CASE RecoverReviewLimit(t)
    BY <2>4 DEF RecoverReviewLimit, IsFirst, LimitWork
  <2>5. QED
    BY <1>3, <2>1, <2>2, <2>3, <2>4, ApprovedBy, PendingBy
<1>4. ASSUME NEW t \in Tasks, loc'[t] = "approved"
      PROVE  log01C'[t] = "pass"
  BY <1>4, <1>b, ApprovedBy, LogStep DEF ProcInv, ApprovedInv
<1>5. ASSUME pc' \in {"c_audit", "c_verdict"}
      PROVE  log01B'[cur'] = "pass" /\ Stage' = "stage_01c"
  <2>1. ASSUME NEW t \in Tasks, Stage01CClaim(t) PROVE log01B'[cur'] = "pass" /\ Stage' = "stage_01c"
    BY <2>1, WorkQueue DEF Stage01CClaim, IsFirst, Start, ApprovedInv, Stage
  <2>2. CASE pc \in {"c_audit", "c_verdict"} /\ UNCHANGED <<cur, slot>>
    BY <2>2, RunningTask, LogStep DEF ApprovedInv, Stage
  <2>3. QED
    BY <1>5, <2>1, <2>2, AuditStep
<1>6. ASSUME pc' \in PublishPcs, Maintenance
      PROVE  contract'[cur'] # "none"
  <2>1. ASSUME NEW t \in Tasks, PublishClaim(t) PROVE contract'[cur'] # "none"
    BY <2>1, <1>6, MetaStep DEF PublishClaim, IsFirst, PublishWork, Start
  <2>2. CASE pc \in PublishPcs /\ cur' = cur
    BY <2>2, <1>6, MetaStep DEF ApprovedInv
  <2>3. QED
    BY <1>6, <2>1, <2>2, PublishStep
<1>7. cfgs' = 0 => profile' = "valid"
  BY MetaStep DEF ApprovedInv
<1>8. QED
  BY <1>1, <1>2, <1>3, <1>4, <1>5, <1>6, <1>7 DEF ApprovedInv, InQueue

\* ApprovedIsPublishable is an invariant: no gate ever refuses an approved task for
\* its audit evidence; the KOL gate never finds a second one, and the AI PROF gate
\* none as long as nobody touches the profile, whatever tasks it passes over.
THEOREM ApprovedPublishable == Spec => []ApprovedIsPublishable
<1>1. Init => TypeOK /\ ProcInv /\ ApprovedInv
  BY TypeInit, ProcInit, ApprovedInit
<1>2. TypeOK /\ ProcInv /\ ApprovedInv /\ [Next]_vars => (TypeOK /\ ProcInv /\ ApprovedInv)'
  BY TypeNext, ProcNext, ApprovedNext
<1>3. TypeOK /\ ProcInv /\ ApprovedInv => ApprovedIsPublishable
  BY DEF ApprovedInv, ApprovedIsPublishable, InQueue
<1>4. QED
  BY <1>1, <1>2, <1>3, PTL DEF Spec
-----------------------------------------------------------------------------
(* Attempts and launches *)

LEMMA BudgetInit == Init => BudgetInv
<1> SUFFICES ASSUME Init PROVE BudgetInv
  OBVIOUS
<1>1. 0 <= CapReview
  BY CapAssumption DEF Init, CapReview
<1>2. ASSUME NEW t \in Tasks PROVE attempt[t] = 0 /\ launches[t] = 0
  BY DEF Init
<1>3. pc # "r_requeue"
  BY DEF Init
<1>4. QED
  BY <1>1, <1>2, <1>3 DEF BudgetInv

LEMMA CapTypes ==
  ASSUME TypeOK
  PROVE  CapReview \in Nat /\ CapRepair \in Nat
  BY CapAssumption DEF TypeOK, CapReview, CapRepair

\* A launch is of Stage 01B; an attempt is counted by a FAIL verdict inside the
\* cap or by a repair.
LEMMA CountStep ==
  ASSUME TypeOK, [Next]_vars, NEW t \in Tasks
  PROVE  /\ \/ launches'[t] = launches[t]
            \/ launches'[t] = launches[t] + 1 /\ t = cur /\ pc = "b_guard" /\ Stage01BLaunch
         /\ \/ attempt'[t] = attempt[t]
            \/ /\ attempt'[t] = attempt[t] + 1
               /\ t = cur
               /\ \/ Stage01CFail /\ pc = "c_verdict" /\ attempt[t] + 1 <= CapReview
                  \/ pc = "r_requeue"
<1>1. CASE IdleChild \/ Stage01A \/ Stage01B
  BY <1>1 DEF TypeOK, IdleChild, Stage01A, Stage01B, Stage01AClaim, Stage01AFinish,
     Stage01BClaim, Stage01BLaunch, Stage01BRefuse, Stage01BModel, Stage01BApply,
     Stage01BApplyFails, Stage01BPass, Stage01BFail, Stage01BStop, Run, taskVars, histVars
<1>2. CASE Stage01C \/ Operations
  <2>1. CASE Stage01CFail
    <3>1. CASE attempt[cur] + 1 > CapReview
      BY <2>1, <3>1 DEF Stage01CFail, Stage01CBlock, histVars
    <3>2. CASE ~(attempt[cur] + 1 > CapReview)
      <4>1. cur \in Tasks /\ attempt[cur] + 1 <= CapReview
        BY <2>1, <3>2, RunningTask, CapTypes DEF Stage01CFail, Run, TypeOK
      <4>2. attempt' = [attempt EXCEPT ![cur] = @ + 1] /\ pc = "c_verdict" /\ launches' = launches
        BY <2>1, <3>2 DEF Stage01CFail, Run, histVars
      <4>3. QED
        BY <2>1, <4>1, <4>2 DEF TypeOK
    <3>3. QED
      BY <3>1, <3>2
  <2>2. CASE (Stage01C \/ Operations) /\ ~Stage01CFail
    BY <2>2 DEF TypeOK, Stage01C, Operations, Stage01CClaim,
     Stage01CEvidence, Stage01CPass, Stage01CInfraBlock, Stage01CBlock,
     OperationClaim, OperationFinish, Run, taskVars, histVars
  <2>3. QED
    BY <1>2, <2>1, <2>2
<1>3. CASE AutoRepair \/ Publisher
  BY <1>3 DEF TypeOK, AutoRepair, RecoverReviewLimit, RepairBegin, RepairRaises, RepairRestore,
     RepairRequeue, Publisher, PublishClaim, PublishDecline, PublishRefuse, PublishCommit,
     PublishRemote, PublishSwitch, PublishSync, PublishMove, Run, taskVars, histVars
<1>4. CASE Faults \/ Environment \/ UNCHANGED vars
  BY <1>4 DEF TypeOK, Faults, Environment, Kill, KillDuringApply, RollbackFails, Stage01BStop,
     Run, KillDuringRestore, KillBeforeLog, KillBeforeMove, CycleBreak, Submit, Cancel,
     OperatorEdit, OperatorReset, SetConfig, SetProfile, Run, taskVars, histVars, vars
<1>5. QED
  BY <1>1, <1>2, <1>3, <1>4 DEF Next, Supervisor

\* A task comes to review from 01A, from a FAIL verdict or from a repair.
LEMMA ReviewBy ==
  ASSUME TypeOK, [Next]_vars, NEW t \in Tasks, loc'[t] \in {"none", "pending", "review"}
  PROVE  \/ loc[t] \in {"none", "pending", "review"}
         \/ t = cur /\ pc = "a_check" /\ UNCHANGED <<attempt, launches>>
         \/ t = cur /\ attempt'[t] = attempt[t] + 1 /\ UNCHANGED launches
<1> SUFFICES ASSUME loc[t] \notin {"none", "pending", "review"}
             PROVE  \/ t = cur /\ pc = "a_check" /\ UNCHANGED <<attempt, launches>>
                    \/ t = cur /\ attempt'[t] = attempt[t] + 1 /\ UNCHANGED launches
  OBVIOUS
<1>1. MovesTask(t)
  BY MoveStep
<1>2. CASE t = cur /\ Stage01AFinish
  BY <1>2 DEF Stage01AFinish, Run, histVars
<1>3. CASE t = cur /\ (Stage01CFail \/ RepairRequeue)
  BY <1>3 DEF TypeOK, Stage01CFail, RepairRequeue, Stage01CBlock, Move, histVars
<1>4. QED
  BY <1>1, <1>2, <1>3 DEF TypeOK, MovesTask, Submit, Cancel, Stage01AClaim, Stage01BClaim, Stage01CClaim,
     OperationClaim, RecoverReviewLimit, Stage01BRefuse, Stage01BModel,
     Stage01BApplyFails, Stage01BPass, Stage01BFail, Stage01CEvidence,
     Stage01CPass, Stage01CInfraBlock, OperationFinish, PublishMove, KillBeforeLog, RollbackFails,
     Stage01BStop, Stage01CBlock, Move, Continue, taskVars

\* How the running child comes to the points BudgetInv speaks of.
LEMMA GuardStep ==
  ASSUME TypeOK, [Next]_vars, pc' \in {"a_check", "b_guard", "r_requeue"}
  PROVE  \/ UNCHANGED <<pc, cur, cfg, attempt, launches>>
         \/ RepairRestore /\ cur' = cur /\ attempt[cur] + 1 <= CapRepair
              /\ UNCHANGED <<cfg, attempt, launches>> /\ pc' = "r_requeue"
         \/ /\ pc' \in {"a_check", "b_guard"} /\ cur' \in Tasks
            /\ loc[cur'] \in {"pending", "review"} /\ UNCHANGED <<attempt, launches>>
<1>1. CASE RepairRestore
  <2>1. cur \in Tasks /\ (~(attempt[cur] + 1 > CapRepair) => attempt[cur] + 1 <= CapRepair)
    BY <1>1, RunningTask, CapTypes DEF RepairRestore, Run, TypeOK
  <2>2. ~(attempt[cur] + 1 > CapRepair) /\ Continue("r_requeue")
    BY <1>1, Ends DEF RepairRestore
  <2>3. QED
    BY <1>1, <2>1, <2>2 DEF RepairRestore, Continue, taskVars, envVars, histVars
<1>2. ASSUME NEW t \in Tasks, Stage01AClaim(t) \/ Stage01BClaim(t)
      PROVE  pc' \in {"a_check", "b_guard"} /\ cur' \in Tasks
             /\ loc[cur'] \in {"pending", "review"} /\ UNCHANGED <<attempt, launches>>
  BY <1>2, WorkQueue DEF Stage01AClaim, Stage01BClaim, IsFirst, Start, histVars
<1>3. CASE (Stage01B \/ Stage01C \/ Operations) /\ ~(\E t \in Tasks : Stage01BClaim(t))
  BY <1>3, EndingSteps DEF Stage01B, Stage01C, Operations, Stage01BLaunch, Stage01BModel,
     Stage01BApply, Stage01CClaim, Stage01CEvidence, OperationClaim, Stage01BStop,
     Stage01CBlock, EndChild, GoTo, Start, Continue
<1>4. CASE (AutoRepair /\ ~RepairRestore) \/ Publisher
  BY <1>4, EndingSteps DEF AutoRepair, Publisher, RepairBegin, PublishClaim, PublishCommit,
     PublishRemote, PublishSwitch, PublishSync, Start, Continue
<1>5. CASE Environment \/ UNCHANGED vars
  BY <1>5 DEF Environment, Submit, Cancel, OperatorEdit, OperatorReset, SetConfig, SetProfile, loopVars,
     envVars, histVars, taskVars, vars
<1>6. CASE IdleChild \/ Stage01AFinish \/ Faults
  BY <1>6, EndingSteps
<1>7. QED
  BY <1>1, <1>2, <1>3, <1>4, <1>5, <1>6 DEF Next, Supervisor, Stage01A, Stage01B

LEMMA BudgetNext == TypeOK /\ ProcInv /\ BudgetInv /\ [Next]_vars => BudgetInv'
<1> SUFFICES ASSUME TypeOK, ProcInv, BudgetInv, [Next]_vars, NEW t \in Tasks
             PROVE  (/\ launches[t] <= attempt[t] + 1
                     /\ loc[t] \in {"none", "pending", "review"} => launches[t] <= attempt[t]
                     /\ loc[t] = "active" /\ cur = t /\ pc \in {"a_check", "b_guard"}
                          => launches[t] <= attempt[t]
                     /\ cfgs = 0 => attempt[t] <= CapReview \/ attempt[t] <= CapRepair
                     /\ pc = "r_requeue" => attempt[cur] + 1 <= CapRepair)'
  BY DEF BudgetInv
<1>1. launches[t] \in Nat /\ attempt[t] \in Nat
  BY DEF TypeOK
<1>2. pc \in {"a_check", "b_guard"} => cur \in Tasks /\ launches[cur] <= attempt[cur]
  BY RunningTask DEF ProcInv, ActivePcs, BudgetInv
<1>3. (launches[t] <= attempt[t] + 1)'
  BY <1>1, <1>2, CountStep DEF BudgetInv
<1>4. (loc[t] \in {"none", "pending", "review"} => launches[t] <= attempt[t])'
  <2>1. CASE Stage01BLaunch /\ t = cur
    BY <2>1, RunningTask DEF Stage01BLaunch, Run, ProcInv, ActivePcs, taskVars
  <2>2. CASE ~(Stage01BLaunch /\ t = cur)
    BY <2>2, <1>1, <1>2, ReviewBy, CountStep DEF BudgetInv
  <2>3. QED
    BY <2>1, <2>2
<1>5. (loc[t] = "active" /\ cur = t /\ pc \in {"a_check", "b_guard"} => launches[t] <= attempt[t])'
  BY <1>2, GuardStep DEF BudgetInv
<1>6. (cfgs = 0 => attempt[t] <= CapReview \/ attempt[t] <= CapRepair)'
  <2> SUFFICES ASSUME cfgs' = 0 PROVE attempt'[t] <= CapReview' \/ attempt'[t] <= CapRepair'
    OBVIOUS
  <2>a. cfgs = 0 /\ CapReview' = CapReview /\ CapRepair' = CapRepair
    BY MetaStep DEF CapReview, CapRepair
  <2>1. CASE attempt'[t] = attempt[t]
    BY <2>a, <2>1 DEF BudgetInv
  <2>2. CASE attempt'[t] = attempt[t] + 1 /\ attempt[t] + 1 <= CapReview
    BY <2>a, <2>2
  <2>3. CASE attempt'[t] = attempt[t] + 1 /\ t = cur /\ pc = "r_requeue"
    BY <2>a, <2>3 DEF BudgetInv
  <2>4. QED
    BY <2>1, <2>2, <2>3, CountStep
<1>7. (pc = "r_requeue" => attempt[cur] + 1 <= CapRepair)'
  BY GuardStep DEF BudgetInv, CapRepair
<1>8. QED
  BY <1>3, <1>4, <1>5, <1>6, <1>7

\* LaunchBudget is an invariant: a kill or a changed cap never buys a launch, and
\* neither a kill nor a repair an attempt above the caps.
THEOREM LaunchesBounded == Spec => []LaunchBudget
<1>1. Init => TypeOK /\ ProcInv /\ BudgetInv
  BY TypeInit, ProcInit, BudgetInit
<1>2. TypeOK /\ ProcInv /\ BudgetInv /\ [Next]_vars => (TypeOK /\ ProcInv /\ BudgetInv)'
  BY TypeNext, ProcNext, BudgetNext
<1>3. TypeOK /\ ProcInv /\ BudgetInv => LaunchBudget
  BY DEF BudgetInv, LaunchBudget
<1>4. QED
  BY <1>1, <1>2, <1>3, PTL DEF Spec
-----------------------------------------------------------------------------
(* The last audit log *)

\* Which task a child works on, and where it takes it from.
LEMMA CurStep ==
  ASSUME TypeOK, [Next]_vars
  PROVE  \/ cur' = 0
         \/ cur' = cur
         \/ \E t \in Tasks : /\ cur' = t
                             /\ \/ Stage01AClaim(t) \/ Stage01BClaim(t) \/ OperationClaim(t)
                                \/ Stage01CClaim(t) \/ RepairBegin(t) \/ PublishClaim(t)
<1>1. ASSUME NEW t \in Tasks,
             \/ Stage01AClaim(t) \/ Stage01BClaim(t) \/ OperationClaim(t)
             \/ Stage01CClaim(t) \/ RepairBegin(t) \/ PublishClaim(t)
      PROVE  cur' = t
  BY <1>1 DEF Stage01AClaim, Stage01BClaim, OperationClaim, Stage01CClaim, RepairBegin,
     PublishClaim, Start
<1>2. CASE Stage01BLaunch \/ Stage01BModel \/ Stage01BApply \/ Stage01CEvidence \/ RepairRestore
           \/ PublishCommit \/ PublishRemote \/ PublishSwitch \/ PublishSync
  BY <1>2, Ends DEF Stage01BLaunch, Stage01BModel, Stage01BApply, Stage01CEvidence, RepairRestore,
     PublishCommit, PublishRemote, PublishSwitch, PublishSync, Stage01BStop, Stage01CBlock,
     Continue
<1>3. CASE Environment \/ UNCHANGED vars
  BY <1>3 DEF Environment, Submit, Cancel, OperatorEdit, OperatorReset, SetConfig, SetProfile, loopVars,
     vars
<1>4. QED
  BY <1>1, <1>2, <1>3, EndingSteps DEF Next, Supervisor, Stage01A, Stage01B, Stage01C,
     AutoRepair, Operations, Publisher

LEMMA ExceededInit == Init => ExceededInv
  BY DEF Init, ExceededInv

\* An exceeded review limit is written together with the move to blocked.
LEMMA ExceededBy ==
  ASSUME TypeOK, [Next]_vars, NEW t \in Tasks, log01C'[t] = "exceeded"
  PROVE  log01C[t] = "exceeded" \/ loc'[t] = "blocked"
<1>1. CASE Stage01CEvidence \/ Stage01CPass \/ Stage01CFail \/ Stage01CInfraBlock
  BY <1>1 DEF TypeOK, Stage01CEvidence, Stage01CPass, Stage01CFail, Stage01CInfraBlock,
     Stage01CBlock, Run, Move, taskVars
<1>2. CASE IdleChild \/ Stage01A \/ Stage01B \/ (\E u \in Tasks : Stage01CClaim(u))
  BY <1>2 DEF TypeOK, IdleChild, Stage01A, Stage01B, Stage01AClaim, Stage01AFinish,
     Stage01BClaim, Stage01BLaunch, Stage01BRefuse, Stage01BModel, Stage01BApply,
     Stage01BApplyFails, Stage01BPass, Stage01BFail, Stage01BStop, Stage01CClaim, taskVars
<1>3. CASE AutoRepair \/ Operations \/ Publisher
  BY <1>3 DEF AutoRepair, Operations, RecoverReviewLimit, RepairBegin, RepairRaises,
     RepairRestore, RepairRequeue, OperationClaim, OperationFinish, Publisher, PublishClaim,
     PublishDecline, PublishRefuse, PublishCommit, PublishRemote, PublishSwitch, PublishSync, PublishMove,
     taskVars
<1>4. CASE Faults \/ Environment \/ UNCHANGED vars
  BY <1>4 DEF Faults, Environment, Kill, KillDuringApply, RollbackFails, Stage01BStop, KillDuringRestore, KillBeforeLog,
     KillBeforeMove, CycleBreak, Submit, Cancel, OperatorEdit, OperatorReset, SetConfig, SetProfile,
     taskVars, vars
<1>5. QED
  BY <1>1, <1>2, <1>3, <1>4 DEF Next, Supervisor, Stage01C

LEMMA ExceededNext == TypeOK /\ ProcInv /\ ExceededInv /\ [Next]_vars => ExceededInv'
<1> SUFFICES ASSUME TypeOK, ProcInv, ExceededInv, [Next]_vars, NEW t \in Tasks,
                    log01C[t] = "exceeded", log01C'[t] = "exceeded", loc'[t] # "blocked"
             PROVE  \/ loc'[t] \in {"blocked", "pending_codex"}
                    \/ loc'[t] = "active" /\ (cur' = t => pc' \in {"c_audit", "c_verdict"})
  BY ExceededBy DEF ExceededInv
<1> USE DEF ActivePcs, RepairPcs, PublishPcs
<1>a. ProcInv' /\ TypeOK'
  BY ProcNext, TypeNext
<1>1. CASE loc'[t] # loc[t]
  <2>1. MovesTask(t)
    BY <1>1, MoveStep
  <2>2. CASE loc[t] \in {"blocked", "pending_codex"}
    <3>1. RecoverReviewLimit(t) \/ Stage01CClaim(t)
      BY <2>1, <2>2, WorkQueue, RunningTask DEF MovesTask, RollbackFails, ProcInv, Submit, Cancel, Stage01AClaim,
         Stage01BClaim, OperationClaim, IsFirst, Stage01AFinish, Stage01BRefuse, Stage01BModel,
         Stage01BApplyFails, Stage01BPass, Stage01BFail, Stage01CEvidence, Stage01CPass,
         Stage01CFail, Stage01CInfraBlock, RepairRequeue, OperationFinish, PublishMove,
         KillBeforeLog, Run
    <3>2. QED
      BY <3>1 DEF TypeOK, RecoverReviewLimit, Stage01CClaim, Move, Start
  <2>3. CASE loc[t] = "active"
    <3>1. t = cur /\ pc \in {"c_audit", "c_verdict"}
      BY <2>1, <2>3, WorkQueue DEF MovesTask, ExceededInv, Submit, Cancel, Stage01AClaim,
         Stage01BClaim, Stage01CClaim, OperationClaim, RecoverReviewLimit, LimitWork, InQueue,
         IsFirst
    <3>2. Stage01CEvidence \/ Stage01CPass \/ Stage01CFail \/ Stage01CInfraBlock \/ KillBeforeLog
      BY <2>1, <2>3, <3>1, WorkQueue DEF MovesTask, RollbackFails, Submit, Cancel, Stage01AClaim,
         Stage01BClaim, Stage01CClaim, OperationClaim, RecoverReviewLimit, LimitWork, InQueue,
         IsFirst, Stage01AFinish, Stage01BRefuse, Stage01BModel, Stage01BApplyFails,
         Stage01BPass, Stage01BFail, RepairRequeue, OperationFinish, PublishMove, Run
    <3>3. QED
      BY <1>1, <3>1, <3>2 DEF TypeOK, Stage01CEvidence, Stage01CPass, Stage01CFail,
         Stage01CInfraBlock, Stage01CBlock, KillBeforeLog, Move, taskVars
  <2>4. QED
    BY <2>2, <2>3 DEF ExceededInv
<1>2. CASE loc'[t] = loc[t]
  <2>1. CASE loc[t] = "active"
    <3> SUFFICES ASSUME cur' = t PROVE pc' \in {"c_audit", "c_verdict"}
      BY <1>2, <2>1
    <3>1. cur = t
      BY <2>1, CurStep, WorkQueue, TaskNames DEF Stage01AClaim, Stage01BClaim, OperationClaim,
         Stage01CClaim, RepairBegin, PublishClaim, IsFirst, PublishWork, RepairWork, InQueue
    <3>2. pc \in {"c_audit", "c_verdict"}
      BY <2>1, <3>1 DEF ExceededInv
    <3>3. QED
      BY <3>1, <3>2, EndingSteps, TaskNames DEF Next, Supervisor, Stage01A, Stage01B, Stage01C,
         AutoRepair, Operations, Publisher, Stage01AClaim, Stage01BClaim, Stage01BLaunch,
         Stage01BModel, Stage01BApply, Stage01CClaim, Stage01CEvidence, RepairBegin,
         RepairRestore, OperationClaim, PublishClaim, PublishCommit, PublishRemote,
         PublishSwitch, PublishSync, Run, Environment, Submit, Cancel, OperatorEdit,
         OperatorReset, SetConfig, SetProfile, loopVars, vars, Stage01CBlock, EndChild, GoTo
  <2>2. QED
    BY <1>2, <2>1 DEF ExceededInv
<1>3. QED
  BY <1>1, <1>2
-----------------------------------------------------------------------------
(* The checkout *)

LEMMA GitInit == Init => GitInv
<1> SUFFICES ASSUME Init PROVE TreeInv /\ PhaseInv /\ TrustInv /\ ApprovalInv
  BY DEF GitInv
<1>1. TreeInv
  BY DEF Init, TreeInv, Clean
<1>2. PhaseInv
  BY DEF Init, PhaseInv
<1>3. ASSUME NEW t \in Tasks
      PROVE  /\ loc[t] = "none" /\ checkedC[t] = Clean /\ ~Committed(t)
  BY TaskNames DEF Init, Committed, NoCommit
<1>4. TrustInv
  BY <1>3 DEF TrustInv, Trusted
<1>5. ApprovalInv
  BY <1>3 DEF ApprovalInv
<1>6. QED
  BY <1>1, <1>2, <1>4, <1>5

\* Edits are counted.
LEMMA EditStep ==
  ASSUME TypeOK, [Next]_vars
  PROVE  /\ edits' = 0 => edits = 0 /\ edits' = edits
         /\ edits' = edits =>
              ~OperatorReset /\ \A kind \in {"in", "out"} : ~OperatorEdit(kind)
<1>1. edits \in Nat
  BY BoundAssumption DEF TypeOK
<1>2. OperatorReset \/ (\E kind \in {"in", "out"} : OperatorEdit(kind)) => edits' = edits + 1
  BY DEF OperatorReset, OperatorEdit
<1>3. OperatorReset \/ (\E kind \in {"in", "out"} : OperatorEdit(kind)) \/ edits' = edits
  <2>1. CASE Faults
    BY <2>1 DEF Faults, Kill, KillDuringApply, RollbackFails, Stage01BStop, KillDuringRestore, KillBeforeLog,
       KillBeforeMove, CycleBreak, Fault
  <2>2. CASE IdleChild \/ Stage01A \/ Stage01B \/ Stage01C
    BY <2>2 DEF IdleChild, Stage01A, Stage01B, Stage01C, Stage01AClaim, Stage01AFinish,
       Stage01BClaim, Stage01BLaunch, Stage01BRefuse, Stage01BModel, Stage01BApply,
       Stage01BApplyFails, Stage01BPass, Stage01BFail, Stage01CClaim, Stage01CEvidence,
       Stage01CPass, Stage01CFail, Stage01CInfraBlock, envVars
  <2>3. CASE AutoRepair \/ Operations \/ Publisher
    BY <2>3 DEF AutoRepair, Operations, RecoverReviewLimit, RepairBegin, RepairRaises,
       RepairRestore, RepairRequeue, OperationClaim, OperationFinish, Publisher, PublishClaim,
       PublishDecline, PublishRefuse, PublishCommit, PublishRemote, PublishSwitch, PublishSync, PublishMove,
       envVars
  <2>4. CASE Environment \/ UNCHANGED vars
    BY <2>4 DEF Environment, Submit, Cancel, SetConfig, SetProfile, envVars, vars
  <2>5. QED
    BY <2>1, <2>2, <2>3, <2>4 DEF Next, Supervisor
<1>4. QED
  BY <1>1, <1>2, <1>3

\* The steps that change the checkout, while the owner leaves it alone.
ChangesCheckout ==
  \/ Stage01BApply \/ Stage01BApplyFails \/ KillDuringApply \/ RollbackFails
  \/ RepairRestore \/ KillDuringRestore
  \/ PublishCommit \/ PublishSwitch

LEMMA CheckoutStep ==
  ASSUME TypeOK, [Next]_vars, edits' = edits, ~ChangesCheckout
  PROVE  UNCHANGED <<head, tree>>
<1>1. CASE Faults
  BY <1>1 DEF ChangesCheckout, Faults, Kill, KillBeforeLog, KillBeforeMove, CycleBreak, gitVars
<1>2. CASE IdleChild \/ Stage01A \/ Stage01B \/ Stage01C
  BY <1>2 DEF ChangesCheckout, IdleChild, Stage01A, Stage01B, Stage01C, Stage01AClaim,
     Stage01AFinish, Stage01BClaim, Stage01BLaunch, Stage01BRefuse, Stage01BModel,
     Stage01BPass, Stage01BFail, Stage01CClaim, Stage01CEvidence, Stage01CPass, Stage01CFail,
     Stage01CInfraBlock, gitVars
<1>3. CASE AutoRepair \/ Operations \/ Publisher
  BY <1>3 DEF ChangesCheckout, AutoRepair, Operations, RecoverReviewLimit, RepairBegin,
     RepairRaises, RepairRequeue, OperationClaim, OperationFinish, Publisher, PublishClaim,
     PublishDecline, PublishRefuse, PublishRemote, PublishSync, PublishMove, gitVars
<1>4. CASE Environment \/ UNCHANGED vars
  BY <1>4, EditStep DEF Environment, Submit, Cancel, SetConfig, SetProfile, gitVars, vars
<1>5. QED
  BY <1>1, <1>2, <1>3, <1>4 DEF Next, Supervisor

\* The checked tree is recorded by Stage 01B, the evidence by the audit.
LEMMA HistoryStep ==
  ASSUME TypeOK, [Next]_vars, NEW t \in Tasks
  PROVE  /\ \/ checkedC'[t] = checkedC[t]
            \/ t = cur /\ Stage01BPass /\ checkedC'[t] = tree
         /\ \/ approvedC'[t] = approvedC[t]
            \/ t = cur /\ Stage01CPass /\ approvedC'[t] = tree
<1>1. CASE Faults
  BY <1>1 DEF Faults, Kill, KillDuringApply, RollbackFails, Stage01BStop, KillDuringRestore, KillBeforeLog, KillBeforeMove,
     CycleBreak, histVars
<1>2. CASE IdleChild \/ Stage01A \/ Stage01B \/ Stage01C
  BY <1>2 DEF TypeOK, IdleChild, Stage01A, Stage01B, Stage01C, Stage01AClaim, Stage01AFinish,
     Stage01BClaim, Stage01BLaunch, Stage01BRefuse, Stage01BModel, Stage01BApply,
     Stage01BApplyFails, Stage01BPass, Stage01BFail, Stage01CClaim, Stage01CEvidence,
     Stage01CPass, Stage01CFail, Stage01CInfraBlock, EvidenceHolds, histVars
<1>3. CASE AutoRepair \/ Operations \/ Publisher
  BY <1>3 DEF AutoRepair, Operations, RecoverReviewLimit, RepairBegin, RepairRaises,
     RepairRestore, RepairRequeue, OperationClaim, OperationFinish, Publisher, PublishClaim,
     PublishDecline, PublishRefuse, PublishCommit, PublishRemote, PublishSwitch, PublishSync, PublishMove,
     histVars
<1>4. CASE Environment \/ UNCHANGED vars
  BY <1>4 DEF Environment, Submit, Cancel, OperatorEdit, OperatorReset, SetConfig, SetProfile, histVars,
     vars
<1>5. QED
  BY <1>1, <1>2, <1>3, <1>4 DEF Next, Supervisor

\* Only passed checks make a task trusted.
LEMMA TrustStep ==
  ASSUME TypeOK, ProcInv, ExceededInv, ApprovedInv, CommitInv, [Next]_vars, NEW t \in Tasks,
         Trusted(t)'
  PROVE  Trusted(t) \/ (t = cur /\ Stage01BPass)
<1> USE DEF ActivePcs, RepairPcs, PublishPcs
<1> SUFFICES ASSUME ~(t = cur /\ Stage01BPass) PROVE Trusted(t)
  OBVIOUS
<1>1. CASE loc'[t] = "pending_codex"
  BY <1>1, PendingBy DEF Trusted, RecoverReviewLimit, LimitWork, InQueue, IsFirst
<1>2. CASE loc'[t] = "active" /\ cur' = t /\ pc' \in {"c_audit", "c_verdict"}
  <2>1. CASE \E u \in Tasks : Stage01CClaim(u)
    BY <1>2, <2>1, WorkQueue DEF Stage01CClaim, Start, IsFirst, Trusted
  <2>2. CASE pc \in {"c_audit", "c_verdict"} /\ UNCHANGED <<cur, slot>>
    BY <1>2, <2>2 DEF ProcInv, Trusted
  <2>3. QED
    BY <1>2, <2>1, <2>2, AuditStep
<1>3. CASE loc'[t] = "blocked" /\ log01C'[t] = "exceeded" /\ log01B'[t] = "pass"
  <2>1. CASE t = cur /\ pc \in {"c_audit", "c_verdict"}
    BY <2>1 DEF ProcInv, Trusted
  <2>2. CASE ~(t = cur /\ pc \in {"c_audit", "c_verdict"})
    <3>1. log01C[t] = "exceeded"
      BY <1>3, <2>2, LogStep
    <3>2. loc[t] = "blocked" \/ loc[t] = "pending_codex" \/ (loc[t] = "active" /\ cur # t)
      BY <2>2, <3>1 DEF ExceededInv
    <3>3. CASE loc[t] = "blocked"
      BY <1>3, <3>1, <3>3, LogStep DEF ProcInv, Trusted
    <3>4. CASE loc[t] = "pending_codex"
      BY <3>4 DEF Trusted
    <3>5. CASE loc[t] = "active" /\ cur # t
      <4>1. MovesTask(t)
        BY <1>3, <3>5, MoveStep
      <4>2. QED
        BY <3>5, <4>1, WorkQueue DEF MovesTask, Submit, Cancel, Stage01AClaim, Stage01BClaim,
           Stage01CClaim, OperationClaim, RecoverReviewLimit, LimitWork, InQueue, IsFirst
    <3>6. QED
      BY <3>2, <3>3, <3>4, <3>5
  <2>3. QED
    BY <2>1, <2>2
<1>4. CASE loc'[t] = "approved" /\ ~Committed(t)'
  BY <1>4, ApprovedBy, CommittedStays DEF Stage01CPass, Run, ProcInv, Trusted
<1>5. QED
  BY <1>1, <1>2, <1>3, <1>4 DEF Trusted

LEMMA CandidateFields ==
  ASSUME NEW t \in Tasks, NEW n, NEW f, NEW e
  PROVE  /\ Candidate(t, n, f, e).by = t /\ Candidate(t, n, f, e).edit = e
         /\ t # 0 /\ Candidate(0, 0, FALSE, {}) = Clean /\ Clean.by = 0 /\ Clean.edit = {}
  BY TaskNames DEF Candidate, Clean

\* Before a first attempt the checkout is clean, before a repair it is on the
\* branch of the task; an apply leaves it there with the candidate or clean.
LEMMA ApplyShape ==
  ASSUME TypeOK, TreeInv, PhaseInv, Stage01BApply \/ KillDuringApply \/ Stage01BApplyFails \/ RollbackFails
  PROVE  /\ cur \in Tasks
         /\ \/ attempt[cur] = 0 /\ tree = Clean /\ head' \in {head, Base, WorkBranch[cur]}
            \/ attempt[cur] # 0 /\ head = WorkBranch[cur] /\ head' = head
         /\ tree'.edit = {}
         /\ \/ tree' = tree
            \/ tree' = Clean /\ head' = WorkBranch[cur]
            \/ tree'.by = cur /\ head' = WorkBranch[cur]
         /\ Stage01BApply => head' = WorkBranch[cur]
<1>1. cur \in Tasks /\ pc = "b_apply" /\ WorktreeReady(cur)
  BY RunningTask DEF Stage01BApply, KillDuringApply, Stage01BApplyFails, RollbackFails, Stage01BStop, Run, PhaseInv
<1>2. IF attempt[cur] = 0 THEN tree = Clean ELSE head = WorkBranch[cur]
  BY <1>1 DEF WorktreeReady, Dirty
<1>3. tree.edit = {} /\ tree'.edit = {} /\
      (tree' = tree \/ (tree' = Clean /\ Stage01BApply)
        \/ (tree'.by = cur /\ (head' = WorkBranch[cur] \/ attempt[cur] # 0)))
  <2>1. tree.edit = {} /\ (tree.by # 0 => tree.by \in Tasks)
    BY DEF TreeInv, TypeOK, Trees
  <2>2. CASE Stage01BApply
    <3>1. head' = IF attempt[cur] = 0 THEN WorkBranch[cur] ELSE head
      BY <2>2 DEF Stage01BApply
    <3>2. ASSUME NEW f \in Coverage, tree' = Candidate(cur, launches[cur], f, tree.edit)
          PROVE  tree'.edit = {} /\ tree'.by = cur
      BY <2>1, <3>2 DEF Candidate
    <3>3. CASE tree' = Candidate(0, 0, FALSE, tree.edit)
      BY <2>1, <2>2, <3>3 DEF Candidate, Clean
    <3>4. QED
      BY <2>1, <2>2, <3>1, <3>2, <3>3 DEF Stage01BApply
  <2>3. CASE KillDuringApply
    <3>1. \/ tree' = tree
          \/ /\ tree' = Candidate(cur, 0, FALSE, tree.edit)
             /\ head' = WorkBranch[cur] \/ attempt[cur] # 0
      BY <2>3 DEF KillDuringApply
    <3>2. QED
      BY <2>1, <3>1 DEF Candidate
  <2>4. CASE RollbackFails
    BY <2>1, <2>4 DEF RollbackFails, Candidate
  <2>5. CASE Stage01BApplyFails
    BY <2>1, <2>5 DEF Stage01BApplyFails
  <2>6. QED
    BY <2>2, <2>3, <2>4, <2>5
<1>4. /\ attempt[cur] # 0 => head' = head
      /\ Stage01BApply => head' = WorkBranch[cur]
      /\ attempt[cur] = 0 => head' \in {head, Base, WorkBranch[cur]}
  BY <1>1, <1>2 DEF Stage01BApply, KillDuringApply, Stage01BApplyFails, RollbackFails
<1>5. QED
  BY <1>1, <1>2, <1>3, <1>4

\* A repair rolls back on the branch of its task.
LEMMA RestoreShape ==
  ASSUME TypeOK, TreeInv, PhaseInv, RepairRestore \/ KillDuringRestore
  PROVE  /\ cur \in Tasks /\ pc = "r_restore" /\ head = WorkBranch[cur]
         /\ tree.by # 0 /\ tree.by \in Tasks
         /\ tree' = Clean \/ (tree'.by = tree.by /\ tree'.edit = {} /\ head' = head)
<1>1. cur \in Tasks /\ pc = "r_restore" /\ head = WorkBranch[cur] /\ tree # Clean
  BY RunningTask DEF RepairRestore, KillDuringRestore, Run, PhaseInv, Dirty
<1>2. tree.by # 0 /\ tree.by \in Tasks
  BY <1>1 DEF TreeInv, TypeOK, Trees
<1>3. CASE RepairRestore
  BY <1>1, <1>2, <1>3 DEF RepairRestore
<1>4. CASE KillDuringRestore
  <2>1. ([tree EXCEPT !.ver = 0]).by = tree.by /\ ([tree EXCEPT !.ver = 0]).edit = tree.edit
    BY DEF TypeOK, Trees
  <2>2. QED
    BY <1>1, <1>2, <1>4, <2>1 DEF KillDuringRestore, TreeInv
<1>5. QED
  BY <1>3, <1>4

LEMMA CommitShape ==
  ASSUME TypeOK, PublishCommit
  PROVE  /\ cur \in Tasks /\ pc = "p_commit" /\ head' = head
         /\ \/ tree' = tree /\ commit' = commit
            \/ /\ tree' = Clean /\ head = WorkBranch[cur] /\ tree # Clean
               /\ commit[WorkBranch[cur]] = NoCommit
               /\ commit' = [commit EXCEPT ![WorkBranch[cur]] = [task |-> cur, content |-> tree]]
  BY RunningTask DEF PublishCommit, Run, FreshCommit, OnBranch, Dirty

LEMMA TreeNext ==
  ASSUME TypeOK, TreeInv, PhaseInv, [Next]_vars, edits' = 0
  PROVE  TreeInv'
<1>1. CASE UNCHANGED <<head, tree>>
  BY <1>1 DEF TreeInv
<1>2. CASE Stage01BApply \/ KillDuringApply \/ Stage01BApplyFails \/ RollbackFails
  <2>1. CASE tree' = tree
    BY <1>2, <2>1, ApplyShape, CandidateFields DEF TreeInv
  <2>2. CASE tree' = Clean
    BY <1>2, <2>2, ApplyShape, CandidateFields DEF TreeInv
  <2>3. CASE tree'.by = cur /\ head' = WorkBranch[cur]
    BY <1>2, <2>3, ApplyShape, CandidateFields DEF TreeInv
  <2>4. QED
    BY <1>2, <2>1, <2>2, <2>3, ApplyShape
<1>3. CASE RepairRestore \/ KillDuringRestore
  BY <1>3, RestoreShape, CandidateFields DEF TreeInv
<1>4. CASE PublishCommit
  BY <1>4, CommitShape, CandidateFields DEF TreeInv
<1>5. CASE PublishSwitch
  BY <1>5, RunningTask, CandidateFields DEF PublishSwitch, Dirty, TreeInv, Run
<1>6. QED
  BY <1>1, <1>2, <1>3, <1>4, <1>5, CheckoutStep, EditStep DEF ChangesCheckout

LEMMA PhaseNext ==
  ASSUME TypeOK, ProcInv, TreeInv, PhaseInv, [Next]_vars, edits' = 0
  PROVE  PhaseInv'
<1>1. CASE pc' = "idle"
  BY <1>1 DEF PhaseInv
<1>2. CASE pc' # "idle"
  <2> USE <1>2
  <2>1. CASE Stage01BLaunch \/ Stage01BModel
    BY <2>1, EndingSteps, Ends DEF Stage01BLaunch, Stage01BModel, Stage01BStop, Run, Continue, PhaseInv,
       WorktreeReady, Dirty, InScope, gitVars, taskVars
  <2>2. CASE Stage01BApply
    BY <2>2, ApplyShape DEF Stage01BApply, Continue, PhaseInv
  <2>3. CASE Stage01CEvidence
    BY <2>3, Ends DEF Stage01CEvidence, Stage01CBlock, PhaseInv, gitVars
  <2>4. ASSUME NEW t \in Tasks, RepairBegin(t) PROVE PhaseInv'
    BY <2>4 DEF RepairBegin, RepairWork, IsFirst, Start, PhaseInv, gitVars
  <2>5. CASE RepairRestore \/ PublishCommit \/ PublishRemote \/ PublishSwitch \/ PublishSync
    BY <2>5, Ends DEF RepairRestore, PublishCommit, PublishRemote, PublishSwitch, PublishSync, Continue,
       PhaseInv
  <2>6. ASSUME NEW t \in Tasks,
               \/ Stage01AClaim(t) \/ Stage01BClaim(t) \/ Stage01CClaim(t) \/ OperationClaim(t)
               \/ PublishClaim(t)
        PROVE  PhaseInv'
    BY <2>6 DEF Stage01AClaim, Stage01BClaim, Stage01CClaim, OperationClaim, PublishClaim, Start,
       PhaseInv
  <2>7. CASE Environment \/ UNCHANGED vars
    BY <2>7, EditStep DEF Environment, Submit, Cancel, SetConfig, SetProfile, loopVars, gitVars, taskVars,
       vars, PhaseInv, WorktreeReady, Dirty, InScope
  <2>8. QED
    BY <2>1, <2>2, <2>3, <2>4, <2>5, <2>6, <2>7, EndingSteps
    DEF Next, Supervisor, Stage01A, Stage01B, Stage01C, AutoRepair, Operations, Publisher
<1>3. QED
  BY <1>1, <1>2

\* The task of a step that changes the checkout is not one that is trusted,
\* except at the commit.
LEMMA ChangerNotTrusted ==
  ASSUME TypeOK, ProcInv, cur \in Tasks, pc \in {"b_apply", "r_restore"}
  PROVE  ~Trusted(cur)
  BY DEF ProcInv, ActivePcs, RepairPcs, Trusted

\* With its branch checked out the tree is the checked one, or there is nothing
\* of the task to keep.
LEMMA TrustedTree ==
  ASSUME DistinctBranches, TypeOK, TreeInv, TrustInv, NEW t \in Tasks, Trusted(t),
         head = WorkBranch[t]
  PROVE  tree = checkedC[t]
<1>1. CASE checkedC[t] # Clean
  BY <1>1 DEF TrustInv
<1>2. CASE checkedC[t] = Clean /\ tree.by = 0
  BY <1>2 DEF TreeInv
<1>3. CASE tree.by # 0
  <2>1. tree.by \in Tasks /\ head = WorkBranch[tree.by]
    BY <1>3 DEF TreeInv, TypeOK, Trees
  <2>2. tree.by = t
    BY <2>1 DEF DistinctBranches
  <2>3. QED
    BY <2>2 DEF TrustInv
<1>4. QED
  BY <1>1, <1>2, <1>3

LEMMA TrustNext ==
  ASSUME DistinctBranches, TypeOK, ProcInv, CommitInv, ExceededInv, ApprovedInv, TreeInv,
         PhaseInv, TrustInv, [Next]_vars, edits' = 0
  PROVE  TrustInv'
<1> SUFFICES ASSUME NEW t \in Tasks, Trusted(t)'
             PROVE  /\ tree'.by = t => tree' = checkedC'[t]
                    /\ checkedC'[t] # Clean => head' = WorkBranch[t] /\ tree' = checkedC'[t]
  BY DEF TrustInv
<1>1. CASE t = cur /\ Stage01BPass
  BY <1>1, HistoryStep DEF Stage01BPass, Run, PhaseInv, gitVars, TypeOK
<1>2. CASE ~(t = cur /\ Stage01BPass)
  <2>1. Trusted(t) /\ checkedC'[t] = checkedC[t]
    BY <1>2, TrustStep, HistoryStep
  <2>2. CASE UNCHANGED <<head, tree>>
    BY <2>1, <2>2 DEF TrustInv
  <2>3. CASE Stage01BApply \/ KillDuringApply \/ Stage01BApplyFails \/ RollbackFails
    <3>1. t # cur
      BY <2>1, <2>3, ApplyShape, ChangerNotTrusted DEF Stage01BApply, KillDuringApply,
         Stage01BApplyFails, RollbackFails, Stage01BStop, Run
    <3>2. checkedC[t] = Clean
      BY <2>1, <2>3, <3>1, ApplyShape DEF TrustInv, DistinctBranches
    <3>3. tree'.by # t
      <4>1. CASE tree' = tree
        BY <2>1, <3>2, <4>1, CandidateFields DEF TrustInv
      <4>2. CASE tree' # tree
        BY <2>3, <3>1, <4>2, ApplyShape, CandidateFields
      <4>3. QED
        BY <4>1, <4>2
    <3>4. QED
      BY <2>1, <3>2, <3>3
  <2>4. CASE RepairRestore \/ KillDuringRestore
    <3>1. t # cur
      BY <2>1, <2>4, RestoreShape, ChangerNotTrusted
    <3>2. checkedC[t] = Clean
      BY <2>1, <2>4, <3>1, RestoreShape DEF TrustInv, DistinctBranches
    <3>3. tree.by # t
      BY <2>1, <2>4, <3>2, RestoreShape, CandidateFields DEF TrustInv
    <3>4. QED
      BY <2>1, <2>4, <3>2, <3>3, RestoreShape, CandidateFields
  <2>5. CASE PublishCommit
    <3>1. CASE tree' = tree /\ commit' = commit
      BY <2>1, <2>5, <3>1, CommitShape DEF TrustInv
    <3>2. CASE tree' = Clean /\ head = WorkBranch[cur] /\ tree # Clean
      <4>1. CASE t = cur
        <5>1. commit' = [commit EXCEPT ![WorkBranch[cur]] = [task |-> cur, content |-> tree]]
          BY <2>5, <3>2, CommitShape
        <5>2. Committed(t)'
          BY <4>1, <5>1, TaskNames DEF Committed, TypeOK
        <5>3. loc'[t] = "approved" /\ loc'[t] # "active"
          BY <2>5, <4>1 DEF PublishCommit, Run, ProcInv, PublishPcs, taskVars
        <5>4. QED
          BY <5>2, <5>3 DEF Trusted
      <4>2. CASE t # cur
        <5>1. checkedC[t] = Clean
          BY <2>1, <2>5, <3>2, <4>2, CommitShape DEF TrustInv, DistinctBranches
        <5>2. QED
          BY <2>1, <3>2, <5>1, CandidateFields
      <4>3. QED
        BY <4>1, <4>2
    <3>3. QED
      BY <2>5, <3>1, <3>2, CommitShape
  <2>6. CASE PublishSwitch
    BY <2>1, <2>6, CandidateFields DEF PublishSwitch, Dirty, TrustInv
  <2>7. QED
    BY <2>2, <2>3, <2>4, <2>5, <2>6, CheckoutStep, EditStep DEF ChangesCheckout
<1>3. QED
  BY <1>1, <1>2

LEMMA ApprovalNext ==
  ASSUME DistinctBranches, TypeOK, ProcInv, CommitInv, ExceededInv, ApprovedInv, TreeInv,
         PhaseInv, TrustInv, ApprovalInv, [Next]_vars, edits' = 0
  PROVE  ApprovalInv'
<1> SUFFICES ASSUME NEW t \in Tasks
             PROVE  /\ loc'[t] = "approved" => approvedC'[t] = checkedC'[t]
                    /\ Committed(t)' => /\ commit'[WorkBranch[t]].content = approvedC'[t]
                                        /\ approvedC'[t] = checkedC'[t]
  BY DEF ApprovalInv
<1> USE DEF ActivePcs, PublishPcs
\* An approved or completed task is not the one at Stage 01B or 01C.
<1>1. ASSUME loc[t] \in {"approved", "completed"}
      PROVE  checkedC'[t] = checkedC[t] /\ approvedC'[t] = approvedC[t]
  BY <1>1, HistoryStep DEF Stage01BPass, Stage01CPass, Run, ProcInv
<1>2. ASSUME loc'[t] = "approved" PROVE approvedC'[t] = checkedC'[t]
  <2>1. CASE loc[t] = "approved"
    BY <1>1, <2>1 DEF ApprovalInv
  <2>2. CASE t = cur /\ Stage01CPass
    <3>1. Trusted(t) /\ head = WorkBranch[t]
      BY <2>2 DEF Stage01CPass, Run, ProcInv, Trusted, PhaseInv
    <3>2. tree = checkedC[t]
      BY <3>1, TrustedTree
    <3>3. approvedC'[t] = tree
      BY <2>2 DEF Stage01CPass, EvidenceHolds, TypeOK
    <3>4. checkedC' = checkedC
      BY <2>2 DEF Stage01CPass
    <3>5. QED
      BY <3>2, <3>3, <3>4
  <2>3. QED
    BY <1>2, <2>1, <2>2, ApprovedBy
<1>3. ASSUME Committed(t)'
      PROVE  commit'[WorkBranch[t]].content = approvedC'[t] /\ approvedC'[t] = checkedC'[t]
  <2>1. CASE Committed(t)
    <3>1. loc[t] \in {"approved", "completed"}
      BY <2>1 DEF CommitInv
    <3>2. commit'[WorkBranch[t]] = commit[WorkBranch[t]]
      <4>1. CASE commit' = commit
        BY <4>1
      <4>2. CASE PublishCommit /\ commit' # commit
        <5>1. /\ cur \in Tasks /\ commit[WorkBranch[cur]] = NoCommit
              /\ commit' = [commit EXCEPT ![WorkBranch[cur]] = [task |-> cur, content |-> tree]]
          BY <4>2, CommitShape
        <5>2. WorkBranch[t] # WorkBranch[cur]
          BY <2>1, <5>1, TaskNames DEF Committed, NoCommit
        <5>3. QED
          BY <5>1, <5>2, TaskNames DEF TypeOK
      <4>3. QED
        BY <4>1, <4>2, CommitsOnly
    <3>3. QED
      BY <1>1, <2>1, <3>1, <3>2 DEF ApprovalInv
  <2>2. CASE ~Committed(t)
    <3>1. t = cur /\ PublishCommit /\ loc[t] = "approved"
      BY <1>3, <2>2, CommittedStays DEF PublishCommit, Run, ProcInv
    <3>2. /\ commit' = [commit EXCEPT ![WorkBranch[cur]] = [task |-> cur, content |-> tree]]
          /\ head = WorkBranch[cur]
      BY <1>3, <2>2, <3>1, CommitShape DEF Committed
    <3>3. tree = checkedC[t]
      BY <2>2, <3>1, <3>2, TrustedTree DEF Trusted
    <3>4. commit'[WorkBranch[t]].content = tree
      BY <3>1, <3>2, TaskNames DEF TypeOK
    <3>5. QED
      BY <1>1, <3>1, <3>3, <3>4 DEF ApprovalInv
  <2>3. QED
    BY <2>1, <2>2
<1>4. QED
  BY <1>2, <1>3

LEMMA GitNext ==
  ASSUME DistinctBranches, TypeOK, ProcInv, CommitInv, ExceededInv, ApprovedInv, GitInv,
         [Next]_vars
  PROVE  GitInv'
<1> SUFFICES ASSUME edits' = 0 PROVE (TreeInv /\ PhaseInv /\ TrustInv /\ ApprovalInv)'
  BY DEF GitInv
<1>1. TreeInv /\ PhaseInv /\ TrustInv /\ ApprovalInv
  BY EditStep DEF GitInv
<1>2. TreeInv' /\ PhaseInv'
  BY <1>1, TreeNext, PhaseNext
<1>3. TrustInv' /\ ApprovalInv'
  BY <1>1, TrustNext, ApprovalNext
<1>4. QED
  BY <1>2, <1>3

\* The strengthening from which the theorems about the checkout follow.
Inv == TypeOK /\ ProcInv /\ CommitInv /\ ExceededInv /\ ApprovedInv /\ GitInv

LEMMA InvHolds == ASSUME DistinctBranches PROVE Spec => []Inv
<1>1. Init => Inv
  BY TypeInit, ProcInit, CommitInit, ExceededInit, ApprovedInit, GitInit DEF Inv
<1>2. Inv /\ [Next]_vars => Inv'
  BY TypeNext, ProcNext, CommitNext, ExceededNext, ApprovedNext, GitNext DEF Inv
<1>3. QED
  BY <1>1, <1>2, PTL DEF Spec

\* With a work branch per task, CandidateIntact is an invariant: while a task
\* waits for its audit, its cap or its commit, the shared checkout is its own.
THEOREM CandidateStaysIntact == ASSUME DistinctBranches PROVE Spec => []CandidateIntact
<1>1. Inv => CandidateIntact
  BY DEF Inv, CandidateIntact, GitInv, TrustInv, HoldsCandidate, Trusted
<1>2. QED
  BY <1>1, InvHolds, PTL

\* With a work branch per task, PublishedWasApproved is an invariant: a commit
\* holds the tree that was audited, and the audit saw the tree that was checked.
THEOREM CommitWasApproved == ASSUME DistinctBranches PROVE Spec => []PublishedWasApproved
<1>1. Inv => PublishedWasApproved
  <2> SUFFICES ASSUME Inv, edits = 0, NEW b \in Branches, commit[b] # NoCommit
               PROVE  /\ WorkBranch[commit[b].task] = b
                      /\ commit[b].content = approvedC[commit[b].task]
                      /\ approvedC[commit[b].task] = checkedC[commit[b].task]
    BY DEF PublishedWasApproved
  <2>1. commit[b].task \in Tasks /\ WorkBranch[commit[b].task] = b
    BY DEF Inv, CommitInv
  <2>2. QED
    BY <2>1 DEF Inv, GitInv, ApprovalInv, Committed
<1>2. QED
  BY <1>1, InvHolds, PTL

\* With a work branch per task, NoStolenCandidate holds of every step: a first
\* attempt, a repair, a rollback or a commit of one task never overwrites, rolls
\* back or takes the candidate of another.
THEOREM NobodyStealsCandidate == ASSUME DistinctBranches PROVE Spec => NoStolenCandidate
<1>1. Inv /\ [Next]_vars => [tree.by # 0 /\ tree' # tree /\ edits' = 0 => cur = tree.by]_vars
  <2> SUFFICES ASSUME Inv, [Next]_vars, tree.by # 0, tree' # tree, edits' = 0
               PROVE  cur = tree.by
    OBVIOUS
  <2>1. TypeOK /\ TreeInv /\ PhaseInv
    BY EditStep DEF Inv, GitInv
  <2>2. tree.by \in Tasks /\ head = WorkBranch[tree.by] /\ tree # Clean
    BY <2>1, CandidateFields DEF TreeInv, TypeOK, Trees
  <2>3. cur \in Tasks /\ head = WorkBranch[cur]
    <3>1. CASE Stage01BApply \/ KillDuringApply \/ Stage01BApplyFails \/ RollbackFails
      BY <2>1, <2>2, <3>1, ApplyShape
    <3>2. CASE RepairRestore \/ KillDuringRestore
      BY <2>1, <3>2, RestoreShape
    <3>3. CASE PublishCommit
      BY <2>1, <3>3, CommitShape
    <3>4. CASE PublishSwitch
      BY <3>4 DEF PublishSwitch
    <3>5. QED
      BY <2>1, <3>1, <3>2, <3>3, <3>4, CheckoutStep, EditStep DEF ChangesCheckout
  <2>4. QED
    BY <2>2, <2>3 DEF DistinctBranches
<1>2. QED
  BY <1>1, InvHolds, PTL DEF Spec, NoStolenCandidate

-----------------------------------------------------------------------------
(* Owner edits *)

\* OwnerEditSurvives holds of every step, for every number of edits and at every
\* moment of the run.
THEOREM OwnerEditsSurvive == Spec => OwnerEditSurvives
<1> DEFINE Survives ==
      /\ "out" \in tree.edit /\ edits' = edits => "out" \in tree'.edit
      /\ \A b \in Branches : commit'[b] # commit[b] => "out" \notin commit'[b].content.edit
<1>1. TypeOK /\ [Next]_vars => [Survives]_vars
  <2> SUFFICES ASSUME TypeOK, [Next]_vars PROVE Survives
    OBVIOUS
  <2>1. ASSUME NEW b \in Branches, commit'[b] # commit[b]
        PROVE  "out" \notin commit'[b].content.edit
    <3>1. PublishCommit /\ FreshCommit(cur)
      BY <2>1, CommitsOnly
    <3>2. QED
      BY <2>1, <3>1 DEF PublishCommit, FreshCommit, InScope, TypeOK
  <2>2. ASSUME "out" \in tree.edit, edits' = edits PROVE "out" \in tree'.edit
    <3>1. CASE tree' = tree
      BY <2>2, <3>1
    <3>2. CASE Stage01BApply \/ KillDuringApply \/ RollbackFails
      BY <2>2, <3>2 DEF Stage01BApply, KillDuringApply, RollbackFails, Candidate
    <3>3. CASE RepairRestore \/ KillDuringRestore \/ (PublishCommit /\ FreshCommit(cur))
      BY <2>2, <3>3 DEF RepairRestore, KillDuringRestore, FreshCommit, InScope
    <3>4. QED
      <4>1. tree' = tree \/ ChangesCheckout
        BY <2>2, CheckoutStep
      <4>2. QED
        BY <3>1, <3>2, <3>3, <4>1 DEF ChangesCheckout, Stage01BApplyFails, PublishSwitch,
           PublishCommit
  <2>3. QED
    BY <2>1, <2>2
<1>2. QED
  BY <1>1, TypeCorrect, PTL DEF Spec, OwnerEditSurvives

LEMMA LimitInit == Init => LimitInv
  BY DEF Init, LimitInv

\* An exceeded limit is written above the cap of the moment.
LEMMA LimitBy ==
  ASSUME TypeOK, [Next]_vars, NEW t \in Tasks, log01C'[t] = "exceeded"
  PROVE  \/ log01C[t] = "exceeded"
         \/ Stage01CFail /\ t = cur /\ attempt[t] + 1 > CapReview /\ attempt' = attempt
<1>1. CASE log01C'[t] = log01C[t]
  BY <1>1
<1>2. CASE log01C'[t] # log01C[t]
  <2>1. t = cur /\ pc \in {"c_audit", "c_verdict"}
    BY <1>2, LogStep
  <2>2. CASE Stage01CEvidence \/ Stage01CPass \/ Stage01CInfraBlock
    BY <1>2, <2>2 DEF TypeOK, Stage01CEvidence, Stage01CPass, Stage01CInfraBlock, Stage01CBlock,
       taskVars
  <2>3. CASE Stage01CFail
    BY <1>2, <2>1, <2>3 DEF TypeOK, Stage01CFail, Stage01CBlock
  <2>4. CASE IdleChild \/ Stage01A \/ Stage01B \/ (\E u \in Tasks : Stage01CClaim(u))
    BY <1>2, <2>4 DEF IdleChild, Stage01A, Stage01B, Stage01AClaim, Stage01AFinish,
       Stage01BClaim, Stage01BLaunch, Stage01BRefuse, Stage01BModel, Stage01BApply,
       Stage01BApplyFails, Stage01BPass, Stage01BFail, Stage01BStop, Stage01CClaim, taskVars
  <2>5. CASE AutoRepair \/ Operations \/ Publisher
    BY <1>2, <2>5 DEF AutoRepair, Operations, RecoverReviewLimit, RepairBegin, RepairRaises,
       RepairRestore, RepairRequeue, OperationClaim, OperationFinish, Publisher, PublishClaim,
       PublishDecline, PublishRefuse, PublishCommit, PublishRemote, PublishSwitch, PublishSync,
       PublishMove, taskVars
  <2>6. CASE Faults \/ Environment \/ UNCHANGED vars
    BY <1>2, <2>6 DEF Faults, Environment, Kill, KillDuringApply, RollbackFails, Stage01BStop,
       KillDuringRestore, KillBeforeLog, KillBeforeMove, CycleBreak, Submit, Cancel, OperatorEdit,
       OperatorReset, SetConfig, SetProfile, taskVars, vars
  <2>7. QED
    BY <2>2, <2>3, <2>4, <2>5, <2>6 DEF Next, Supervisor, Stage01C
<1>3. QED
  BY <1>1, <1>2

LEMMA LimitNext == TypeOK /\ LimitInv /\ [Next]_vars => LimitInv'
<1> SUFFICES ASSUME TypeOK, LimitInv, [Next]_vars, NEW t \in Tasks,
                    cfgs' = 0, log01C'[t] = "exceeded"
             PROVE  attempt'[t] + 1 > CapReview'
  BY DEF LimitInv
<1>1. cfgs = 0 /\ CapReview' = CapReview
  BY MetaStep DEF CapReview
<1>2. attempt[t] \in Nat /\ CapReview \in Nat
  BY CapTypes DEF TypeOK
<1>3. attempt'[t] = attempt[t] \/ attempt'[t] = attempt[t] + 1
  BY CountStep
<1>4. attempt[t] + 1 > CapReview
  BY <1>1, LimitBy DEF LimitInv
<1>5. QED
  BY <1>1, <1>2, <1>3, <1>4

\* RequeueNeedsNewCap holds when config.json can always be read, or if the default of
\* auto-repair were not above the default of the audit: a task is requeued for its
\* audit only after somebody has changed the cap.
THEOREM RequeuesFollowNewCap ==
  ASSUME 0 \notin Caps \/ DefaultRepair <= DefaultReview
  PROVE  Spec => RequeueNeedsNewCap
<1>1. TypeOK /\ ProcInv /\ LimitInv /\ [Next]_vars =>
        [\A t \in Tasks :
           loc[t] = "blocked" /\ loc'[t] = "pending_codex" => cfgs > 0]_vars
  <2> SUFFICES ASSUME TypeOK, ProcInv, LimitInv, [Next]_vars, NEW t \in Tasks,
                      loc[t] = "blocked", loc'[t] = "pending_codex", ~(cfgs > 0)
               PROVE  FALSE
    OBVIOUS
  <2>1. RecoverReviewLimit(t)
    BY PendingBy DEF Stage01BPass, Run, ProcInv, ActivePcs
  <2>2. attempt[t] < CapRepair /\ log01C[t] = "exceeded"
    BY <2>1 DEF RecoverReviewLimit, LimitWork, IsFirst
  <2>3. cfgs = 0
    BY BoundAssumption DEF TypeOK
  <2>4. attempt[t] + 1 > CapReview
    BY <2>2, <2>3 DEF LimitInv
  <2>5. CapRepair <= CapReview
    BY CapAssumption DEF TypeOK, CapReview, CapRepair
  <2>6. QED
    BY <2>2, <2>4, <2>5, CapTypes DEF TypeOK
<1>2. Init => TypeOK /\ ProcInv /\ LimitInv
  BY TypeInit, ProcInit, LimitInit
<1>3. TypeOK /\ ProcInv /\ LimitInv /\ [Next]_vars => (TypeOK /\ ProcInv /\ LimitInv)'
  BY TypeNext, ProcNext, LimitNext
<1>4. QED
  BY <1>1, <1>2, <1>3, PTL DEF Spec, RequeueNeedsNewCap

-----------------------------------------------------------------------------
(* TaskPipeline implements CheckoutLock: the stage of a task in the lock protocol *)

LEMMA StageIs ==
  ASSUME NEW t \in Tasks
  PROVE  /\ Waiting(t) => LockStage(t) = "checked"
         /\ ~Waiting(t) /\ loc[t] = "approved" /\ ~Committed(t) => LockStage(t) = "approved"
         /\ ~Waiting(t) /\ loc[t] = "approved" /\ Committed(t) => LockStage(t) = "committed"
         /\ ~Waiting(t) /\ loc[t] = "completed" /\ Committed(t) => LockStage(t) = "completed"
         /\ ~Waiting(t) /\ loc[t] # "approved" /\ ~(loc[t] = "completed" /\ Committed(t))
              => LockStage(t) = "open"
  BY DEF LockStage, Waiting

LEMMA StageIsNext ==
  ASSUME NEW t \in Tasks
  PROVE  /\ Waiting(t)' => LockStage(t)' = "checked"
         /\ ~Waiting(t)' /\ loc'[t] = "approved" /\ ~Committed(t)' => LockStage(t)' = "approved"
         /\ ~Waiting(t)' /\ loc'[t] = "approved" /\ Committed(t)' => LockStage(t)' = "committed"
         /\ ~Waiting(t)' /\ loc'[t] = "completed" /\ Committed(t)' => LockStage(t)' = "completed"
         /\ ~Waiting(t)' /\ loc'[t] # "approved" /\ ~(loc'[t] = "completed" /\ Committed(t)')
              => LockStage(t)' = "open"
  BY DEF LockStage, Waiting

\* Only the publisher of a task changes whether it is committed, or its commit.
LEMMA PublishedStep ==
  ASSUME Inv, [Next]_vars, NEW t \in Tasks, ~(t = cur /\ PublishCommit)
  PROVE  (Committed(t)' <=> Committed(t)) /\ LockPublished(t)' = LockPublished(t)
<1>1. Committed(t)' <=> Committed(t)
  BY CommittedStays DEF Inv
<1>2. CASE commit' = commit
  BY <1>1, <1>2 DEF LockPublished
<1>3. CASE PublishCommit /\ commit' # commit
  <2>1. /\ cur \in Tasks
        /\ commit[WorkBranch[cur]] = NoCommit
        /\ commit' = [commit EXCEPT ![WorkBranch[cur]] = [task |-> cur, content |-> tree]]
    BY <1>3, CommitShape DEF Inv
  <2>2. CASE Committed(t)
    <3>1. WorkBranch[t] # WorkBranch[cur]
      BY <2>1, <2>2, TaskNames DEF Committed, NoCommit
    <3>2. commit'[WorkBranch[t]] = commit[WorkBranch[t]]
      BY <2>1, <3>1, TaskNames DEF Inv, TypeOK
    <3>3. QED
      BY <1>1, <3>2 DEF LockPublished
  <2>3. CASE ~Committed(t)
    BY <1>1, <2>3 DEF LockPublished
  <2>4. QED
    BY <2>2, <2>3
<1>4. QED
  BY <1>2, <1>3, CommitsOnly

\* A task no child is at work on keeps its stage, whatever queue it moves to.
LEMMA OtherStage ==
  ASSUME Inv, [Next]_vars, NEW t \in Tasks, t # cur
  PROVE  LockStage(t)' = LockStage(t)
<1> USE TaskNames, StageIs, StageIsNext
<1>1. Committed(t)' <=> Committed(t)
  BY PublishedStep
<1>2. log01B'[t] = log01B[t] /\ log01C'[t] = log01C[t]
  BY LogStep DEF Inv
<1>3. loc \in [Tasks -> Queues] /\ TypeOK
  BY DEF Inv, TypeOK
<1>4. CASE loc'[t] # loc[t]
  <2>1. MovesTask(t)
    BY <1>4, MoveStep DEF Inv
  <2>2. CASE Submit(t) \/ Cancel(t)
    BY <1>3, <2>2 DEF Submit, Cancel, Move, Waiting
  <2>3. CASE Stage01AClaim(t) \/ Stage01BClaim(t) \/ OperationClaim(t)
    <3>1. loc[t] \in {"pending", "review"}
      BY <2>3, WorkQueue, <1>3 DEF Stage01AClaim, Stage01BClaim, OperationClaim, IsFirst
    <3>2. loc'[t] = "active" /\ pc' \in {"a_check", "b_guard", "o_run"}
      BY <1>3, <2>3 DEF Stage01AClaim, Stage01BClaim, OperationClaim, Move, Start
    <3>3. QED
      BY <3>1, <3>2 DEF Waiting
  <2>4. CASE Stage01CClaim(t)
    <3>1. loc[t] = "pending_codex"
      BY <2>4, WorkQueue, <1>3 DEF Stage01CClaim, IsFirst
    <3>2. loc'[t] = "active" /\ cur' = t /\ pc' = "c_audit"
      BY <1>3, <2>4 DEF Stage01CClaim, Move, Start
    <3>3. QED
      BY <3>1, <3>2 DEF Waiting
  <2>5. CASE RecoverReviewLimit(t)
    <3>1. t \in LimitWork /\ loc'[t] = "pending_codex"
      BY <1>3, <2>5 DEF RecoverReviewLimit, Move, IsFirst
    <3>2. Waiting(t) /\ Waiting(t)'
      BY <3>1 DEF LimitWork, InQueue, Waiting
    <3>3. QED
      BY <3>2
  <2>6. QED
    BY <2>1, <2>2, <2>3, <2>4, <2>5 DEF MovesTask
<1>5. CASE loc'[t] = loc[t]
  <2>1. CASE cur' # t
    BY <1>1, <1>2, <1>5, <2>1 DEF Waiting
  <2>2. CASE cur' = t
    <3>1. RepairBegin(t) \/ PublishClaim(t)
      BY <1>3, <1>5, <2>2, CurStep, WorkQueue DEF Inv, Stage01AClaim, Stage01BClaim,
         OperationClaim, Stage01CClaim, IsFirst, Move
    <3>2. loc[t] \in {"failed", "approved"}
      BY <3>1 DEF RepairBegin, PublishClaim, IsFirst, RepairWork, PublishWork, InQueue
    <3>3. QED
      BY <1>1, <1>5, <3>2 DEF Waiting
  <2>3. QED
    BY <2>1, <2>2
<1>6. QED
  BY <1>4, <1>5

LEMMA NotCommitted ==
  ASSUME Inv, [Next]_vars, NEW t \in Tasks, loc[t] \in {"active", "failed"}
  PROVE  ~Committed(t)'
<1>1. TypeOK /\ CommitInv /\ ProcInv
  BY DEF Inv
<1>2. ~Committed(t)
  BY <1>1 DEF CommitInv
<1>3. ~(t = cur /\ PublishCommit)
  BY <1>1 DEF ProcInv, PublishPcs, PublishCommit, Run
<1>4. QED
  BY <1>1, <1>2, <1>3, CommittedStays

\* The stages of the task a child works on: what each step makes of them.
LEMMA OpenStays ==
  ASSUME Inv, [Next]_vars, NEW t \in Tasks, t = cur,
         pc \notin {"b_check", "c_audit", "c_verdict"} \cup PublishPcs
  PROVE  LockStage(t) = "open" /\ LockStage(t)' = "open"
<1> USE DEF ActivePcs, RepairPcs, PublishPcs
<1>1. loc[t] \in {"active", "failed"}
  BY TaskNames DEF Inv, ProcInv, TypeOK, Pcs
<1>2. ~Trusted(t) /\ LockStage(t) = "open"
  BY <1>1, StageIs DEF Waiting, Trusted
<1>3. ~Trusted(t)'
  BY <1>2, TrustStep DEF Inv, Stage01BPass, Run
<1>4. ~Committed(t)'
  BY <1>1, NotCommitted
<1>5. ~Waiting(t)' /\ loc'[t] # "approved"
  BY <1>3, <1>4 DEF Trusted, Waiting
<1>6. QED
  BY <1>2, <1>4, <1>5, StageIsNext

\* An audit ends in a PASS, or gives the task up, or keeps it for a higher cap.
LEMMA AuditStage ==
  ASSUME Inv, [Next]_vars, NEW t \in Tasks, t = cur, pc \in {"c_audit", "c_verdict"}
  PROVE  /\ LockStage(t) = "checked"
         /\ Stage01CPass => LockStage(t)' = "approved"
         /\ ~Stage01CPass => LockStage(t)' \in {"checked", "open"}
<1>1. loc[t] = "active"
  BY DEF Inv, ProcInv, ActivePcs
<1>2. LockStage(t) = "checked"
  BY <1>1, StageIs DEF Waiting
<1>3. ~Committed(t)'
  BY <1>1, NotCommitted
<1>4. CASE Stage01CPass
  <2>1. loc'[t] = "approved"
    BY <1>4 DEF Stage01CPass, Move, Inv, TypeOK
  <2>2. ~Waiting(t)'
    BY <2>1 DEF Waiting
  <2>3. QED
    BY <1>2, <1>3, <1>4, <2>1, <2>2, StageIsNext
<1>5. CASE ~Stage01CPass
  <2>1. loc'[t] # "approved"
    BY <1>1, <1>5, ApprovedBy DEF Inv
  <2>2. CASE Waiting(t)'
    BY <1>2, <1>5, <2>2, StageIsNext
  <2>3. CASE ~Waiting(t)'
    BY <1>2, <1>3, <1>5, <2>1, <2>3, StageIsNext
  <2>4. QED
    BY <2>2, <2>3
<1>6. QED
  BY <1>4, <1>5

\* The checks end in a PASS, or the implementation is not trusted.
LEMMA CheckStage ==
  ASSUME Inv, [Next]_vars, NEW t \in Tasks, t = cur, pc = "b_check"
  PROVE  /\ LockStage(t) = "open"
         /\ Stage01BPass => LockStage(t)' = "checked"
         /\ ~Stage01BPass => LockStage(t)' = "open"
<1>1. loc[t] = "active"
  BY DEF Inv, ProcInv, ActivePcs
<1>2. ~Trusted(t) /\ LockStage(t) = "open"
  BY <1>1, StageIs DEF Waiting, Trusted
<1>3. ~Committed(t)'
  BY <1>1, NotCommitted
<1>4. CASE Stage01BPass
  <2>1. loc'[t] = "pending_codex"
    BY <1>4 DEF Stage01BPass, Move, Inv, TypeOK
  <2>2. Waiting(t)'
    BY <2>1 DEF Waiting
  <2>3. QED
    BY <1>2, <1>4, <2>2, StageIsNext
<1>5. CASE ~Stage01BPass
  <2>1. ~Trusted(t)'
    BY <1>2, <1>5, TrustStep DEF Inv
  <2>2. ~Waiting(t)' /\ loc'[t] # "approved"
    BY <1>3, <2>1 DEF Trusted, Waiting
  <2>3. QED
    BY <1>2, <1>3, <1>5, <2>2, StageIsNext
<1>6. QED
  BY <1>4, <1>5

\* The publisher commits an approved task once, and completes a committed one.
LEMMA PublishStage ==
  ASSUME Inv, [Next]_vars, NEW t \in Tasks, t = cur, pc \in PublishPcs
  PROVE  /\ LockStage(t) = IF Committed(t) THEN "committed" ELSE "approved"
         /\ PublishMove => Committed(t) /\ LockStage(t)' = "completed"
         /\ ~PublishMove => LockStage(t)' = IF Committed(t)' THEN "committed" ELSE "approved"
<1> USE DEF PublishPcs
<1>1. loc[t] = "approved"
  BY DEF Inv, ProcInv
<1>2. LockStage(t) = IF Committed(t) THEN "committed" ELSE "approved"
  BY <1>1, StageIs DEF Waiting
<1>3. CASE PublishMove
  <2>1. Committed(t) /\ Committed(t)'
    BY <1>3, CommittedStays DEF Inv, CommitInv, PublishMove, Run
  <2>2. loc'[t] = "completed"
    BY <1>3 DEF PublishMove, Move, Inv, TypeOK
  <2>3. QED
    BY <1>2, <1>3, <2>1, <2>2, StageIsNext DEF Waiting
<1>4. CASE ~PublishMove
  <2>1. loc'[t] = "approved"
    BY <1>1, <1>4, ApprovedStays DEF Inv
  <2>2. QED
    BY <1>2, <1>4, <2>1, StageIsNext DEF Waiting
<1>5. QED
  BY <1>3, <1>4

-----------------------------------------------------------------------------
(* The refinement: initial states, and the step of each group of actions *)

LEMMA LockInit == Init => Lock!Init
<1> SUFFICES ASSUME Init PROVE Lock!Init
  OBVIOUS
<1>1. ASSUME NEW t \in Tasks
      PROVE  ~Committed(t) /\ loc[t] = "none"
  BY TaskNames DEF Init, Committed, NoCommit
<1>2. ASSUME NEW t \in Tasks
      PROVE  LockStage(t) = "open" /\ LockPublished(t) = Clean
  BY <1>1, StageIs DEF Waiting, LockPublished
<1>3. QED
  BY <1>2 DEF Lock!Init, Init

\* The stages after a step of the task a child works on.
LEMMA StageFrame ==
  ASSUME Inv, [Next]_vars, NEW t \in Tasks, t = cur
  PROVE  [u \in Tasks |-> LockStage(u)'] =
           [[u \in Tasks |-> LockStage(u)] EXCEPT ![t] = LockStage(t)']
  BY OtherStage

LEMMA PublishedFrame ==
  ASSUME Inv, [Next]_vars, commit' = commit \/ ~PublishCommit
  PROVE  [u \in Tasks |-> LockPublished(u)'] = [u \in Tasks |-> LockPublished(u)]
<1>1. ASSUME NEW u \in Tasks
      PROVE  LockPublished(u)' = LockPublished(u)
  <2>1. CASE ~PublishCommit
    BY <2>1, PublishedStep
  <2>2. CASE commit' = commit
    BY <2>2 DEF LockPublished, Committed
  <2>3. QED
    BY <2>1, <2>2
<1>2. QED
  BY <1>1

\* Only passed checks change what is recorded as checked.
LEMMA CheckedFrame ==
  ASSUME Inv, [Next]_vars, ~Stage01BPass
  PROVE  checkedC' = checkedC
<1>1. TypeOK /\ TypeOK'
  BY TypeNext DEF Inv
<1>2. \A t \in Tasks : checkedC'[t] = checkedC[t]
  BY <1>1, HistoryStep
<1>3. QED
  BY <1>1, <1>2 DEF TypeOK

\* A tree without owner edits belongs to the task of the branch checked out.
LEMMA LockFree ==
  ASSUME DistinctBranches, TypeOK, TreeInv, NEW t \in Tasks, head = WorkBranch[t]
  PROVE  Lock!Free(t)
<1>1. tree.by \in Tasks \cup {0}
  BY TreeFields
<1>2. CASE tree.by = 0
  BY <1>2 DEF TreeInv, Lock!Free
<1>3. CASE tree.by \in Tasks
  <2>1. tree.by = t
    BY <1>3, TaskNames DEF TreeInv, DistinctBranches
  <2>2. QED
    BY <2>1 DEF Lock!Free
<1>4. QED
  BY <1>1, <1>2, <1>3

\* A step that leaves the checkout, the stages and the histories alone.
LEMMA LockStutter ==
  ASSUME Inv, [Next]_vars, tree' = tree, ~Stage01BPass, commit' = commit \/ ~PublishCommit,
         \A t \in Tasks : t = cur => LockStage(t)' = LockStage(t)
  PROVE  UNCHANGED Lock!lockVars
<1>1. ASSUME NEW t \in Tasks
      PROVE  LockStage(t)' = LockStage(t)
  <2>1. CASE t # cur
    BY <2>1, OtherStage
  <2>2. CASE t = cur
    BY <2>2
  <2>3. QED
    BY <2>1, <2>2
<1>2. [t \in Tasks |-> LockStage(t)'] = [t \in Tasks |-> LockStage(t)]
  BY <1>1
<1>3. QED
  BY <1>2, PublishedFrame, CheckedFrame DEF Lock!lockVars

\* An apply, a repair's rollback, or a part of one.
LEMMA LockImplement ==
  ASSUME Inv, [Next]_vars, NEW t \in Tasks, t = cur,
         pc \notin {"b_check", "c_audit", "c_verdict"} \cup PublishPcs,
         Lock!Free(t), tree' = Clean \/ tree'.by = t
  PROVE  Lock!Implement(t)
<1>1. LockStage(t) = "open" /\ LockStage(t)' = "open"
  BY OpenStays
<1>2. [u \in Tasks |-> LockStage(u)'] = [u \in Tasks |-> LockStage(u)]
  BY <1>1, OtherStage
<1>3. tree' \in Trees
  BY TypeNext DEF Inv, TypeOK
<1>4. ~Stage01BPass /\ ~PublishCommit
  BY DEF Stage01BPass, PublishCommit, Run, PublishPcs
<1>5. UNCHANGED <<[u \in Tasks |-> LockStage(u)], checkedC, [u \in Tasks |-> LockPublished(u)]>>
  BY <1>2, <1>4, PublishedFrame, CheckedFrame
<1>6. QED
  BY <1>1, <1>3, <1>5 DEF Lock!Implement

LEMMA LockCheck ==
  ASSUME DistinctBranches, Inv, [Next]_vars, edits = 0, NEW t \in Tasks, t = cur,
         Stage01BPass
  PROVE  Lock!Check(t)
<1>1. pc = "b_check" /\ tree' = tree
  BY DEF Stage01BPass, Run, gitVars
<1>2. LockStage(t) = "open" /\ LockStage(t)' = "checked"
  BY <1>1, CheckStage
<1>3. Lock!Free(t)
  BY <1>1, LockFree DEF Inv, GitInv, PhaseInv
<1>4. checkedC' = [checkedC EXCEPT ![t] = tree]
  BY DEF Stage01BPass
<1>5. ~PublishCommit
  BY <1>1 DEF PublishCommit, Run
<1>6. Lock!Advance(t, "open", "checked")
  BY <1>2, StageFrame DEF Lock!Advance
<1>7. QED
  BY <1>1, <1>3, <1>4, <1>5, <1>6, PublishedFrame DEF Lock!Check

\* The audit finds the tree that was checked: every way out of it is Approve,
\* Reject or a stutter.
LEMMA LockAudit ==
  ASSUME DistinctBranches, Inv, [Next]_vars, edits = 0, edits' = 0, NEW t \in Tasks, t = cur,
         pc \in {"c_audit", "c_verdict"}
  PROVE  Lock!Approve(t) \/ Lock!Reject(t) \/ UNCHANGED Lock!lockVars
<1>1. TypeOK /\ TreeInv /\ PhaseInv /\ TrustInv
  BY DEF Inv, GitInv
<1>2. ~ChangesCheckout /\ ~Stage01BPass /\ ~PublishCommit
  BY DEF ChangesCheckout, Stage01BApply, Stage01BApplyFails, KillDuringApply, RollbackFails,
     RepairRestore, KillDuringRestore, PublishCommit, PublishSwitch, Stage01BPass, Run
<1>3. tree' = tree
  BY <1>1, <1>2, CheckoutStep
<1>4. checkedC' = checkedC
  BY <1>2, CheckedFrame
<1>5. [u \in Tasks |-> LockPublished(u)'] = [u \in Tasks |-> LockPublished(u)]
  BY <1>2, PublishedFrame
<1>6. LockStage(t) = "checked"
  BY AuditStage
<1>7. CASE Stage01CPass
  <2>1. pc = "c_verdict"
    BY <1>7 DEF Stage01CPass, Run
  <2>2. loc[t] = "active" /\ head = WorkBranch[t]
    BY <1>1, <2>1 DEF PhaseInv, Inv, ProcInv, ActivePcs
  <2>3. tree = checkedC[t]
    BY <1>1, <2>1, <2>2, TrustedTree DEF Trusted
  <2>4. LockStage(t)' = "approved"
    BY <1>7, AuditStage
  <2>5. Lock!Advance(t, "checked", "approved")
    BY <1>6, <2>4, StageFrame DEF Lock!Advance
  <2>6. QED
    BY <1>3, <1>4, <1>5, <2>3, <2>5 DEF Lock!Approve
<1>8. CASE ~Stage01CPass /\ LockStage(t)' = "open"
  <2>1. Lock!Advance(t, "checked", "open")
    BY <1>6, <1>8, StageFrame DEF Lock!Advance
  <2>2. QED
    BY <1>3, <1>4, <1>5, <2>1 DEF Lock!Reject
<1>9. CASE ~Stage01CPass /\ LockStage(t)' = "checked"
  BY <1>2, <1>3, <1>6, <1>9, LockStutter
<1>10. QED
  BY <1>7, <1>8, <1>9, AuditStage

\* The publisher commits what was checked, once, and completes what it committed.
LEMMA LockPublish ==
  ASSUME DistinctBranches, Inv, [Next]_vars, edits = 0, edits' = 0, NEW t \in Tasks, t = cur,
         pc \in PublishPcs
  PROVE  Lock!Commit(t) \/ Lock!Complete(t) \/ UNCHANGED Lock!lockVars
<1>1. TypeOK /\ TreeInv /\ TrustInv /\ loc[t] = "approved"
  BY DEF Inv, GitInv, ProcInv
<1>2. ~Stage01BPass
  BY DEF PublishPcs, Stage01BPass, Run
<1>3. checkedC' = checkedC
  BY <1>2, CheckedFrame
<1>4. CASE PublishCommit /\ commit' # commit
  <2>1. /\ tree' = Clean /\ head = WorkBranch[t] /\ tree # Clean
        /\ commit[WorkBranch[t]] = NoCommit
        /\ commit' = [commit EXCEPT ![WorkBranch[t]] = [task |-> t, content |-> tree]]
    BY <1>1, <1>4, CommitShape
  <2>2. ~Committed(t)
    BY <2>1, TaskNames DEF Committed, NoCommit
  <2>3. commit'[WorkBranch[t]] = [task |-> t, content |-> tree]
    BY <1>1, <2>1, TaskNames DEF TypeOK
  <2>4. Committed(t)' /\ LockPublished(t)' = tree
    BY <2>3 DEF Committed, LockPublished
  <2>5. ~PublishMove
    BY <1>4 DEF PublishCommit, PublishMove, Run
  <2>6. LockStage(t) = "approved" /\ LockStage(t)' = "committed"
    BY <2>2, <2>4, <2>5, PublishStage
  <2>7. tree = checkedC[t]
    BY <1>1, <2>1, <2>2, TrustedTree DEF Trusted
  <2>8. \A u \in Tasks : u # t => LockPublished(u)' = LockPublished(u)
    BY PublishedStep
  <2>9. [u \in Tasks |-> LockPublished(u)'] =
          [[u \in Tasks |-> LockPublished(u)] EXCEPT ![t] = tree]
    BY <2>4, <2>8
  <2>10. Lock!Advance(t, "approved", "committed")
    BY <2>6, StageFrame DEF Lock!Advance
  <2>11. QED
    BY <1>3, <2>1, <2>7, <2>9, <2>10 DEF Lock!Commit
<1>5. CASE ~(PublishCommit /\ commit' # commit)
  <2>1. tree' = tree
    <3>1. CASE PublishCommit
      BY <1>1, <1>5, <3>1, CommitShape, TaskNames DEF TypeOK, NoCommit
    <3>2. CASE PublishSwitch
      BY <3>2 DEF PublishSwitch
    <3>3. CASE ~PublishCommit /\ ~PublishSwitch
      <4>1. ~ChangesCheckout
        BY <3>3 DEF PublishPcs, ChangesCheckout, Stage01BApply, Stage01BApplyFails,
           KillDuringApply, RollbackFails, RepairRestore, KillDuringRestore, Run
      <4>2. QED
        BY <1>1, <4>1, CheckoutStep
    <3>4. QED
      BY <3>1, <3>2, <3>3
  <2>2. [u \in Tasks |-> LockPublished(u)'] = [u \in Tasks |-> LockPublished(u)]
    BY <1>5, PublishedFrame
  <2>3. CASE PublishMove
    <3>1. LockStage(t) = "committed" /\ LockStage(t)' = "completed"
      BY <2>3, PublishStage
    <3>2. Lock!Advance(t, "committed", "completed")
      BY <3>1, StageFrame DEF Lock!Advance
    <3>3. QED
      BY <1>3, <2>1, <2>2, <3>2 DEF Lock!Complete
  <2>4. CASE ~PublishMove
    <3>1. Committed(t)' <=> Committed(t)
      <4>1. CASE commit' = commit
        BY <4>1 DEF Committed
      <4>2. CASE ~PublishCommit
        BY <4>2, PublishedStep
      <4>3. QED
        BY <1>5, <4>1, <4>2
    <3>2. LockStage(t)' = LockStage(t)
      BY <2>4, <3>1, PublishStage
    <3>3. QED
      BY <1>2, <1>5, <2>1, <3>2, LockStutter
  <2>5. QED
    BY <2>3, <2>4
<1>6. QED
  BY <1>4, <1>5

\* Everything before the checks, and the repairs: the lock is taken or given back.
LEMMA LockWork ==
  ASSUME DistinctBranches, Inv, [Next]_vars, edits = 0, edits' = 0, NEW t \in Tasks, t = cur,
         pc \notin {"b_check", "c_audit", "c_verdict"} \cup PublishPcs
  PROVE  Lock!Implement(t) \/ UNCHANGED Lock!lockVars
<1>1. TypeOK /\ TreeInv /\ PhaseInv
  BY DEF Inv, GitInv
<1>2. ~Stage01BPass /\ ~PublishCommit /\ ~PublishSwitch
  BY DEF PublishPcs, Stage01BPass, PublishCommit, PublishSwitch, Run
<1>3. CASE tree' = tree
  BY <1>2, <1>3, OpenStays, LockStutter
<1>4. CASE Stage01BApply \/ KillDuringApply \/ Stage01BApplyFails \/ RollbackFails
  <2>1. tree = Clean \/ head = WorkBranch[t]
    BY <1>1, <1>4, ApplyShape
  <2>2. Lock!Free(t)
    BY <1>1, <2>1, LockFree DEF Lock!Free
  <2>3. tree' = tree \/ tree' = Clean \/ tree'.by = t
    BY <1>1, <1>4, ApplyShape
  <2>4. QED
    BY <1>3, <2>2, <2>3, LockImplement
<1>5. CASE RepairRestore \/ KillDuringRestore
  <2>1. head = WorkBranch[t] /\ tree.by # 0 /\ tree.by \in Tasks
    BY <1>1, <1>5, RestoreShape
  <2>2. tree.by = t
    BY <1>1, <2>1 DEF TreeInv, DistinctBranches
  <2>3. tree' = Clean \/ tree'.by = t
    BY <1>1, <1>5, <2>2, RestoreShape
  <2>4. QED
    BY <2>2, <2>3, LockImplement DEF Lock!Free
<1>6. CASE ~ChangesCheckout
  BY <1>1, <1>3, <1>6, CheckoutStep
<1>7. QED
  BY <1>2, <1>4, <1>5, <1>6 DEF ChangesCheckout

\* Between two children only queues change.
LEMMA LockIdle ==
  ASSUME Inv, [Next]_vars, edits = 0, edits' = 0, pc = "idle"
  PROVE  UNCHANGED Lock!lockVars
<1>1. ~ChangesCheckout /\ ~Stage01BPass /\ ~PublishCommit
  BY DEF ChangesCheckout, Stage01BApply, Stage01BApplyFails, KillDuringApply, RollbackFails,
     RepairRestore, KillDuringRestore, PublishCommit, PublishSwitch, Stage01BPass, Run
<1>2. tree' = tree
  BY <1>1, CheckoutStep DEF Inv
<1>3. cur \notin Tasks
  BY TaskNames DEF Inv, TypeOK
<1>4. QED
  BY <1>1, <1>2, <1>3, LockStutter

LEMMA LockNext ==
  ASSUME DistinctBranches, Inv, [Next]_vars, edits = 0, edits' = 0
  PROVE  [Lock!Next]_(Lock!lockVars)
<1>1. CASE pc = "idle"
  BY <1>1, LockIdle
<1>2. CASE pc # "idle"
  <2>1. cur \in Tasks
    BY <1>2, RunningTask DEF Inv
  <2>2. CASE pc = "b_check"
    <3>1. CASE Stage01BPass
      BY <2>1, <3>1, LockCheck DEF Lock!Next
    <3>2. CASE ~Stage01BPass
      <4>1. ~ChangesCheckout /\ ~PublishCommit
        BY <2>2 DEF ChangesCheckout, Stage01BApply, Stage01BApplyFails, KillDuringApply,
           RollbackFails, RepairRestore, KillDuringRestore, PublishCommit, PublishSwitch, Run
      <4>2. tree' = tree
        BY <4>1, CheckoutStep DEF Inv
      <4>3. \A t \in Tasks : t = cur => LockStage(t)' = LockStage(t)
        BY <2>2, <3>2, CheckStage
      <4>4. QED
        BY <3>2, <4>1, <4>2, <4>3, LockStutter
    <3>3. QED
      BY <3>1, <3>2
  <2>3. CASE pc \in {"c_audit", "c_verdict"}
    BY <2>1, <2>3, LockAudit DEF Lock!Next
  <2>4. CASE pc \in PublishPcs
    BY <2>1, <2>4, LockPublish DEF Lock!Next
  <2>5. CASE pc \notin {"b_check", "c_audit", "c_verdict"} \cup PublishPcs
    BY <2>1, <2>5, LockWork DEF Lock!Next
  <2>6. QED
    BY <2>2, <2>3, <2>4, <2>5
<1>3. QED
  BY <1>1, <1>2

\* With a work branch per task and no edits of the owner, the pipeline implements
\* CheckoutLock: kills, restarts, repairs and retries included, every step is a
\* step of the lock protocol or changes nothing of it.
THEOREM PipelineImplementsLock ==
  ASSUME DistinctBranches, MaxEdits = 0 PROVE Spec => ImplementsLock
<1>1. Inv => edits = 0
  BY DEF Inv, TypeOK
<1>2. Inv /\ Inv' /\ [Next]_vars => [Lock!Next]_(Lock!lockVars)
  <2>1. Inv' => edits' = 0
    BY DEF Inv, TypeOK
  <2>2. QED
    BY <1>1, <2>1, LockNext
<1>3. QED
  BY LockInit, InvHolds, <1>2, PTL DEF Spec, ImplementsLock, Lock!Spec

=============================================================================
