---------------------------- MODULE TaskPipeline ----------------------------
(***************************************************************************)
(* The file-queue pipeline of the control center, for the tasks of one     *)
(* registered project.  A task is a file that moves between queue          *)
(* directories; one supervisor (control_loop.run_cycle) runs the stage     *)
(* runners one after another as child processes, and the runners share one *)
(* Git checkout of the project.                                            *)
(*                                                                         *)
(*   slot  1  publisher "pre"    approved -> completed                     *)
(*         2  auto_repair_pre    blocked -> pending_codex, failed -> review*)
(*         3  operations         pending -> active -> completed            *)
(*         4  stage_01a          pending -> active -> review               *)
(*         5  codex_stage_01b    review -> active -> pending_codex         *)
(*         6  auto_repair_post                                             *)
(*         7  codex (01C)        pending_codex -> active -> approved/review*)
(*         8  publisher "post"                                             *)
(*                                                                         *)
(* A step of this module is what one child does between two points where   *)
(* the outside can be observed to interfere: the child being killed (the   *)
(* 2100 s timeout, a crash), the owner editing the checkout, a submission. *)
(***************************************************************************)
EXTENDS Integers, Sequences, FiniteSets

CONSTANTS
  Tasks,          \* code and operations tasks; the order of the numbers is
                  \* the order of sorted(queue.glob("*.md"))
  OpTasks,        \* the tasks whose Execution-Mode is operations
  Branches,       \* work branches
  Base,           \* the base branch of the project
  WorkBranch,     \* the Work-Branch field of every task
  DefaultReview,  \* codex_runner.DEFAULT_MAX_REVIEW_ATTEMPTS
  DefaultRepair,  \* auto_repair_runner.DEFAULT_MAX_FIX_CYCLES
  Caps,           \* values config.json's max_fix_cycles takes; 0 = unreadable
  Maintenance,    \* TRUE: the AI PROF maintenance checkout (night service,
                  \* single flight, local commits); FALSE: KOL (push and PR)
  Contracts,      \* what the publication fields of a task may say to its gate
  MaxFaults,      \* bound: child kills, failed network calls, cycle breaks
  MaxEdits,       \* bound: edits and resets the owner makes in the checkout
  MaxCfg,         \* bound: changes of config.json and of the profile
  MaxEvents       \* bound: all of these together

ASSUME TasksAssumption == Tasks \subseteq Nat \ {0} /\ OpTasks \subseteq Tasks
ASSUME BranchAssumption == WorkBranch \in [Tasks -> Branches] /\ Base \notin Branches
ASSUME CapAssumption ==
  /\ DefaultReview \in Nat \ {0}
  /\ DefaultRepair \in Nat \ {0}
  /\ Caps \subseteq Nat
ASSUME ContractAssumption == Contracts \subseteq {"commit", "none", "malformed"}
ASSUME BoundAssumption ==
  /\ Maintenance \in BOOLEAN
  /\ MaxFaults \in Nat
  /\ MaxEdits \in Nat
  /\ MaxCfg \in Nat
  /\ MaxEvents \in Nat

VARIABLES
  loc,       \* the queue directory that holds the file of each task
  attempt,   \* its Codex-Review-Attempt field
  log01B,    \* outcome in the newest 01B log of each task
  log01C,    \* outcome in the newest 01C log
  checkLog,  \* some 01B log of the task holds "check failed:"
  head,      \* the branch checked out in the project
  tree,      \* what the working tree holds on top of HEAD
  commit,    \* the commit on top of the base of each work branch
  slot,      \* position of run_cycle in the list of children
  pc,        \* where the running child is; "idle" between two children
  cur,       \* the task the running child has selected; 0 when idle
  snap,      \* the tree recorded by the child (baseline, audit evidence)
  skip01A,   \* the command list of this cycle omits stage_01a
  cfg,       \* max_fix_cycles in config.json
  contract,  \* the Publication fields of each task file: the action "commit", no
             \* action at all, or something _read_approved_task rejects
  profile,   \* the project's entry in projects.json, as the AI PROF gate finds it
  faults, edits, cfgs, \* how much of each bound is used
  launches,  \* history: Stage 01B model launches per task
  checkedC,  \* history: the tree whose required checks last passed, per task
  approvedC  \* history: the evidence Stage 01C took before its last PASS

taskVars == <<loc, attempt, log01B, log01C, checkLog>>
gitVars  == <<head, tree, commit>>
loopVars == <<slot, pc, cur, snap, skip01A>>
envVars  == <<cfg, contract, profile, faults, edits, cfgs>>
histVars == <<launches, checkedC, approvedC>>
vars     == <<taskVars, gitVars, loopVars, envVars, histVars>>

-----------------------------------------------------------------------------
(* Queues, trees and commits *)

Queues == {"none", "pending", "active", "review", "pending_codex", "approved",
           "blocked", "failed", "cancelled", "completed"}

CodeTasks == Tasks \ OpTasks

\* A working tree is named by the task whose candidate it holds (0: none), the
\* launch that produced it (0: an apply that was cut short), whether it changes
\* every one of the Scope-Files, and the kinds of owner edit in it: inside the
\* Scope-Files of the tasks, or outside.
Trees == [by: Tasks \cup {0}, ver: Nat, full: BOOLEAN, edit: SUBSET {"in", "out"}]
Clean == [by |-> 0, ver |-> 0, full |-> FALSE, edit |-> {}]

Candidate(t, n, f, e) == [by |-> t, ver |-> n, full |-> f, edit |-> e]

\* Stage 01B takes any change inside the scope; only the AI PROF gate tells
\* whether it covers the whole of it.
Coverage == IF Maintenance THEN BOOLEAN ELSE {FALSE}

Dirty   == tree # Clean
InScope == "out" \notin tree.edit

\* What snapshot_scope_sources hashes: the tree without the edits out of scope.
ScopeView(x) == [x EXCEPT !.edit = x.edit \cap {"in"}]

NoCommit == [task |-> 0, content |-> Clean]
Commits  == [task: Tasks \cup {0}, content: Trees]

CapReview == IF cfg = 0 THEN DefaultReview ELSE cfg
CapRepair == IF cfg = 0 THEN DefaultRepair ELSE cfg

InQueue(q) == {t \in Tasks : loc[t] = q}
IsFirst(t, S) == t \in S /\ \A u \in S : t <= u

-----------------------------------------------------------------------------
(* The supervisor: run_cycle over the composed command list *)

\* Mutant: the publisher runs at the end of the cycle only.
Cycle_PublishLast == <<"auto_repair", "operations", "stage_01a", "stage_01b",
                       "auto_repair", "stage_01c", "publish", "publish">>

Cycle == <<"publish", "auto_repair", "operations", "stage_01a", "stage_01b",
           "auto_repair", "stage_01c", "publish">>

Stage == Cycle[slot]

\* _maintenance_code_task_in_flight: read once, when the command list is built.
InFlight ==
  \E t \in CodeTasks : loc[t] \in {"active", "review", "pending_codex", "approved"}

GoTo(s) ==
  /\ slot' = s
  /\ pc' = "idle"
  /\ cur' = 0
  /\ snap' = Clean
  /\ skip01A' = IF s = 1 THEN Maintenance /\ InFlight' ELSE skip01A

\* Mutant: the cycle does not start again after the last child.
EndChild_NoWrap == GoTo(slot + 1)

\* The child exits 0 or 1: run_cycle goes on to the next child.
EndChild == GoTo(IF slot = Len(Cycle) THEN 1 ELSE slot + 1)

\* Any other exit code ends the cycle; the daemon starts the next one.
AbortCycle == GoTo(1)

Run(stage, p) == pc = p /\ Stage = stage

Start(p, t, s) ==
  /\ pc' = p
  /\ cur' = t
  /\ snap' = s
  /\ UNCHANGED <<slot, skip01A>>

Continue(p) == pc' = p /\ UNCHANGED <<slot, cur, snap, skip01A>>

Move(t, q) == loc' = [loc EXCEPT ![t] = q]

EventLeft == faults + edits + cfgs < MaxEvents

\* MaxFaults bounds what goes wrong by itself.
Fault ==
  /\ EventLeft
  /\ faults < MaxFaults
  /\ faults' = faults + 1
  /\ UNCHANGED <<cfg, contract, profile, edits, cfgs>>

-----------------------------------------------------------------------------
(* What each child finds to do *)

\* _select_approved_commit_task passes over a task without Publication-Action.
PublishWork == {t \in InQueue("approved") : Maintenance => contract[t] # "none"}

\* Mutant: the cap is not compared at all.
LimitWork_NoCap ==
  {t \in InQueue("blocked") : log01C[t] = "exceeded" /\ log01B[t] = "pass"}

\* recover_review_limit
LimitWork ==
  {t \in InQueue("blocked") : /\ attempt[t] < CapRepair
                              /\ log01C[t] = "exceeded"
                              /\ log01B[t] = "pass"}

\* Mutant: any dirty checkout is taken for the failed candidate of the task.
RepairWork_AnyBranch ==
  {t \in InQueue("failed") : checkLog[t] /\ Dirty /\ InScope}

\* recover_check_failure: the dirty candidate is bound to the task by branch.
RepairWork ==
  {t \in InQueue("failed") : /\ checkLog[t]
                             /\ head = WorkBranch[t]
                             /\ Dirty
                             /\ InScope}

Work ==
  CASE Stage = "publish"     -> PublishWork
    [] Stage = "auto_repair" -> LimitWork \cup RepairWork
    [] Stage = "operations"  -> InQueue("pending") \cap OpTasks
    [] Stage = "stage_01a"   -> IF skip01A THEN {} ELSE InQueue("pending") \ OpTasks
    [] Stage = "stage_01b"   -> InQueue("review")
    [] Stage = "stage_01c"   -> InQueue("pending_codex")

\* QUEUE_EMPTY, AUTO_REPAIR_QUEUE_EMPTY, APPROVED_TASK_PUBLISHER_IDLE
IdleChild ==
  /\ pc = "idle"
  /\ Work = {}
  /\ UNCHANGED <<taskVars, gitVars, envVars, histVars>>
  /\ EndChild

-----------------------------------------------------------------------------
(* Stage 01A (orchestrator.py): validates a task, never touches the project *)

Stage01AClaim(t) ==
  /\ pc = "idle" /\ Stage = "stage_01a"
  /\ IsFirst(t, Work)
  /\ Move(t, "active")
  /\ Start("a_check", t, Clean)
  /\ UNCHANGED <<attempt, log01B, log01C, checkLog, gitVars, envVars, histVars>>

\* A dirty checkout blocks; every other refusal ends in blocked or failed.
Stage01AFinish ==
  /\ Run("stage_01a", "a_check")
  /\ \/ ~Dirty /\ Move(cur, "review")
     \/ Dirty /\ Move(cur, "blocked")
     \/ \E q \in {"blocked", "failed"} : Move(cur, q)
  /\ EndChild
  /\ UNCHANGED <<attempt, log01B, log01C, checkLog, gitVars, envVars, histVars>>

-----------------------------------------------------------------------------
(* Stage 01B (claude_runner.py under codex_stage01b_runner_v2.py) *)

Stage01BClaim(t) ==
  /\ pc = "idle" /\ Stage = "stage_01b"
  /\ IsFirst(t, Work)
  /\ Move(t, "active")
  /\ Start("b_guard", t, Clean)
  /\ UNCHANGED <<attempt, log01B, log01C, checkLog, gitVars, envVars, histVars>>

\* The failure path of process_one: move to a stop queue, then write the log.
Stage01BStop(q, class) ==
  /\ Move(cur, q)
  /\ log01B' = [log01B EXCEPT ![cur] = class]
  /\ checkLog' = [checkLog EXCEPT ![cur] = @ \/ class = "check"]
  /\ EndChild
  /\ UNCHANGED <<attempt, log01C>>

\* A first attempt needs a clean checkout, a repair its own branch and scope.
WorktreeReady(t) ==
  IF attempt[t] = 0 THEN ~Dirty ELSE head = WorkBranch[t] /\ InScope

\* The guards pass, the baseline is taken and the model is launched.
Stage01BLaunch ==
  /\ Run("stage_01b", "b_guard")
  /\ WorktreeReady(cur)
  /\ launches' = [launches EXCEPT ![cur] = @ + 1]
  /\ pc' = "b_model"
  /\ snap' = ScopeView(tree)
  /\ UNCHANGED <<slot, cur, skip01A, taskVars, gitVars, envVars, checkedC, approvedC>>

\* A guard refuses, or an access check before it does.
Stage01BRefuse ==
  /\ Run("stage_01b", "b_guard")
  /\ \E q \in {"blocked", "failed"} :
       /\ WorktreeReady(cur) \/ q = "blocked"
       /\ Stage01BStop(q, "other")
  /\ UNCHANGED <<gitVars, envVars, histVars>>

\* The model ends with a change set inside the scope, or with any failure.
Stage01BModel ==
  /\ Run("stage_01b", "b_model")
  /\ \/ Continue("b_apply") /\ UNCHANGED taskVars
     \/ \E q \in {"blocked", "failed"} : Stage01BStop(q, "other")
  /\ UNCHANGED <<gitVars, envVars, histVars>>

\* verify_scope_sources_unchanged
BaselineHolds == ScopeView(tree) = snap

\* ensure_work_branch runs for a first attempt only.  The change set is not
\* empty, but a repair may put the files back as they are in HEAD.
Stage01BApply ==
  /\ Run("stage_01b", "b_apply")
  /\ BaselineHolds
  /\ head' = IF attempt[cur] = 0 THEN WorkBranch[cur] ELSE head
  /\ \/ \E f \in Coverage : tree' = Candidate(cur, launches[cur], f, tree.edit)
     \/ tree.by # 0 /\ tree' = Candidate(0, 0, FALSE, tree.edit)
  /\ Continue("b_check")
  /\ UNCHANGED <<taskVars, commit, envVars, histVars>>

\* The baseline changed, a checkout failed or a write failed and was rolled back.
Stage01BApplyFails ==
  /\ Run("stage_01b", "b_apply")
  /\ \/ UNCHANGED head
     \/ BaselineHolds /\ attempt[cur] = 0 /\ head' \in {Base, WorkBranch[cur]}
  /\ Stage01BStop("blocked", "other")
  /\ UNCHANGED <<tree, commit, envVars, histVars>>

\* run_allowed_checks: every required check passes.
Stage01BPass ==
  /\ Run("stage_01b", "b_check")
  /\ log01B' = [log01B EXCEPT ![cur] = "pass"]
  /\ checkedC' = [checkedC EXCEPT ![cur] = tree]
  /\ Move(cur, "pending_codex")
  /\ EndChild
  /\ UNCHANGED <<attempt, log01C, checkLog, gitVars, envVars, launches, approvedC>>

\* Mutant: a failed check is reported as executed.
Stage01BFail_Tolerated ==
  /\ Run("stage_01b", "b_check")
  /\ log01B' = [log01B EXCEPT ![cur] = "pass"]
  /\ Move(cur, "pending_codex")
  /\ EndChild
  /\ UNCHANGED <<attempt, log01C, checkLog, gitVars, envVars, histVars>>

\* One fails, or runs into its timeout.
Stage01BFail ==
  /\ Run("stage_01b", "b_check")
  /\ \E class \in {"check", "other"} : Stage01BStop("failed", class)
  /\ UNCHANGED <<gitVars, envVars, histVars>>

-----------------------------------------------------------------------------
(* Stage 01C (codex_runner.py): the read-only audit *)

Stage01CClaim(t) ==
  /\ pc = "idle" /\ Stage = "stage_01c"
  /\ IsFirst(t, Work)
  /\ Move(t, "active")
  /\ Start("c_audit", t, Clean)
  /\ UNCHANGED <<attempt, log01B, log01C, checkLog, gitVars, envVars, histVars>>

Stage01CBlock(class) ==
  /\ Move(cur, "blocked")
  /\ log01C' = [log01C EXCEPT ![cur] = class]
  /\ EndChild
  /\ UNCHANGED <<attempt, log01B, checkLog>>

\* Branch and scope are checked and the evidence is collected.
Stage01CEvidence ==
  /\ Run("stage_01c", "c_audit")
  /\ \/ /\ head = WorkBranch[cur] /\ InScope
        /\ pc' = "c_verdict"
        /\ snap' = tree
        /\ UNCHANGED <<slot, cur, skip01A, taskVars>>
     \/ Stage01CBlock("blocked")
  /\ UNCHANGED <<gitVars, envVars, histVars>>

\* before = after: collect_repo_evidence of both sides of the model call.
EvidenceHolds == tree = snap

Stage01CPass ==
  /\ Run("stage_01c", "c_verdict")
  /\ EvidenceHolds
  /\ log01C' = [log01C EXCEPT ![cur] = "pass"]
  /\ approvedC' = [approvedC EXCEPT ![cur] = snap]
  /\ Move(cur, "approved")
  /\ EndChild
  /\ UNCHANGED <<attempt, log01B, checkLog, gitVars, envVars, launches, checkedC>>

\* A FAIL verdict inside the cap goes back to review with the next attempt.
Stage01CFail ==
  /\ Run("stage_01c", "c_verdict")
  /\ EvidenceHolds
  /\ IF attempt[cur] + 1 > CapReview
     THEN Stage01CBlock("exceeded")
     ELSE /\ attempt' = [attempt EXCEPT ![cur] = @ + 1]
          /\ log01C' = [log01C EXCEPT ![cur] = "fail"]
          /\ Move(cur, "review")
          /\ EndChild
          /\ UNCHANGED <<log01B, checkLog>>
  /\ UNCHANGED <<gitVars, envVars, histVars>>

\* A mutated repository, three failed launches or a malformed verdict.
Stage01CInfraBlock ==
  /\ Run("stage_01c", "c_verdict")
  /\ Stage01CBlock("blocked")
  /\ UNCHANGED <<gitVars, envVars, histVars>>

-----------------------------------------------------------------------------
(* auto_repair_runner.py *)

RecoverReviewLimit(t) ==
  /\ pc = "idle" /\ Stage = "auto_repair"
  /\ IsFirst(t, LimitWork)
  /\ Move(t, "pending_codex")
  /\ EndChild
  /\ UNCHANGED <<attempt, log01B, log01C, checkLog, gitVars, envVars, histVars>>

\* recover_check_failure backs up the candidate and runs the failed check again.
RepairBegin(t) ==
  /\ pc = "idle" /\ Stage = "auto_repair"
  /\ LimitWork = {}
  /\ IsFirst(t, RepairWork)
  /\ Start("r_restore", t, Clean)
  /\ UNCHANGED <<taskVars, gitVars, envVars, histVars>>

\* An error before the rollback (an unsafe path, the check's timeout): exit 1.
RepairRaises ==
  /\ Run("auto_repair", "r_restore")
  /\ UNCHANGED <<taskVars, gitVars, envVars, histVars>>
  /\ EndChild

\* restore_task_scope_to_head; with the cap used up also
\* restore_terminal_base_branch, and the task stays failed.
RepairRestore ==
  /\ Run("auto_repair", "r_restore")
  /\ Dirty /\ InScope
  /\ tree' = Clean
  /\ UNCHANGED <<taskVars, commit, envVars, histVars>>
  /\ IF attempt[cur] + 1 > CapRepair
     THEN head' = Base /\ EndChild
     ELSE UNCHANGED head /\ Continue("r_requeue")

\* Mutant: the repair does not count as an attempt.
RepairRequeue_NotCounted ==
  /\ Run("auto_repair", "r_requeue")
  /\ Move(cur, "review")
  /\ EndChild
  /\ UNCHANGED <<attempt, log01B, log01C, checkLog, gitVars, envVars, histVars>>

RepairRequeue ==
  /\ Run("auto_repair", "r_requeue")
  /\ attempt' = [attempt EXCEPT ![cur] = @ + 1]
  /\ Move(cur, "review")
  /\ EndChild
  /\ UNCHANGED <<log01B, log01C, checkLog, gitVars, envVars, histVars>>

-----------------------------------------------------------------------------
(* operations_runner.py: a fixed profile; the checkout is left as it was *)

OperationClaim(t) ==
  /\ pc = "idle" /\ Stage = "operations"
  /\ IsFirst(t, Work)
  /\ Move(t, "active")
  /\ Start("o_run", t, Clean)
  /\ UNCHANGED <<attempt, log01B, log01C, checkLog, gitVars, envVars, histVars>>

\* validate_repository wants the clean base branch.
OperationFinish ==
  /\ Run("operations", "o_run")
  /\ \/ head = Base /\ ~Dirty /\ Move(cur, "completed")
     \/ \E q \in {"blocked", "failed"} : Move(cur, q)
  /\ EndChild
  /\ UNCHANGED <<attempt, log01B, log01C, checkLog, gitVars, envVars, histVars>>

-----------------------------------------------------------------------------
(* The publisher gates: approved_task_publisher.py under its KOL gate, or   *)
(* ai_prof_approved_task_publisher_gate_v2.py for the maintenance checkout  *)

\* The AI PROF gate wants a single candidate, with every field as it should be.
Selected(t) == Maintenance => PublishWork = {t} /\ contract[t] = "commit"

\* require_audit_evidence, _verify_stage_evidence
Publishable(t) == Selected(t) /\ log01B[t] = "pass" /\ log01C[t] = "pass"

\* MetadataError in run_once: no readable profile, or one that does not allow the
\* commit of the selected task.
Declined ==
  Maintenance /\ \/ profile = "unreadable"
                 \/ profile = "refused" /\ \E t \in PublishWork : Selected(t)

OnBranch(t) == head = WorkBranch[t]

\* Mutant: whatever is dirty is committed.
FreshCommit_AnyScope(t) == OnBranch(t) /\ Dirty /\ commit[WorkBranch[t]] = NoCommit

\* An uncommitted candidate on a work branch that has no commit yet.  The KOL gate
\* wants the changed paths inside the scope, the AI PROF gate equal to it.
FreshCommit(t) ==
  /\ OnBranch(t) /\ Dirty /\ InScope
  /\ commit[WorkBranch[t]] = NoCommit
  /\ Maintenance => tree.full

\* Mutant: a clean work branch needs no commit of the task.
ResumeCommit_AnyCommit(t) == OnBranch(t) /\ ~Dirty

\* The exact commit of the task on a clean checkout of its branch.
ResumeCommit(t) == OnBranch(t) /\ ~Dirty /\ commit[WorkBranch[t]].task = t

\* Mutant: a commit of the task is not looked for on its branch.
StaleCommit_Never(t) == FALSE

\* _exact_commit_from_branch (AI PROF only): another branch is checked out.
StaleCommit(t) == Maintenance /\ ~OnBranch(t) /\ commit[WorkBranch[t]].task = t

CanCommit(t) == FreshCommit(t) \/ ResumeCommit(t) \/ StaleCommit(t)

PublishClaim(t) ==
  /\ pc = "idle" /\ Stage = "publish"
  /\ IsFirst(t, PublishWork)
  /\ Publishable(t) /\ ~Declined
  /\ Start("p_commit", t, Clean)
  /\ UNCHANGED <<taskVars, gitVars, envVars, histVars>>

\* OWNER_ACTION_REQUIRED: exit 0, and the cycle goes on with the task in approved.
PublishDecline ==
  /\ pc = "idle" /\ Stage = "publish"
  /\ PublishWork # {}
  /\ Declined
  /\ UNCHANGED <<taskVars, gitVars, envVars, histVars>>
  /\ EndChild

\* Mutant: the AI PROF gate exits 0 for BLOCKED too.
PublishRefuse_GoesOn ==
  /\ Stage = "publish"
  /\ \/ /\ pc = "idle" /\ ~Declined
        /\ \E t \in PublishWork : IsFirst(t, PublishWork) /\ ~Publishable(t)
     \/ pc = "p_commit" /\ ~CanCommit(cur)
     \/ pc = "p_switch" /\ Dirty
  /\ UNCHANGED <<taskVars, gitVars, envVars, histVars>>
  /\ EndChild

\* Every other refusal is exit code 2 or 3, which ends the cycle.
PublishRefuse ==
  /\ Stage = "publish"
  /\ \/ /\ pc = "idle" /\ ~Declined
        /\ \E t \in PublishWork : IsFirst(t, PublishWork) /\ ~Publishable(t)
     \/ pc = "p_commit" /\ ~CanCommit(cur)
     \/ pc = "p_switch" /\ Dirty
  /\ UNCHANGED <<taskVars, gitVars, envVars, histVars>>
  /\ AbortCycle

PublishCommit ==
  /\ Run("publish", "p_commit")
  /\ \/ /\ FreshCommit(cur)
        /\ commit' = [commit EXCEPT ![WorkBranch[cur]] = [task |-> cur, content |-> tree]]
        /\ tree' = Clean
        /\ Continue(IF Maintenance THEN "p_switch" ELSE "p_remote")
     \/ /\ ResumeCommit(cur)
        /\ Continue(IF Maintenance THEN "p_switch" ELSE "p_remote")
        /\ UNCHANGED <<commit, tree>>
     \/ StaleCommit(cur) /\ Continue("p_move") /\ UNCHANGED <<commit, tree>>
  /\ UNCHANGED <<taskVars, head, envVars, histVars>>

\* Push, pull request, comment on the source issue.
PublishRemote ==
  /\ Run("publish", "p_remote")
  /\ Continue("p_switch")
  /\ UNCHANGED <<taskVars, gitVars, envVars, histVars>>

\* return_to_clean_main, _restore_base_if_owned
PublishSwitch ==
  /\ Run("publish", "p_switch")
  /\ ~Dirty
  /\ head' = Base
  /\ Continue(IF Maintenance THEN "p_move" ELSE "p_sync")
  /\ UNCHANGED <<taskVars, tree, commit, envVars, histVars>>

PublishSync ==
  /\ Run("publish", "p_sync")
  /\ Continue("p_move")
  /\ UNCHANGED <<taskVars, gitVars, envVars, histVars>>

PublishMove ==
  /\ Run("publish", "p_move")
  /\ Move(cur, "completed")
  /\ EndChild
  /\ UNCHANGED <<attempt, log01B, log01C, checkLog, gitVars, envVars, histVars>>

-----------------------------------------------------------------------------
(* What goes wrong by itself.  A killed child (run_child's timeout gives     *)
(* 124, a crash gives another code) ends the cycle where it stood.           *)

\* Between two writes, or a network call of the publisher failing.
Kill ==
  /\ pc # "idle"
  /\ Fault
  /\ UNCHANGED <<taskVars, gitVars, histVars>>
  /\ AbortCycle

\* Inside ensure_work_branch or apply_validated_changes.
KillDuringApply ==
  /\ Run("stage_01b", "b_apply")
  /\ BaselineHolds
  /\ Fault
  /\ IF attempt[cur] = 0
     THEN \/ head' \in {Base, WorkBranch[cur]} /\ UNCHANGED tree
          \/ head' = WorkBranch[cur] /\ tree' = Candidate(cur, 0, FALSE, tree.edit)
     ELSE UNCHANGED head /\ tree' = Candidate(cur, 0, FALSE, tree.edit)
  /\ UNCHANGED <<taskVars, commit, histVars>>
  /\ AbortCycle

\* apply_validated_changes fails half way and so does its rollback.
RollbackFails ==
  /\ Run("stage_01b", "b_apply")
  /\ BaselineHolds
  /\ Fault
  /\ head' = IF attempt[cur] = 0 THEN WorkBranch[cur] ELSE head
  /\ tree' = Candidate(cur, 0, FALSE, tree.edit)
  /\ Stage01BStop("blocked", "other")
  /\ UNCHANGED <<commit, histVars>>

\* Inside restore_task_scope_to_head, or before restore_terminal_base_branch.
KillDuringRestore ==
  /\ Run("auto_repair", "r_restore")
  /\ Dirty /\ InScope
  /\ Fault
  /\ tree' \in {Clean, [tree EXCEPT !.ver = 0]}
  /\ UNCHANGED <<taskVars, head, commit, histVars>>
  /\ AbortCycle

\* The failure paths of 01B and 01C move the file first and then write the log.
KillBeforeLog ==
  /\ \/ pc \in {"b_guard", "b_model", "c_audit", "c_verdict"} /\ Move(cur, "blocked")
     \/ pc = "b_check" /\ Move(cur, "failed")
  /\ Fault
  /\ UNCHANGED <<attempt, log01B, log01C, checkLog, gitVars, histVars>>
  /\ AbortCycle

\* Auto-repair writes the new attempt into the file before it moves the file.
KillBeforeMove ==
  /\ Run("auto_repair", "r_requeue")
  /\ attempt' = [attempt EXCEPT ![cur] = @ + 1]
  /\ Fault
  /\ UNCHANGED <<loc, log01B, log01C, checkLog, gitVars, histVars>>
  /\ AbortCycle

\* A pause or stop marker seen between two children ends the cycle.
CycleBreak ==
  /\ pc = "idle" /\ slot # 1
  /\ Fault
  /\ UNCHANGED <<taskVars, gitVars, histVars>>
  /\ AbortCycle

-----------------------------------------------------------------------------
(* The outside: submit_task.py, the owner in the checkout, config.json *)

Submit(t) ==
  /\ loc[t] = "none"
  /\ Move(t, "pending")
  /\ UNCHANGED <<attempt, log01B, log01C, checkLog, gitVars, loopVars, envVars, histVars>>

Cancel(t) ==
  /\ loc[t] = "pending"
  /\ Move(t, "cancelled")
  /\ UNCHANGED <<attempt, log01B, log01C, checkLog, gitVars, loopVars, envVars, histVars>>

OperatorEdit(kind) ==
  /\ EventLeft
  /\ edits < MaxEdits
  /\ kind \notin tree.edit
  /\ \E f \in {tree.full} \cup Coverage :
       /\ f # tree.full => kind = "in"
       /\ tree' = [tree EXCEPT !.edit = @ \cup {kind}, !.full = f]
  /\ edits' = edits + 1
  /\ UNCHANGED <<taskVars, head, commit, loopVars, cfg, contract, profile, faults, cfgs,
                 histVars>>

\* The owner discards the working tree and goes back to the base branch.
OperatorReset ==
  /\ EventLeft
  /\ edits < MaxEdits
  /\ Dirty \/ head # Base
  /\ tree' = Clean
  /\ head' = Base
  /\ edits' = edits + 1
  /\ UNCHANGED <<taskVars, commit, loopVars, cfg, contract, profile, faults, cfgs, histVars>>

\* Every child reads config.json once when it starts.
SetConfig(n) ==
  /\ pc = "idle"
  /\ EventLeft
  /\ cfgs < MaxCfg
  /\ n # cfg
  /\ cfg' = n
  /\ cfgs' = cfgs + 1
  /\ UNCHANGED <<taskVars, gitVars, loopVars, contract, profile, faults, edits, histVars>>

\* The owner edits projects.json, or half of it is there to be read.
SetProfile(p) ==
  /\ Maintenance
  /\ pc = "idle"
  /\ EventLeft
  /\ cfgs < MaxCfg
  /\ p # profile
  /\ profile' = p
  /\ cfgs' = cfgs + 1
  /\ UNCHANGED <<taskVars, gitVars, loopVars, cfg, contract, faults, edits, histVars>>

-----------------------------------------------------------------------------
Init ==
  /\ loc = [t \in Tasks |-> "none"]
  /\ attempt = [t \in Tasks |-> 0]
  /\ log01B = [t \in Tasks |-> "none"]
  /\ log01C = [t \in Tasks |-> "none"]
  /\ checkLog = [t \in Tasks |-> FALSE]
  /\ head = Base
  /\ tree = Clean
  /\ commit = [b \in Branches |-> NoCommit]
  /\ slot = 1
  /\ pc = "idle"
  /\ cur = 0
  /\ snap = Clean
  /\ skip01A = FALSE
  /\ cfg \in Caps
  /\ contract \in [Tasks -> Contracts]
  /\ profile = "valid"
  /\ faults = 0
  /\ edits = 0
  /\ cfgs = 0
  /\ launches = [t \in Tasks |-> 0]
  /\ checkedC = [t \in Tasks |-> Clean]
  /\ approvedC = [t \in Tasks |-> Clean]

Stage01A == Stage01AFinish \/ \E t \in Tasks : Stage01AClaim(t)

Stage01B ==
  \/ \E t \in Tasks : Stage01BClaim(t)
  \/ Stage01BLaunch
  \/ Stage01BRefuse
  \/ Stage01BModel
  \/ Stage01BApply
  \/ Stage01BApplyFails
  \/ Stage01BPass
  \/ Stage01BFail

Stage01C ==
  \/ \E t \in Tasks : Stage01CClaim(t)
  \/ Stage01CEvidence
  \/ Stage01CPass
  \/ Stage01CFail
  \/ Stage01CInfraBlock

AutoRepair ==
  \/ \E t \in Tasks : RecoverReviewLimit(t)
  \/ \E t \in Tasks : RepairBegin(t)
  \/ RepairRaises
  \/ RepairRestore
  \/ RepairRequeue

Operations == OperationFinish \/ \E t \in Tasks : OperationClaim(t)

Publisher ==
  \/ \E t \in Tasks : PublishClaim(t)
  \/ PublishDecline
  \/ PublishRefuse
  \/ PublishCommit
  \/ PublishRemote
  \/ PublishSwitch
  \/ PublishSync
  \/ PublishMove

\* One sequential daemon takes all of these steps.
Supervisor ==
  IdleChild \/ Stage01A \/ Stage01B \/ Stage01C \/ AutoRepair \/ Operations \/ Publisher

Faults ==
  \/ Kill
  \/ KillDuringApply
  \/ RollbackFails
  \/ KillDuringRestore
  \/ KillBeforeLog
  \/ KillBeforeMove
  \/ CycleBreak

Environment ==
  \/ \E t \in Tasks : Submit(t) \/ Cancel(t)
  \/ \E kind \in {"in", "out"} : OperatorEdit(kind)
  \/ OperatorReset
  \/ \E n \in Caps : SetConfig(n)
  \/ \E p \in {"valid", "refused", "unreadable"} : SetProfile(p)

Next == Supervisor \/ Faults \/ Environment

Spec == Init /\ [][Next]_vars

\* The daemon runs its children as long as it lives.
FairSpec == Spec /\ WF_vars(Supervisor)

-----------------------------------------------------------------------------
(* Properties *)

Pcs == {"idle", "a_check", "b_guard", "b_model", "b_apply", "b_check", "c_audit",
        "c_verdict", "r_restore", "r_requeue", "o_run", "p_commit", "p_remote",
        "p_switch", "p_sync", "p_move"}

\* Every variable has its type.
TypeOK ==
  /\ loc \in [Tasks -> Queues]
  /\ attempt \in [Tasks -> Nat]
  /\ log01B \in [Tasks -> {"none", "pass", "check", "other"}]
  /\ log01C \in [Tasks -> {"none", "pass", "fail", "exceeded", "blocked"}]
  /\ checkLog \in [Tasks -> BOOLEAN]
  /\ head \in Branches \cup {Base}
  /\ tree \in Trees
  /\ commit \in [Branches -> Commits]
  /\ slot \in 1..8
  /\ pc \in Pcs
  /\ cur \in Tasks \cup {0} /\ (pc = "idle" <=> cur = 0)
  /\ snap \in Trees
  /\ skip01A \in BOOLEAN
  /\ cfg \in Caps
  /\ contract \in [Tasks -> Contracts] /\ profile \in {"valid", "refused", "unreadable"}
  /\ faults \in 0..MaxFaults /\ edits \in 0..MaxEdits /\ cfgs \in 0..MaxCfg
  /\ launches \in [Tasks -> Nat]
  /\ checkedC \in [Tasks -> Trees]
  /\ approvedC \in [Tasks -> Trees]

Committed(t) == commit[WorkBranch[t]].task = t

\* The states of a task in which a later step trusts the checkout to hold the
\* implementation that passed the required checks.  An implementation equal to
\* HEAD leaves nothing to hold.
HoldsCandidate(t) ==
  /\ checkedC[t] # Clean
  /\ \/ loc[t] = "pending_codex"
     \/ loc[t] = "active" /\ cur = t /\ pc \in {"c_audit", "c_verdict"}
     \/ loc[t] = "blocked" /\ log01C[t] = "exceeded" /\ log01B[t] = "pass"
     \/ loc[t] = "approved" /\ ~Committed(t)

\* While a task waits for its audit, for a higher review cap or for its commit,
\* the one checkout all tasks share holds exactly the tree whose checks passed,
\* on the branch of the task, whatever the other tasks, the repairs, the kills
\* and the restarts did in between.
CandidateIntact ==
  edits = 0 =>
    \A t \in Tasks : HoldsCandidate(t) => head = WorkBranch[t] /\ tree = checkedC[t]

\* What the publisher committed on a work branch is the tree that Stage 01C took
\* as evidence before its PASS and that passed the required checks.
PublishedWasApproved ==
  edits = 0 =>
    \A b \in Branches : commit[b] # NoCommit =>
      LET t == commit[b].task
      IN  WorkBranch[t] = b /\ commit[b].content = approvedC[t] /\ approvedC[t] = checkedC[t]

\* A code task in completed has its commit, and a commit exists only for a task
\* that left the audit with a PASS.
CompletedMeansCommitted ==
  \A t \in CodeTasks :
    /\ loc[t] = "completed" => Committed(t)
    /\ Committed(t) => loc[t] \in {"approved", "completed"}

\* The gate of the task either takes it or stops the cycle: always that of KOL,
\* and that of AI PROF for a task with a Publication-Action while nobody has
\* touched the profile.
Firm(t) == Maintenance => cfgs = 0 /\ contract[t] # "none"

\* Between the audit's PASS and the commit no child works for anybody else: an
\* approved task has its two PASS logs, and one with a firm gate is the only one,
\* with the supervisor at its publisher.
ApprovedIsPublishable ==
  \A t \in InQueue("approved") :
    /\ log01B[t] = "pass" /\ log01C[t] = "pass"
    /\ Firm(t) => /\ Stage = "publish"
                  /\ \A u \in InQueue("approved") : Firm(u) => u = t

\* A task is implemented at most once per attempt, and while config.json is left
\* alone audits and repairs together take no more attempts than the higher of
\* their two caps (they differ when the file cannot be read).
LaunchBudget ==
  \A t \in Tasks :
    /\ launches[t] <= attempt[t] + 1
    /\ cfgs = 0 => attempt[t] <= CapReview \/ attempt[t] <= CapRepair

\* No step of the loop touches a candidate in the checkout for another task.
NoStolenCandidate ==
  [][tree.by # 0 /\ tree' # tree /\ edits' = 0 => cur = tree.by]_vars

\* An edit of the owner outside the scope of the tasks survives every stage: it
\* is neither rolled back by a repair nor taken into a commit.
OwnerEditSurvives ==
  [][/\ "out" \in tree.edit /\ edits' = edits => "out" \in tree'.edit
     /\ \A b \in Branches : commit'[b] # commit[b] => "out" \notin commit'[b].content.edit]_vars

\* What auto_repair_runner.py:6-7 says of a requeue for audit: the task was
\* blocked at its cap, and the configured cap has been changed since.
RequeueNeedsNewCap ==
  [][\A t \in Tasks :
       loc[t] = "blocked" /\ loc'[t] = "pending_codex" => cfgs > 0]_vars

Settled(t) == loc[t] \in {"none", "completed", "cancelled", "blocked", "failed"}

\* An approved task stays where it is: the gate stops every cycle at it, or
\* declines it, or passes over it; the night service then starts no other task.
Halted ==
  \E t \in InQueue("approved") :
    ~CanCommit(t) \/ (Maintenance /\ (profile # "valid" \/ ~Selected(t)))

\* With nothing going wrong by itself and a config.json that can be read, every
\* task comes to rest in a terminal queue, unless an approved task halts the loop.
Settles == \A t \in Tasks : <>[](Settled(t) \/ Halted \/ faults > 0 \/ cfg = 0)

Accepted(t) == Selected(t) /\ (Maintenance => profile = "valid")

\* An approved implementation that can be committed, or has been, is completed,
\* also when children are killed between or inside the steps of the publisher and
\* the profile is refused for a while; unless the owner works in the checkout or
\* the gate never accepts the task again.
ApprovedCompletes ==
  \A t \in Tasks :
    loc[t] = "approved" /\ (Committed(t) \/ FreshCommit(t))
      ~> (loc[t] = "completed" \/ edits > 0 \/ [](~Accepted(t)))

=============================================================================
