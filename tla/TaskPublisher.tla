---------------------------- MODULE TaskPublisher ----------------------------
(***************************************************************************)
(* The approved-task publishers, call by call: approved_task_publisher.py  *)
(* behind its KOL and its AK BERMET gate, and the commit-only gate of the  *)
(* maintenance checkout with its terminal reconciler.  TaskPipeline has    *)
(* the same child as one step among the stages; here the repository has a  *)
(* remote, an owner who merges there, and a base branch that moves on.     *)
(*                                                                         *)
(* A task is published in a fixed order: commit (or find the commit of an  *)
(* earlier try), push, pull request, comment, return to the base branch,   *)
(* move of the task, log.  After a failure the next child starts over, and *)
(* each step has to recognise what is already done.                        *)
(***************************************************************************)
EXTENDS Integers, FiniteSets

CONSTANTS
  Tasks,
  Source,     \* where each task comes from
  MaxMain,    \* bound: how often others advance the remote base branch
  MaxEvents   \* bound: crashes, failed calls, and what the owner does meanwhile

ASSUME TasksAssumption == Tasks # {} /\ "main" \notin Tasks
ASSUME SourceAssumption == Source \in [Tasks -> {"issue", "telegram"}]
ASSUME BoundsAssumption == MaxMain \in Nat /\ MaxEvents \in Nat

VARIABLES
  gate,      \* which of the gates runs for this repository
  queue,     \* where each task is
  branch,    \* the branch that is checked out: a task's, or Main
  dirty,     \* whether the checkout holds a candidate that is not committed
  base,      \* the base each work branch starts at
  commit,    \* the commit of each work branch: how many were made, 0 for none
  main,      \* the local base branch, as a position in the history of the base
  origin,    \* the base branch of the remote
  remote,    \* each work branch on the remote: NoBranch, a commit, or Foreign
  pr,        \* what became of each task's last pull request
  prs,       \* history: how many pull requests each task was given
  closed,    \* history: how many of them the owner merged or closed
  touched,   \* history: the branches somebody else pushed or deleted on the remote
             \* since a child last compared them
  valid,     \* whether the source issue still says what the task was made of
  comments,  \* history: the result comments on the source issue
  logged,    \* the tasks with a PASS log of the publisher
  pc,        \* the next call of the child
  cur,       \* the task it publishes
  events     \* how much of the bound is used

repoVars   == <<branch, dirty, base, commit, main>>
remoteVars == <<origin, remote, pr, prs, closed, touched, valid, comments>>
childVars  == <<pc, cur>>
vars == <<gate, queue, repoVars, remoteVars, logged, childVars, events>>

-----------------------------------------------------------------------------
Gates    == {"kol", "ak-bermet", "ai-prof"}
Main     == "main"
NoBranch == 0
Foreign  == -1

Event == events < MaxEvents /\ events' = events + 1

Goto(label) == pc' = label

\* Any PublisherError, and any kill: the next child starts with the task as it is.
GiveUp == Goto("idle") /\ UNCHANGED cur

Remote == gate # "ai-prof"

-----------------------------------------------------------------------------
(* Selection, authority, commit *)

\* The KOL gate reads the source issue once more and compares it with the task.
KolAuthority(t) == Source[t] = "issue" /\ valid[t]

\* The maintenance base and origin/main are the same commit.
Reconciled == main = origin

\* The commit-only gate takes tasks of issues only.
AiProfAuthority(t) == Source[t] = "issue" /\ Reconciled

\* The AK BERMET gate knows a task by its branch, of an issue or of the bridge.
Authority(t) ==
  CASE gate = "kol"       -> KolAuthority(t)
    [] gate = "ak-bermet" -> TRUE
    [] gate = "ai-prof"   -> AiProfAuthority(t)

Select(t) ==
  /\ pc = "idle"
  /\ queue[t] = "approved"
  /\ Authority(t)
  /\ cur' = t

Committed(t) == Goto(IF Remote THEN "push" ELSE "switch")

\* commit_approved_change on a checkout that holds the candidate.
Commit(t) ==
  /\ Select(t)
  /\ dirty /\ branch = t /\ commit[t] = 0 /\ base[t] = main
  /\ commit' = [commit EXCEPT ![t] = @ + 1]
  /\ dirty' = FALSE
  /\ Committed(t)
  /\ UNCHANGED <<gate, queue, branch, base, main, remoteVars, logged, events>>

\* Mutant: without the gate, a clean checkout has nothing to publish.
Resume_Never(t) ==
  /\ Select(t)
  /\ FALSE
  /\ UNCHANGED <<gate, queue, repoVars, pc, remoteVars, logged, events>>

\* Mutant: the retry amends the commit.
Resume_Amends(t) ==
  /\ Select(t)
  /\ ~dirty /\ branch = t /\ commit[t] # 0 /\ base[t] = main
  /\ commit' = [commit EXCEPT ![t] = @ + 1]
  /\ Committed(t)
  /\ UNCHANGED <<gate, queue, branch, dirty, base, main, remoteVars, logged, events>>

\* Mutant: a commit that exists counts as published.
Resume_SkipsRemote(t) ==
  /\ Select(t)
  /\ ~dirty /\ branch = t /\ commit[t] # 0 /\ base[t] = main
  /\ Goto("switch")
  /\ UNCHANGED <<gate, queue, repoVars, remoteVars, logged, events>>

\* _commit_or_resume on a clean checkout: its head is the commit of this task and
\* sits directly on the base.
Resume(t) ==
  /\ Select(t)
  /\ ~dirty /\ branch = t /\ commit[t] # 0 /\ base[t] = main
  /\ Committed(t)
  /\ UNCHANGED <<gate, queue, repoVars, remoteVars, logged, events>>

\* _exact_commit_from_branch: the commit is there and the checkout has moved on.
ResumeStale(t) ==
  /\ Select(t)
  /\ ~Remote /\ branch # t /\ commit[t] # 0 /\ base[t] = main
  /\ Goto("move")
  /\ UNCHANGED <<gate, queue, repoVars, remoteVars, logged, events>>

-----------------------------------------------------------------------------
(* The remote calls *)

Call(label) == pc = label /\ UNCHANGED <<gate, queue, repoVars, valid, logged>>

\* Mutant: the branch on the remote is taken for the right one.
Push_Trusts ==
  /\ Call("push")
  /\ remote' = [remote EXCEPT ![cur] = IF @ = NoBranch THEN commit[cur] ELSE @]
  /\ touched' = touched \ {cur}
  /\ Goto("pr")
  /\ UNCHANGED <<cur, origin, pr, prs, closed, comments, events>>

\* push_approved_branch: a branch that is there is compared, one that is pushed is
\* compared after the push, and neither is looked at again.
Push ==
  /\ Call("push")
  /\ remote[cur] \in {NoBranch, commit[cur]}
  /\ remote' = [remote EXCEPT ![cur] = commit[cur]]
  /\ touched' = touched \ {cur}
  /\ Goto("pr")
  /\ UNCHANGED <<cur, origin, pr, prs, closed, comments, events>>

\* The branch exists at another commit; or the push fails, before or after it had
\* its effect.
PushFails ==
  /\ Call("push") /\ GiveUp
  /\ \/ remote[cur] \notin {NoBranch, commit[cur]} /\ UNCHANGED <<remote, events>>
     \/ Event /\ \/ UNCHANGED remote
                 \/ /\ remote[cur] = NoBranch
                    /\ remote' = [remote EXCEPT ![cur] = commit[cur]]
  /\ UNCHANGED <<origin, pr, prs, closed, touched, comments>>

OpensPR == pr' = [pr EXCEPT ![cur] = "open"] /\ prs' = [prs EXCEPT ![cur] = @ + 1]

\* GitHub opens no pull request without a difference to the base.
CanOpen == remote[cur] # NoBranch /\ pr[cur] \in {"none", "closed"}

\* Mutant: an open pull request is not looked for.
PullRequest_Always ==
  /\ Call("pr")
  /\ CanOpen \/ pr[cur] = "open"
  /\ OpensPR
  /\ Goto("comment")
  /\ UNCHANGED <<cur, origin, remote, closed, touched, comments, events>>

\* current_open_pr, or create_pr
PullRequest ==
  /\ Call("pr")
  /\ \/ pr[cur] = "open" /\ UNCHANGED <<pr, prs>>
     \/ CanOpen /\ OpensPR
  /\ Goto("comment")
  /\ UNCHANGED <<cur, origin, remote, closed, touched, comments, events>>

PullRequestFails ==
  /\ Call("pr") /\ GiveUp
  /\ \/ pr[cur] # "open" /\ ~CanOpen /\ UNCHANGED <<pr, prs, events>>
     \/ Event /\ \/ UNCHANGED <<pr, prs>>
                 \/ CanOpen /\ OpensPR
  /\ UNCHANGED <<origin, remote, closed, touched, comments>>

Comments == comments' = [comments EXCEPT ![cur] = @ + 1]

\* post_source_comment; a task of the Telegram bridge has no issue.
Comment ==
  /\ Call("comment")
  /\ IF Source[cur] = "issue" THEN Comments ELSE UNCHANGED comments
  /\ Goto("switch")
  /\ UNCHANGED <<cur, origin, remote, pr, prs, closed, touched, events>>

CommentFails ==
  /\ Call("comment") /\ GiveUp /\ Event
  /\ Source[cur] = "issue"
  /\ Comments \/ UNCHANGED comments
  /\ UNCHANGED <<origin, remote, pr, prs, closed, touched>>

-----------------------------------------------------------------------------
(* The way back, and the end of the task *)

\* Mutant: a switch that fails is tolerated.
Switch_Tolerated ==
  /\ pc = "switch" /\ ~dirty
  /\ \/ branch' = Main /\ UNCHANGED events
     \/ UNCHANGED branch /\ Event
  /\ Goto(IF Remote THEN "merge" ELSE "move")
  /\ UNCHANGED <<gate, queue, dirty, base, commit, main, remoteVars, logged, cur>>

\* Mutant: a base that is behind is refused before the switch.
Switch_RefusesBehind ==
  /\ pc = "switch" /\ ~dirty
  /\ IF Remote /\ main # origin
     THEN GiveUp /\ UNCHANGED branch
     ELSE /\ branch' = Main
          /\ Goto(IF Remote THEN "merge" ELSE "move")
          /\ UNCHANGED cur
  /\ UNCHANGED <<gate, queue, dirty, base, commit, main, remoteVars, logged, events>>

\* _restore_base_if_owned: the base branch must still be where the commit started.
Restored == Remote \/ main = base[cur]

\* return_to_clean_main up to its switch, _restore_base_if_owned
Switch ==
  /\ pc = "switch" /\ ~dirty
  /\ branch' = Main
  /\ Goto(IF Remote THEN "merge" ELSE IF Restored THEN "move" ELSE "idle")
  /\ UNCHANGED <<gate, queue, dirty, base, commit, main, remoteVars, logged, cur, events>>

\* The fetch, and the fast-forward after it.
Merge ==
  /\ pc = "merge" /\ Goto("move")
  /\ main' = origin
  /\ UNCHANGED <<gate, queue, branch, dirty, base, commit, remoteVars, logged, cur, events>>

SwitchFails ==
  /\ pc \in {"switch", "merge", "move"} /\ Event /\ GiveUp
  /\ UNCHANGED <<gate, queue, repoVars, remoteVars, logged>>

\* atomic_move_no_replace, _complete_queue_task
Move ==
  /\ pc = "move" /\ Goto(IF Remote THEN "log" ELSE "idle")
  /\ queue' = [queue EXCEPT ![cur] = "completed"]
  /\ UNCHANGED <<gate, repoVars, remoteVars, logged, cur, events>>

WriteLog ==
  /\ pc = "log" /\ Goto("idle")
  /\ logged' = logged \cup {cur}
  /\ UNCHANGED <<gate, queue, repoVars, remoteVars, cur, events>>

\* sync_clean_main, when nothing is approved.
Sync ==
  /\ pc = "idle" /\ Remote
  /\ \A t \in Tasks : queue[t] # "approved"
  /\ branch = Main /\ ~dirty
  /\ main # origin
  /\ main' = origin
  /\ UNCHANGED <<gate, queue, branch, dirty, base, commit, remoteVars, logged, childVars, events>>

Crash ==
  /\ pc # "idle" /\ Event /\ GiveUp
  /\ UNCHANGED <<gate, queue, repoVars, remoteVars, logged>>

-----------------------------------------------------------------------------
(* The stages before, the owner, and others at work in the repository *)

Idle == \A t \in Tasks : queue[t] \notin {"work", "approved"}

\* Stage 01B starts a work branch at the local base; one task at a time.
StartWork(t) ==
  /\ pc = "idle" /\ Idle /\ queue[t] = "new"
  /\ branch = Main /\ ~dirty
  /\ queue' = [queue EXCEPT ![t] = "work"]
  /\ branch' = t
  /\ dirty' = TRUE
  /\ base' = [base EXCEPT ![t] = main]
  /\ UNCHANGED <<gate, commit, main, remoteVars, logged, childVars, events>>

\* Both PASS logs are there.
Approve(t) ==
  /\ pc = "idle" /\ queue[t] = "work"
  /\ queue' = [queue EXCEPT ![t] = "approved"]
  /\ UNCHANGED <<gate, repoVars, remoteVars, logged, childVars, events>>

OthersMerge ==
  /\ origin < MaxMain
  /\ origin' = origin + 1
  /\ UNCHANGED <<gate, queue, repoVars, remote, pr, prs, closed, touched, valid, comments,
                 logged, childVars, events>>

\* The owner merges or closes a pull request, and may delete its branch.
ClosePR(t) ==
  /\ pr[t] = "open" /\ Event
  /\ \E end \in {"merged", "closed"} : pr' = [pr EXCEPT ![t] = end]
  /\ closed' = [closed EXCEPT ![t] = @ + 1]
  /\ \/ UNCHANGED <<remote, touched>>
     \/ /\ remote' = [remote EXCEPT ![t] = NoBranch]
        /\ touched' = touched \cup {t}
  /\ UNCHANGED <<gate, queue, repoVars, origin, prs, valid, comments, logged, childVars>>

\* The owner brings the local base up to date.
OwnerPull ==
  /\ main # origin /\ Event
  /\ main' = origin
  /\ UNCHANGED <<gate, queue, branch, dirty, base, commit, remoteVars, logged, childVars>>

EditIssue(t) ==
  /\ Event
  /\ valid' = [valid EXCEPT ![t] = ~@]
  /\ UNCHANGED <<gate, queue, repoVars, origin, remote, pr, prs, closed, touched, comments,
                 logged, childVars>>

\* Somebody else pushes to the branch of that name, whether or not it is there and
\* whether or not a pull request of it is open.
ForeignPush(t) ==
  /\ remote[t] # Foreign /\ Event
  /\ remote' = [remote EXCEPT ![t] = Foreign]
  /\ touched' = touched \cup {t}
  /\ UNCHANGED <<gate, queue, repoVars, origin, pr, prs, closed, valid, comments, logged,
                 childVars>>

-----------------------------------------------------------------------------
Init ==
  /\ gate \in Gates
  /\ queue = [t \in Tasks |-> "new"]
  /\ branch = Main /\ dirty = FALSE
  /\ base = [t \in Tasks |-> 0]
  /\ commit = [t \in Tasks |-> 0]
  /\ main = 0 /\ origin = 0
  /\ remote = [t \in Tasks |-> NoBranch]
  /\ pr = [t \in Tasks |-> "none"]
  /\ prs = [t \in Tasks |-> 0]
  /\ closed = [t \in Tasks |-> 0]
  /\ touched = {}
  /\ valid = [t \in Tasks |-> TRUE]
  /\ comments = [t \in Tasks |-> 0]
  /\ logged = {}
  /\ pc = "idle"
  /\ cur = CHOOSE t \in Tasks : TRUE
  /\ events = 0

Begin  == \E t \in Tasks : Commit(t) \/ Resume(t) \/ ResumeStale(t)
Remotely == Push \/ PullRequest \/ Comment
Finish == Switch \/ Merge \/ Move \/ WriteLog
Refused == PushFails \/ PullRequestFails

Publisher == Begin \/ Remotely \/ Finish \/ Refused \/ Sync

Faults == CommentFails \/ SwitchFails \/ Crash

Stages == \E t \in Tasks : StartWork(t) \/ Approve(t)

Others ==
  \/ OthersMerge \/ OwnerPull
  \/ \E t \in Tasks : ClosePR(t) \/ EditIssue(t) \/ ForeignPush(t)

Next == Publisher \/ Faults \/ Stages \/ Others

Spec == Init /\ [][Next]_vars

\* The supervisor starts the gate in every cycle, and every call of it ends.
FairSpec == Spec /\ WF_vars(Publisher)

-----------------------------------------------------------------------------
(* Properties *)

TypeOK ==
  /\ gate \in Gates
  /\ queue \in [Tasks -> {"new", "work", "approved", "completed"}]
  /\ branch \in Tasks \cup {Main} /\ dirty \in BOOLEAN
  /\ base \in [Tasks -> 0..MaxMain] /\ main \in 0..MaxMain /\ origin \in 0..MaxMain
  /\ commit \in [Tasks -> Nat]
  /\ remote \in [Tasks -> Nat \cup {Foreign}]
  /\ pr \in [Tasks -> {"none", "open", "merged", "closed"}]
  /\ {prs, closed, comments} \subseteq [Tasks -> Nat]
  /\ touched \subseteq Tasks /\ valid \in [Tasks -> BOOLEAN]
  /\ logged \subseteq Tasks
  /\ pc \in {"idle", "push", "pr", "comment", "switch", "merge", "move", "log"}
  /\ cur \in Tasks
  /\ pc \in {"push", "pr", "comment", "switch"} => branch = cur /\ ~dirty
  /\ pc = "log" => queue[cur] = "completed"
  /\ pc \notin {"idle", "log"} => queue[cur] = "approved"
  /\ events \in 0..MaxEvents

\* What is proposed for a merge is the commit of the task, through all the retries:
\* a branch of its name that somebody else pushed before the child compared it
\* (push_approved_branch) is never proposed, and the one that was proposed changes
\* only by somebody who pushes or deletes it after that comparison.
ProposesOwnCommit ==
  \A t \in Tasks :
    pr[t] = "open" /\ t \notin touched => remote[t] = commit[t] /\ commit[t] # 0

\* Whatever is killed, refused or answered too late, a task is committed once; it has
\* one pull request at a time, and another only where the owner closed the one it had
\* (current_open_pr finds the one whose answer was lost); and its result is posted
\* once, and once more only for something that went wrong: a gate that refuses in
\* every cycle does not comment in every cycle.
PublishedOnce ==
  \A t \in Tasks :
    /\ commit[t] <= 1
    /\ prs[t] = closed[t] + (IF pr[t] = "open" THEN 1 ELSE 0)
    /\ comments[t] <= 1 + events

\* A completed task has its commit, and where the gate publishes it had a pull
\* request and its source issue was told; only a completed task has the PASS log from
\* which the Telegram bridge takes the link.
CompletedMeansPublished ==
  \A t \in Tasks :
    /\ queue[t] = "completed" =>
         /\ commit[t] # 0
         /\ Remote => prs[t] > 0 /\ (Source[t] = "issue" => comments[t] > 0)
    /\ t \in logged => queue[t] = "completed" /\ Remote

\* The checkout is never left on the branch of a completed task, with or without
\* changes: the next task starts from the base branch.
CheckoutReleased == \A t \in Tasks : queue[t] = "completed" => branch # t

\* Why a task may stay in approved: the owner changed the issue or moved a base, the
\* child of an earlier try came back to the base branch and no further, somebody else
\* has the branch, or its pull request was merged before the task was completed.
Halted(t) ==
  \/ ~Authority(t)
  \/ base[t] # main
  \/ Remote /\ branch # t
  \/ Remote /\ remote[t] = Foreign
  \/ Remote /\ pr[t] = "merged"

\* An approved task is completed in the end, unless it is halted for good for one of
\* these reasons; a failure before the return to the base branch is none of them.
Completes ==
  \A t \in Tasks : <>[](queue[t] = "approved") => <>[]Halted(t)

=============================================================================
