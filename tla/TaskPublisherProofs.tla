------------------------- MODULE TaskPublisherProofs -------------------------
(***************************************************************************)
(* Proofs about TaskPublisher, for any set of tasks, any sources and any   *)
(* bounds on what goes wrong.  One inductive invariant carries all of it:  *)
(* besides the properties themselves it says what the child may rely on at *)
(* each of its calls, because the calls before it have been made by this   *)
(* child or by an earlier one.                                             *)
(***************************************************************************)
EXTENDS TaskPublisher, TLAPS

\* The child publishes a commit that exists, and only the gates with a remote make
\* the remote calls; the commit-only gate tells nobody.
Publishing ==
  /\ pc # "idle" => commit[cur] # 0
  /\ ~Remote => \A t \in Tasks : comments[t] = 0
  /\ pc \in {"push", "pr", "comment", "merge", "log"} => Remote

\* What the calls before have done.  The branch is the one that was compared, unless
\* somebody has pushed or deleted it since.
Pushed == pc = "pr" /\ cur \notin touched => remote[cur] = commit[cur]

Proposed == Remote /\ pc \in {"comment", "switch", "merge", "move"} => prs[cur] > 0

Told ==
  Remote /\ Source[cur] = "issue" /\ pc \in {"switch", "merge", "move"} => comments[cur] > 0

GivenBack ==
  /\ pc = "merge" => branch = Main
  /\ pc = "move" => branch # cur

CommittedLate == \A t \in Tasks : queue[t] \in {"new", "work"} => commit[t] = 0

\* The child that has commented, or the task that is completed, accounts for one
\* comment; each of the others was paid for with an event.
Accounted(t) ==
  queue[t] = "completed" \/ (cur = t /\ pc \in {"switch", "merge", "move", "log"})

CommentsPaid ==
  \A t \in Tasks : comments[t] <= events + (IF Accounted(t) THEN 1 ELSE 0)

IInv ==
  /\ TypeOK
  /\ Publishing /\ Pushed /\ Proposed /\ Told /\ GivenBack
  /\ CommittedLate /\ CommentsPaid
  /\ PublishedOnce /\ ProposesOwnCommit /\ CompletedMeansPublished /\ CheckoutReleased

-----------------------------------------------------------------------------
\* The invariant holds when the publisher is set up: nothing is committed and no
\* child runs (Init).
LEMMA InitIInv == Init => IInv
<1> SUFFICES ASSUME Init PROVE IInv
  OBVIOUS
<1>1. cur \in Tasks
  BY TasksAssumption, Zenon DEF Init
<1>2. TypeOK
  <2>1. /\ base \in [Tasks -> 0..MaxMain] /\ main \in 0..MaxMain /\ origin \in 0..MaxMain
        /\ events \in 0..MaxEvents
    BY BoundsAssumption DEF Init
  <2>2. /\ commit \in [Tasks -> Nat] /\ remote \in [Tasks -> Nat \cup {Foreign}]
        /\ {prs, closed, comments} \subseteq [Tasks -> Nat]
    BY DEF Init, NoBranch
  <2> QED BY <1>1, <2>1, <2>2 DEF Init, TypeOK
<1>3. Publishing /\ Pushed /\ Proposed /\ Told /\ GivenBack
  BY DEF Init, Publishing, Pushed, Proposed, Told, GivenBack
<1>4. CommittedLate /\ CommentsPaid
  BY DEF Init, CommittedLate, CommentsPaid, Accounted
<1>5. PublishedOnce /\ ProposesOwnCommit /\ CompletedMeansPublished /\ CheckoutReleased
  BY DEF Init, PublishedOnce, ProposesOwnCommit, CompletedMeansPublished, CheckoutReleased
<1> QED BY <1>2, <1>3, <1>4, <1>5 DEF IInv

\* Every step keeps it: the child's calls, what fails, and what the stages, the owner
\* and others do in between (Next).
LEMMA StepIInv == IInv /\ [Next]_vars => IInv'
<1> SUFFICES ASSUME IInv, [Next]_vars PROVE IInv'
  OBVIOUS
<1> USE TasksAssumption, SourceAssumption, BoundsAssumption
    DEF IInv, TypeOK, Publishing, Pushed, Proposed, Told, GivenBack, CommittedLate,
        CommentsPaid, Accounted, PublishedOnce, ProposesOwnCommit,
        CompletedMeansPublished, CheckoutReleased,
        repoVars, remoteVars, childVars, Goto, Remote, Main, NoBranch, Foreign
<1>1. ASSUME NEW t \in Tasks, Commit(t) PROVE IInv'
  <2>1. TypeOK'
    <3>1. commit' \in [Tasks -> Nat] /\ dirty' = FALSE /\ cur' = t /\ branch' = t
      BY <1>1 DEF Commit, Select
    <3>2. pc' \in {"push", "switch"}
      BY <1>1 DEF Commit, Committed
    <3> QED BY <1>1, <3>1, <3>2 DEF Commit, Select
  <2>2. (Publishing /\ Pushed /\ Proposed /\ Told /\ GivenBack)'
    BY <1>1 DEF Commit, Select, Committed
  <2>3. (CommittedLate /\ CommentsPaid)'
    BY <1>1 DEF Commit, Select, Committed
  <2>4. PublishedOnce'
    BY <1>1 DEF Commit, Select, Committed
  <2>5. ProposesOwnCommit'
    BY <1>1 DEF Commit, Select, Committed
  <2>6. (CompletedMeansPublished /\ CheckoutReleased)'
    BY <1>1 DEF Commit, Select, Committed
  <2> QED BY <2>1, <2>2, <2>3, <2>4, <2>5, <2>6
<1>2. ASSUME NEW t \in Tasks, Resume(t) PROVE IInv'
  BY <1>2 DEF Resume, Select, Committed
<1>3. ASSUME NEW t \in Tasks, ResumeStale(t) PROVE IInv'
  BY <1>3 DEF ResumeStale, Select
<1>4. CASE Push
  BY <1>4 DEF Push, Call
<1>5. CASE PullRequest
  BY <1>5 DEF PullRequest, Call, CanOpen, OpensPR
<1>6. CASE Comment
  BY <1>6 DEF Comment, Call, Comments
<1>7. CASE Switch
  <2>1. (Publishing /\ Pushed /\ Proposed /\ Told /\ GivenBack)'
    BY <1>7 DEF Switch
  <2>2. (CommittedLate /\ CommentsPaid)'
    <3>1. CASE Remote
      BY <1>7, <3>1 DEF Switch
    <3>2. CASE ~Remote
      BY <1>7, <3>2 DEF Switch
    <3> QED BY <3>1, <3>2
  <2>3. (PublishedOnce /\ ProposesOwnCommit /\ CompletedMeansPublished
           /\ CheckoutReleased)'
    BY <1>7 DEF Switch
  <2>4. TypeOK'
    BY <1>7 DEF Switch
  <2> QED BY <2>1, <2>2, <2>3, <2>4
<1>8. CASE Merge
  BY <1>8 DEF Merge
<1>9. CASE Move
  BY <1>9 DEF Move
<1>10. CASE WriteLog
  BY <1>10 DEF WriteLog
<1>11. CASE PushFails
  BY <1>11 DEF PushFails, Call, GiveUp, Event
<1>12. CASE PullRequestFails
  BY <1>12 DEF PullRequestFails, Call, GiveUp, Event, CanOpen, OpensPR
<1>13. CASE Sync
  BY <1>13 DEF Sync
<1>14. CASE CommentFails
  BY <1>14 DEF CommentFails, Call, GiveUp, Event, Comments
<1>15. CASE SwitchFails \/ Crash
  BY <1>15 DEF SwitchFails, Crash, GiveUp, Event
<1>16. ASSUME NEW t \in Tasks, StartWork(t) PROVE IInv'
  BY <1>16 DEF StartWork
<1>17. ASSUME NEW t \in Tasks, Approve(t) PROVE IInv'
  BY <1>17 DEF Approve
<1>18. CASE OthersMerge \/ OwnerPull
  BY <1>18 DEF OthersMerge, OwnerPull, Event
<1>19. ASSUME NEW t \in Tasks, ClosePR(t) PROVE IInv'
  BY <1>19 DEF ClosePR, Event
<1>20. ASSUME NEW t \in Tasks, EditIssue(t) PROVE IInv'
  BY <1>20 DEF EditIssue, Event
<1>21. ASSUME NEW t \in Tasks, ForeignPush(t) PROVE IInv'
  BY <1>21 DEF ForeignPush, Event
<1>22. CASE UNCHANGED vars
  BY <1>22 DEF vars
<1> QED
  BY <1>1, <1>2, <1>3, <1>4, <1>5, <1>6, <1>7, <1>8, <1>9, <1>10, <1>11, <1>12, <1>13,
     <1>14, <1>15, <1>16, <1>17, <1>18, <1>19, <1>20, <1>21, <1>22
     DEF Next, Publisher, Begin, Remotely, Finish, Refused, Faults, Stages, Others

LEMMA InvariantIInv == Spec => []IInv
  BY InitIInv, StepIInv, PTL DEF Spec

-----------------------------------------------------------------------------
\* Every variable keeps its type, and the checkout is clean and on the task's branch
\* until the child gives it back (process_task).
THEOREM TypeCorrect == Spec => []TypeOK
<1>1. IInv => TypeOK
  BY DEF IInv
<1> QED BY <1>1, InvariantIInv, PTL

\* One commit per task, one pull request at a time, and one result comment but for
\* what went wrong, however the calls are lost, retried or killed (push_approved_branch,
\* current_open_pr, post_source_comment).
THEOREM PublishesOnce == Spec => []PublishedOnce
<1>1. IInv => PublishedOnce
  BY DEF IInv
<1> QED BY <1>1, InvariantIInv, PTL

\* What is open for a merge is the task's own commit, unless somebody has pushed or
\* deleted the branch after the child compared it: one that was pushed before, or after
\* an earlier try, is never proposed (push_approved_branch).
THEOREM OwnCommitProposed == Spec => []ProposesOwnCommit
<1>1. IInv => ProposesOwnCommit
  BY DEF IInv
<1> QED BY <1>1, InvariantIInv, PTL

\* A task is completed only when all its remote calls were made (process_task).
THEOREM CompletedWasPublished == Spec => []CompletedMeansPublished
<1>1. IInv => CompletedMeansPublished
  BY DEF IInv
<1> QED BY <1>1, InvariantIInv, PTL

\* A completed task does not keep the checkout (return_to_clean_main,
\* _restore_base_if_owned).
THEOREM CheckoutIsReleased == Spec => []CheckoutReleased
<1>1. IInv => CheckoutReleased
  BY DEF IInv
<1> QED BY <1>1, InvariantIInv, PTL

=============================================================================
