------------------------- MODULE TaskGatewayProofs -------------------------
(***************************************************************************)
(* Proofs about TaskGateway, for any issues, any number of cancel commands *)
(* and any number of tasks, however many events there are.  (One part of   *)
(* TruthfulLedger speaks of the states with one event at most.)            *)
(***************************************************************************)
EXTENDS TaskGateway, FiniteSetTheorems, TLAPS

\* A task carries the marker of the issue.
HasTask(i) == \E n \in 1..MaxTasks : queue[<<i, n>>] # {}

\* A poll is under way, with a copy of the state file in memory.
Polling == pc \notin {"down", "idle"}

-----------------------------------------------------------------------------
(* The inductive invariants *)

\* The files of a task: one in the directories of the pipeline, and beside it at most
\* the copy of a cancel command; and the tasks of an issue come one after another.
QueueInv ==
  /\ \A t \in Tasks : \A p, q \in queue[t] \ {"cancelled"} : p = q
  /\ \A i \in Issues, n \in 1..MaxTasks, k \in 1..MaxTasks :
       queue[<<i, n>>] # {} /\ k < n => queue[<<i, k>>] # {}

\* A cancel command that has linked its copy still finds it, beside the file it is to
\* remove or the file of a runner; no two commands do so for one task.
CancelInv ==
  /\ \A c \in Cancellers : cancel[c].pc = "unlink" =>
       LET t == cancel[c].task
       IN "cancelled" \in queue[t] /\ queue[t] # {"cancelled"}
  /\ \A c, d \in Cancellers :
       cancel[c].pc = "unlink" /\ cancel[d].pc = "unlink" /\ cancel[c].task = cancel[d].task
         => c = d
  /\ \A c \in Cancellers : cancel[c].pc = "done" => queue[cancel[c].task] = {"cancelled"}
  /\ \A t \in Tasks : "cancelled" \in queue[t] /\ queue[t] # {"cancelled"} =>
       \E d \in Cancellers : cancel[d].task = t /\ cancel[d].pc \in {"unlink", "killed"}

\* Records of the state file and of its copy: only an imported issue has a task, which
\* exists, and a state that was posted.
TrueRecord(i, r) ==
  /\ r.task # 0 <=> r.status = "imported"
  /\ r.task # 0 => queue[<<i, r.task>>] # {}
  /\ r.last # "none" => r.last \in told[i]

HasNewest(i) == \E n \in 1..MaxTasks :
  queue[<<i, n>>] # {} /\ \A k \in (n + 1)..MaxTasks : queue[<<i, k>>] = {}

LedgerInv ==
  /\ \A i \in Issues : TrueRecord(i, ledger[i]) /\ TrueRecord(i, mem[i])
  /\ Polling => \A i \in Issues : ledger[i].status # "none" =>
       mem[i].status = ledger[i].status /\ mem[i].task = ledger[i].task
  /\ pc \in {"scan", "submit", "created"} => mem[cur] = NoRecord
  /\ pc = "post" => ledger[cur].status = "none"
  /\ pc = "created" => HasNewest(cur)

\* The record of an issue is in the state file, or on its way there.
Recorded(i) ==
  \/ ledger[i].status # "none"
  \/ Polling /\ mem[i].status # "none" /\ (changed \/ (pc = "post" /\ cur = i))

\* Every run of the recovery script but the recorded one was lost by an event.
RunsInv ==
  \A i \in Issues : runs[i] <= events + 1 /\ (~Recorded(i) => runs[i] <= events)

IInv == TypeOK /\ QueueInv /\ CancelInv /\ LedgerInv /\ RunsInv

-----------------------------------------------------------------------------
(* What the dedupe knows, however many events there are *)

\* The issue is recorded, or its task was created by this poll.
Safe(i) == Recorded(i) \/ (pc = "created" /\ cur = i)

\* A task of the issue moved during a scan for one.
Slipped(i) == \E n \in 1..MaxTasks : queue[<<i, n>>] # {} /\ <<i, n>> \in raced[i]

\* A task that the state file will not learn of was lost by an event.
LostInv == \A i \in Issues : HasTask(i) /\ ~Safe(i) => events > 0

\* The scan misses no file of a task that has not moved since it began, and what it has
\* found is still there.
ScanInv ==
  /\ pc = "scan" =>
       /\ \A f \in listed : f[1] \in moved \/ f[2] \in queue[f[1]]
       /\ \A n \in 1..MaxTasks : <<cur, n>> \notin moved =>
            \A q \in queue[<<cur, n>>] \ left : <<<<cur, n>>, q>> \in listed
  /\ pc = "submit" /\ HasTask(cur) => Slipped(cur)

OneInv ==
  \A i \in Issues, n \in 1..MaxTasks, k \in 1..MaxTasks :
    queue[<<i, n>>] # {} /\ queue[<<i, k>>] # {} /\ n # k => events > 0 /\ Slipped(i)

DedupeInv == LostInv /\ ScanInv /\ OneInv

-----------------------------------------------------------------------------
(* With one event at most *)

\* The one event was the loss of the task, so the issue was not edited.
EditInv == \A i \in Issues : HasTask(i) /\ ~Safe(i) => form[i] = "task"

\* Until the event, the tasks are those of issues that ask for one, and none had to be
\* recovered.
CalmInv ==
  events = 0 =>
    /\ \A i \in Issues :
         HasTask(i) \/ (pc \in {"scan", "submit", "created"} /\ cur = i) => form[i] = "task"
    /\ pc = "post" => say # "recovered"

\* An issue that the gateway rejects by itself has no task, or files moved while it was
\* looked for.
TrueRejection(i, r) ==
  r.status = "rejected" /\ r.code # "intake" => ~HasTask(i) \/ raced[i] # {}

RejectInv == \A i \in Issues : TrueRejection(i, ledger[i]) /\ TrueRejection(i, mem[i])

SingleInv == EditInv /\ CalmInv /\ RejectInv

-----------------------------------------------------------------------------
(* Types *)

\* What is written into the state file is a record.
LEMMA RecordTypes ==
  /\ NoRecord \in Records /\ Outcome \in Records
  /\ \A n \in 1..MaxTasks : Imported(n) \in Records
  /\ \A code \in {"contract", "dedupe", "intake", "comment"} : Rejected(code) \in Records
  /\ \A r \in Records, s \in Seen : [r EXCEPT !.last = s] \in Records
<1>1. NoRecord \in Records
  BY BoundsAssumption DEF NoRecord, Records
<1>2. Outcome \in Records
  BY <1>1 DEF Outcome, Records
<1>3. ASSUME NEW n \in 1..MaxTasks PROVE Imported(n) \in Records
  <2>1. n \in 0..MaxTasks
    BY BoundsAssumption
  <2> QED
    BY <1>1, <2>1 DEF Imported, NoRecord, Records
<1>4. ASSUME NEW code \in {"contract", "dedupe", "intake", "comment"}
      PROVE  Rejected(code) \in Records
  BY <1>1 DEF Rejected, Records
<1>5. ASSUME NEW r \in Records, NEW s \in Seen PROVE [r EXCEPT !.last = s] \in Records
  BY DEF Records
<1> QED
  BY <1>1, <1>2, <1>3, <1>4, <1>5

LEMMA QueuesFinite == IsFiniteSet(Queues)
<1>1. IsFiniteSet({} \cup {"pending"})
  BY FS_EmptySet, FS_AddElement
<1>2. IsFiniteSet(({} \cup {"pending"}) \cup {"active"})
  BY <1>1, FS_AddElement
<1>3. IsFiniteSet((({} \cup {"pending"}) \cup {"active"}) \cup {"review"})
  BY <1>2, FS_AddElement
<1>4. IsFiniteSet({"pending", "active", "review"} \cup {"completed"})
  <2>1. {"pending", "active", "review"} = (({} \cup {"pending"}) \cup {"active"}) \cup {"review"}
    OBVIOUS
  <2> QED
    BY <1>3, <2>1, FS_AddElement
<1>5. IsFiniteSet(({"pending", "active", "review"} \cup {"completed"}) \cup {"cancelled"})
  BY <1>4, FS_AddElement
<1>6. Queues = ({"pending", "active", "review"} \cup {"completed"}) \cup {"cancelled"}
  BY DEF Queues
<1> QED
  BY <1>5, <1>6

\* What is reported of a task is a state.
LEMMA StateTypes ==
  ASSUME NEW t PROVE StateOf(t) \in Seen /\ StateOf(t) # "none"
BY DEF StateOf, Seen

LEMMA NoneUnsaid == "none" \notin Comments /\ "none" \notin Seen
BY DEF Seen, Comments

LEMMA LoopTypes ==
  ASSUME TypeOK, Restart \/ BeginPoll \/ Turn \/ EndPoll PROVE TypeOK'
<1> USE DEF Goto, githubVars, scanVars, Reportable, TypeOK
<1>1. CASE Restart
  BY <1>1 DEF Restart
<1>2. CASE BeginPoll
  BY <1>2 DEF BeginPoll
<1>3. CASE Turn
  BY <1>3 DEF Turn
<1>4. CASE EndPoll
  BY <1>4 DEF EndPoll
<1> QED
  BY <1>1, <1>2, <1>3, <1>4

LEMMA VisitTypes ==
  ASSUME TypeOK, \A i \in Issues : TrueRecord(i, mem[i]), NEW i \in Issues,
         Skip(i) \/ ToReport(i) \/ RejectIssue(i) \/ RunRecovery(i) \/ BeginScan(i)
  PROVE  TypeOK'
<1> USE RecordTypes, NoneUnsaid DEF At, Goto, githubVars, scanVars, Decide
<1>1. CASE Skip(i)
  BY <1>1 DEF Skip, TypeOK
<1>2. CASE ToReport(i)
  BY <1>2 DEF ToReport, TypeOK, TrueRecord
<1>3. CASE RejectIssue(i)
  BY <1>3 DEF RejectIssue, TypeOK, Rejected, NoRecord, Comments
<1>4. CASE RunRecovery(i)
  BY <1>4 DEF RunRecovery, TypeOK, Outcome, NoRecord, Comments
<1>5. CASE BeginScan(i)
  BY <1>5 DEF BeginScan, TypeOK
<1> QED
  BY <1>1, <1>2, <1>3, <1>4, <1>5

LEMMA ScanTypes ==
  ASSUME TypeOK, (\E q \in Queues : ListQueue(q)) \/ Dedupe PROVE TypeOK'
<1> USE RecordTypes DEF Goto, githubVars, scanVars, pollVars
<1>1. ASSUME NEW q \in Queues, ListQueue(q) PROVE TypeOK'
  BY <1>1 DEF ListQueue, TypeOK
<1>2. CASE Dedupe
  <2> DEFINE ListTypes == /\ moved' \subseteq Tasks /\ raced' \in [Issues -> SUBSET Tasks]
                          /\ listed' \subseteq Tasks \X Queues
  <2>0. ListTypes
    BY <1>2 DEF Dedupe, Overtaken, TypeOK
  <2> HIDE DEF ListTypes
  <2>1. CASE pc' = "submit" /\ UNCHANGED <<mem, say>>
    BY <1>2, <2>0, <2>1 DEF Dedupe, ListTypes, TypeOK
  <2>2. CASE Reject("dedupe")
    <3>1. mem' = [mem EXCEPT ![cur] = Rejected("dedupe")] /\ say' = "rejected" /\ pc' = "post"
      BY <2>2 DEF Reject, Decide
    <3>2. mem' \in [Issues -> Records] /\ mem'[cur].status = "rejected"
      BY <3>1 DEF TypeOK, Rejected, NoRecord
    <3> QED
      BY <1>2, <2>0, <3>1, <3>2 DEF Dedupe, ListTypes, TypeOK, Comments
  <2>3. CASE \E f \in Matches : Decide(cur, Imported(f[1][2]), "recovered") /\ pc' = "post"
    <3>1. PICK n \in 1..MaxTasks : mem' = [mem EXCEPT ![cur] = Imported(n)]
      BY <2>3 DEF TypeOK, Matches, Tasks, Decide
    <3>2. mem' \in [Issues -> Records] /\ mem'[cur].status = "imported"
      BY <3>1 DEF TypeOK, Imported, NoRecord
    <3>3. say' = "recovered" /\ pc' = "post"
      BY <2>3 DEF Decide
    <3> QED
      BY <1>2, <2>0, <3>2, <3>3 DEF Dedupe, ListTypes, TypeOK, Comments
  <2> QED
    BY <1>2, <2>1, <2>2, <2>3 DEF Dedupe
<1> QED
  BY <1>1, <1>2

\* The newest task of an issue that has one.
LEMMA NewestTask ==
  ASSUME HasNewest(cur) PROVE Newest \in 1..MaxTasks /\ queue[<<cur, Newest>>] # {}
BY DEF HasNewest, Newest

LEMMA SubmitTypes ==
  ASSUME TypeOK, pc = "created" => HasNewest(cur),
         SubmitRefused \/ SubmitLinks \/ SubmitReturns \/ SyncFails
  PROVE  TypeOK'
<1>1. ASSUME Reject("intake"), UNCHANGED <<queue, githubVars, ledger, phase, cur, todo, changed,
             scanVars, runs, cancel>>, events' \in 0..MaxEvents
      PROVE  TypeOK'
  <2>1. mem' = [mem EXCEPT ![cur] = Rejected("intake")] /\ say' = "rejected" /\ pc' = "post"
    BY <1>1 DEF Reject, Decide, Goto
  <2>2. mem' \in [Issues -> Records] /\ mem'[cur].status = "rejected"
    BY <2>1, RecordTypes DEF TypeOK, Rejected, NoRecord
  <2> QED
    BY <1>1, <2>1, <2>2 DEF TypeOK, Comments, githubVars, scanVars
<1>2. CASE SubmitRefused
  BY <1>1, <1>2 DEF SubmitRefused, TypeOK
<1>3. CASE SubmitLinks
  <2>1. queue' \in [Tasks -> SUBSET Queues]
    BY <1>3 DEF SubmitLinks, TypeOK, Tasks, Queues
  <2> QED
    BY <1>3, <2>1 DEF SubmitLinks, TypeOK, Goto, githubVars, scanVars
<1>4. CASE SubmitReturns
  <2>1. mem' = [mem EXCEPT ![cur] = Imported(Newest)] /\ say' = "imported" /\ pc' = "post"
    BY <1>4 DEF SubmitReturns, Decide, Goto
  <2>2. Newest \in 1..MaxTasks
    BY <1>4, NewestTask DEF SubmitReturns
  <2>3. mem' \in [Issues -> Records] /\ mem'[cur].status = "imported"
    BY <2>1, <2>2, RecordTypes DEF TypeOK, Imported, NoRecord
  <2> QED
    BY <1>4, <2>1, <2>3 DEF SubmitReturns, TypeOK, Comments, githubVars, scanVars
<1>5. CASE SyncFails
  <2>1. events' \in 0..MaxEvents
    BY <1>5, BoundsAssumption DEF SyncFails, Event, TypeOK
  <2>2. CASE Reject("intake")
    <3>1. CASE Ends
      BY <1>5, <2>1, <3>1 DEF SyncFails, Ends, Goto, TypeOK, githubVars
    <3> QED
      BY <1>1, <1>5, <2>1, <2>2, <3>1 DEF SyncFails, scanVars
  <2>3. CASE Ends
    BY <1>5, <2>1, <2>3 DEF SyncFails, Ends, Goto, TypeOK, githubVars
  <2> QED
    BY <1>5, <2>2, <2>3 DEF SyncFails
<1> QED
  BY <1>2, <1>3, <1>4, <1>5

LEMMA PostTypes ==
  ASSUME TypeOK, Posted \/ PostFails PROVE TypeOK'
<1> USE DEF githubVars, scanVars
<1>3. CASE Posted
  BY <1>3 DEF Posted, Goto, TypeOK
<1>4. CASE PostFails
  <2>1. events' \in 0..MaxEvents
    BY <1>4, BoundsAssumption DEF PostFails, Event, TypeOK
  <2>2. CASE Reject("comment")
    <3>1. mem' = [mem EXCEPT ![cur] = Rejected("comment")] /\ say' = "rejected" /\ pc' = "post"
      BY <2>2 DEF Reject, Decide, Goto
    <3>2. mem' \in [Issues -> Records] /\ mem'[cur].status = "rejected"
      BY <3>1, RecordTypes DEF TypeOK, Rejected, NoRecord
    <3> QED
      BY <1>4, <2>1, <3>1, <3>2 DEF PostFails, TypeOK, Comments
  <2>3. CASE pc' = "poll" /\ say' = "none" /\ UNCHANGED mem
    BY <1>4, <2>1, <2>3 DEF PostFails, TypeOK
  <2> QED
    BY <1>4, <2>2, <2>3 DEF PostFails, Goto
<1> QED
  BY <1>3, <1>4

LEMMA ReportTypes ==
  ASSUME TypeOK, TrueRecord(cur, mem[cur]),
         ReportNothing \/ (\E s \in Seen : Report(s)) \/ ReportFails
  PROVE  TypeOK'
<1> USE NoneUnsaid DEF Goto, scanVars, githubVars
<1>1. CASE ReportNothing
  BY <1>1 DEF ReportNothing, TypeOK
<1>2. ASSUME NEW s \in Seen, Report(s) PROVE TypeOK'
  <2>1. told' \in [Issues -> SUBSET Seen]
    BY <1>2 DEF Report, Told, TypeOK
  <2>3. mem' = [mem EXCEPT ![cur] = [mem[cur] EXCEPT !.last = s]] /\ changed' = TRUE
    BY <1>2 DEF Report, Remember
  <2>4. mem' \in [Issues -> Records]
    BY <2>3, RecordTypes DEF TypeOK
  <2> QED
    BY <1>2, <2>1, <2>3, <2>4 DEF Report, TypeOK
<1>3. CASE ReportFails
  <2>3. told' \in [Issues -> SUBSET Seen]
    BY <1>3, StateTypes DEF ReportFails, Told, TypeOK
  <2>4. events' \in 0..MaxEvents
    BY <1>3, BoundsAssumption DEF ReportFails, Event, TypeOK
  <2> QED
    BY <1>3, <2>3, <2>4 DEF ReportFails, TypeOK
<1> QED
  BY <1>1, <1>2, <1>3

\* Where the gateway is does not depend on the others, nor on its end.
LEMMA OtherTypes ==
  ASSUME TypeOK,
         \/ Crash
         \/ \E c \in Cancellers : CancelLink(c) \/ CancelUnlink(c) \/ CancelKilled(c)
         \/ \E c \in Cancellers, t \in Tasks : CancelLocate(c, t)
         \/ \E t \in Tasks : Runner(t)
         \/ \E i \in Issues : CloseIssue(i) \/ EditIssue(i)
  PROVE  TypeOK'
<1> USE DEF githubVars, scanVars, pollVars
<1>1. ASSUME Event PROVE events' \in 0..MaxEvents
  BY <1>1, BoundsAssumption DEF Event, TypeOK
<1>2. ASSUME NEW t \in Tasks, Moves(t) PROVE moved' \subseteq Tasks
  BY <1>2 DEF Moves, TypeOK
<1>3. CASE Crash
  BY <1>1, <1>3 DEF Crash, Ends, Goto, TypeOK
<1>4. ASSUME NEW c \in Cancellers, NEW t \in Tasks, CancelLocate(c, t) PROVE TypeOK'
  BY <1>4 DEF CancelLocate, Step, TypeOK
<1>5. ASSUME NEW c \in Cancellers, CancelLink(c) PROVE TypeOK'
  <2>1. queue' \in [Tasks -> SUBSET Queues]
    BY <1>5 DEF CancelLink, TypeOK, Queues
  <2>2. moved' \subseteq Tasks
    BY <1>2, <1>5 DEF CancelLink, TypeOK
  <2> QED
    BY <1>5, <2>1, <2>2 DEF CancelLink, Step, TypeOK
<1>6. ASSUME NEW c \in Cancellers, CancelUnlink(c) PROVE TypeOK'
  <2>1. queue' \in [Tasks -> SUBSET Queues]
    BY <1>6 DEF CancelUnlink, TypeOK, Queues
  <2>2. moved' \subseteq Tasks
    BY <1>2, <1>6 DEF CancelUnlink, TypeOK
  <2>3. cancel' \in [Cancellers -> [pc: {"idle", "link", "unlink", "done", "failed", "killed"},
                                   task: Tasks]]
    BY <1>6 DEF CancelUnlink, Step, TypeOK
  <2> QED
    BY <1>6, <2>1, <2>2, <2>3 DEF CancelUnlink, TypeOK
<1>7. ASSUME NEW c \in Cancellers, CancelKilled(c) PROVE TypeOK'
  BY <1>1, <1>7 DEF CancelKilled, Step, TypeOK
<1>8. ASSUME NEW t \in Tasks, NEW from \in Queues, NEW to \in Queues, Move(t, from, to)
      PROVE  TypeOK'
  <2>1. queue' \in [Tasks -> SUBSET Queues]
    BY <1>8 DEF Move, TypeOK
  <2> QED
    BY <1>2, <1>8, <2>1 DEF Move, TypeOK
<1>9. ASSUME NEW i \in Issues, CloseIssue(i) PROVE TypeOK'
  BY <1>9 DEF CloseIssue, TypeOK
<1>10. ASSUME NEW i \in Issues, EditIssue(i) PROVE TypeOK'
  BY <1>1, <1>10 DEF EditIssue, TypeOK
<1>11. {"pending", "active", "review", "completed"} \subseteq Queues
  BY DEF Queues
<1>12. ASSUME NEW t \in Tasks, Runner(t) PROVE TypeOK'
  BY <1>8, <1>11, <1>12 DEF Runner
<1> QED
  BY <1>3, <1>4, <1>5, <1>6, <1>7, <1>9, <1>10, <1>12

-----------------------------------------------------------------------------
(* The queues *)

\* The steps that change a queue or a cancel command.
QueueSteps ==
  \/ SubmitLinks
  \/ \E c \in Cancellers : CancelLink(c) \/ CancelUnlink(c) \/ CancelKilled(c)
  \/ \E c \in Cancellers, t \in Tasks : CancelLocate(c, t)
  \/ \E t \in Tasks : Runner(t)

LEMMA QueueNext == ASSUME [Next]_vars, ~QueueSteps PROVE UNCHANGED <<queue, cancel>>
<1> USE DEF QueueSteps
<1>1. CASE UNCHANGED vars
  BY <1>1 DEF vars
<1>2. CASE Restart \/ BeginPoll \/ Turn \/ EndPoll
  BY <1>2 DEF Restart, BeginPoll, Turn, EndPoll
<1>3. CASE ProcessIssue \/ \E i \in Issues : ToReport(i)
  BY <1>3 DEF ProcessIssue, Skip, RejectIssue, RunRecovery, BeginScan, ToReport, At
<1>4. CASE (\E q \in Queues : ListQueue(q)) \/ Dedupe \/ SubmitRefused \/ SubmitReturns \/ Posted
  BY <1>4 DEF ListQueue, Dedupe, SubmitRefused, SubmitReturns, Posted
<1>5. CASE ReportNothing \/ \E s \in Seen : Report(s)
  BY <1>5 DEF ReportNothing, Report
<1>6. CASE SyncFails \/ PostFails \/ ReportFails \/ Crash
  BY <1>6 DEF SyncFails, PostFails, ReportFails, Crash
<1>7. CASE \E i \in Issues : CloseIssue(i) \/ EditIssue(i)
  BY <1>7 DEF CloseIssue, EditIssue
<1> QED
  BY <1>1, <1>2, <1>3, <1>4, <1>5, <1>6, <1>7
     DEF Next, Gateway, Import, Reporting, Faults, Others, Cancel

\* The link of a cancel command, the end of one, and a move, task by task.
LEMMA LinkShape ==
  ASSUME TypeOK, NEW c \in Cancellers, CancelLink(c), NEW x, x = cancel[c].task
  PROVE  /\ cancel[c].pc = "link" /\ x \in Tasks
         /\ \A d \in Cancellers : d # c => cancel'[d] = cancel[d]
         /\ cancel'[c].task = x
         /\ \A t \in Tasks : t # x => queue'[t] = queue[t]
         /\ \/ /\ "pending" \in queue[x] /\ "cancelled" \notin queue[x]
               /\ queue'[x] = queue[x] \cup {"cancelled"} /\ cancel'[c].pc = "unlink"
            \/ queue'[x] = queue[x] /\ cancel'[c].pc = "failed"
BY DEF CancelLink, Step, TypeOK

LEMMA UnlinkShape ==
  ASSUME TypeOK, NEW c \in Cancellers, CancelUnlink(c), NEW x, x = cancel[c].task
  PROVE  /\ cancel[c].pc = "unlink" /\ x \in Tasks
         /\ \A d \in Cancellers : d # c => cancel'[d] = cancel[d]
         /\ cancel'[c].task = x
         /\ \A t \in Tasks : t # x => queue'[t] = queue[t]
         /\ \/ /\ "pending" \in queue[x]
               /\ queue'[x] = queue[x] \ {"pending"} /\ cancel'[c].pc = "done"
            \/ /\ "pending" \notin queue[x]
               /\ queue'[x] = queue[x] \ {"cancelled"} /\ cancel'[c].pc = "failed"
BY DEF CancelUnlink, Step, TypeOK

LEMMA MoveShape ==
  ASSUME TypeOK, NEW x \in Tasks, Runner(x)
  PROVE  /\ cancel' = cancel
         /\ \A t \in Tasks : t # x => queue'[t] = queue[t]
         /\ \E from, to \in Queues \ {"cancelled"} :
              /\ from \in queue[x] /\ to \notin queue[x]
              /\ queue'[x] = (queue[x] \ {from}) \cup {to}
<1>1. PICK from \in Queues \ {"cancelled"}, to \in Queues \ {"cancelled"} : Move(x, from, to)
  BY DEF Runner, Queues
<1> QED
  BY <1>1 DEF Move, TypeOK

LEMMA LinksShape ==
  ASSUME TypeOK, SubmitLinks
  PROVE  \E n \in 1..MaxTasks :
           /\ queue[<<cur, n>>] = {} /\ queue'[<<cur, n>>] = {"pending"} /\ <<cur, n>> \in Tasks
           /\ \A k \in 1..(n - 1) : queue[<<cur, k>>] # {}
           /\ \A t \in Tasks : t # <<cur, n>> => queue'[t] = queue[t]
<1>1. PICK n \in 1..MaxTasks :
        /\ queue[<<cur, n>>] = {}
        /\ \A k \in 1..(n - 1) : queue[<<cur, k>>] # {}
        /\ queue' = [queue EXCEPT ![<<cur, n>>] = {"pending"}]
  BY DEF SubmitLinks
<1>2. <<cur, n>> \in Tasks
  BY DEF SubmitLinks, TypeOK, Tasks
<1>3. DOMAIN queue = Tasks
  BY DEF TypeOK
<1>4. queue'[<<cur, n>>] = {"pending"} /\ \A t \in Tasks : t # <<cur, n>> => queue'[t] = queue[t]
  BY <1>1, <1>2, <1>3
<1> QED
  BY <1>1, <1>2, <1>4

\* Each step of a command or of the pipeline keeps the files of a task in order, and
\* leaves it at least one.
LEMMA LinkQueues ==
  ASSUME TypeOK, QueueInv, CancelInv, NEW c \in Cancellers, CancelLink(c)
  PROVE  CancelInv' /\ \A t \in Tasks :
           /\ queue'[t] = {} <=> queue[t] = {}
           /\ \A p, q \in queue'[t] \ {"cancelled"} : p = q
<1>1. PICK x : x = cancel[c].task
  OBVIOUS
<1> USE <1>1, LinkShape
<1>2. \A t \in Tasks : /\ queue'[t] = {} <=> queue[t] = {}
                       /\ \A p, q \in queue'[t] \ {"cancelled"} : p = q
  BY DEF QueueInv
<1>3. CASE queue'[x] = queue[x] /\ cancel'[c].pc = "failed"
  <2>1. \A t \in Tasks : queue'[t] = queue[t]
    BY <1>3
  <2>2. \A d \in Cancellers : cancel'[d].task = cancel[d].task /\ cancel[d].task \in Tasks
    BY DEF TypeOK
  <2>3. \A d \in Cancellers : cancel'[d].pc = cancel[d].pc \/ cancel'[d].pc = "failed"
    BY <1>3
  <2>4. CancelInv'
    BY <2>1, <2>2, <2>3 DEF CancelInv
  <2> QED
    BY <1>2, <2>4
<1>4. CASE /\ "pending" \in queue[x] /\ "cancelled" \notin queue[x]
           /\ queue'[x] = queue[x] \cup {"cancelled"} /\ cancel'[c].pc = "unlink"
  <2>1. \A d \in Cancellers : cancel'[d].task = cancel[d].task /\ cancel[d].task \in Tasks
    BY DEF TypeOK
  <2>2. \A d \in Cancellers : cancel[d].pc = "unlink" \/ cancel[d].pc = "done" => cancel[d].task # x
    BY <1>4 DEF CancelInv
  <2>3. \A d \in Cancellers : d # c => cancel'[d] = cancel[d]
    OBVIOUS
  <2>4. \A t \in Tasks : t # x => queue'[t] = queue[t]
    OBVIOUS
  <2>5. queue'[x] # {"cancelled"} /\ "cancelled" \in queue'[x]
    BY <1>4
  <2>6. /\ \A d \in Cancellers : cancel'[d].pc = "unlink" =>
             "cancelled" \in queue'[cancel'[d].task] /\ queue'[cancel'[d].task] # {"cancelled"}
        /\ \A d \in Cancellers : cancel'[d].pc = "done" => queue'[cancel'[d].task] = {"cancelled"}
    BY <1>4, <2>1, <2>2, <2>3, <2>4, <2>5 DEF CancelInv
  <2>7. ASSUME NEW d \in Cancellers, NEW e \in Cancellers, cancel'[d].pc = "unlink",
               cancel'[e].pc = "unlink", cancel'[d].task = cancel'[e].task
        PROVE  d = e
    BY <1>4, <2>1, <2>2, <2>3, <2>7 DEF CancelInv
  <2>8. ASSUME NEW t \in Tasks, "cancelled" \in queue'[t], queue'[t] # {"cancelled"}
        PROVE  \E d \in Cancellers : cancel'[d].task = t /\ cancel'[d].pc \in {"unlink", "killed"}
    <3>1. CASE t = x
      BY <1>4, <3>1
    <3>2. CASE t # x
      <4>1. PICK d \in Cancellers : cancel[d].task = t /\ cancel[d].pc \in {"unlink", "killed"}
        BY <2>4, <2>8, <3>2 DEF CancelInv
      <4>2. d # c
        BY <3>2, <4>1
      <4> QED
        BY <2>3, <4>1, <4>2
    <3> QED
      BY <3>1, <3>2
  <2> QED
    BY <1>2, <2>6, <2>7, <2>8 DEF CancelInv
<1> QED
  BY <1>3, <1>4

LEMMA UnlinkQueues ==
  ASSUME TypeOK, QueueInv, CancelInv, NEW c \in Cancellers, CancelUnlink(c)
  PROVE  CancelInv' /\ \A t \in Tasks :
           /\ queue'[t] = {} <=> queue[t] = {}
           /\ \A p, q \in queue'[t] \ {"cancelled"} : p = q
<1>1. PICK x : x = cancel[c].task
  OBVIOUS
<1> USE <1>1, UnlinkShape
<1>2. "cancelled" \in queue[x] /\ queue[x] # {"cancelled"}
  BY DEF CancelInv
<1>3. PICK w : w \in queue[x] /\ w # "cancelled" /\ \A q \in queue[x] : q \in {w, "cancelled"}
  BY <1>2 DEF QueueInv
<1>4. \/ queue'[x] = {"cancelled"} /\ cancel'[c].pc = "done"
      \/ queue'[x] = {w} /\ cancel'[c].pc = "failed"
  <2>1. CASE "pending" \in queue[x]
    <3>1. w = "pending"
      BY <1>3, <2>1
    <3> QED
      BY <1>2, <1>3, <2>1, <3>1
  <2>2. CASE "pending" \notin queue[x]
    BY <1>2, <1>3, <2>2
  <2> QED
    BY <2>1, <2>2
<1>5. \A t \in Tasks : t # x => queue'[t] = queue[t]
  OBVIOUS
<1>6. \A d \in Cancellers : d # c => cancel'[d] = cancel[d]
  OBVIOUS
<1>7. \A d \in Cancellers : cancel'[d].task = cancel[d].task /\ cancel[d].task \in Tasks
  BY DEF TypeOK
<1>8. \A t \in Tasks : /\ queue'[t] = {} <=> queue[t] = {}
                       /\ \A p, q \in queue'[t] \ {"cancelled"} : p = q
  BY <1>2, <1>4, <1>5 DEF QueueInv
<1>9. \A d \in Cancellers : d # c /\ cancel[d].pc \in {"unlink", "done"} => cancel[d].task # x
  BY <1>2 DEF CancelInv
<1>10. ASSUME NEW t \in Tasks, "cancelled" \in queue'[t], queue'[t] # {"cancelled"}
       PROVE  \E d \in Cancellers : cancel'[d].task = t /\ cancel'[d].pc \in {"unlink", "killed"}
  <2>1. t # x
    BY <1>3, <1>4, <1>10
  <2>2. PICK d \in Cancellers : cancel[d].task = t /\ cancel[d].pc \in {"unlink", "killed"}
    BY <1>5, <1>10, <2>1 DEF CancelInv
  <2> QED
    BY <1>6, <2>1, <2>2
<1>11. CancelInv'
  BY <1>4, <1>5, <1>6, <1>7, <1>9, <1>10 DEF CancelInv
<1> QED
  BY <1>8, <1>11

LEMMA MoveQueues ==
  ASSUME TypeOK, QueueInv, CancelInv, NEW x \in Tasks, Runner(x)
  PROVE  CancelInv' /\ \A t \in Tasks :
           /\ queue'[t] = {} <=> queue[t] = {}
           /\ \A p, q \in queue'[t] \ {"cancelled"} : p = q
<1>1. PICK from \in Queues \ {"cancelled"}, to \in Queues \ {"cancelled"} :
        from \in queue[x] /\ to \notin queue[x] /\ queue'[x] = (queue[x] \ {from}) \cup {to}
  BY MoveShape
<1>2. cancel' = cancel /\ \A t \in Tasks : t # x => queue'[t] = queue[t]
  BY MoveShape
<1>3. queue[x] # {"cancelled"} /\ queue'[x] # {"cancelled"} /\ queue'[x] # {} /\ queue[x] # {}
  BY <1>1
<1>4. "cancelled" \in queue'[x] <=> "cancelled" \in queue[x]
  BY <1>1
<1>5. \A p, q \in queue'[x] \ {"cancelled"} : p = q
  BY <1>1 DEF QueueInv
<1>6. \A d \in Cancellers : cancel[d].task \in Tasks
  BY DEF TypeOK
<1>7. \A t \in Tasks :
        /\ queue'[t] = {} <=> queue[t] = {}
        /\ queue'[t] = {"cancelled"} <=> queue[t] = {"cancelled"}
        /\ "cancelled" \in queue'[t] <=> "cancelled" \in queue[t]
        /\ \A p, q \in queue'[t] \ {"cancelled"} : p = q
  BY <1>2, <1>3, <1>4, <1>5 DEF QueueInv
<1>8. CancelInv'
  BY <1>2, <1>6, <1>7 DEF CancelInv
<1> QED
  BY <1>7, <1>8

LEMMA LinksQueues ==
  ASSUME TypeOK, QueueInv, CancelInv, SubmitLinks
  PROVE  CancelInv' /\ QueueInv' /\ \A t \in Tasks : queue[t] # {} => queue'[t] # {}
<1>1. PICK n \in 1..MaxTasks :
           /\ queue[<<cur, n>>] = {} /\ queue'[<<cur, n>>] = {"pending"} /\ <<cur, n>> \in Tasks
           /\ \A k \in 1..(n - 1) : queue[<<cur, k>>] # {}
           /\ \A t \in Tasks : t # <<cur, n>> => queue'[t] = queue[t]
  BY LinksShape
<1>2. cancel' = cancel
  BY DEF SubmitLinks
<1>3. \A d \in Cancellers : cancel[d].task \in Tasks
  BY DEF TypeOK
<1>4. \A t \in Tasks : /\ queue[t] # {} => queue'[t] # {}
                       /\ "cancelled" \in queue'[t] <=> "cancelled" \in queue[t]
                       /\ queue[t] # {} => queue'[t] = queue[t]
                       /\ \A p, q \in queue'[t] \ {"cancelled"} : p = q
  BY <1>1 DEF QueueInv
<1>5. CancelInv'
  <2>1. \A t \in Tasks : "cancelled" \in queue'[t] => queue'[t] = queue[t]
    BY <1>4
  <2> QED
    BY <1>2, <1>3, <1>4, <2>1 DEF CancelInv
<1>6. ASSUME NEW i \in Issues, NEW m \in 1..MaxTasks, NEW k \in 1..MaxTasks,
             queue'[<<i, m>>] # {}, k < m
      PROVE  queue'[<<i, k>>] # {}
  <2>1. <<i, m>> \in Tasks /\ <<i, k>> \in Tasks
    BY DEF Tasks
  <2>2. CASE <<i, m>> = <<cur, n>>
    <3>1. i = cur /\ m = n /\ k \in 1..(n - 1)
      BY <1>6, <2>2, BoundsAssumption
    <3> QED
      BY <1>1, <1>4, <2>1, <3>1
  <2>3. CASE <<i, m>> # <<cur, n>>
    <3>1. queue[<<i, m>>] # {}
      BY <1>1, <1>6, <2>1, <2>3
    <3>2. queue[<<i, k>>] # {}
      BY <1>6, <3>1 DEF QueueInv
    <3> QED
      BY <1>4, <2>1, <3>2
  <2> QED
    BY <2>2, <2>3
<1> QED
  BY <1>4, <1>5, <1>6 DEF QueueInv

\* Together: no step leaves a task without a file, and only SubmitLinks creates one.
LEMMA QueuesKept ==
  ASSUME TypeOK, QueueInv, CancelInv, [Next]_vars
  PROVE  /\ QueueInv' /\ CancelInv'
         /\ \A t \in Tasks : queue[t] # {} => queue'[t] # {}
         /\ ~SubmitLinks => \A t \in Tasks : queue'[t] = {} <=> queue[t] = {}
<1>1. ASSUME CancelInv', ~SubmitLinks,
             \A t \in Tasks : /\ queue'[t] = {} <=> queue[t] = {}
                              /\ \A p, q \in queue'[t] \ {"cancelled"} : p = q
      PROVE  QueueInv'
  BY <1>1 DEF QueueInv, Tasks
<1>2. CASE SubmitLinks
  BY <1>2, LinksQueues
<1>3. ASSUME NEW c \in Cancellers, CancelLink(c), ~SubmitLinks PROVE QueueInv'
  BY <1>1, <1>3, LinkQueues
<1>4. ASSUME NEW c \in Cancellers, CancelUnlink(c), ~SubmitLinks PROVE QueueInv'
  BY <1>1, <1>4, UnlinkQueues
<1>5. ASSUME NEW x \in Tasks, Runner(x), ~SubmitLinks
      PROVE  QueueInv'
  BY <1>1, <1>5, MoveQueues
<1>6. CASE UNCHANGED <<queue, cancel>> /\ ~SubmitLinks
  <2>1. CancelInv'
    BY <1>6 DEF CancelInv
  <2>2. QueueInv'
    BY <1>6 DEF QueueInv
  <2> QED
    BY <1>6, <2>1, <2>2
<1>7. ASSUME NEW c \in Cancellers, CancelKilled(c) \/ (\E t \in Tasks : CancelLocate(c, t)),
             ~SubmitLinks
      PROVE  CancelInv' /\ queue' = queue
  <2>1. queue' = queue /\ \A d \in Cancellers : d # c => cancel'[d] = cancel[d]
    BY <1>7 DEF CancelKilled, CancelLocate, Step, TypeOK
  <2>2. cancel'[c].pc \in {"killed", "link"}
        /\ (cancel'[c].pc = "killed" => cancel[c].pc = "unlink" /\ cancel'[c].task = cancel[c].task)
        /\ (cancel'[c].pc = "link" => cancel[c].pc = "idle")
    BY <1>7 DEF CancelKilled, CancelLocate, Step, TypeOK
  <2>3. ASSUME NEW t \in Tasks, "cancelled" \in queue[t], queue[t] # {"cancelled"}
        PROVE  \E d \in Cancellers : cancel'[d].task = t /\ cancel'[d].pc \in {"unlink", "killed"}
    <3>1. PICK d \in Cancellers : cancel[d].task = t /\ cancel[d].pc \in {"unlink", "killed"}
      BY <2>3 DEF CancelInv
    <3> QED
      BY <2>1, <2>2, <3>1
  <2> QED
    BY <2>1, <2>2, <2>3 DEF CancelInv
<1>8. CASE ~QueueSteps
  BY <1>6, <1>8, QueueNext DEF QueueSteps
<1> QED
  BY <1>1, <1>2, <1>3, <1>4, <1>5, <1>7, <1>8, LinkQueues, UnlinkQueues, MoveQueues
     DEF QueueSteps, QueueInv

-----------------------------------------------------------------------------
(* The state file and its copy *)

\* Tasks keep a file, and reports stay.
Growth == /\ \A t \in Tasks : queue[t] # {} => queue'[t] # {}
          /\ \A i \in Issues : told[i] \subseteq told'[i]

LEMMA GrowthNext == ASSUME TypeOK, QueueInv, CancelInv, [Next]_vars PROVE Growth
<1>1. \A i \in Issues : told[i] \subseteq told'[i]
  <2> USE DEF githubVars, TypeOK
  <2>1. CASE Posted \/ PostFails
    BY <2>1 DEF Posted, PostFails
  <2>2. CASE (\E s \in Seen : Report(s)) \/ ReportFails
    BY <2>2 DEF Report, ReportFails, Told
  <2>3. CASE QueueSteps
    BY <2>3 DEF QueueSteps, SubmitLinks, CancelLink, CancelUnlink, CancelKilled, CancelLocate, Runner, Move
  <2>4. CASE Restart \/ BeginPoll \/ Turn \/ EndPoll \/ UNCHANGED vars
    BY <2>4 DEF Restart, BeginPoll, Turn, EndPoll, vars
  <2>5. CASE ProcessIssue \/ \E i \in Issues : ToReport(i)
    BY <2>5 DEF ProcessIssue, Skip, RejectIssue, RunRecovery, BeginScan, ToReport, At
  <2>6. CASE (\E q \in Queues : ListQueue(q)) \/ Dedupe \/ SubmitRefused \/ SubmitReturns
             \/ ReportNothing \/ SyncFails \/ Crash
    BY <2>6 DEF ListQueue, Dedupe, SubmitRefused, SubmitReturns, ReportNothing, SyncFails, Crash
  <2>7. CASE \E i \in Issues : CloseIssue(i) \/ EditIssue(i)
    BY <2>7 DEF CloseIssue, EditIssue
  <2> QED
    BY <2>1, <2>2, <2>3, <2>4, <2>5, <2>6, <2>7
       DEF QueueSteps, Next, Gateway, Import, Reporting, Faults, Others, Cancel
<1> QED
  BY <1>1, QueuesKept DEF Growth

\* TrueRecord of a record after the step.
TrueNext(i, r) ==
  /\ r.task # 0 <=> r.status = "imported"
  /\ r.task # 0 => queue'[<<i, r.task>>] # {}
  /\ r.last # "none" => r.last \in told'[i]

LEMMA StillTrue ==
  ASSUME Growth, NEW i \in Issues, NEW r \in Records, TrueRecord(i, r) PROVE TrueNext(i, r)
<1>1. r.task # 0 => <<i, r.task>> \in Tasks
  BY BoundsAssumption DEF Records, Tasks
<1> QED
  BY <1>1 DEF Growth, TrueRecord, TrueNext

LEMMA NewRecords ==
  ASSUME NEW i \in Issues
  PROVE  /\ TrueNext(i, NoRecord) /\ TrueNext(i, Outcome) /\ \A code : TrueNext(i, Rejected(code))
         /\ \A n \in 1..MaxTasks : queue'[<<i, n>>] # {} => TrueNext(i, Imported(n))
BY BoundsAssumption DEF TrueNext, NoRecord, Outcome, Rejected, Imported

\* A step that writes no record, and leaves the issue at hand as it is.
LEMMA SameLedger ==
  ASSUME TypeOK, LedgerInv, Growth, UNCHANGED <<ledger, mem, cur>>,
         Polling' => Polling,
         pc' = pc \/ pc' \in {"down", "idle", "poll", "report"},
         pc' = "created" => \A t \in Tasks : queue'[t] = {} <=> queue[t] = {}
  PROVE  LedgerInv'
<1>1. \A i \in Issues : TrueNext(i, ledger'[i]) /\ TrueNext(i, mem'[i])
  BY StillTrue DEF TypeOK, LedgerInv
<1>2. pc' = "created" => HasNewest(cur)'
  <2> SUFFICES ASSUME pc' = "created" PROVE HasNewest(cur)'
    OBVIOUS
  <2>1. \A n \in 1..MaxTasks : <<cur, n>> \in Tasks
    BY DEF TypeOK, Tasks
  <2>2. PICK n \in 1..MaxTasks :
          queue[<<cur, n>>] # {} /\ \A k \in (n + 1)..MaxTasks : queue[<<cur, k>>] = {}
    BY DEF LedgerInv, HasNewest
  <2>3. \A k \in (n + 1)..MaxTasks : k \in 1..MaxTasks
    BY <2>2, BoundsAssumption
  <2>4. queue'[<<cur, n>>] # {} /\ \A k \in (n + 1)..MaxTasks : queue'[<<cur, k>>] = {}
    BY <2>1, <2>2, <2>3
  <2> QED
    BY <2>4 DEF HasNewest
<1> QED
  BY <1>1, <1>2 DEF LedgerInv, TrueRecord, TrueNext, Polling

\* A step that writes the record of an issue the state file does not know.
LEMMA WriteLedger ==
  ASSUME TypeOK, LedgerInv, Growth, Polling, ledger' = ledger, cur' \in Issues,
         ledger[cur'].status = "none",
         NEW r, mem' = [mem EXCEPT ![cur'] = r], TrueNext(cur', r),
         pc' = "post"
  PROVE  LedgerInv'
<1>1. \A i \in Issues : TrueNext(i, ledger'[i]) /\ TrueNext(i, mem'[i])
  BY StillTrue DEF TypeOK, LedgerInv
<1>2. \A i \in Issues : ledger'[i].status # "none" =>
        mem'[i].status = ledger'[i].status /\ mem'[i].task = ledger'[i].task
  BY DEF TypeOK, LedgerInv
<1> QED
  BY <1>1, <1>2 DEF LedgerInv, TrueRecord, TrueNext

\* A step after which only the state file is left.
LEMMA EndsLedger ==
  ASSUME TypeOK, LedgerInv, Growth, Ends, ledger' = ledger PROVE LedgerInv'
<1>1. pc' = "down" /\ mem' = ledger
  BY DEF Ends, Goto
<1>2. \A i \in Issues : TrueNext(i, ledger'[i]) /\ TrueNext(i, mem'[i])
  BY <1>1, StillTrue DEF TypeOK, LedgerInv
<1> QED
  BY <1>1, <1>2 DEF LedgerInv, TrueRecord, TrueNext, Polling

LEMMA LoopLedger ==
  ASSUME TypeOK, LedgerInv, Growth, Restart \/ BeginPoll \/ Turn \/ EndPoll PROVE LedgerInv'
<1>1. CASE Restart
  <2>1. UNCHANGED <<ledger, mem>> /\ pc' = "idle"
    BY <1>1 DEF Restart, Goto
  <2>2. \A i \in Issues : TrueNext(i, ledger'[i]) /\ TrueNext(i, mem'[i])
    BY <2>1, StillTrue DEF TypeOK, LedgerInv
  <2> QED
    BY <2>1, <2>2 DEF LedgerInv, TrueRecord, TrueNext, Polling
<1>2. CASE BeginPoll
  <2>1. ledger' = ledger /\ mem' = ledger /\ pc' = "poll"
    BY <1>2 DEF BeginPoll, Goto
  <2>2. \A i \in Issues : TrueNext(i, ledger'[i]) /\ TrueNext(i, mem'[i])
    BY <2>1, StillTrue DEF TypeOK, LedgerInv
  <2> QED
    BY <2>1, <2>2 DEF LedgerInv, TrueRecord, TrueNext, Polling
<1>3. CASE Turn
  <2>1. UNCHANGED <<ledger, mem, cur>> /\ pc' = pc /\ pc = "poll"
    BY <1>3 DEF Turn
  <2> QED
    BY <2>1, SameLedger DEF Polling
<1>4. CASE EndPoll
  <2>1. (ledger' = mem \/ ledger' = ledger) /\ mem' = mem /\ pc' = "idle"
    BY <1>4 DEF EndPoll, Goto
  <2>2. \A i \in Issues : TrueNext(i, ledger'[i]) /\ TrueNext(i, mem'[i])
    BY <2>1, StillTrue DEF TypeOK, LedgerInv
  <2> QED
    BY <2>1, <2>2 DEF LedgerInv, TrueRecord, TrueNext, Polling
<1> QED
  BY <1>1, <1>2, <1>3, <1>4

LEMMA VisitLedger ==
  ASSUME TypeOK, LedgerInv, Growth, NEW i \in Issues,
         Skip(i) \/ ToReport(i) \/ RejectIssue(i) \/ RunRecovery(i) \/ BeginScan(i)
  PROVE  LedgerInv'
<1>1. pc = "poll" /\ Polling /\ ledger' = ledger /\ cur' = i
  BY DEF Skip, ToReport, RejectIssue, RunRecovery, BeginScan, At, Polling
<1>2. mem[i] = NoRecord => ledger[i].status = "none"
  BY <1>1 DEF LedgerInv, NoRecord
<1>3. CASE Skip(i) \/ ToReport(i) \/ BeginScan(i)
  <2>1. mem' = mem /\ pc' \in {"poll", "report", "scan"} /\ (pc' = "scan" => mem[i] = NoRecord)
    BY <1>3 DEF Skip, ToReport, BeginScan, At, Goto
  <2>2. \A j \in Issues : TrueNext(j, ledger'[j]) /\ TrueNext(j, mem'[j])
    BY <1>1, <2>1, StillTrue DEF TypeOK, LedgerInv
  <2> QED
    BY <1>1, <2>1, <2>2 DEF LedgerInv, TrueRecord, TrueNext
<1>4. CASE RejectIssue(i)
  <2>1. mem' = [mem EXCEPT ![i] = Rejected("contract")] /\ pc' = "post" /\ mem[i] = NoRecord
    BY <1>4 DEF RejectIssue, At, Goto, Decide
  <2> QED
    BY <1>1, <1>2, <2>1, NewRecords, WriteLedger
<1>5. CASE RunRecovery(i)
  <2>1. mem' = [mem EXCEPT ![i] = Outcome] /\ pc' = "post" /\ mem[i] = NoRecord
    BY <1>5 DEF RunRecovery, At, Goto, Decide
  <2> QED
    BY <1>1, <1>2, <2>1, NewRecords, WriteLedger
<1> QED
  BY <1>3, <1>4, <1>5

LEMMA ImportLedger ==
  ASSUME TypeOK, QueueInv, LedgerInv, Growth,
         Dedupe \/ SubmitRefused \/ SubmitLinks \/ SubmitReturns \/ SyncFails
  PROVE  LedgerInv'
<1>1. /\ pc \in {"scan", "submit", "created"} /\ Polling
      /\ ledger' = ledger /\ cur' = cur /\ cur \in Issues
  BY DEF Dedupe, SubmitRefused, SubmitLinks, SubmitReturns, SyncFails, Polling, TypeOK
<1>2. mem[cur] = NoRecord /\ ledger[cur].status = "none"
  BY <1>1 DEF LedgerInv, NoRecord
<1>3. ASSUME NEW code, Reject(code) PROVE LedgerInv'
  <2>1. mem' = [mem EXCEPT ![cur] = Rejected(code)] /\ pc' = "post"
    BY <1>3 DEF Reject, Decide, Goto
  <2> QED
    BY <1>1, <1>2, <2>1, NewRecords, WriteLedger
<1>4. ASSUME NEW n \in 1..MaxTasks, queue[<<cur, n>>] # {},
             mem' = [mem EXCEPT ![cur] = Imported(n)], pc' = "post"
      PROVE  LedgerInv'
  <2>1. queue'[<<cur, n>>] # {}
    BY <1>1, <1>4 DEF Growth, Tasks
  <2> QED
    BY <1>1, <1>2, <1>4, <2>1, NewRecords, WriteLedger
<1>5. CASE Dedupe
  <2>1. ASSUME NEW f \in Matches, ~Gone, Decide(cur, Imported(f[1][2]), "recovered"), pc' = "post"
        PROVE  LedgerInv'
    <3>1. f \in listed /\ f[1][1] = cur /\ f \in Tasks \X Queues
      BY <2>1 DEF Matches, TypeOK
    <3>2. f[1] = <<cur, f[1][2]>> /\ f[1][2] \in 1..MaxTasks
      BY <3>1 DEF Tasks
    <3>3. queue[<<cur, f[1][2]>>] # {}
      BY <2>1, <3>1, <3>2 DEF Gone
    <3>4. mem' = [mem EXCEPT ![cur] = Imported(f[1][2])]
      BY <2>1 DEF Decide
    <3> QED
      BY <1>4, <2>1, <3>2, <3>3, <3>4
  <2>2. CASE pc' = "submit" /\ mem' = mem
    <3>1. \A i \in Issues : TrueNext(i, ledger'[i]) /\ TrueNext(i, mem'[i])
      BY <1>1, <2>2, StillTrue DEF TypeOK, LedgerInv
    <3> QED
      BY <1>1, <1>2, <2>2, <3>1 DEF LedgerInv, TrueRecord, TrueNext
  <2> QED
    BY <1>3, <1>5, <2>1, <2>2 DEF Dedupe, Goto
<1>6. CASE SubmitRefused
  BY <1>3, <1>6 DEF SubmitRefused
<1>7. CASE SubmitLinks
  <2>1. pc' = "created" /\ mem' = mem
    BY <1>7 DEF SubmitLinks, Goto
  <2>2. \A i \in Issues : TrueNext(i, ledger'[i]) /\ TrueNext(i, mem'[i])
    BY <1>1, <2>1, StillTrue DEF TypeOK, LedgerInv
  <2>3. HasNewest(cur)'
    <3>1. PICK n \in 1..MaxTasks :
           /\ queue[<<cur, n>>] = {} /\ queue'[<<cur, n>>] = {"pending"} /\ <<cur, n>> \in Tasks
           /\ \A t \in Tasks : t # <<cur, n>> => queue'[t] = queue[t]
      BY <1>7, LinksShape
    <3>2. ASSUME NEW k \in (n + 1)..MaxTasks PROVE queue'[<<cur, k>>] = {}
      <4>1. k \in 1..MaxTasks /\ n < k
        BY <3>1, BoundsAssumption
      <4>2. queue[<<cur, k>>] = {}
        BY <1>1, <3>1, <4>1 DEF QueueInv
      <4> QED
        BY <1>1, <3>1, <4>1, <4>2 DEF Tasks
    <3> QED
      BY <1>1, <3>1, <3>2 DEF HasNewest
  <2> QED
    BY <1>1, <1>2, <2>1, <2>2, <2>3 DEF LedgerInv, TrueRecord, TrueNext
<1>8. CASE SubmitReturns
  <2>1. mem' = [mem EXCEPT ![cur] = Imported(Newest)] /\ pc' = "post"
    BY <1>8 DEF SubmitReturns, Decide, Goto
  <2>2. Newest \in 1..MaxTasks /\ queue[<<cur, Newest>>] # {}
    BY <1>8, NewestTask DEF LedgerInv, SubmitReturns
  <2> QED
    BY <1>4, <2>1, <2>2
<1>9. CASE SyncFails
  <2>1. CASE Ends
    BY <1>1, <2>1, EndsLedger
  <2> QED
    BY <1>3, <1>9, <2>1 DEF SyncFails
<1> QED
  BY <1>5, <1>6, <1>7, <1>8, <1>9

LEMMA PostLedger ==
  ASSUME TypeOK, LedgerInv, Growth, Posted \/ PostFails PROVE LedgerInv'
<1>1. pc = "post" /\ Polling /\ ledger' = ledger /\ cur' = cur /\ cur \in Issues
  BY DEF Posted, PostFails, Polling, TypeOK
<1>2. CASE pc' = "poll" /\ mem' = mem
  BY <1>1, <1>2, SameLedger
<1>3. CASE Reject("comment")
  <2>1. mem' = [mem EXCEPT ![cur] = Rejected("comment")] /\ pc' = "post"
    BY <1>3 DEF Reject, Decide, Goto
  <2> QED
    BY <1>1, <2>1, NewRecords, WriteLedger DEF LedgerInv
<1> QED
  BY <1>2, <1>3 DEF Posted, PostFails, Goto

LEMMA ReportLedger ==
  ASSUME TypeOK, LedgerInv, Growth, ReportNothing \/ (\E s \in Seen : Report(s)) \/ ReportFails
  PROVE  LedgerInv'
<1>1. CASE ReportNothing \/ ReportFails
  <2>1. UNCHANGED <<ledger, mem, cur>> /\ pc' = "poll" /\ Polling
    BY <1>1 DEF ReportNothing, ReportFails, Goto, githubVars, Polling
  <2> QED
    BY <2>1, SameLedger
<1>2. ASSUME NEW s \in Seen, Report(s) PROVE LedgerInv'
  <2>1. /\ mem' = [mem EXCEPT ![cur].last = s] /\ pc' = "poll" /\ pc = "report"
        /\ ledger' = ledger /\ cur \in Issues /\ Polling
    BY <1>2 DEF Report, Remember, Goto, Polling, TypeOK
  <2>2. s \in told'[cur]
    BY <1>2, <2>1 DEF Report, Told, TypeOK
  <2>3. /\ \A i \in Issues : mem'[i].task = mem[i].task /\ mem'[i].status = mem[i].status
        /\ mem'[cur].last = s
        /\ \A i \in Issues : i # cur => mem'[i] = mem[i]
    BY <2>1 DEF TypeOK, Records
  <2>4. \A i \in Issues : TrueNext(i, ledger'[i]) /\ TrueNext(i, mem[i])
    BY <2>1, StillTrue DEF TypeOK, LedgerInv
  <2>5. \A i \in Issues : TrueNext(i, mem'[i])
    BY <2>2, <2>3, <2>4 DEF TrueNext
  <2> QED
    BY <2>1, <2>3, <2>4, <2>5 DEF LedgerInv, TrueRecord, TrueNext
<1> QED
  BY <1>1, <1>2

LEMMA LedgerNext ==
  ASSUME TypeOK, QueueInv, CancelInv, LedgerInv, [Next]_vars PROVE LedgerInv'
<1>1. Growth
  BY GrowthNext
<1>2. CASE UNCHANGED <<ledger, mem, pc, cur>> /\ ~SubmitLinks
  BY <1>1, <1>2, QueuesKept, SameLedger DEF Polling
<1>3. CASE QueueSteps /\ ~SubmitLinks
  BY <1>2, <1>3 DEF QueueSteps, CancelLink, CancelUnlink, CancelKilled, CancelLocate, Runner, Move, pollVars
<1>4. CASE Crash
  BY <1>1, <1>4, EndsLedger DEF Crash
<1>5. CASE (\E q \in Queues : ListQueue(q)) \/ (\E i \in Issues : CloseIssue(i) \/ EditIssue(i))
           \/ UNCHANGED vars
  <2>1. UNCHANGED <<ledger, mem, pc, cur, queue>>
    BY <1>5 DEF ListQueue, CloseIssue, EditIssue, pollVars, vars
  <2> QED
    BY <1>1, <2>1, SameLedger DEF Polling
<1> QED
  BY <1>1, <1>3, <1>4, <1>5, LoopLedger, VisitLedger, ImportLedger, PostLedger, ReportLedger
     DEF QueueSteps, Next, Gateway, ProcessIssue, Import, Reporting, Faults, Others, Cancel

-----------------------------------------------------------------------------
(* What an event costs *)

\* Only an event undoes what makes the record of an issue safe.
Secure == /\ events' = events \/ events' = events + 1
          /\ events' # events + 1 =>
               \A i \in Issues : (Recorded(i) => Recorded(i)') /\ (Safe(i) => Safe(i)')

LEMMA EventStep ==
  ASSUME Event \/ UNCHANGED events PROVE events' = events \/ events' = events + 1
BY DEF Event

\* A step that changes neither the state file, nor where the gateway is.
LEMMA SameSecure ==
  ASSUME UNCHANGED <<ledger, mem, pollVars>>, events' = events \/ events' = events + 1 PROVE Secure
BY DEF Secure, Recorded, Safe, Polling, pollVars

LEMMA LoopSecure ==
  ASSUME TypeOK, LedgerInv, Restart \/ BeginPoll \/ Turn \/ EndPoll PROVE Secure
<1> USE DEF Secure, Recorded, Safe, Polling, Goto
<1>1. CASE Restart
  BY <1>1 DEF Restart
<1>2. CASE BeginPoll
  BY <1>2 DEF BeginPoll
<1>3. CASE Turn
  BY <1>3 DEF Turn
<1>4. CASE EndPoll
  <2>1. pc = "poll" /\ ledger' = (IF changed THEN mem ELSE ledger) /\ events' = events
    BY <1>4 DEF EndPoll
  <2>2. \A i \in Issues : ledger[i].status # "none" => mem[i].status # "none"
    BY <2>1 DEF LedgerInv
  <2> QED
    BY <2>1, <2>2
<1> QED
  BY <1>1, <1>2, <1>3, <1>4

LEMMA VisitSecure ==
  ASSUME TypeOK, LedgerInv, NEW i \in Issues,
         Skip(i) \/ ToReport(i) \/ RejectIssue(i) \/ RunRecovery(i) \/ BeginScan(i)
  PROVE  Secure
<1>1. /\ pc = "poll" /\ ledger' = ledger /\ changed' = changed /\ cur' = i
      /\ pc' \in {"poll", "report", "post", "scan"} /\ events' = events
  BY DEF Skip, ToReport, RejectIssue, RunRecovery, BeginScan, At, Goto
<1>2. mem' = mem \/ (mem[i] = NoRecord /\ \A j \in Issues : j # i => mem'[j] = mem[j])
  BY DEF Skip, ToReport, RejectIssue, RunRecovery, BeginScan, Decide, TypeOK
<1>3. mem[i] = NoRecord => mem[i].status = "none"
  BY DEF NoRecord
<1>4. \A j \in Issues : ledger[j].status # "none" \/ (mem[j].status # "none" /\ changed) =>
        ledger'[j].status # "none" \/ (mem'[j].status # "none" /\ changed')
  BY <1>1, <1>2, <1>3
<1> QED
  BY <1>1, <1>4 DEF Secure, Recorded, Safe, Polling

LEMMA ImportSecure ==
  ASSUME TypeOK, LedgerInv,
         Dedupe \/ SubmitRefused \/ SubmitLinks \/ SubmitReturns \/ SyncFails
  PROVE  Secure
<1>1. /\ pc \in {"scan", "submit", "created"} /\ cur \in Issues
      /\ ledger' = ledger /\ cur' = cur /\ changed' = changed
  BY DEF Dedupe, SubmitRefused, SubmitLinks, SubmitReturns, SyncFails, TypeOK
<1>2. ~SyncFails => \A j \in Issues : j # cur => mem'[j] = mem[j]
  BY <1>1 DEF Dedupe, SubmitRefused, SubmitLinks, SubmitReturns, Reject, Decide, TypeOK
<1>3. ~Recorded(cur)
  BY <1>1 DEF LedgerInv, NoRecord, Recorded, Polling
<1>4. CASE SyncFails
  BY <1>4 DEF SyncFails, Event, Secure
<1>5. CASE ~SyncFails
  <2>1. events' = events /\ pc' \in {"submit", "created", "post"}
    BY <1>5 DEF Dedupe, SubmitRefused, SubmitLinks, SubmitReturns, Reject, Goto
  <2>2. \A j \in Issues : Recorded(j) => Recorded(j)'
    BY <1>1, <1>2, <1>3, <1>5, <2>1 DEF Recorded, Polling
  <2>3. Safe(cur) => Safe(cur)'
    <3> SUFFICES ASSUME Safe(cur) PROVE Safe(cur)'
      OBVIOUS
    <3>1. pc = "created"
      BY <1>3 DEF Safe
    <3>2. SubmitReturns
      BY <1>5, <3>1 DEF Dedupe, SubmitRefused, SubmitLinks
    <3>3. mem' = [mem EXCEPT ![cur] = Imported(Newest)] /\ pc' = "post"
      BY <3>2 DEF SubmitReturns, Decide, Goto
    <3>4. mem'[cur].status = "imported"
      BY <1>1, <3>3 DEF TypeOK, Imported, NoRecord
    <3> QED
      BY <1>1, <3>3, <3>4 DEF Safe, Recorded, Polling
  <2>4. \A j \in Issues : j # cur /\ Safe(j) => Safe(j)'
    BY <2>2 DEF Safe
  <2> QED
    BY <1>1, <2>1, <2>2, <2>3, <2>4 DEF Secure
<1> QED
  BY <1>4, <1>5

LEMMA TellSecure ==
  ASSUME TypeOK, LedgerInv,
         Posted \/ PostFails \/ ReportNothing \/ (\E s \in Seen : Report(s)) \/ ReportFails \/ Crash
  PROVE  Secure
<1>1. CASE Posted
  BY <1>1 DEF Posted, Goto, Secure, Recorded, Safe, Polling
<1>2. CASE PostFails \/ ReportFails \/ Crash
  BY <1>2 DEF PostFails, ReportFails, Crash, Event, Secure
<1>3. CASE ReportNothing
  BY <1>3 DEF ReportNothing, Goto, Secure, Recorded, Safe, Polling
<1>4. ASSUME NEW s \in Seen, Report(s) PROVE Secure
  <2>1. pc = "report" /\ pc' = "poll" /\ ledger' = ledger /\ changed' = TRUE
    BY <1>4 DEF Report, Goto, Remember
  <2>2. events' = events \/ events' = events + 1
    BY <1>4 DEF Report
  <2>3. mem' = [mem EXCEPT ![cur].last = s]
    BY <1>4 DEF Report, Remember
  <2>4. \A i \in Issues : mem'[i].status = mem[i].status
    BY <2>3 DEF TypeOK, Records
  <2> QED
    BY <2>1, <2>2, <2>4 DEF Secure, Recorded, Safe, Polling
<1> QED
  BY <1>1, <1>2, <1>3, <1>4

LEMMA SecureNext == ASSUME TypeOK, LedgerInv, [Next]_vars PROVE Secure
<1>1. CASE QueueSteps /\ ~SubmitLinks
  <2>1. UNCHANGED <<ledger, mem, pollVars>> /\ (Event \/ UNCHANGED events)
    BY <1>1 DEF QueueSteps, CancelLink, CancelUnlink, CancelKilled, CancelLocate, Runner, Move
  <2> QED
    BY <2>1, EventStep, SameSecure
<1>2. CASE (\E q \in Queues : ListQueue(q)) \/ (\E i \in Issues : CloseIssue(i) \/ EditIssue(i))
           \/ UNCHANGED vars
  <2>1. UNCHANGED <<ledger, mem, pollVars>> /\ (Event \/ UNCHANGED events)
    BY <1>2 DEF ListQueue, CloseIssue, EditIssue, vars, pollVars
  <2> QED
    BY <2>1, EventStep, SameSecure
<1> QED
  BY <1>1, <1>2, LoopSecure, VisitSecure, ImportSecure, TellSecure
     DEF QueueSteps, Next, Gateway, ProcessIssue, Import, Reporting, Faults, Others, Cancel

\* Only the end of a poll writes the state file.
LEMMA LedgerSteps == ASSUME [Next]_vars PROVE ledger' = ledger \/ (pc = "poll" /\ ledger' = mem)
<1>1. CASE QueueSteps
  BY <1>1 DEF QueueSteps, SubmitLinks, CancelLink, CancelUnlink, CancelKilled, CancelLocate, Runner, Move
<1>2. CASE Restart \/ BeginPoll \/ Turn \/ EndPoll \/ UNCHANGED vars
  BY <1>2 DEF Restart, BeginPoll, Turn, EndPoll, vars
<1>3. CASE ProcessIssue \/ \E i \in Issues : ToReport(i)
  BY <1>3 DEF ProcessIssue, Skip, RejectIssue, RunRecovery, BeginScan, ToReport, At
<1>4. CASE (\E q \in Queues : ListQueue(q)) \/ Dedupe \/ SubmitRefused \/ SubmitReturns \/ SyncFails
  BY <1>4 DEF ListQueue, Dedupe, SubmitRefused, SubmitReturns, SyncFails
<1>5. CASE Posted \/ PostFails \/ ReportNothing \/ (\E s \in Seen : Report(s)) \/ ReportFails \/ Crash
  BY <1>5 DEF Posted, PostFails, ReportNothing, Report, ReportFails, Crash
<1>6. CASE \E i \in Issues : CloseIssue(i) \/ EditIssue(i)
  BY <1>6 DEF CloseIssue, EditIssue
<1> QED
  BY <1>1, <1>2, <1>3, <1>4, <1>5, <1>6
     DEF QueueSteps, Next, Gateway, Import, Reporting, Faults, Others, Cancel

\* The recovery script runs for an issue without a record, which then has one.
LEMMA RunsNext == ASSUME TypeOK, LedgerInv, RunsInv, [Next]_vars PROVE RunsInv'
<1>1. Secure /\ events \in Nat /\ runs \in [Issues -> Nat]
  BY SecureNext, BoundsAssumption DEF TypeOK
<1>2. ASSUME runs' = runs PROVE RunsInv'
  BY <1>1, <1>2 DEF Secure, RunsInv, Recorded, Polling
<1>3. ASSUME NEW i \in Issues, RunRecovery(i) PROVE RunsInv'
  <2>1. /\ runs' = [runs EXCEPT ![i] = @ + 1] /\ events' = events /\ pc = "poll" /\ pc' = "post"
        /\ cur' = i /\ mem[i] = NoRecord /\ mem' = [mem EXCEPT ![i] = Outcome]
    BY <1>3 DEF RunRecovery, At, Goto, Decide
  <2>2. ledger[i].status = "none" /\ mem[i].status = "none" /\ mem'[i].status = "outcome"
    BY <2>1 DEF LedgerInv, Polling, NoRecord, Outcome, TypeOK
  <2>3. ~Recorded(i) /\ Recorded(i)'
    BY <2>1, <2>2 DEF Recorded, Polling
  <2>4. runs'[i] = runs[i] + 1 /\ runs[i] <= events /\ \A j \in Issues : j # i => runs'[j] = runs[j]
    BY <1>1, <2>1, <2>3 DEF RunsInv
  <2>5. \A j \in Issues : Recorded(j) => Recorded(j)'
    BY <1>1, <2>1 DEF Secure
  <2> QED
    BY <1>1, <2>1, <2>3, <2>4, <2>5 DEF RunsInv
<1>4. CASE QueueSteps
  BY <1>2, <1>4 DEF QueueSteps, SubmitLinks, CancelLink, CancelUnlink, CancelKilled, CancelLocate, Runner, Move
<1>5. CASE Restart \/ BeginPoll \/ Turn \/ EndPoll \/ UNCHANGED vars
  BY <1>2, <1>5 DEF Restart, BeginPoll, Turn, EndPoll, vars
<1>6. CASE \E i \in Issues : Skip(i) \/ RejectIssue(i) \/ BeginScan(i) \/ ToReport(i)
  BY <1>2, <1>6 DEF Skip, RejectIssue, BeginScan, ToReport
<1>7. CASE (\E q \in Queues : ListQueue(q)) \/ Dedupe \/ SubmitRefused \/ SubmitReturns \/ SyncFails
  BY <1>2, <1>7 DEF ListQueue, Dedupe, SubmitRefused, SubmitReturns, SyncFails
<1>8. CASE Posted \/ PostFails \/ ReportNothing \/ (\E s \in Seen : Report(s)) \/ ReportFails \/ Crash
  BY <1>2, <1>8 DEF Posted, PostFails, ReportNothing, Report, ReportFails, Crash
<1>9. CASE \E i \in Issues : CloseIssue(i) \/ EditIssue(i)
  BY <1>2, <1>9 DEF CloseIssue, EditIssue
<1> QED
  BY <1>3, <1>4, <1>5, <1>6, <1>7, <1>8, <1>9
     DEF QueueSteps, Next, Gateway, ProcessIssue, Import, Reporting, Faults, Others, Cancel

-----------------------------------------------------------------------------
(* What holds whatever goes wrong *)

LEMMA TypeNext == ASSUME TypeOK, LedgerInv, [Next]_vars PROVE TypeOK'
<1>1. \A i \in Issues : TrueRecord(i, mem[i])
  BY DEF LedgerInv
<1>2. cur \in Issues /\ (pc = "created" => HasNewest(cur))
  BY DEF TypeOK, LedgerInv
<1>3. CASE UNCHANGED vars
  BY <1>3 DEF TypeOK, vars, githubVars, pollVars, scanVars
<1> QED
  BY <1>1, <1>2, <1>3, LoopTypes, VisitTypes, ScanTypes, SubmitTypes, PostTypes, ReportTypes,
     OtherTypes
     DEF Next, Gateway, ProcessIssue, Import, Reporting, Faults, Others, Cancel

LEMMA InitIInv == Init => IInv
<1> SUFFICES ASSUME Init PROVE IInv
  OBVIOUS
<1>1. cur \in Issues
  BY IssuesAssumption DEF Init
<1>2. TypeOK
  <2>1. \E t \in Tasks : TRUE
    <3>1. 1 \in 1..MaxTasks
      BY BoundsAssumption
    <3> QED
      <4>1. PICK i \in Issues : TRUE
        BY IssuesAssumption
      <4>2. <<i, 1>> \in Tasks
        BY <3>1, <4>1 DEF Tasks
      <4> QED
        BY <4>2
  <2>2. cancel \in [Cancellers -> [pc: {"idle", "link", "unlink", "done", "failed", "killed"},
                                  task: Tasks]]
    <3>1. (CHOOSE t \in Tasks : TRUE) \in Tasks
      BY <2>1
    <3> QED
      BY <3>1 DEF Init
  <2>3. ledger \in [Issues -> Records] /\ mem \in [Issues -> Records]
    BY RecordTypes DEF Init
  <2>4. events \in 0..MaxEvents
    BY BoundsAssumption DEF Init
  <2> QED
    BY <1>1, <2>2, <2>3, <2>4 DEF Init, TypeOK
<1>3. QueueInv
  BY DEF Init, QueueInv, Tasks
<1>4. CancelInv
  BY DEF Init, CancelInv
<1>5. LedgerInv
  BY DEF Init, LedgerInv, TrueRecord, NoRecord, Polling
<1>6. RunsInv
  BY DEF Init, RunsInv
<1> QED
  BY <1>2, <1>3, <1>4, <1>5, <1>6 DEF IInv

LEMMA StepIInv == IInv /\ [Next]_vars => IInv'
BY TypeNext, QueuesKept, LedgerNext, RunsNext DEF IInv

LEMMA Invariance == Spec => []IInv
BY InitIInv, StepIInv, PTL DEF Spec

\* Every variable keeps its type: what the gateway posts is a comment, and what it
\* reports on has a task.
THEOREM TypeCorrect == Spec => []TypeOK
<1>1. IInv => TypeOK
  BY DEF IInv
<1> QED
  BY <1>1, Invariance, PTL

\* Cancelling a task is final (move_cancel), for any number of cancel commands at the
\* same task, wherever the runners move it and wherever a command is killed.
THEOREM CancelsAreFinal == Spec => []CancelIsFinal
<1>1. IInv => CancelIsFinal
  <2> SUFFICES ASSUME IInv PROVE CancelIsFinal
    OBVIOUS
  <2>1. TypeOK /\ CancelInv
    BY DEF IInv
  <2>2. \A c \in Cancellers : cancel[c].task \in Tasks
    BY <2>1 DEF TypeOK
  <2>3. \A t \in Tasks : Cardinality(queue[t]) > 1 => queue[t] # {"cancelled"}
    <3>1. Cardinality({"cancelled"}) = 1
      BY FS_Singleton
    <3> QED
      BY <3>1
  <2> QED
    BY <2>1, <2>2, <2>3 DEF CancelIsFinal, CancelInv
<1> QED
  BY <1>1, Invariance, PTL

\* No task is lost, and no record of one: whatever fails, a task stays in a queue, and
\* the state file names it from the first time on.
THEOREM NothingIsLost == Spec => NeverLost
<1>1. IInv /\ [Next]_vars =>
        [/\ \A t \in Tasks : queue[t] # {} => queue'[t] # {}
         /\ \A i \in Issues : ledger[i].task # 0 => ledger'[i].task = ledger[i].task]_vars
  <2> SUFFICES ASSUME IInv, [Next]_vars
               PROVE  /\ \A t \in Tasks : queue[t] # {} => queue'[t] # {}
                      /\ \A i \in Issues : ledger[i].task # 0 => ledger'[i].task = ledger[i].task
    OBVIOUS
  <2>1. \A t \in Tasks : queue[t] # {} => queue'[t] # {}
    BY QueuesKept DEF IInv
  <2>2. ledger' = ledger \/ (pc = "poll" /\ ledger' = mem)
    BY LedgerSteps
  <2>3. \A i \in Issues : ledger[i].task # 0 /\ Polling => mem[i].task = ledger[i].task
    BY DEF IInv, LedgerInv, TrueRecord
  <2> QED
    BY <2>1, <2>2, <2>3 DEF Polling
<1> QED
  BY <1>1, Invariance, PTL DEF Spec, NeverLost

-----------------------------------------------------------------------------
(* What a scan can miss *)

\* Where a poll is comes from the step before; only EditIssue changes what an issue is.
LEMMA PollSteps ==
  ASSUME [Next]_vars
  PROVE  /\ pc' = "scan" => (\E i \in Issues : BeginScan(i)) \/ (pc = "scan" /\ cur' = cur)
         /\ pc' = "submit" => Dedupe \/ (pc = "submit" /\ cur' = cur)
         /\ pc' = "created" => SubmitLinks \/ (pc = "created" /\ cur' = cur)
         /\ pc' = "post" /\ say' = "recovered" => Dedupe \/ (pc = "post" /\ say = "recovered")
         /\ form' = form \/ \E i \in Issues : EditIssue(i)
<1> USE DEF Goto, githubVars, pollVars
<1>1. CASE QueueSteps
  BY <1>1 DEF QueueSteps, SubmitLinks, CancelLink, CancelUnlink, CancelKilled, CancelLocate, Runner, Move
<1>2. CASE Restart \/ BeginPoll \/ Turn \/ EndPoll \/ UNCHANGED vars
  BY <1>2 DEF Restart, BeginPoll, Turn, EndPoll, vars
<1>3. CASE \E i \in Issues : Skip(i) \/ RejectIssue(i) \/ RunRecovery(i) \/ ToReport(i)
  BY <1>3 DEF Skip, RejectIssue, RunRecovery, ToReport, At, Decide
<1>4. CASE \E i \in Issues : BeginScan(i)
  BY <1>4 DEF BeginScan, At
<1>5. CASE \E q \in Queues : ListQueue(q)
  BY <1>5 DEF ListQueue
<1>6. CASE Dedupe
  BY <1>6 DEF Dedupe, Reject
<1>7. CASE SubmitRefused \/ SubmitReturns \/ SyncFails
  BY <1>7 DEF SubmitRefused, SubmitReturns, SyncFails, Ends, Reject, Decide
<1>8. CASE Posted \/ PostFails \/ ReportNothing \/ (\E s \in Seen : Report(s)) \/ ReportFails \/ Crash
  BY <1>8 DEF Posted, PostFails, ReportNothing, Report, ReportFails, Crash, Ends, Reject, Decide
<1>9. CASE \E i \in Issues : CloseIssue(i)
  BY <1>9 DEF CloseIssue
<1>10. CASE \E i \in Issues : EditIssue(i)
  BY <1>10 DEF EditIssue
<1> QED
  BY <1>1, <1>2, <1>3, <1>4, <1>5, <1>6, <1>7, <1>8, <1>9, <1>10
     DEF QueueSteps, Next, Gateway, ProcessIssue, Import, Reporting, Faults, Others, Cancel

\* While the gateway lists the directories, a file of a task changes its place only in a
\* move, which is remembered.
LEMMA ScanSteps ==
  ASSUME TypeOK, [Next]_vars, pc = "scan", pc' = "scan"
  PROVE  \/ \E q \in Queues : ListQueue(q)
         \/ /\ UNCHANGED <<left, listed, raced>> /\ moved \subseteq moved'
            /\ \A t \in Tasks : queue'[t] = queue[t] \/ t \in moved'
<1> USE DEF Goto, scanVars
<1> DEFINE Kept == /\ UNCHANGED <<left, listed, raced>> /\ moved \subseteq moved'
                   /\ \A t \in Tasks : queue'[t] = queue[t] \/ t \in moved'
<1>1. ASSUME NEW c \in Cancellers, CancelLink(c) \/ CancelUnlink(c) PROVE Kept
  BY <1>1 DEF CancelLink, CancelUnlink, Moves, TypeOK
<1>2. ASSUME NEW x \in Tasks, Runner(x) PROVE Kept
  BY <1>2 DEF Runner, Move, Moves, TypeOK
<1>3. ASSUME UNCHANGED <<scanVars, queue>> PROVE Kept
  BY <1>3
<1>4. CASE \/ SubmitLinks
           \/ \E c \in Cancellers : CancelKilled(c) \/ \E t \in Tasks : CancelLocate(c, t)
  BY <1>3, <1>4 DEF SubmitLinks, CancelKilled, CancelLocate
<1>5. CASE Restart \/ BeginPoll \/ Turn \/ EndPoll \/ UNCHANGED vars
  BY <1>3, <1>5 DEF Restart, BeginPoll, Turn, EndPoll, vars
<1>6. CASE ProcessIssue \/ \E i \in Issues : ToReport(i)
  BY <1>6 DEF ProcessIssue, Skip, RejectIssue, RunRecovery, BeginScan, ToReport, At
<1>7. CASE Dedupe \/ SubmitRefused \/ SubmitReturns \/ SyncFails
  BY <1>7 DEF Dedupe, Reject, SubmitRefused, SubmitReturns, SyncFails
<1>8. CASE Posted \/ PostFails \/ ReportNothing \/ (\E s \in Seen : Report(s)) \/ ReportFails \/ Crash
  BY <1>8 DEF Posted, PostFails, ReportNothing, Report, ReportFails, Crash, Ends
<1>9. CASE \E i \in Issues : CloseIssue(i) \/ EditIssue(i)
  BY <1>3, <1>9 DEF CloseIssue, EditIssue
<1> QED
  BY <1>1, <1>2, <1>3, <1>4, <1>5, <1>6, <1>7, <1>8, <1>9
     DEF Next, Gateway, Import, Reporting, Faults, Others, Cancel

\* What a scan has missed is not forgotten.
LEMMA RacedGrows == ASSUME TypeOK, [Next]_vars PROVE \A i \in Issues : raced[i] \subseteq raced'[i]
<1> USE DEF scanVars
<1>1. CASE Dedupe
  BY <1>1 DEF Dedupe, TypeOK
<1>2. CASE UNCHANGED raced
  BY <1>2
<1>3. CASE QueueSteps
  BY <1>2, <1>3 DEF QueueSteps, SubmitLinks, CancelLink, CancelUnlink, CancelKilled, CancelLocate,
     Runner, Move
<1>4. CASE Restart \/ BeginPoll \/ Turn \/ EndPoll \/ UNCHANGED vars
  BY <1>2, <1>4 DEF Restart, BeginPoll, Turn, EndPoll, vars
<1>5. CASE ProcessIssue \/ \E i \in Issues : ToReport(i)
  BY <1>2, <1>5 DEF ProcessIssue, Skip, RejectIssue, RunRecovery, BeginScan, ToReport, At
<1>6. CASE (\E q \in Queues : ListQueue(q)) \/ SubmitRefused \/ SubmitReturns \/ SyncFails
  BY <1>2, <1>6 DEF ListQueue, SubmitRefused, SubmitReturns, SyncFails
<1>7. CASE Posted \/ PostFails \/ ReportNothing \/ (\E s \in Seen : Report(s)) \/ ReportFails \/ Crash
  BY <1>2, <1>7 DEF Posted, PostFails, ReportNothing, Report, ReportFails, Crash
<1>8. CASE \E i \in Issues : CloseIssue(i) \/ EditIssue(i)
  BY <1>2, <1>8 DEF CloseIssue, EditIssue
<1> QED
  BY <1>1, <1>3, <1>4, <1>5, <1>6, <1>7, <1>8
     DEF QueueSteps, Next, Gateway, Import, Reporting, Faults, Others, Cancel

\* Only the gateway creates a task.
LEMMA HasTaskKept ==
  ASSUME IInv, [Next]_vars, NEW i \in Issues
  PROVE  /\ ~SubmitLinks \/ i # cur => (HasTask(i)' <=> HasTask(i))
         /\ HasTask(i) => HasTask(i)'
<1>1. \A n \in 1..MaxTasks : <<i, n>> \in Tasks
  BY DEF Tasks
<1>2. ~SubmitLinks => \A n \in 1..MaxTasks : queue'[<<i, n>>] = {} <=> queue[<<i, n>>] = {}
  BY <1>1, QueuesKept DEF IInv
<1>3. SubmitLinks /\ i # cur => \A n \in 1..MaxTasks : queue'[<<i, n>>] = queue[<<i, n>>]
  BY <1>1, LinksShape DEF IInv
<1>4. \A n \in 1..MaxTasks : queue[<<i, n>>] # {} => queue'[<<i, n>>] # {}
  BY <1>1, QueuesKept DEF IInv
<1> QED
  BY <1>2, <1>3, <1>4 DEF HasTask

\* A record without a task to it: none of the state file, and none to be written.
LEMMA NotSafe ==
  ASSUME IInv, NEW i \in Issues, mem[i] = NoRecord, pc \in {"poll", "scan", "submit"}
  PROVE  ~Safe(i) /\ ledger[i].status = "none"
BY DEF IInv, LedgerInv, NoRecord, Safe, Recorded, Polling

LEMMA SlippedKept ==
  ASSUME IInv, [Next]_vars, NEW i \in Issues, Slipped(i) PROVE Slipped(i)'
<1>1. PICK n \in 1..MaxTasks : queue[<<i, n>>] # {} /\ <<i, n>> \in raced[i]
  BY DEF Slipped
<1>2. <<i, n>> \in Tasks
  BY DEF Tasks
<1>3. queue'[<<i, n>>] # {} /\ <<i, n>> \in raced'[i]
  BY <1>1, <1>2, QueuesKept, RacedGrows DEF IInv
<1> QED
  BY <1>3 DEF Slipped

\* The steps of DedupeInv start from both invariants.
DedupeStep == IInv /\ IInv' /\ DedupeInv /\ [Next]_vars

LEMMA DedupeFacts ==
  ASSUME DedupeStep
  PROVE  /\ Secure /\ events \in Nat /\ TypeOK /\ TypeOK' /\ QueueInv /\ CancelInv /\ LedgerInv
         /\ IInv /\ [Next]_vars /\ LostInv /\ ScanInv /\ OneInv
BY SecureNext, BoundsAssumption DEF DedupeStep, DedupeInv, IInv, TypeOK

LEMMA LostNext == ASSUME DedupeStep PROVE LostInv'
<1> SUFFICES ASSUME NEW i \in Issues, HasTask(i)', ~Safe(i)' PROVE events' > 0
  BY DEF LostInv
<1> USE DedupeFacts
<1>1. HasTask(i)
  <2>1. ~(SubmitLinks /\ i = cur)
    BY DEF SubmitLinks, Goto, Safe
  <2> QED
    BY <2>1, HasTaskKept
<1>2. CASE events' = events + 1
  BY <1>2
<1>3. CASE events' # events + 1
  <2>1. ~Safe(i) /\ events' = events
    BY <1>3 DEF Secure
  <2> QED
    BY <1>1, <2>1 DEF LostInv
<1> QED
  BY <1>2, <1>3

\* Where nothing is found, a task that exists moved while it was looked for.
LEMMA DedupeMisses ==
  ASSUME DedupeStep, Dedupe, ~Gone, Matches = {}, HasTask(cur) PROVE Slipped(cur)'
<1> USE DedupeFacts
<1>1. pc = "scan" /\ left = {} /\ raced' = [raced EXCEPT ![cur] = @ \cup Overtaken] /\ queue' = queue
      /\ cur' = cur /\ cur \in Issues
  BY DEF Dedupe, TypeOK
<1>2. PICK n \in 1..MaxTasks : queue[<<cur, n>>] # {}
  BY DEF HasTask
<1>3. PICK q : q \in queue[<<cur, n>>]
  BY <1>2
<1>4. <<<<cur, n>>, q>> \notin listed
  BY DEF Matches
<1>5. <<cur, n>> \in moved
  BY <1>1, <1>3, <1>4 DEF ScanInv
<1>6. <<cur, n>> \in raced'[cur]
  BY <1>1, <1>5 DEF Overtaken, TypeOK
<1> QED
  BY <1>1, <1>2, <1>6 DEF Slipped

LEMMA ScanNext == ASSUME DedupeStep PROVE ScanInv'
<1> USE DedupeFacts
<1>1. ASSUME pc' = "submit", HasTask(cur)' PROVE Slipped(cur)'
  <2>1. CASE Dedupe
    <3>1. ~Gone /\ Matches = {} /\ cur' = cur /\ queue' = queue
      BY <1>1, <2>1 DEF Dedupe, Reject, Goto
    <3>2. HasTask(cur)
      BY <1>1, <3>1 DEF HasTask
    <3> QED
      BY <2>1, <3>1, <3>2, DedupeMisses
  <2>2. CASE pc = "submit" /\ cur' = cur
    <3>1. ~SubmitLinks /\ cur \in Issues
      BY <1>1, <2>2 DEF SubmitLinks, Goto, TypeOK
    <3>2. HasTask(cur)
      BY <1>1, <2>2, <3>1, HasTaskKept DEF HasTask
    <3>3. Slipped(cur)
      BY <2>2, <3>2 DEF ScanInv
    <3> QED
      BY <2>2, <3>1, <3>3, SlippedKept DEF Slipped
  <2> QED
    BY <1>1, <2>1, <2>2, PollSteps
<1>2. ASSUME pc' = "scan"
      PROVE  /\ \A f \in listed' : f[1] \in moved' \/ f[2] \in queue'[f[1]]
             /\ \A n \in 1..MaxTasks : <<cur', n>> \notin moved' =>
                  \A q \in queue'[<<cur', n>>] \ left' : <<<<cur', n>>, q>> \in listed'
  <2>1. ASSUME NEW i \in Issues, BeginScan(i)
        PROVE  listed' = {} /\ \A n \in 1..MaxTasks : queue'[<<cur', n>>] \subseteq left'
    <3>1. cur' = i /\ left' = Queues /\ listed' = {} /\ queue' = queue
      BY <2>1 DEF BeginScan, At
    <3>2. \A n \in 1..MaxTasks : queue[<<i, n>>] \subseteq Queues
      BY DEF TypeOK, Tasks
    <3> QED
      BY <3>1, <3>2
  <2>2. CASE pc = "scan" /\ cur' = cur
    <3>1. \A n \in 1..MaxTasks : <<cur, n>> \in Tasks
      BY DEF TypeOK, Tasks
    <3>2. /\ \A f \in listed : f[1] \in moved \/ f[2] \in queue[f[1]]
          /\ \A n \in 1..MaxTasks : <<cur, n>> \notin moved =>
               \A q \in queue[<<cur, n>>] \ left : <<<<cur, n>>, q>> \in listed
      BY <2>2 DEF ScanInv
    <3>3. \A f \in listed : f[1] \in Tasks
      BY DEF TypeOK
    <3>4. ASSUME NEW q \in Queues, ListQueue(q)
          PROVE  /\ \A f \in listed' : f[1] \in moved' \/ f[2] \in queue'[f[1]]
                 /\ \A n \in 1..MaxTasks : <<cur, n>> \notin moved' =>
                      \A p \in queue'[<<cur, n>>] \ left' : <<<<cur, n>>, p>> \in listed'
      <4>1. /\ left' = left \ {q} /\ moved' = moved /\ queue' = queue
            /\ listed' = listed \cup {<<t, q>> : t \in {u \in Tasks : q \in queue[u]}}
        BY <3>4 DEF ListQueue
      <4>2. ASSUME NEW n \in 1..MaxTasks, <<cur, n>> \notin moved, NEW p \in queue[<<cur, n>>] \ left'
            PROVE  <<<<cur, n>>, p>> \in listed'
        <5>1. CASE p = q
          BY <3>1, <4>1, <4>2, <5>1
        <5>2. CASE p # q
          BY <3>2, <4>1, <4>2, <5>2
        <5> QED
          BY <5>1, <5>2
      <4>3. \A f \in listed' : f[1] \in moved \/ f[2] \in queue[f[1]]
        BY <3>2, <4>1
      <4> QED
        BY <4>1, <4>2, <4>3
    <3>5. ASSUME UNCHANGED <<left, listed, raced>>, moved \subseteq moved',
                 \A t \in Tasks : queue'[t] = queue[t] \/ t \in moved'
          PROVE  /\ \A f \in listed' : f[1] \in moved' \/ f[2] \in queue'[f[1]]
                 /\ \A n \in 1..MaxTasks : <<cur, n>> \notin moved' =>
                      \A p \in queue'[<<cur, n>>] \ left' : <<<<cur, n>>, p>> \in listed'
      BY <3>1, <3>2, <3>3, <3>5
    <3> QED
      BY <1>2, <2>2, <3>4, <3>5, ScanSteps
  <2> QED
    BY <1>2, <2>1, <2>2, PollSteps
<1> QED
  BY <1>1, <1>2 DEF ScanInv

LEMMA OneNext == ASSUME DedupeStep PROVE OneInv'
<1> USE DedupeFacts
<1> SUFFICES ASSUME NEW i \in Issues, NEW n \in 1..MaxTasks, NEW k \in 1..MaxTasks,
                    queue'[<<i, n>>] # {}, queue'[<<i, k>>] # {}, n # k
             PROVE  events' > 0 /\ Slipped(i)'
  BY DEF OneInv
<1>1. <<i, n>> \in Tasks /\ <<i, k>> \in Tasks
  BY DEF Tasks
<1>2. events > 0 => events' > 0
  BY DEF Secure
<1>3. CASE queue[<<i, n>>] # {} /\ queue[<<i, k>>] # {}
  <2>1. events > 0 /\ Slipped(i)
    BY <1>3 DEF OneInv
  <2> QED
    BY <1>2, <2>1, SlippedKept
<1>4. CASE queue[<<i, n>>] = {} \/ queue[<<i, k>>] = {}
  <2>1. SubmitLinks
    BY <1>1, <1>4, QueuesKept
  <2>2. PICK m \in 1..MaxTasks : \A t \in Tasks : t # <<cur, m>> => queue'[t] = queue[t]
    BY <2>1, LinksShape
  <2>3. i = cur
    BY <1>1, <1>4, <2>2
  <2>4. queue[<<i, n>>] # {} \/ queue[<<i, k>>] # {}
    BY <1>1, <2>2
  <2>5. HasTask(i)
    BY <2>4 DEF HasTask
  <2>6. pc = "submit" /\ mem[cur] = NoRecord
    BY <2>1 DEF SubmitLinks, LedgerInv
  <2>7. ~Safe(i)
    BY <2>3, <2>6, NotSafe
  <2>8. events > 0 /\ Slipped(i)
    BY <2>3, <2>5, <2>6, <2>7 DEF LostInv, ScanInv
  <2> QED
    BY <1>2, <2>8, SlippedKept
<1> QED
  BY <1>3, <1>4

LEMMA InitDedupe == Init => DedupeInv
<1> SUFFICES ASSUME Init PROVE DedupeInv
  OBVIOUS
<1>1. \A i \in Issues : \A n \in 1..MaxTasks : queue[<<i, n>>] = {}
  BY DEF Init, Tasks
<1>2. LostInv /\ OneInv
  BY <1>1 DEF LostInv, OneInv, HasTask
<1>3. ScanInv
  BY DEF Init, ScanInv
<1> QED
  BY <1>2, <1>3 DEF DedupeInv

LEMMA DedupeInvariance == Spec => [](IInv /\ DedupeInv)
<1>1. IInv /\ DedupeInv /\ [Next]_vars => (IInv /\ DedupeInv)'
  <2> SUFFICES ASSUME IInv, DedupeInv, [Next]_vars PROVE IInv' /\ DedupeInv'
    OBVIOUS
  <2>1. DedupeStep
    BY StepIInv DEF DedupeStep
  <2> QED
    BY <2>1, StepIInv, LostNext, ScanNext, OneNext DEF DedupeInv
<1> QED
  BY InitIInv, InitDedupe, <1>1, PTL DEF Spec

\* An issue gets a second task only where a crash or a failed call lost the record of the
\* first, and a move hid that one from the scan for it, however often either happens; and
\* its recovery script runs once, and again only after an event.  For any number of issues
\* and of cancel commands.
THEOREM IssuesHaveOneTask == Spec => []OneTaskPerIssue
<1>1. IInv /\ DedupeInv => OneTaskPerIssue
  <2> SUFFICES ASSUME IInv, DedupeInv, NEW i \in Issues
               PROVE  /\ Cardinality(TasksOf(i)) > 1 =>
                           events > 0 /\ \E n \in TasksOf(i) : <<i, n>> \in raced[i]
                      /\ runs[i] <= 1 + events
    BY DEF OneTaskPerIssue
  <2>1. ASSUME \A n, k \in TasksOf(i) : n = k PROVE Cardinality(TasksOf(i)) \in {0, 1}
    <3>1. CASE TasksOf(i) = {}
      BY <3>1, FS_EmptySet
    <3>2. CASE TasksOf(i) # {}
      <4>1. PICK n : n \in TasksOf(i)
        BY <3>2
      <4>2. TasksOf(i) = {n}
        BY <2>1, <4>1
      <4> QED
        BY <4>2, FS_Singleton
    <3> QED
      BY <3>1, <3>2
  <2>2. ASSUME NEW n \in TasksOf(i), NEW k \in TasksOf(i), n # k
        PROVE  events > 0 /\ \E m \in TasksOf(i) : <<i, m>> \in raced[i]
    BY <2>2 DEF DedupeInv, OneInv, TasksOf, Slipped
  <2>3. Cardinality(TasksOf(i)) > 1 => events > 0 /\ \E n \in TasksOf(i) : <<i, n>> \in raced[i]
    BY <2>1, <2>2
  <2>4. runs[i] <= 1 + events
    BY BoundsAssumption DEF IInv, RunsInv, TypeOK
  <2> QED
    BY <2>3, <2>4
<1> QED
  BY <1>1, DedupeInvariance, PTL

-----------------------------------------------------------------------------
(* With one event at most: the rejections *)

SingleStep == events' <= 1 /\ DedupeStep /\ DedupeInv' /\ SingleInv

LEMMA StepFacts ==
  ASSUME SingleStep
  PROVE  /\ DedupeStep /\ Secure /\ events \in 0..1 /\ (events' = events \/ events = 0)
         /\ IInv /\ [Next]_vars /\ TypeOK /\ LedgerInv /\ LostInv /\ LostInv'
         /\ EditInv /\ CalmInv /\ RejectInv
<1>1. DedupeStep /\ Secure /\ events \in Nat /\ events' <= 1
  BY DedupeFacts DEF SingleStep
<1>2. events \in 0..1 /\ (events' = events \/ events = 0)
  BY <1>1 DEF Secure
<1> QED
  BY <1>1, <1>2, DedupeFacts DEF SingleStep, SingleInv, DedupeInv

LEMMA EditNext == ASSUME SingleStep PROVE EditInv'
<1> SUFFICES ASSUME NEW i \in Issues, HasTask(i)', ~Safe(i)' PROVE form'[i] = "task"
  BY DEF EditInv
<1> USE StepFacts
<1>1. HasTask(i)
  <2>1. ~(SubmitLinks /\ i = cur)
    BY DEF SubmitLinks, Goto, Safe
  <2> QED
    BY <2>1, HasTaskKept
<1>2. CASE Safe(i)
  <2>1. events = 0
    BY <1>2 DEF Secure
  <2>2. form[i] = "task"
    BY <1>1, <2>1 DEF CalmInv
  <2>3. ~\E j \in Issues : EditIssue(j)
    BY <1>2 DEF EditIssue, pollVars, Safe, Recorded, Polling
  <2> QED
    BY <2>2, <2>3, PollSteps
<1>3. CASE ~Safe(i)
  <2>1. form[i] = "task" /\ events > 0
    BY <1>1, <1>3 DEF EditInv, LostInv
  <2>2. ~\E j \in Issues : EditIssue(j)
    BY <2>1 DEF EditIssue, Event
  <2> QED
    BY <2>1, <2>2, PollSteps
<1> QED
  BY <1>2, <1>3

LEMMA CalmNext == ASSUME SingleStep PROVE CalmInv'
<1> USE StepFacts
<1> SUFFICES ASSUME events' = 0 PROVE CalmInv'
  BY DEF CalmInv
<1>1. events = 0 /\ events' = events /\ ~(\E i \in Issues : EditIssue(i))
  BY DEF EditIssue, Event
<1>2. form' = form
  BY <1>1, PollSteps
<1>3. ASSUME NEW i \in Issues, HasTask(i)' PROVE form[i] = "task"
  <2>1. CASE SubmitLinks /\ i = cur
    <3>1. pc = "submit"
      BY <2>1 DEF SubmitLinks
    <3> QED
      BY <1>1, <2>1, <3>1 DEF CalmInv
  <2>2. CASE ~(SubmitLinks /\ i = cur)
    BY <1>1, <1>3, <2>2, HasTaskKept DEF CalmInv
  <2> QED
    BY <2>1, <2>2
<1>4. ASSUME pc' \in {"scan", "submit", "created"} PROVE form[cur'] = "task"
  <2>1. CASE \E i \in Issues : BeginScan(i)
    BY <2>1 DEF BeginScan, At
  <2>2. CASE Dedupe \/ SubmitLinks
    <3>1. pc \in {"scan", "submit"} /\ cur' = cur /\ cur \in Issues
      BY <2>2 DEF Dedupe, SubmitLinks, TypeOK
    <3> QED
      BY <1>1, <3>1 DEF CalmInv
  <2>3. CASE pc \in {"scan", "submit", "created"} /\ cur' = cur
    BY <1>1, <2>3 DEF CalmInv, TypeOK
  <2> QED
    BY <1>4, <2>1, <2>2, <2>3, PollSteps
<1>5. ASSUME pc' = "post" PROVE say' # "recovered"
  <2> SUFFICES ASSUME say' = "recovered" PROVE FALSE
    OBVIOUS
  <2>1. Dedupe
    BY <1>1, <1>5, PollSteps DEF CalmInv
  <2>2. pc = "scan" /\ ~Gone /\ Matches # {} /\ cur \in Issues /\ mem[cur] = NoRecord
    BY <1>5, <2>1 DEF Dedupe, Reject, Decide, Goto, LedgerInv, TypeOK
  <2>3. PICK f \in Matches : f \in listed /\ f[1][1] = cur /\ f \in Tasks \X Queues
    BY <2>2 DEF Matches, TypeOK
  <2>4. f[1] = <<cur, f[1][2]>> /\ f[1][2] \in 1..MaxTasks /\ f[2] \in queue[f[1]]
    BY <2>2, <2>3 DEF Gone, Tasks
  <2>5. HasTask(cur)
    BY <2>4 DEF HasTask
  <2>6. ~Safe(cur)
    BY <2>2, NotSafe
  <2> QED
    BY <1>1, <2>2, <2>5, <2>6 DEF LostInv
<1> QED
  BY <1>2, <1>3, <1>4, <1>5 DEF CalmInv

\* An issue the gateway has just rejected by itself was never one for a task, or something
\* moved, or stood in two directories, while it was looked for.
LEMMA RejectionsTrue ==
  ASSUME SingleStep
  PROVE  /\ \A i \in Issues : RejectIssue(i) => ~HasTask(i)
         /\ Dedupe /\ Reject("dedupe") /\ HasTask(cur) => raced'[cur] # {}
         /\ ~(PostFails /\ Reject("comment"))
<1> USE StepFacts
<1>1. ASSUME NEW i \in Issues, RejectIssue(i) PROVE ~HasTask(i)
  <2>1. mem[i] = NoRecord /\ form[i] = "invalid" /\ pc = "poll"
    BY <1>1 DEF RejectIssue, At
  <2>2. ~Safe(i)
    BY <2>1, NotSafe
  <2> QED
    BY <2>1, <2>2 DEF EditInv
<1>2. ASSUME Dedupe, Reject("dedupe") PROVE HasTask(cur) => raced'[cur] # {}
  <2> SUFFICES Overtaken # {} \/ raced[cur] # {}
    BY <1>2 DEF Dedupe, TypeOK
  <2> SUFFICES ASSUME moved = {}, \A t \in Tasks : t[1] = cur => ~(Cardinality(queue[t]) > 1)
               PROVE  raced[cur] # {}
    BY DEF Overtaken
  <2>1. pc = "scan" /\ cur \in Issues
    BY <1>2 DEF Dedupe, TypeOK
  <2>2. ~Gone
    BY <2>1, DedupeFacts DEF ScanInv, Gone
  <2>3. Cardinality(Matches) > 1
    BY <1>2, <2>2 DEF Dedupe, Reject, Decide, Goto, Rejected, Imported, NoRecord
  <2>4. PICK f \in Matches, g \in Matches : f # g
    <3>1. Matches # {}
      <4>1. Cardinality({}) = 0
        BY FS_EmptySet
      <4> QED
        BY <2>3, <4>1
    <3>2. ASSUME NEW f PROVE Matches # {f}
      <4>1. Cardinality({f}) = 1
        BY FS_Singleton
      <4> QED
        BY <2>3, <4>1
    <3> QED
      BY <3>1, <3>2
  <2>5. /\ f \in listed /\ f[1][1] = cur /\ f \in Tasks \X Queues
        /\ g \in listed /\ g[1][1] = cur /\ g \in Tasks \X Queues
    BY DEF Matches, TypeOK
  <2>6. /\ f = <<<<cur, f[1][2]>>, f[2]>> /\ f[1][2] \in 1..MaxTasks
        /\ g = <<<<cur, g[1][2]>>, g[2]>> /\ g[1][2] \in 1..MaxTasks
    BY <2>5 DEF Tasks
  <2>7. f[2] \in queue[<<cur, f[1][2]>>] /\ g[2] \in queue[<<cur, g[1][2]>>]
    BY <2>2, <2>5, <2>6 DEF Gone
  <2>8. f[1][2] # g[1][2]
    <3> SUFFICES ASSUME f[1][2] = g[1][2] PROVE FALSE
      OBVIOUS
    <3>1. f[2] # g[2] /\ f[2] \in queue[f[1]] /\ g[2] \in queue[f[1]]
      BY <2>4, <2>6, <2>7
    <3>2. queue[f[1]] \subseteq Queues /\ f[1] \in Tasks
      BY <2>5 DEF TypeOK
    <3>3. IsFiniteSet(queue[f[1]])
      BY <3>2, QueuesFinite, FS_Subset
    <3>4. Cardinality(queue[f[1]]) \in Nat /\ Cardinality(queue[f[1]]) # 0
      BY <3>1, <3>3, FS_CardinalityType, FS_EmptySet
    <3>5. Cardinality(queue[f[1]]) # 1
      <4> SUFFICES ASSUME Cardinality(queue[f[1]]) = 1 PROVE FALSE
        OBVIOUS
      <4>1. \E q : queue[f[1]] = {q}
        BY <3>3, FS_Singleton
      <4> QED
        BY <3>1, <4>1
    <3> QED
      BY <2>5, <3>2, <3>4, <3>5
  <2>9. Slipped(cur)
    BY <2>1, <2>6, <2>7, <2>8, DedupeFacts DEF OneInv
  <2> QED
    BY <2>9 DEF Slipped
<1>3. ASSUME PostFails, Reject("comment") PROVE FALSE
  <2>1. Event /\ pc = "post" /\ say = "recovered"
    BY <1>3 DEF PostFails, Reject, Goto
  <2>2. events = 0
    BY <2>1, BoundsAssumption DEF Event
  <2> QED
    BY <2>1, <2>2 DEF CalmInv
<1> QED
  BY <1>1, <1>2, <1>3

\* What a step writes over a record is true as well.
LEMMA WrittenTrue ==
  ASSUME SingleStep, NEW i \in Issues, mem'[i].status = "rejected", mem'[i].code # "intake"
  PROVE  \/ ~HasTask(i) /\ ~(SubmitLinks /\ i = cur)
         \/ raced'[i] # {}
         \/ /\ mem[i].status = "rejected" /\ mem[i].code = mem'[i].code
            /\ ~(SubmitLinks /\ i = cur)
         \/ ledger[i].status = "rejected" /\ ledger[i].code = mem'[i].code /\ ~SubmitLinks
<1> USE StepFacts
<1> DEFINE Kept == /\ mem[i].status = "rejected" /\ mem[i].code = mem'[i].code
                   /\ ~(SubmitLinks /\ i = cur)
           Stored == ledger[i].status = "rejected" /\ ledger[i].code = mem'[i].code /\ ~SubmitLinks
           None == (~HasTask(i) /\ ~(SubmitLinks /\ i = cur)) \/ raced'[i] # {}
<1>1. ASSUME mem' = mem, ~SubmitLinks PROVE Kept
  BY <1>1
<1>2. ASSUME BeginPoll \/ SyncFails \/ Crash, mem' = ledger PROVE Stored
  BY <1>2 DEF BeginPoll, SyncFails, Crash, Ends, SubmitLinks, Goto
<1>3. CASE SubmitLinks
  <2>1. mem' = mem /\ mem[cur] = NoRecord
    BY <1>3 DEF SubmitLinks, LedgerInv
  <2> QED
    BY <2>1 DEF NoRecord
<1>4. ASSUME NEW r, NEW j \in Issues, mem' = [mem EXCEPT ![j] = r], ~SubmitLinks,
             r.status = "rejected" /\ r.code # "intake" => ~HasTask(j) \/ raced'[j] # {}
      PROVE  None \/ Kept
  BY <1>4 DEF TypeOK
<1>5. /\ Outcome.status # "rejected" /\ \A n : Imported(n).status # "rejected"
      /\ Rejected("intake").code = "intake"
  BY DEF Outcome, Imported, Rejected, NoRecord
<1>6. ASSUME NEW j \in Issues, RejectIssue(j) \/ RunRecovery(j) PROVE None \/ Kept
  <2>1. ~SubmitLinks
    BY <1>6 DEF RejectIssue, RunRecovery, At, SubmitLinks
  <2>2. CASE RejectIssue(j)
    BY <1>4, <2>1, <2>2, RejectionsTrue DEF RejectIssue, Decide
  <2>3. CASE RunRecovery(j)
    BY <1>4, <1>5, <2>1, <2>3 DEF RunRecovery, Decide
  <2> QED
    BY <1>6, <2>2, <2>3
<1>7. ASSUME Dedupe PROVE None \/ Kept
  <2>1. ~SubmitLinks /\ cur \in Issues
    BY <1>7 DEF Dedupe, SubmitLinks, TypeOK
  <2>2. CASE Reject("dedupe")
    BY <1>4, <1>7, <2>1, <2>2, RejectionsTrue DEF Reject, Decide
  <2>3. CASE \E n : mem' = [mem EXCEPT ![cur] = Imported(n)]
    BY <1>4, <1>5, <2>1, <2>3
  <2> QED
    BY <1>1, <1>7, <2>1, <2>2, <2>3 DEF Dedupe, Decide
<1>8. ASSUME SubmitRefused \/ SubmitReturns \/ SyncFails PROVE None \/ Kept \/ Stored
  <2>1. ~SubmitLinks /\ cur \in Issues
    BY <1>8 DEF SubmitRefused, SubmitReturns, SyncFails, SubmitLinks, Reject, Ends, Goto, TypeOK
  <2>2. CASE SubmitRefused \/ SubmitReturns \/ (SyncFails /\ Reject("intake"))
    BY <1>4, <1>5, <2>1, <2>2 DEF SubmitRefused, SubmitReturns, Reject, Decide
  <2> QED
    BY <1>2, <1>8, <2>2 DEF SyncFails, Ends
<1>9. ASSUME PostFails PROVE None \/ Kept
  <2>1. mem' = mem /\ ~SubmitLinks
    BY <1>9, RejectionsTrue DEF PostFails, SubmitLinks, Goto
  <2> QED
    BY <1>1, <2>1
<1>10. ASSUME NEW s \in Seen, Report(s) PROVE Kept
  <2>1. mem' = [mem EXCEPT ![cur].last = s] /\ pc = "report"
    BY <1>10 DEF Report, Remember
  <2>2. mem'[i].status = mem[i].status /\ mem'[i].code = mem[i].code
    BY <2>1 DEF TypeOK, Records
  <2> QED
    BY <2>1, <2>2 DEF SubmitLinks
<1>11. CASE mem' = mem
  BY <1>1, <1>3, <1>11
<1>12. CASE Restart \/ Turn \/ EndPoll \/ UNCHANGED vars
  BY <1>11, <1>12 DEF Restart, Turn, EndPoll, vars
<1>13. CASE \E j \in Issues : Skip(j) \/ BeginScan(j) \/ ToReport(j) \/ CloseIssue(j) \/ EditIssue(j)
  BY <1>11, <1>13 DEF Skip, BeginScan, ToReport, CloseIssue, EditIssue
<1>14. CASE (\E q \in Queues : ListQueue(q)) \/ Posted \/ ReportNothing \/ ReportFails
  BY <1>11, <1>14 DEF ListQueue, Posted, ReportNothing, ReportFails
<1>15. CASE QueueSteps /\ ~SubmitLinks
  BY <1>11, <1>15 DEF QueueSteps, CancelLink, CancelUnlink, CancelKilled, CancelLocate, Runner, Move
<1>16. CASE BeginPoll \/ Crash
  BY <1>2, <1>16 DEF BeginPoll, Crash, Ends
<1> QED
  BY <1>3, <1>6, <1>7, <1>8, <1>9, <1>10, <1>12, <1>13, <1>14, <1>15, <1>16
     DEF QueueSteps, Next, Gateway, ProcessIssue, Import, Reporting, Faults, Others, Cancel

LEMMA RejectNext == ASSUME SingleStep PROVE RejectInv'
<1> USE StepFacts
<1>1. ASSUME NEW i \in Issues, ~HasTask(i) \/ raced[i] # {}, ~(SubmitLinks /\ i = cur)
      PROVE  ~HasTask(i)' \/ raced'[i] # {}
  BY <1>1, HasTaskKept, RacedGrows
<1>2. ASSUME NEW i \in Issues, mem'[i].status = "rejected", mem'[i].code # "intake"
      PROVE  ~HasTask(i)' \/ raced'[i] # {}
  <2>1. CASE ~HasTask(i) /\ ~(SubmitLinks /\ i = cur)
    BY <1>1, <2>1
  <2>2. CASE /\ mem[i].status = "rejected" /\ mem[i].code = mem'[i].code
             /\ ~(SubmitLinks /\ i = cur)
    BY <1>1, <1>2, <2>2 DEF RejectInv, TrueRejection
  <2>3. CASE ledger[i].status = "rejected" /\ ledger[i].code = mem'[i].code /\ ~SubmitLinks
    BY <1>1, <1>2, <2>3 DEF RejectInv, TrueRejection
  <2> QED
    BY <1>2, <2>1, <2>2, <2>3, WrittenTrue
<1>3. ASSUME NEW i \in Issues, ledger'[i].status = "rejected", ledger'[i].code # "intake"
      PROVE  ~HasTask(i)' \/ raced'[i] # {}
  <2>1. ledger' = ledger \/ (pc = "poll" /\ ledger' = mem)
    BY LedgerSteps
  <2>2. ~HasTask(i) \/ raced[i] # {}
    BY <1>3, <2>1 DEF RejectInv, TrueRejection
  <2>3. ~(SubmitLinks /\ i = cur)
    <3> SUFFICES ASSUME SubmitLinks PROVE i # cur
      OBVIOUS
    <3>1. ledger' = ledger /\ ledger[cur].status = "none"
      BY NotSafe DEF SubmitLinks, LedgerInv, TypeOK
    <3> QED
      BY <1>3, <3>1
  <2> QED
    BY <1>1, <2>2, <2>3
<1> QED
  BY <1>2, <1>3 DEF RejectInv, TrueRejection

LEMMA InitSingle == Init => SingleInv
<1> SUFFICES ASSUME Init PROVE SingleInv
  OBVIOUS
<1>1. \A i \in Issues : ~HasTask(i)
  BY DEF Init, HasTask, Tasks
<1> QED
  BY <1>1 DEF Init, SingleInv, EditInv, CalmInv, RejectInv, TrueRejection

\* As long as one thing has gone wrong at most, SingleInv holds.
OneEventInv == events <= 1 => SingleInv

LEMMA SingleInvariance == Spec => [](IInv /\ DedupeInv /\ OneEventInv)
<1>1. Init => OneEventInv
  BY InitSingle DEF OneEventInv
<1>2. (IInv /\ DedupeInv) /\ (IInv /\ DedupeInv)' /\ OneEventInv /\ [Next]_vars => OneEventInv'
  <2> SUFFICES ASSUME IInv, DedupeInv, IInv', DedupeInv', OneEventInv, [Next]_vars, events' <= 1
               PROVE  SingleInv'
    BY DEF OneEventInv
  <2>1. DedupeStep
    BY DEF DedupeStep
  <2>2. (events' = events \/ events' = events + 1) /\ events \in Nat
    BY <2>1, DedupeFacts DEF Secure
  <2>3. SingleStep
    BY <2>1, <2>2 DEF OneEventInv, SingleStep
  <2> QED
    BY <2>3, EditNext, CalmNext, RejectNext DEF SingleInv
<1> QED
  BY DedupeInvariance, <1>1, <1>2, PTL DEF Spec

\* What the gateway has recorded is so: its record names a task that exists, and the state
\* it remembers was posted, however much goes wrong; and as long as one thing has, an issue
\* it has rejected by itself has no task, or files moved while it was looked for.
THEOREM LedgerIsTrue == Spec => []TruthfulLedger
<1>1. IInv /\ OneEventInv => TruthfulLedger
  <2> SUFFICES ASSUME IInv, OneEventInv, NEW i \in Issues
               PROVE  /\ mem[i].status = "imported" => queue[<<i, mem[i].task>>] # {}
                      /\ mem[i].last # "none" => mem[i].last \in told[i]
                      /\ mem[i].status = "rejected" /\ mem[i].code # "intake" /\ events <= 1 =>
                           TasksOf(i) = {} \/ raced[i] # {}
    BY DEF TruthfulLedger
  <2>1. TrueRecord(i, mem[i])
    BY DEF IInv, LedgerInv
  <2>2. ~HasTask(i) => TasksOf(i) = {}
    BY DEF HasTask, TasksOf
  <2>3. events <= 1 => TrueRejection(i, mem[i])
    BY DEF OneEventInv, SingleInv, RejectInv
  <2> QED
    BY <2>1, <2>2, <2>3 DEF TrueRecord, TrueRejection
<1> QED
  BY <1>1, SingleInvariance, PTL

\* The recovery script of an issue runs once more for each event at most, however many
\* there are: only an event loses the record of a run.
THEOREM RecoveriesAreBounded == Spec => [](\A i \in Issues : runs[i] <= events + 1)
<1>1. IInv => \A i \in Issues : runs[i] <= events + 1
  BY DEF IInv, RunsInv
<1> QED
  BY <1>1, Invariance, PTL

\* The tasks the state file names exist and the states it holds as reported were posted,
\* however many things go wrong.
THEOREM RecordsAreTrue == Spec => [](\A i \in Issues : TrueRecord(i, ledger[i]))
<1>1. IInv => \A i \in Issues : TrueRecord(i, ledger[i])
  BY DEF IInv, LedgerInv
<1> QED
  BY <1>1, Invariance, PTL

=============================================================================
