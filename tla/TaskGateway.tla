----------------------------- MODULE TaskGateway -----------------------------
(***************************************************************************)
(* The GitHub task gateway (github_task_gateway.py with the routes that    *)
(* its service modules put in front of process_issue), the creation and    *)
(* the cancellation of submit_task.py, and the queue directories between   *)
(* them, in which the pipeline moves tasks at the same time.               *)
(*                                                                         *)
(* One poll of the gateway reads its state file, looks at every open issue *)
(* of the repository, reports every imported task, and saves its state if  *)
(* something changed.  An issue without a record is imported: the queue    *)
(* directories are listed one after another for a task that carries the    *)
(* issue's marker, and only if there is none a task is created.            *)
(*                                                                         *)
(* What can go wrong is counted in events: the gateway or a cancel command *)
(* ends half way, a call of GitHub fails (before or after it had its       *)
(* effect), the directory cannot be synced, the owner edits the issue.     *)
(* That a file moves while the directories are being listed is none: the   *)
(* runners move tasks all the time.                                        *)
(***************************************************************************)
EXTENDS Integers, FiniteSets

CONSTANTS
  Issues,
  Cancellers,  \* runs of submit_task.py cancel, each of one command
  MaxTasks,    \* bound: tasks of one issue
  MaxEvents    \* bound: events

ASSUME IssuesAssumption == Issues # {}
ASSUME BoundsAssumption == MaxTasks \in Nat \ {0} /\ MaxEvents \in Nat

VARIABLES
  queue,    \* the queues that hold a file of the task
  form,     \* what an issue asks for, in the eyes of authorized_issue and parse_contract
  open,     \* the open issues
  ledger,   \* the state file of the gateway
  mem,      \* the state it has loaded
  pc,       \* where the gateway is
  phase,    \* which of the two loops of poll_once it is in
  cur,      \* the issue it is at
  say,      \* the comment it is about to post
  todo,     \* what is left of the loop
  changed,  \* the flag that decides whether it saves
  left,     \* the directories the scan has not listed
  listed,   \* the files it has found
  moved,    \* history: the tasks whose files have moved since it began
  raced,    \* history: the tasks that moved during a scan for an issue
  told,     \* history: the states reported on each issue
  runs,     \* how often the recovery script ran for each issue
  cancel,   \* the cancel commands
  events    \* how much of the bound is used

scanVars   == <<left, listed, moved, raced>>
pollVars   == <<pc, phase, cur, say, todo, changed>>
githubVars == <<form, open, told>>
vars == <<queue, githubVars, ledger, mem, pollVars, scanVars, runs, cancel, events>>

-----------------------------------------------------------------------------
Tasks  == Issues \X (1..MaxTasks)

\* A task is in "active" while a runner holds it; "review" stands for all the queues in
\* which it waits for the next one: review, pending_codex, approved, blocked, failed.
Queues == {"pending", "active", "review", "completed", "cancelled"}

\* What a report says of a task: that it has come to its end, or anything else: in which
\* queue it is under way, or that it is found in several or in none.
Seen     == {"completed", "cancelled", "underway"}
Comments == {"imported", "recovered", "rejected", "outcome"}

\* By its title an issue is a task, of any version of the contract, or it asks for the
\* recovery of the KOL checkout.
Forms == {"task", "recovery", "invalid"}

\* A record of the state file: the task it names, and the state last reported.
NoRecord == [status |-> "none", task |-> 0, last |-> "none", code |-> "none"]
Imported(n)    == [NoRecord EXCEPT !.status = "imported", !.task = n]
Rejected(code) == [NoRecord EXCEPT !.status = "rejected", !.code = code]
Outcome        == [NoRecord EXCEPT !.status = "outcome"]

Records == [status: {"none", "imported", "rejected", "outcome"}, task: 0..MaxTasks,
            last: Seen \cup {"none"}, code: {"none", "contract", "dedupe", "intake", "comment"}]

Event == events < MaxEvents /\ events' = events + 1

\* A file of the task is linked, unlinked or renamed.
Moves(t) == moved' = IF pc = "scan" THEN moved \cup {t} ELSE moved

Goto(label) == pc' = label

-----------------------------------------------------------------------------
(* poll_once and main *)

\* The process ends; only the state file is left of what it knew.
Ends ==
  /\ Goto("down")
  /\ mem' = ledger
  /\ say' = "none" /\ todo' = {} /\ left' = {} /\ listed' = {} /\ moved' = {}

\* systemd starts it again.
Restart ==
  /\ pc = "down" /\ Goto("idle")
  /\ UNCHANGED <<queue, githubVars, ledger, mem, phase, cur, say, todo, changed, scanVars,
                 runs, cancel, events>>

\* Mutant: a state file that cannot be read counts as empty.
BeginPoll_Forgets ==
  /\ pc = "idle" /\ Goto("poll")
  /\ mem' = [i \in Issues |-> NoRecord]
  /\ phase' = "issues"
  /\ todo' = open
  /\ changed' = FALSE
  /\ UNCHANGED <<queue, githubVars, ledger, cur, say, scanVars, runs, cancel, events>>

BeginPoll ==
  /\ pc = "idle" /\ Goto("poll")
  /\ mem' = ledger
  /\ phase' = "issues"
  /\ todo' = open
  /\ changed' = FALSE
  /\ UNCHANGED <<queue, githubVars, ledger, cur, say, scanVars, runs, cancel, events>>

\* Mutant: only tasks of open issues are reported.
Reportable_Open == {i \in open : mem[i].task # 0}

Reportable == {i \in Issues : mem[i].task # 0}

Turn ==
  /\ pc = "poll" /\ phase = "issues" /\ todo = {}
  /\ phase' = "reports"
  /\ todo' = Reportable
  /\ UNCHANGED <<queue, githubVars, ledger, mem, pc, cur, say, changed, scanVars, runs,
                 cancel, events>>

\* save_state replaces the file in one step, and only if something changed.
EndPoll ==
  /\ pc = "poll" /\ phase = "reports" /\ todo = {} /\ Goto("idle")
  /\ ledger' = IF changed THEN mem ELSE ledger
  /\ UNCHANGED <<queue, githubVars, mem, phase, cur, say, todo, changed, scanVars, runs,
                 cancel, events>>

At(i, label) ==
  /\ pc = "poll" /\ i \in todo
  /\ todo' = todo \ {i}
  /\ cur' = i
  /\ Goto(label)
  /\ UNCHANGED <<queue, githubVars, ledger, phase, changed, cancel>>

-----------------------------------------------------------------------------
(* process_issue *)

\* The record is made in memory, then the comment is posted.
Decide(i, record, comment) ==
  /\ mem' = [mem EXCEPT ![i] = record]
  /\ say' = comment

Skip(i) ==
  /\ At(i, "poll")
  /\ mem[i].status \in {"rejected", "outcome"}
  /\ UNCHANGED <<mem, say, scanVars, runs, events>>

ToReport(i) ==
  /\ At(i, "report")
  /\ mem[i].task # 0
  /\ UNCHANGED <<mem, say, scanVars, runs, events>>

\* reject_once for another author, or parse_contract raises.
RejectIssue(i) ==
  /\ At(i, "post")
  /\ mem[i] = NoRecord /\ form[i] = "invalid"
  /\ Decide(i, Rejected("contract"), "rejected")
  /\ UNCHANGED <<scanVars, runs, events>>

\* Mutant: the outcome is recorded only after it was posted, and so never.
RunRecovery_NoRecord(i) ==
  /\ At(i, "post")
  /\ mem[i] = NoRecord /\ form[i] = "recovery"
  /\ runs' = [runs EXCEPT ![i] = @ + 1]
  /\ say' = "outcome"
  /\ UNCHANGED <<mem, scanVars, events>>

\* process_kol_recovery_issue: whatever the script says is recorded.
RunRecovery(i) ==
  /\ At(i, "post")
  /\ mem[i] = NoRecord /\ form[i] = "recovery"
  /\ runs' = [runs EXCEPT ![i] = @ + 1]
  /\ Decide(i, Outcome, "outcome")
  /\ UNCHANGED <<scanVars, events>>

BeginScan(i) ==
  /\ At(i, "scan")
  /\ mem[i] = NoRecord /\ form[i] = "task"
  /\ left' = Queues
  /\ listed' = {}
  /\ moved' = {}
  /\ UNCHANGED <<raced, mem, say, runs, events>>

\* _queue_task_files, in whatever order the directories come.
ListQueue(q) ==
  /\ pc = "scan" /\ q \in left
  /\ left' = left \ {q}
  /\ listed' = listed \cup {<<t, q>> : t \in {u \in Tasks : q \in queue[u]}}
  /\ UNCHANGED <<queue, githubVars, ledger, mem, pollVars, moved, raced, runs, cancel, events>>

Gone    == \E f \in listed : f[2] \notin queue[f[1]]
Matches == {f \in listed : f[1][1] = cur}

\* The tasks that moved while the scan was under way, or stand in two directories.
Overtaken ==
  moved \cup {t \in Tasks : t[1] = cur /\ Cardinality(queue[t]) > 1}

Reject(code) == Decide(cur, Rejected(code), "rejected") /\ Goto("post")

\* Mutant: an existing task is not looked for.
Dedupe_Never ==
  /\ pc = "scan" /\ left = {}
  /\ Goto("submit")
  /\ UNCHANGED <<queue, githubVars, ledger, mem, phase, cur, say, todo, changed, scanVars,
                 runs, cancel, events>>

\* find_existing_task_for_issue, when it reads the files it has found.
Dedupe ==
  /\ pc = "scan" /\ left = {}
  /\ \/ (Gone \/ Cardinality(Matches) > 1) /\ Reject("dedupe")
     \/ /\ ~Gone
        /\ \E f \in Matches : Matches = {f} /\ Decide(cur, Imported(f[1][2]), "recovered")
        /\ Goto("post")
     \/ ~Gone /\ Matches = {} /\ Goto("submit") /\ UNCHANGED <<mem, say>>
  /\ raced' = [raced EXCEPT ![cur] = @ \cup Overtaken]
  /\ listed' = {} /\ moved' = {}
  /\ UNCHANGED <<queue, githubVars, ledger, phase, cur, todo, changed, left, runs, cancel,
                 events>>

-----------------------------------------------------------------------------
(* submit_contract, and submit_task.py create behind it *)

SubmitRefused ==
  /\ pc = "submit"
  /\ Reject("intake")
  /\ UNCHANGED <<queue, githubVars, ledger, phase, cur, todo, changed, scanVars, runs,
                 cancel, events>>

\* atomic_create, up to its os.link.
SubmitLinks ==
  /\ pc = "submit" /\ Goto("created")
  /\ \E n \in 1..MaxTasks :
       /\ queue[<<cur, n>>] = {}
       /\ \A k \in 1..(n - 1) : queue[<<cur, k>>] # {}
       /\ queue' = [queue EXCEPT ![<<cur, n>>] = {"pending"}]
  /\ UNCHANGED <<githubVars, ledger, mem, phase, cur, say, todo, changed, scanVars, runs,
                 cancel, events>>

Newest == CHOOSE n \in 1..MaxTasks :
            queue[<<cur, n>>] # {} /\ \A k \in (n + 1)..MaxTasks : queue[<<cur, k>>] = {}

SubmitReturns ==
  /\ pc = "created" /\ Goto("post")
  /\ Decide(cur, Imported(Newest), "imported")
  /\ UNCHANGED <<queue, githubVars, ledger, phase, cur, todo, changed, scanVars, runs,
                 cancel, events>>

\* The fsync after the link fails.  The child reports it as a refusal; where the
\* contract is of version 4 the gateway itself calls atomic_create, and ends.
SyncFails ==
  /\ pc = "created" /\ Event
  /\ \/ Reject("intake") /\ UNCHANGED <<todo, left, listed, moved>>
     \/ Ends
  /\ UNCHANGED <<queue, githubVars, ledger, phase, cur, changed, raced, runs, cancel>>

-----------------------------------------------------------------------------
(* post_comment *)

\* Mutant: a posted rejection is not a change.
Posted_NoChange ==
  /\ pc = "post" /\ Goto("poll")
  /\ changed' = (changed \/ say = "imported")
  /\ say' = "none"
  /\ UNCHANGED <<queue, githubVars, ledger, mem, phase, cur, todo, scanVars, runs, cancel,
                 events>>

Posted ==
  /\ pc = "post" /\ Goto("poll")
  /\ changed' = TRUE
  /\ say' = "none"
  /\ UNCHANGED <<queue, githubVars, ledger, mem, phase, cur, todo, scanVars, runs, cancel,
                 events>>

\* Mutant: the comment on an import stands inside the try as well.
PostFails_InTry ==
  /\ pc = "post" /\ Event
  /\ IF say \in {"recovered", "imported"}
     THEN Reject("dedupe")
     ELSE Goto("poll") /\ say' = "none" /\ UNCHANGED mem
  /\ UNCHANGED <<queue, githubVars, ledger, phase, cur, todo, changed, scanVars, runs, cancel>>

\* The comment on a recovered task stands inside the try of process_issue: its
\* failure rejects the issue.  Any other failure leaves process_issue, which then
\* does not report a change.
PostFails ==
  /\ pc = "post" /\ Event
  /\ IF say = "recovered" THEN Reject("comment") ELSE Goto("poll") /\ say' = "none" /\ UNCHANGED mem
  /\ UNCHANGED <<queue, githubVars, ledger, phase, cur, todo, changed, scanVars, runs, cancel>>

-----------------------------------------------------------------------------
(* report_task_state *)

Told(state) == told' = [told EXCEPT ![cur] = @ \cup {state}]

\* authoritative_task_state
StateOf(t) ==
  CASE queue[t] = {"completed"} -> "completed"
    [] queue[t] = {"cancelled"} -> "cancelled"
    [] OTHER -> "underway"

CurTask == <<cur, mem[cur].task>>

Remember(state) == mem' = [mem EXCEPT ![cur].last = state] /\ changed' = TRUE

ReportNothing ==
  /\ pc = "report" /\ Goto("poll")
  /\ StateOf(CurTask) = mem[cur].last
  /\ UNCHANGED <<queue, githubVars, ledger, mem, phase, cur, say, todo, changed, scanVars,
                 runs, cancel, events>>

\* The directories are listed one by one here too: if the task moves on meanwhile, only
\* the copy of a cancel command may be seen.
Misread(state) ==
  /\ queue[CurTask] \cap {"pending", "active", "review"} # {}
  /\ state = "cancelled" /\ "cancelled" \in queue[CurTask]

Report(state) ==
  /\ pc = "report" /\ Goto("poll")
  /\ state # mem[cur].last
  /\ state = StateOf(CurTask) \/ Misread(state)
  /\ Told(state)
  /\ Remember(state)
  /\ UNCHANGED <<queue, form, open, ledger, phase, cur, say, todo, scanVars, runs, cancel,
                 events>>

\* Mutant: the state is remembered before it is posted.
ReportFails_Remembers ==
  /\ pc = "report" /\ Event /\ Goto("poll")
  /\ Remember(StateOf(CurTask))
  /\ UNCHANGED <<queue, form, open, told, ledger, phase, cur, say, todo, scanVars, runs, cancel>>

ReportFails ==
  /\ pc = "report" /\ Event /\ Goto("poll")
  /\ Told(StateOf(CurTask)) \/ UNCHANGED told
  /\ UNCHANGED <<queue, form, open, ledger, mem, phase, cur, say, todo, changed, scanVars,
                 runs, cancel>>

\* The process is killed, or a timeout or an OSError leaves main.
Crash ==
  /\ pc # "down" /\ Event /\ Ends
  /\ UNCHANGED <<queue, githubVars, ledger, phase, cur, changed, raced, runs, cancel>>

-----------------------------------------------------------------------------
(* submit_task.py cancel *)

Step(c, t, label) == cancel' = [cancel EXCEPT ![c] = [pc |-> label, task |-> t]]

CancelLocate(c, t) ==
  /\ cancel[c].pc = "idle"
  /\ queue[t] = {"pending"}
  /\ Step(c, t, "link")
  /\ UNCHANGED <<queue, githubVars, ledger, mem, pollVars, scanVars, runs, events>>

\* os.link, which does not replace.
CancelLink(c) ==
  LET t == cancel[c].task IN
  /\ cancel[c].pc = "link"
  /\ IF "pending" \in queue[t] /\ "cancelled" \notin queue[t]
     THEN /\ queue' = [queue EXCEPT ![t] = @ \cup {"cancelled"}]
          /\ Step(c, t, "unlink")
          /\ Moves(t)
     ELSE Step(c, t, "failed") /\ UNCHANGED <<queue, moved>>
  /\ UNCHANGED <<githubVars, ledger, mem, pollVars, left, listed, raced, runs, events>>

\* Mutant: the copy stays when the task has moved on.
CancelUnlink_KeepsCopy(c) ==
  LET t == cancel[c].task IN
  /\ cancel[c].pc = "unlink" /\ Moves(t)
  /\ queue' = [queue EXCEPT ![t] = @ \ {"pending"}]
  /\ Step(c, t, "done")
  /\ UNCHANGED <<githubVars, ledger, mem, pollVars, left, listed, raced, runs, events>>

\* source.unlink; if a runner has taken the file meanwhile, the copy goes.
CancelUnlink(c) ==
  LET t == cancel[c].task IN
  /\ cancel[c].pc = "unlink" /\ Moves(t)
  /\ IF "pending" \in queue[t]
     THEN queue' = [queue EXCEPT ![t] = @ \ {"pending"}] /\ Step(c, t, "done")
     ELSE queue' = [queue EXCEPT ![t] = @ \ {"cancelled"}] /\ Step(c, t, "failed")
  /\ UNCHANGED <<githubVars, ledger, mem, pollVars, left, listed, raced, runs, events>>

CancelKilled(c) ==
  /\ cancel[c].pc = "unlink" /\ Event
  /\ Step(c, cancel[c].task, "killed")
  /\ UNCHANGED <<queue, githubVars, ledger, mem, pollVars, scanVars, runs>>

-----------------------------------------------------------------------------
(* The pipeline and the owner *)

\* safe_move and its like: a rename that refuses to replace.
Move(t, from, to) ==
  /\ from \in queue[t] /\ to \notin queue[t]
  /\ queue' = [queue EXCEPT ![t] = (@ \ {from}) \cup {to}]
  /\ Moves(t)
  /\ UNCHANGED <<githubVars, ledger, mem, pollVars, left, listed, raced, runs, cancel, events>>

\* Who moves tasks when: the runners of the stages, auto-repair and the publisher.
Runner(t) ==
  \/ Move(t, "pending", "active")
  \/ Move(t, "active", "review") \/ Move(t, "review", "active")
  \/ Move(t, "review", "completed")

CloseIssue(i) ==
  /\ i \in open
  /\ open' = open \ {i}
  /\ UNCHANGED <<queue, form, told, ledger, mem, pollVars, scanVars, runs, cancel, events>>

EditIssue(i) ==
  /\ Event
  /\ \E f \in Forms \ {form[i]} : form' = [form EXCEPT ![i] = f]
  /\ UNCHANGED <<queue, open, told, ledger, mem, pollVars, scanVars, runs, cancel>>

-----------------------------------------------------------------------------
Init ==
  /\ queue = [t \in Tasks |-> {}]
  /\ form \in [Issues -> Forms]
  /\ open = Issues
  /\ ledger = [i \in Issues |-> NoRecord]
  /\ mem = ledger
  /\ pc = "down" /\ phase = "issues" /\ say = "none" /\ changed = FALSE
  /\ cur = CHOOSE i \in Issues : TRUE
  /\ todo = {} /\ left = {} /\ listed = {} /\ moved = {}
  /\ raced = [i \in Issues |-> {}]
  /\ told = [i \in Issues |-> {}]
  /\ runs = [i \in Issues |-> 0]
  /\ cancel = [c \in Cancellers |-> [pc |-> "idle", task |-> CHOOSE t \in Tasks : TRUE]]
  /\ events = 0

ProcessIssue ==
  /\ phase = "issues"
  /\ \E i \in Issues : Skip(i) \/ RejectIssue(i) \/ RunRecovery(i) \/ BeginScan(i)

Import == (\E q \in Queues : ListQueue(q)) \/ Dedupe \/ SubmitRefused \/ SubmitLinks
          \/ SubmitReturns \/ Posted

Reporting == (\E i \in Issues : ToReport(i)) \/ ReportNothing \/ \E s \in Seen : Report(s)

Gateway == Restart \/ BeginPoll \/ Turn \/ EndPoll \/ ProcessIssue \/ Import \/ Reporting

Faults == SyncFails \/ PostFails \/ ReportFails \/ Crash \/ \E c \in Cancellers : CancelKilled(c)

Cancel(c) == CancelLink(c) \/ CancelUnlink(c)

Others ==
  \/ \E c \in Cancellers, t \in Tasks : CancelLocate(c, t)
  \/ \E t \in Tasks : Runner(t)
  \/ \E i \in Issues : CloseIssue(i) \/ EditIssue(i)

Next == Gateway \/ Faults \/ Others \/ \E c \in Cancellers : Cancel(c)

Spec == Init /\ [][Next]_vars

\* systemd keeps the gateway running (Restart=on-failure), its loop has no end, and
\* a command that was started ends.
FairSpec == Spec /\ WF_vars(Gateway) /\ \A c \in Cancellers : WF_vars(Cancel(c))

-----------------------------------------------------------------------------
(* Properties *)

TypeOK ==
  /\ queue \in [Tasks -> SUBSET Queues]
  /\ form \in [Issues -> Forms]
  /\ open \subseteq Issues
  /\ {ledger, mem} \subseteq [Issues -> Records]
  /\ pc \in {"down", "idle", "poll", "scan", "submit", "created", "post", "report"}
  /\ phase \in {"issues", "reports"}
  /\ cur \in Issues
  /\ say \in Comments \cup {"none"}
  /\ pc = "post" => say # "none" /\ mem[cur].status # "none"
  /\ pc = "report" => mem[cur].status = "imported"
  /\ todo \subseteq Issues
  /\ changed \in BOOLEAN
  /\ left \subseteq Queues
  /\ listed \subseteq Tasks \X Queues
  /\ moved \subseteq Tasks
  /\ raced \in [Issues -> SUBSET Tasks]
  /\ told \in [Issues -> SUBSET Seen]
  /\ runs \in [Issues -> Nat]
  /\ cancel \in [Cancellers -> [pc: {"idle", "link", "unlink", "done", "failed", "killed"},
                                task: Tasks]]
  /\ events \in 0..MaxEvents

TasksOf(i) == {n \in 1..MaxTasks : queue[<<i, n>>] # {}}

\* "Deduplicates by GitHub issue even after a crash between task creation and
\* gateway-state persistence" (github_task_gateway.py:15-16).
OneTaskEver == \A i \in Issues : Cardinality(TasksOf(i)) <= 1

\* However often a crash or a failed call loses the record of a task, its issue gets
\* another one only where a runner or a cancel command moved the first while
\* find_existing_task_for_issue was listing the directories; and its recovery script
\* runs once, and again only after something failed.
OneTaskPerIssue ==
  \A i \in Issues :
    /\ Cardinality(TasksOf(i)) > 1 => events > 0 /\ \E n \in TasksOf(i) : <<i, n>> \in raced[i]
    /\ runs[i] <= 1 + events

\* A task whose cancellation was reported as done is in cancelled and stays there,
\* and one whose cancellation failed is not left there by it; a runner may take the
\* task at any point between the two (move_cancel).
CancelIsFinal ==
  \A c \in Cancellers :
    LET t == cancel[c].task
    IN /\ cancel[c].pc = "done" => queue[t] = {"cancelled"}
       /\ "cancelled" \in queue[t] /\ Cardinality(queue[t]) > 1 =>
            \E d \in Cancellers : cancel[d].task = t /\ cancel[d].pc \in {"unlink", "killed"}

\* What the gateway has recorded is so, whichever single thing goes wrong: the task
\* of a record exists, the state it holds as reported was posted (report_task_state
\* posts before it remembers), and an issue it rejects by itself, with the comment "No
\* task was enqueued", has no task, unless files moved while it was looked for.  (What
\* the intake says is another matter: it may fail after it has created the task.)
TruthfulLedger ==
  \A i \in Issues :
    /\ mem[i].status = "imported" => queue[<<i, mem[i].task>>] # {}
    /\ mem[i].last # "none" => mem[i].last \in told[i]
    /\ mem[i].status = "rejected" /\ mem[i].code # "intake" /\ events <= 1 =>
         TasksOf(i) = {} \/ raced[i] # {}

\* No task is lost: once it is in a queue it is always in one, and a record in the
\* state file always keeps its task.
NeverLost ==
  [][/\ \A t \in Tasks : queue[t] # {} => queue'[t] # {}
     /\ \A i \in Issues : ledger[i].task # 0 => ledger'[i].task = ledger[i].task]_vars

\* The state that the end of an imported task is to be reported with.
End(i) ==
  IF ledger[i].task = 0 THEN "none" ELSE StateOf(<<i, ledger[i].task>>)

\* An open issue is answered: it gets a record in the state file; and the end of its
\* task is reported on it, closed or not.
Answered ==
  \A i \in Issues :
    /\ i \in open ~> (ledger[i].status # "none" \/ i \notin open)
    /\ End(i) \in {"completed", "cancelled"} ~> End(i) \in told[i]

=============================================================================
