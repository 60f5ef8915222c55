------------------------------ MODULE Campaign ------------------------------
(***************************************************************************)
(* campaign_runner.py: a campaign is a plan of steps.  Each step becomes a *)
(* task of the pipeline; once it is approved, the tick of the campaign     *)
(* commits it on its work branch, merges that into the local integration   *)
(* branch, moves the task to completed and creates the task of the next    *)
(* step.  The progress is kept in one state file per campaign.             *)
(*                                                                         *)
(* The supervisor ticks every campaign at the end of a cycle, in its own   *)
(* process; the owner may start or tick a campaign from the command line   *)
(* at any moment.  A flock per campaign keeps two ticks of one campaign    *)
(* apart; nothing keeps a tick of the owner and the stages apart.          *)
(***************************************************************************)
EXTENDS Integers, FiniteSets

CONSTANTS
  Campaigns,  \* numbers, in the order of sorted(glob("*.json"))
  Steps,      \* number of steps of every plan
  MaxEvents   \* bound: crashes, failing commands, ticks of the owner

ASSUME CampaignsAssumption == Campaigns \subseteq Nat \ {0}
ASSUME StepsAssumption == Steps \in Nat \ {0}
ASSUME MaxEventsAssumption == MaxEvents \in Nat

VARIABLES
  queue,    \* the queue directories that hold the file of each task
  head,     \* the branch checked out in the project
  tree,     \* the task whose uncommitted candidate is in the checkout
  held,     \* the candidates in the history of each branch
  building, \* the task Stage 01B is at work on, between its guard and its apply
  due,      \* the cycle is past Stage 01B: the next is the audit, then the tick
  saved,    \* the state file of each campaign
  expired,  \* the campaigns whose deadline has passed
  todo,     \* the campaigns the supervisor has yet to tick in this cycle
  pc, at,   \* where each process is, and in the tick of which campaign
  mem,      \* the state a process has loaded
  events,   \* how much of the bound is used
  audited   \* history: the tree Stage 01C saw when it approved each task

projectVars == <<head, tree, held>>
tickVars    == <<todo, pc, at, mem>>
vars == <<queue, projectVars, building, due, saved, expired, tickVars, events, audited>>

-----------------------------------------------------------------------------
Procs == {"supervisor", "owner"}
Tasks == Campaigns \X (1..Steps)
None  == <<0, 0>>

\* A work branch has the name of its task.
Integration == <<0, 1>>
Base        == <<0, 2>>
Branches    == Tasks \cup {Integration, Base}

\* "work" stands for active, review and pending_codex, "stopped" for blocked,
\* failed and cancelled: a tick does nothing with a task in any of them.
Queues == {"pending", "work", "stopped", "approved", "completed"}

FinalStates == {"completed", "deadline_reached", "blocked"}

\* started_at and deadline are expired; current_task_id is the task of
\* current_index or null; evidence is the history of completed_steps.
States == [state: {"none", "active"} \cup FinalStates, index: 1..(Steps + 1),
           current: BOOLEAN]

NotStarted == [state |-> "none", index |-> 1, current |-> FALSE]
Started    == [NotStarted EXCEPT !.state = "active"]

\* What a tick knows: the state, and whether the deadline had passed when it began.
Idle == [file |-> NotStarted, late |-> FALSE, changed |-> FALSE]

Task(p) == <<at[p], mem[p].file.index>>

\* Mutant: a tick does not take the lock.
Locked_Never(c) == c \in {}

\* acquire_lock
Locked(c) == \E p \in Procs : at[p] = c

Event == events < MaxEvents /\ events' = events + 1

-----------------------------------------------------------------------------
(* The stages, as far as a campaign task is concerned: TaskPipeline is the   *)
(* detailed model.  They run while the supervisor ticks no campaign.         *)

Stages == at["supervisor"] = 0 /\ todo = {}

\* 01A and the guard of 01B: a dirty checkout refuses the task.
Build(t) ==
  /\ Stages /\ building = None /\ ~due
  /\ queue[t] = {"pending"}
  /\ due' = TRUE
  /\ IF tree = None
     THEN building' = t /\ queue' = [queue EXCEPT ![t] = {"work"}]
     ELSE building' = None /\ queue' = [queue EXCEPT ![t] = {"stopped"}]
  /\ UNCHANGED <<projectVars, saved, expired, tickVars, events, audited>>

\* ensure_work_branch and apply_validated_changes; the candidate may turn out
\* equal to what the branch holds.  A checkout the owner's tick dirtied is refused.
Apply ==
  /\ building # None
  /\ tree = None
  /\ head' = building
  /\ held' = [held EXCEPT ![building] = held[Integration]]
  /\ tree' \in {building, None}
  /\ building' = None
  /\ UNCHANGED <<queue, due, saved, expired, tickVars, events, audited>>

\* A failure of any kind; the exhausted repair of a failed check cleans up and goes
\* back to the task's Base-Branch, which is the campaign's integration branch.
Stop(t) ==
  /\ Stages /\ building \in {None, t}
  /\ queue[t] = {"work"}
  /\ queue' = [queue EXCEPT ![t] = {"stopped"}]
  /\ building' = None
  /\ \/ UNCHANGED <<head, tree>>
     \/ tree = t /\ head = t /\ tree' = None /\ head' = Integration
  /\ UNCHANGED <<held, due, saved, expired, tickVars, events, audited>>

\* 01C: on the branch of the task.
Approve(t) ==
  /\ Stages /\ building = None
  /\ queue[t] = {"work"}
  /\ head = t
  /\ queue' = [queue EXCEPT ![t] = {"approved"}]
  /\ audited' = [audited EXCEPT ![t] = IF tree = None THEN "nothing" ELSE "change"]
  /\ due' = TRUE
  /\ UNCHANGED <<projectVars, building, saved, expired, tickVars, events>>

-----------------------------------------------------------------------------
(* A tick of a campaign by the process p *)

Goto(p, step) == pc' = [pc EXCEPT ![p] = step]

Leave(p) ==
  /\ Goto(p, "idle")
  /\ at' = [at EXCEPT ![p] = 0]
  /\ mem' = [mem EXCEPT ![p] = Idle]

\* A CampaignError is Leave alone: tick_all logs it and goes on to the next
\* campaign.  Any other exception ends the process: the service manager starts the
\* supervisor again, from the first stage.
Die(p) ==
  /\ Leave(p)
  /\ todo' = IF p = "supervisor" THEN {} ELSE todo

Enter(p, c, step, file) ==
  /\ Goto(p, step)
  /\ at' = [at EXCEPT ![p] = c]
  /\ mem' = [mem EXCEPT ![p] = [Idle EXCEPT !.file = file, !.late = c \in expired]]

\* start_campaign of a new campaign; of a known one it is a tick.
StartCampaign(c) ==
  /\ at["owner"] = 0
  /\ ~Locked(c)
  /\ saved[c].state = "none"
  /\ Enter("owner", c, "create", Started)
  /\ UNCHANGED <<queue, projectVars, building, due, saved, expired, todo, events, audited>>

InQueue(q) == {t \in Tasks : queue[t] = {q}}

\* run_cycle calls tick_all when the stages are through: 01B took a pending task,
\* and 01C gave its verdict on what 01B left.  A task that is at work all the same
\* was rejected, or left in active by a kill: MaxEvents bounds these too.
TickAll ==
  /\ Stages /\ building = None
  /\ due \/ InQueue("pending") = {}
  /\ \/ InQueue("work") = {} /\ UNCHANGED events
     \/ InQueue("work") # {} /\ Event
  /\ todo' = {c \in Campaigns : saved[c].state # "none"}
  /\ due' = FALSE
  /\ due \/ todo' # {}
  /\ UNCHANGED <<queue, projectVars, building, saved, expired, pc, at, mem, audited>>

NextTick(c) == at["supervisor"] = 0 /\ c \in todo /\ \A d \in todo : c <= d

TickBegin(p, c) ==
  /\ saved[c].state \notin {"none"} \cup FinalStates
  /\ ~Locked(c)
  /\ \/ p = "supervisor" /\ NextTick(c) /\ todo' = todo \ {c}
        /\ UNCHANGED events
     \/ p = "owner" /\ at[p] = 0 /\ Event /\ UNCHANGED todo
  /\ Enter(p, c, "locate", saved[c])
  /\ UNCHANGED <<queue, projectVars, building, due, saved, expired, audited>>

\* A final campaign, or one the owner is ticking.
TickSkip(c) ==
  /\ NextTick(c)
  /\ Locked(c) \/ saved[c].state \in FinalStates
  /\ todo' = todo \ {c}
  /\ UNCHANGED <<queue, projectVars, building, due, saved, expired, pc, at, mem, events, audited>>

Ready(t) == queue[t] = {"approved"}

\* task_location
Locate(p) ==
  /\ pc[p] = "locate"
  /\ \/ ~mem[p].file.current /\ Goto(p, "create") /\ UNCHANGED <<at, mem>>
     \/ /\ mem[p].file.current
        /\ \/ Cardinality(queue[Task(p)]) > 1 /\ Leave(p)
           \/ Ready(Task(p)) /\ Goto(p, "branch") /\ UNCHANGED <<at, mem>>
           \/ /\ Cardinality(queue[Task(p)]) <= 1 /\ ~Ready(Task(p))
              /\ Goto(p, "save") /\ UNCHANGED <<at, mem>>
  /\ UNCHANGED <<queue, projectVars, building, due, saved, expired, todo, events, audited>>

\* Mutant: complete_approved works on whatever branch is checked out.
CheckBranch_Any(p) ==
  /\ pc[p] = "branch"
  /\ Goto(p, "changes") /\ UNCHANGED <<at, mem>>
  /\ UNCHANGED <<queue, projectVars, building, due, saved, expired, todo, events, audited>>

CheckBranch(p) ==
  /\ pc[p] = "branch"
  /\ IF head = Task(p) THEN Goto(p, "changes") /\ UNCHANGED <<at, mem>> ELSE Leave(p)
  /\ UNCHANGED <<queue, projectVars, building, due, saved, expired, todo, events, audited>>

\* changed_paths; another candidate may be inside the scope of this task or not.
ReadChanges(p) ==
  /\ pc[p] = "changes"
  /\ \/ /\ Goto(p, IF tree = None THEN "checkout" ELSE "commit")
        /\ mem' = [mem EXCEPT ![p].changed = tree # None]
        /\ UNCHANGED at
     \/ tree \notin {None, Task(p)} /\ Leave(p)
  /\ UNCHANGED <<queue, projectVars, building, due, saved, expired, todo, events, audited>>

\* git add, git commit: on the branch that is checked out.
Commit(p) ==
  /\ pc[p] = "commit"
  /\ IF tree = None
     THEN Die(p) /\ UNCHANGED projectVars
     ELSE /\ held' = [held EXCEPT ![head] = @ \cup {tree}]
          /\ tree' = None
          /\ Goto(p, "checkout")
          /\ UNCHANGED <<head, todo, at, mem>>
  /\ UNCHANGED <<queue, building, due, saved, expired, events, audited>>

\* git checkout refuses to overwrite a dirty file, or carries it along.
Checkout(p) ==
  /\ pc[p] = "checkout"
  /\ \/ /\ head' = Integration
        /\ Goto(p, IF mem[p].changed THEN "merge" ELSE "link")
        /\ UNCHANGED <<todo, at, mem>>
     \/ tree # None /\ Die(p) /\ UNCHANGED head
  /\ UNCHANGED <<queue, tree, held, building, due, saved, expired, events, audited>>

\* Mutant: the work branch is not merged.
Merge_Skipped(p) ==
  /\ pc[p] = "merge"
  /\ Goto(p, "link")
  /\ UNCHANGED <<queue, projectVars, building, due, saved, expired, todo, at, mem, events, audited>>

\* git merge --no-ff, into what is checked out.
Merge(p) ==
  /\ pc[p] = "merge"
  /\ held' = [held EXCEPT ![head] = @ \cup held[Task(p)]]
  /\ Goto(p, "link")
  /\ UNCHANGED <<queue, head, tree, building, due, saved, expired, todo, at, mem, events, audited>>

\* The evidence is appended, and the move to completed begins: os.link, then unlink.
Link(p) ==
  /\ pc[p] = "link"
  /\ IF queue[Task(p)] = {"approved"}
     THEN /\ queue' = [queue EXCEPT ![Task(p)] = {"approved", "completed"}]
          /\ Goto(p, "unlink")
          /\ UNCHANGED <<todo, at, mem>>
     ELSE Die(p) /\ UNCHANGED queue
  /\ UNCHANGED <<projectVars, building, due, saved, expired, events, audited>>

\* Mutant: the campaign advances by two steps.
Advance_Twice(file) == [file EXCEPT !.index = @ + 2, !.current = FALSE]

\* The campaign goes on to the next step, in memory.
Advance(file) == [file EXCEPT !.index = @ + 1, !.current = FALSE]

\* Mutant: the task stays in approved.
Unlink_Missing(p) ==
  /\ pc[p] = "unlink"
  /\ mem' = [mem EXCEPT ![p].file = Advance(@)]
  /\ Goto(p, "create")
  /\ UNCHANGED <<queue, projectVars, building, due, saved, expired, todo, at, events, audited>>

Unlink(p) ==
  /\ pc[p] = "unlink"
  /\ queue' = [queue EXCEPT ![Task(p)] = @ \ {"approved"}]
  /\ mem' = [mem EXCEPT ![p].file = Advance(@)]
  /\ Goto(p, "create")
  /\ UNCHANGED <<projectVars, building, due, saved, expired, todo, at, events, audited>>

\* Mutant: any task of the campaign counts as the task that exists already.
MayCreate_AnyStep(t) == \A i \in 1..Steps : queue[<<t[1], i>>] = {}

\* No file of the task in any queue.
MayCreate(t) == queue[t] = {}

\* create_next_task
Create(p) ==
  /\ pc[p] = "create"
  /\ \/ /\ mem[p].file.index > Steps
        /\ mem' = [mem EXCEPT ![p].file.state = "completed", ![p].file.current = FALSE]
        /\ Goto(p, "save")
        /\ UNCHANGED <<queue, at>>
     \/ /\ mem[p].file.index <= Steps /\ mem[p].late
        /\ mem' = [mem EXCEPT ![p].file.state = "deadline_reached", ![p].file.current = FALSE]
        /\ Goto(p, "save")
        /\ UNCHANGED <<queue, at>>
     \/ /\ mem[p].file.index <= Steps /\ ~mem[p].late
        /\ "pending" \in queue[Task(p)] \/ MayCreate(Task(p))
        /\ queue' = [queue EXCEPT ![Task(p)] = @ \cup {"pending"}]
        /\ mem' = [mem EXCEPT ![p].file.current = TRUE]
        /\ Goto(p, "save")
        /\ UNCHANGED at
     \/ /\ mem[p].file.index <= Steps /\ ~mem[p].late
        /\ "pending" \notin queue[Task(p)] /\ ~MayCreate(Task(p))
        /\ Leave(p)
        /\ UNCHANGED queue
  /\ UNCHANGED <<projectVars, building, due, saved, expired, todo, events, audited>>

\* atomic_json
Save(p) ==
  /\ pc[p] = "save"
  /\ saved' = [saved EXCEPT ![at[p]] = mem[p].file]
  /\ Leave(p)
  /\ UNCHANGED <<queue, projectVars, building, due, expired, todo, events, audited>>

-----------------------------------------------------------------------------
(* What goes wrong by itself *)

\* A crash of the process, a git command that fails, a scope that
\* validate_scope refuses (an IntakeError is not a CampaignError).
Crash(p) ==
  /\ pc[p] # "idle"
  /\ Event
  /\ Die(p)
  /\ UNCHANGED <<queue, projectVars, building, due, saved, expired, audited>>

\* A merge conflict leaves the merge under way in the checkout.
MergeConflict(p) ==
  /\ pc[p] = "merge"
  /\ Event
  /\ tree' = Task(p)
  /\ Die(p)
  /\ UNCHANGED <<queue, head, held, building, due, saved, expired, audited>>

\* A stage's exit code, a pause or a stop marker ends the cycle before the tick.
CycleBreak ==
  /\ Stages /\ building = None /\ due
  /\ Event
  /\ due' = FALSE
  /\ UNCHANGED <<queue, projectVars, building, saved, expired, tickVars, audited>>

Expire(c) ==
  /\ saved[c].state # "none" /\ c \notin expired
  /\ expired' = expired \cup {c}
  /\ UNCHANGED <<queue, projectVars, building, due, saved, tickVars, events, audited>>

-----------------------------------------------------------------------------
Init ==
  /\ queue = [t \in Tasks |-> {}]
  /\ head = Base
  /\ tree = None
  /\ held = [b \in Branches |-> {}]
  /\ building = None
  /\ due = FALSE
  /\ saved = [c \in Campaigns |-> NotStarted]
  /\ expired = {}
  /\ todo = {}
  /\ pc = [p \in Procs |-> "idle"]
  /\ at = [p \in Procs |-> 0]
  /\ mem = [p \in Procs |-> Idle]
  /\ events = 0
  /\ audited = [t \in Tasks |-> "no"]

Pipeline == Apply \/ \E t \in Tasks : Build(t) \/ Stop(t) \/ Approve(t)

TickStep(p) ==
  \/ Locate(p) \/ CheckBranch(p) \/ ReadChanges(p) \/ Commit(p) \/ Checkout(p)
  \/ Merge(p) \/ Link(p) \/ Unlink(p) \/ Create(p) \/ Save(p)

Supervisor ==
  \/ Pipeline \/ TickAll \/ TickStep("supervisor")
  \/ \E c \in Campaigns : TickBegin("supervisor", c) \/ TickSkip(c)

Owner ==
  \/ TickStep("owner")
  \/ \E c \in Campaigns : StartCampaign(c) \/ TickBegin("owner", c)

Faults == CycleBreak \/ \E p \in Procs : Crash(p) \/ MergeConflict(p)

Next == Supervisor \/ Owner \/ Faults \/ \E c \in Campaigns : Expire(c)

Spec == Init /\ [][Next]_vars

\* The supervisor is a loop that systemd keeps alive; a command of the owner runs
\* to its end once it holds the lock.
FairSpec == Spec /\ WF_vars(Supervisor) /\ WF_vars(TickStep("owner"))

-----------------------------------------------------------------------------
(* Properties *)

TypeOK ==
  /\ queue \in [Tasks -> SUBSET Queues]
  /\ head \in Branches
  /\ tree \in Tasks \cup {None}
  /\ held \in [Branches -> SUBSET Tasks]
  /\ building \in Tasks \cup {None}
  /\ due \in BOOLEAN
  /\ saved \in [Campaigns -> States]
  /\ expired \subseteq Campaigns
  /\ todo \subseteq Campaigns
  /\ pc \in [Procs -> {"idle", "locate", "branch", "changes", "commit", "checkout",
                       "merge", "link", "unlink", "create", "save"}]
  /\ at \in [Procs -> Campaigns \cup {0}]
  /\ \A p \in Procs : at[p] = 0 <=> pc[p] = "idle"
  /\ mem \in [Procs -> [file: States, late: BOOLEAN, changed: BOOLEAN]]
  /\ events \in 0..MaxEvents
  /\ audited \in [Tasks -> {"no", "nothing", "change"}]

\* The steps of a plan are done in order and one at a time, and the state file never
\* runs ahead of the queues, whatever crashes between the queue, the branches and
\* the file: a step has a task only when the step before it is completed.
StepsInOrder ==
  \A c \in Campaigns :
    /\ \A i \in 2..Steps : queue[<<c, i>>] # {} => queue[<<c, i - 1>>] = {"completed"}
    /\ \A i \in 1..(saved[c].index - 1) : queue[<<c, i>>] = {"completed"}
    /\ saved[c].current => queue[<<c, saved[c].index>>] # {}
    /\ saved[c].state = "completed" => saved[c].index = Steps + 1

\* No tick loses the progress another one saved: the state file of a campaign never
\* goes back to an earlier step, nor out of a final state.
ProgressKept ==
  [][\A c \in Campaigns :
       /\ saved'[c].index >= saved[c].index
       /\ saved[c].state \in FinalStates => saved'[c] = saved[c]]_vars

\* The integration branch holds audited candidates only.
OnlyAudited == \A t \in held[Integration] : audited[t] = "change"

\* A completed task whose candidate changed something is merged.
CompletedMeansMerged ==
  \A t \in Tasks :
    "completed" \in queue[t] /\ audited[t] = "change" => t \in held[Integration]

Over(c) == saved[c].state \in FinalStates \/ \E i \in 1..Steps : queue[<<c, i>>] = {"stopped"}

\* Where nothing goes wrong, a completed task whose candidate changed something is
\* merged, however many campaigns share the checkout (complete_approved).
UndisturbedMeansMerged == events = 0 => CompletedMeansMerged

\* Nothing goes wrong, and no second campaign is started.
Undisturbed ==
  events = 0 /\ \A b, c \in Campaigns : saved[b] # NotStarted /\ saved[c] # NotStarted => b = c

\* An undisturbed campaign comes to its end, unless one of its tasks stops.
Finishes == []Undisturbed => \A c \in Campaigns : saved[c].state = "active" ~> Over(c)

=============================================================================
