--------------------------- MODULE CampaignProofs ---------------------------
(***************************************************************************)
(* Proofs about Campaign, for any number of campaigns and steps.  The      *)
(* order of the steps and the progress that the state files record do not  *)
(* depend on which tick dies where, and are proved for any bound on what   *)
(* goes wrong.  What reaches the integration branch does depend on it: a   *)
(* second group of invariants says of the checkout, the branches and the   *)
(* audits what holds while nothing, or one thing, has gone wrong.          *)
(***************************************************************************)
EXTENDS Campaign, TLAPS

\* The part of a tick that completes an approved task.
Completing == {"branch", "changes", "commit", "checkout", "merge", "link", "unlink"}

\* The flock of a campaign (acquire_lock).
LocksApart == \A p, q \in Procs : p # q /\ at[p] # 0 => at[p] # at[q]

\* What the state file says when no tick is under way.
FileInOrder(c) ==
  /\ saved[c].current => saved[c].index <= Steps
  /\ saved[c].state = "none" => saved[c].index = 1

\* What the holder of the lock knows: its copy is not behind the file, which is not
\* final, and what the copy counts as done is done in the queues.
InHand(p) ==
  pc[p] # "idle" =>
    /\ saved[at[p]].state \notin FinalStates
    /\ saved[at[p]].index <= mem[p].file.index
    /\ \A i \in 1..(mem[p].file.index - 1) : queue[<<at[p], i>>] = {"completed"}
    /\ mem[p].file.current => mem[p].file.index <= Steps /\ queue[Task(p)] # {}
    /\ pc[p] \in Completing => mem[p].file.current
    /\ pc[p] = "unlink" => queue[Task(p)] = {"approved", "completed"}
    /\ mem[p].file.state # "none"
    /\ mem[p].file.state = "completed" => mem[p].file.index = Steps + 1

Order ==
  /\ LocksApart
  /\ \A c \in Campaigns : FileInOrder(c)
  /\ \A p \in Procs : InHand(p)
  /\ StepsInOrder

IInv == TypeOK /\ Order

-----------------------------------------------------------------------------
(* Types *)

Pcs == {"idle", "locate", "branch", "changes", "commit", "checkout", "merge", "link",
        "unlink", "create", "save"}

Memories == [file: States, late: BOOLEAN, changed: BOOLEAN]

TickTypes ==
  /\ todo \subseteq Campaigns
  /\ pc \in [Procs -> Pcs]
  /\ at \in [Procs -> Campaigns \cup {0}]
  /\ \A p \in Procs : at[p] = 0 <=> pc[p] = "idle"
  /\ mem \in [Procs -> Memories]

WorldTypes ==
  /\ queue \in [Tasks -> SUBSET Queues]
  /\ head \in Branches
  /\ tree \in Tasks \cup {None}
  /\ held \in [Branches -> SUBSET Tasks]
  /\ building \in Tasks \cup {None}
  /\ due \in BOOLEAN
  /\ saved \in [Campaigns -> States]
  /\ expired \subseteq Campaigns
  /\ events \in 0..MaxEvents
  /\ audited \in [Tasks -> {"no", "nothing", "change"}]

\* The invariant in two parts: the processes, and what they work on.
LEMMA TypeParts == /\ TypeOK <=> TickTypes /\ WorldTypes
                   /\ TypeOK' <=> TickTypes' /\ WorldTypes'
BY DEF TypeOK, TickTypes, WorldTypes, Pcs, Memories

\* What a tick makes of its copy of the file.
LEMMA FileSteps ==
  /\ Started \in States
  /\ \A f \in States : /\ f.index <= Steps => Advance(f) \in States
                       /\ \A s \in FinalStates :
                            [f EXCEPT !.state = s, !.current = FALSE] \in States
                       /\ [f EXCEPT !.current = TRUE] \in States
<1>1. NotStarted \in States
  BY StepsAssumption DEF NotStarted, States
<1>2. Started \in States
  BY <1>1 DEF Started, States
<1>3. ASSUME NEW f \in States, f.index <= Steps PROVE Advance(f) \in States
  <2>1. f.index + 1 \in 1..(Steps + 1)
    BY <1>3, StepsAssumption DEF States
  <2> QED
    BY <2>1 DEF Advance, States
<1>4. ASSUME NEW f \in States, NEW s \in FinalStates
      PROVE  [f EXCEPT !.state = s, !.current = FALSE] \in States
  BY DEF States
<1>5. ASSUME NEW f \in States PROVE [f EXCEPT !.current = TRUE] \in States
  BY DEF States
<1> QED
  BY <1>2, <1>3, <1>4, <1>5

\* The same in the memory of a process.
LEMMA MemorySteps ==
  ASSUME NEW m \in [Procs -> Memories], NEW p \in Procs
  PROVE  /\ \A s \in FinalStates :
              [m EXCEPT ![p].file.state = s, ![p].file.current = FALSE] \in [Procs -> Memories]
         /\ [m EXCEPT ![p].file.current = TRUE] \in [Procs -> Memories]
         /\ \A x \in Memories : [m EXCEPT ![p] = x] \in [Procs -> Memories]
<1>1. ASSUME NEW s \in FinalStates
      PROVE  [m EXCEPT ![p].file.state = s, ![p].file.current = FALSE] \in [Procs -> Memories]
  <2> DEFINE f == [m[p].file EXCEPT !.state = s, !.current = FALSE]
  <2>1. f \in States
    BY FileSteps DEF Memories
  <2>2. [m EXCEPT ![p].file.state = s, ![p].file.current = FALSE] = [m EXCEPT ![p].file = f]
    BY DEF Memories, States
  <2> HIDE DEF f
  <2>3. [m EXCEPT ![p].file = f] \in [Procs -> Memories]
    BY <2>1 DEF Memories
  <2> QED
    BY <2>2, <2>3
<1>2. [m EXCEPT ![p].file.current = TRUE] \in [Procs -> Memories]
  BY DEF Memories, States
<1> QED
  BY <1>1, <1>2

\* A tick that ends, goes on or begins keeps the types of the processes.
LEMMA LeaveTypes ==
  ASSUME TickTypes, NEW p \in Procs, Leave(p), todo' \subseteq Campaigns PROVE TickTypes'
<1>1. Idle \in Memories
  BY StepsAssumption DEF Idle, NotStarted, States, Memories
<1> QED
  BY <1>1 DEF TickTypes, Leave, Goto, Pcs

\* So does a process that dies.
LEMMA DieTypes == ASSUME TickTypes, NEW p \in Procs, Die(p) PROVE TickTypes'
<1>1. todo' \subseteq Campaigns /\ Leave(p)
  BY DEF Die, TickTypes
<1> QED
  BY <1>1, LeaveTypes

\* So does a tick that goes on.
LEMMA GotoTypes ==
  ASSUME TickTypes, NEW p \in Procs, pc[p] # "idle", NEW step \in Pcs \ {"idle"},
         Goto(p, step), UNCHANGED <<at, todo>>, mem' \in [Procs -> Memories]
  PROVE  TickTypes'
BY DEF TickTypes, Goto

\* So does a tick that begins.
LEMMA EnterTypes ==
  ASSUME TickTypes, NEW p \in Procs, NEW c \in Campaigns, NEW step \in Pcs \ {"idle"},
         NEW file \in States, Enter(p, c, step, file), todo' \subseteq Campaigns
  PROVE  TickTypes'
<1>1. [Idle EXCEPT !.file = file, !.late = c \in expired] \in Memories
  <2>1. (c \in expired) \in BOOLEAN
    OBVIOUS
  <2> DEFINE late == c \in expired
  <2>2. late \in BOOLEAN
    BY <2>1
  <2> HIDE DEF late
  <2>3. [Idle EXCEPT !.file = file, !.late = late] \in Memories
    BY <2>2 DEF Idle, Memories
  <2> QED
    BY <2>3 DEF late
<1>2. c # 0
  BY CampaignsAssumption
<1> QED
  BY <1>1, <1>2 DEF TickTypes, Enter, Goto

\* The task of a tick in progress; and the copy of the file it works with.
LEMMA TaskOfTick ==
  ASSUME TickTypes, NEW p \in Procs, pc[p] # "idle", mem[p].file.index <= Steps
  PROVE  Task(p) \in Tasks
BY StepsAssumption DEF TickTypes, Task, Tasks, Memories, States

\* The copy of the file is a state file.
LEMMA FileTypes ==
  ASSUME TickTypes, NEW p \in Procs
  PROVE  mem[p].file \in States /\ mem[p].late \in BOOLEAN /\ mem[p].changed \in BOOLEAN
BY DEF TickTypes, Memories

\* Every step of the pipeline keeps the types.
LEMMA PipelineTypes ==
  ASSUME TypeOK, \/ Apply \/ CycleBreak
                 \/ \E t \in Tasks : Build(t) \/ Stop(t) \/ Approve(t)
  PROVE  TypeOK'
<1> USE TypeParts
<1>1. Tasks \subseteq Branches /\ Base \in Branches /\ Integration \in Branches
  BY DEF Branches
<1>2. CASE Apply
  <2>1. TickTypes'
    BY <1>2 DEF Apply, TickTypes, tickVars
  <2>2. building \in Tasks
    BY <1>2 DEF Apply, WorldTypes
  <2>3. held' \in [Branches -> SUBSET Tasks]
    BY <1>1, <1>2, <2>2 DEF Apply, WorldTypes
  <2>4. head' \in Branches /\ tree' \in Tasks \cup {None} /\ building' = None
        /\ UNCHANGED <<queue, due, saved, expired, events, audited>>
    BY <1>1, <1>2, <2>2 DEF Apply
  <2>5. WorldTypes'
    BY <2>3, <2>4 DEF WorldTypes
  <2> QED
    BY <2>1, <2>5
<1>3. CASE CycleBreak
  <2>1. TickTypes'
    BY <1>3 DEF CycleBreak, TickTypes, tickVars
  <2>2. events' \in 0..MaxEvents
    BY <1>3, MaxEventsAssumption DEF CycleBreak, Event, WorldTypes
  <2>3. WorldTypes'
    BY <1>3, <2>2 DEF CycleBreak, WorldTypes, projectVars
  <2> QED
    BY <2>1, <2>3
<1>4. ASSUME NEW t \in Tasks, Build(t) PROVE TypeOK'
  <2>1. TickTypes'
    BY <1>4 DEF Build, TickTypes, tickVars
  <2>2. queue' \in [Tasks -> SUBSET Queues] /\ building' \in Tasks \cup {None} /\ due' \in BOOLEAN
    BY <1>4 DEF Build, WorldTypes, Queues
  <2>3. WorldTypes'
    BY <1>4, <2>2 DEF Build, WorldTypes, projectVars
  <2> QED
    BY <2>1, <2>3
<1>5. ASSUME NEW t \in Tasks, Stop(t) PROVE TypeOK'
  <2>1. TickTypes'
    BY <1>5 DEF Stop, TickTypes, tickVars
  <2>2. queue' \in [Tasks -> SUBSET Queues]
    BY <1>5 DEF Stop, WorldTypes, Queues
  <2>3. head' \in Branches /\ tree' \in Tasks \cup {None}
    BY <1>1, <1>5 DEF Stop, WorldTypes
  <2>4. building' = None /\ UNCHANGED <<held, due, saved, expired, events, audited>>
    BY <1>5 DEF Stop
  <2>5. WorldTypes'
    BY <2>2, <2>3, <2>4 DEF WorldTypes
  <2> QED
    BY <2>1, <2>5
<1>6. ASSUME NEW t \in Tasks, Approve(t) PROVE TypeOK'
  <2>1. TickTypes'
    BY <1>6 DEF Approve, TickTypes, tickVars
  <2>2. queue' \in [Tasks -> SUBSET Queues]
    BY <1>6 DEF Approve, WorldTypes, Queues
  <2>3. audited' \in [Tasks -> {"no", "nothing", "change"}]
    BY <1>6 DEF Approve, WorldTypes
  <2>4. due' = TRUE /\ UNCHANGED <<projectVars, building, saved, expired, events>>
    BY <1>6 DEF Approve
  <2>5. WorldTypes'
    BY <2>2, <2>3, <2>4 DEF WorldTypes, projectVars
  <2> QED
    BY <2>1, <2>5
<1> QED
  BY <1>2, <1>3, <1>4, <1>5, <1>6

\* While a tick completes a task, or has one current, its task is a step of the plan.
LEMMA TaskInHand ==
  ASSUME IInv, NEW p \in Procs, pc[p] # "idle",
         mem[p].file.current \/ pc[p] \in Completing
  PROVE  Task(p) \in Tasks /\ mem[p].file.index <= Steps
<1>1. mem[p].file.index <= Steps
  BY DEF IInv, Order, InHand
<1> QED
  BY <1>1, TypeParts, TaskOfTick DEF IInv

\* Every step of a tick keeps the types.
LEMMA TickStepTypes == ASSUME IInv, NEW p \in Procs, TickStep(p) PROVE TypeOK'
<1> USE TypeParts
<1>1. TickTypes /\ WorldTypes
  BY DEF IInv
<1>2. CASE Locate(p)
  <2>1. TickTypes'
    <3>1. CASE Leave(p)
      BY <1>1, <1>2, <3>1, LeaveTypes DEF Locate, TickTypes
    <3>2. CASE UNCHANGED <<at, mem>> /\ \E step \in {"create", "branch", "save"} : Goto(p, step)
      BY <1>1, <1>2, <3>2, GotoTypes DEF Locate, Pcs, TickTypes
    <3> QED
      BY <1>2, <3>1, <3>2 DEF Locate
  <2>2. WorldTypes'
    BY <1>1, <1>2 DEF Locate, WorldTypes, projectVars
  <2> QED
    BY <2>1, <2>2
<1>3. CASE CheckBranch(p)
  <2>1. TickTypes'
    <3>1. CASE Leave(p)
      BY <1>1, <1>3, <3>1, LeaveTypes DEF CheckBranch, TickTypes
    <3>2. CASE UNCHANGED <<at, mem>> /\ Goto(p, "changes")
      BY <1>1, <1>3, <3>2, GotoTypes DEF CheckBranch, Pcs, TickTypes
    <3> QED
      BY <1>3, <3>1, <3>2 DEF CheckBranch
  <2>2. WorldTypes'
    BY <1>1, <1>3 DEF CheckBranch, WorldTypes, projectVars
  <2> QED
    BY <2>1, <2>2
<1>4. CASE ReadChanges(p)
  <2>1. TickTypes'
    <3>1. CASE Leave(p)
      BY <1>1, <1>4, <3>1, LeaveTypes DEF ReadChanges, TickTypes
    <3>2. CASE /\ Goto(p, IF tree = None THEN "checkout" ELSE "commit")
               /\ mem' = [mem EXCEPT ![p].changed = tree # None]
               /\ UNCHANGED at
      <4> DEFINE dirty == tree # None
      <4>1. dirty \in BOOLEAN
        OBVIOUS
      <4> HIDE DEF dirty
      <4>2. [mem EXCEPT ![p].changed = dirty] \in [Procs -> Memories]
        BY <1>1, <4>1 DEF TickTypes, Memories
      <4>3. mem' \in [Procs -> Memories]
        BY <3>2, <4>2 DEF dirty
      <4> QED
        BY <1>1, <1>4, <3>2, <4>3, GotoTypes DEF ReadChanges, Pcs
    <3> QED
      BY <1>4, <3>1, <3>2 DEF ReadChanges
  <2>2. WorldTypes'
    BY <1>1, <1>4 DEF ReadChanges, WorldTypes, projectVars
  <2> QED
    BY <2>1, <2>2
<1>5. CASE Commit(p)
  <2>1. TickTypes'
    <3>1. CASE Die(p)
      BY <1>1, <3>1, DieTypes
    <3>2. CASE Goto(p, "checkout") /\ UNCHANGED <<todo, at, mem>>
      BY <1>1, <1>5, <3>2, GotoTypes DEF Commit, Pcs, TickTypes
    <3> QED
      BY <1>5, <3>1, <3>2 DEF Commit
  <2>2. held' \in [Branches -> SUBSET Tasks] /\ head' \in Branches /\ tree' \in Tasks \cup {None}
    BY <1>1, <1>5 DEF Commit, WorldTypes, projectVars
  <2>3. WorldTypes'
    BY <1>1, <1>5, <2>2 DEF Commit, WorldTypes
  <2> QED
    BY <2>1, <2>3
<1>6. CASE Checkout(p)
  <2>1. TickTypes'
    <3>1. CASE Die(p)
      BY <1>1, <3>1, DieTypes
    <3>2. CASE Goto(p, IF mem[p].changed THEN "merge" ELSE "link") /\ UNCHANGED <<todo, at, mem>>
      BY <1>1, <1>6, <3>2, GotoTypes DEF Checkout, Pcs, TickTypes
    <3> QED
      BY <1>6, <3>1, <3>2 DEF Checkout
  <2>2. head' \in Branches
    BY <1>1, <1>6 DEF Checkout, WorldTypes, Branches
  <2>3. WorldTypes'
    BY <1>1, <1>6, <2>2 DEF Checkout, WorldTypes
  <2> QED
    BY <2>1, <2>3
<1>7. CASE Merge(p)
  <2>1. Task(p) \in Branches
    BY <1>7, TaskInHand DEF Merge, Completing, Branches
  <2>2. TickTypes'
    BY <1>1, <1>7, GotoTypes DEF Merge, Pcs, TickTypes
  <2>3. held' \in [Branches -> SUBSET Tasks]
    BY <1>1, <1>7, <2>1 DEF Merge, WorldTypes
  <2>4. WorldTypes'
    BY <1>1, <1>7, <2>3 DEF Merge, WorldTypes
  <2> QED
    BY <2>2, <2>4
<1>8. CASE Link(p)
  <2>1. TickTypes'
    <3>1. CASE Die(p)
      BY <1>1, <3>1, DieTypes
    <3>2. CASE Goto(p, "unlink") /\ UNCHANGED <<todo, at, mem>>
      BY <1>1, <1>8, <3>2, GotoTypes DEF Link, Pcs, TickTypes
    <3> QED
      BY <1>8, <3>1, <3>2 DEF Link
  <2>2. Task(p) \in Tasks
    BY <1>8, TaskInHand DEF Link, Completing
  <2>3. queue' \in [Tasks -> SUBSET Queues]
    BY <1>1, <1>8, <2>2 DEF Link, WorldTypes, Queues
  <2>4. WorldTypes'
    BY <1>1, <1>8, <2>3 DEF Link, WorldTypes, projectVars
  <2> QED
    BY <2>1, <2>4
<1>9. CASE Unlink(p)
  <2>1. Task(p) \in Tasks /\ mem[p].file.index <= Steps
    BY <1>9, TaskInHand DEF Unlink, Completing
  <2>2. Advance(mem[p].file) \in States
    BY <1>1, <2>1, FileTypes, FileSteps
  <2>3. mem' \in [Procs -> Memories]
    BY <1>1, <1>9, <2>2 DEF Unlink, TickTypes, Memories
  <2>4. TickTypes'
    BY <1>1, <1>9, <2>3, GotoTypes DEF Unlink, Pcs
  <2>5. queue' \in [Tasks -> SUBSET Queues]
    BY <1>1, <1>9, <2>1 DEF Unlink, WorldTypes
  <2>6. WorldTypes'
    BY <1>1, <1>9, <2>5 DEF Unlink, WorldTypes, projectVars
  <2> QED
    BY <2>4, <2>6
<1>10. CASE Create(p)
  <2>1. TickTypes'
    <3>1. CASE Leave(p)
      BY <1>1, <1>10, <3>1, LeaveTypes DEF Create, TickTypes
    <3>2. CASE Goto(p, "save") /\ UNCHANGED at
      <4>1. mem' \in [Procs -> Memories]
        <5>1. \/ mem' = [mem EXCEPT ![p].file.state = "completed", ![p].file.current = FALSE]
              \/ mem' = [mem EXCEPT ![p].file.state = "deadline_reached", ![p].file.current = FALSE]
              \/ mem' = [mem EXCEPT ![p].file.current = TRUE]
              \/ mem' = [mem EXCEPT ![p] = Idle]
          BY <1>10 DEF Create, Leave
        <5>2. Idle \in Memories
          BY StepsAssumption DEF Idle, NotStarted, States, Memories
        <5> QED
          <6>1. mem \in [Procs -> Memories] /\ {"completed", "deadline_reached"} \subseteq FinalStates
            BY <1>1 DEF TickTypes, FinalStates
          <6>2. [mem EXCEPT ![p].file.state = "completed", ![p].file.current = FALSE]
                  \in [Procs -> Memories]
            BY <6>1, MemorySteps
          <6>3. [mem EXCEPT ![p].file.state = "deadline_reached", ![p].file.current = FALSE]
                  \in [Procs -> Memories]
            BY <6>1, MemorySteps
          <6>4. /\ [mem EXCEPT ![p].file.current = TRUE] \in [Procs -> Memories]
                /\ [mem EXCEPT ![p] = Idle] \in [Procs -> Memories]
            BY <5>2, <6>1, MemorySteps
          <6> QED
            BY <5>1, <6>2, <6>3, <6>4
      <4> QED
        BY <1>1, <1>10, <3>2, <4>1, GotoTypes DEF Create, Pcs
    <3> QED
      BY <1>10, <3>1, <3>2 DEF Create
  <2>2. queue' \in [Tasks -> SUBSET Queues]
    <3>1. CASE queue' = queue
      BY <1>1, <3>1 DEF WorldTypes
    <3>2. CASE queue' = [queue EXCEPT ![Task(p)] = @ \cup {"pending"}]
      BY <1>1, <3>2 DEF WorldTypes, Queues
    <3> QED
      BY <1>10, <3>1, <3>2 DEF Create
  <2>3. WorldTypes'
    BY <1>1, <1>10, <2>2 DEF Create, WorldTypes, projectVars
  <2> QED
    BY <2>1, <2>3
<1>11. CASE Save(p)
  <2>1. TickTypes'
    BY <1>1, <1>11, LeaveTypes DEF Save, TickTypes
  <2>2. saved' \in [Campaigns -> States]
    BY <1>1, <1>11, FileTypes DEF Save, WorldTypes
  <2>3. WorldTypes'
    BY <1>1, <1>11, <2>2 DEF Save, WorldTypes, projectVars
  <2> QED
    BY <2>1, <2>3
<1> QED
  BY <1>2, <1>3, <1>4, <1>5, <1>6, <1>7, <1>8, <1>9, <1>10, <1>11 DEF TickStep

\* So does the beginning of a tick, and what ends one.
LEMMA OtherTypes ==
  ASSUME IInv, \/ TickAll \/ \E c \in Campaigns : StartCampaign(c) \/ TickSkip(c) \/ Expire(c)
               \/ \E p \in Procs : Crash(p) \/ MergeConflict(p) \/ \E c \in Campaigns : TickBegin(p, c)
  PROVE  TypeOK'
<1> USE TypeParts
<1>1. TickTypes /\ WorldTypes
  BY DEF IInv
<1>2. CASE TickAll
  <2>1. TickTypes' /\ due' \in BOOLEAN
    BY <1>1, <1>2 DEF TickAll, TickTypes
  <2>2. events' \in 0..MaxEvents
    BY <1>1, <1>2, MaxEventsAssumption DEF TickAll, Event, WorldTypes
  <2>3. WorldTypes'
    BY <1>1, <1>2, <2>1, <2>2 DEF TickAll, WorldTypes, projectVars
  <2> QED
    BY <2>1, <2>3
<1>3. ASSUME NEW c \in Campaigns, StartCampaign(c) PROVE TypeOK'
  <2>1. Started \in States
    BY FileSteps
  <2>2. TickTypes'
    BY <1>1, <1>3, <2>1, EnterTypes DEF StartCampaign, Pcs, Procs, TickTypes
  <2>3. WorldTypes'
    BY <1>1, <1>3 DEF StartCampaign, WorldTypes, projectVars
  <2> QED
    BY <2>2, <2>3
<1>4. ASSUME NEW c \in Campaigns, TickSkip(c) PROVE TypeOK'
  <2>1. TickTypes'
    BY <1>1, <1>4 DEF TickSkip, TickTypes
  <2>2. WorldTypes'
    BY <1>1, <1>4 DEF TickSkip, WorldTypes, projectVars
  <2> QED
    BY <2>1, <2>2
<1>5. ASSUME NEW c \in Campaigns, Expire(c) PROVE TypeOK'
  <2>1. TickTypes'
    BY <1>1, <1>5 DEF Expire, TickTypes, tickVars
  <2>2. WorldTypes'
    BY <1>1, <1>5 DEF Expire, WorldTypes, projectVars
  <2> QED
    BY <2>1, <2>2
<1>6. ASSUME NEW p \in Procs, Crash(p) PROVE TypeOK'
  <2>1. TickTypes'
    BY <1>1, <1>6, DieTypes DEF Crash
  <2>2. events' \in 0..MaxEvents
    BY <1>1, <1>6, MaxEventsAssumption DEF Crash, Event, WorldTypes
  <2>3. WorldTypes'
    BY <1>1, <1>6, <2>2 DEF Crash, WorldTypes, projectVars
  <2> QED
    BY <2>1, <2>3
<1>7. ASSUME NEW p \in Procs, MergeConflict(p) PROVE TypeOK'
  <2>1. TickTypes'
    BY <1>1, <1>7, DieTypes DEF MergeConflict
  <2>2. events' \in 0..MaxEvents
    BY <1>1, <1>7, MaxEventsAssumption DEF MergeConflict, Event, WorldTypes
  <2>3. tree' \in Tasks
    BY <1>7, TaskInHand DEF MergeConflict, Completing
  <2>4. WorldTypes'
    BY <1>1, <1>7, <2>2, <2>3 DEF MergeConflict, WorldTypes
  <2> QED
    BY <2>1, <2>4
<1>8. ASSUME NEW p \in Procs, NEW c \in Campaigns, TickBegin(p, c) PROVE TypeOK'
  <2>1. todo' \subseteq Campaigns /\ saved[c] \in States
    BY <1>1, <1>8 DEF TickBegin, TickTypes, WorldTypes
  <2>2. TickTypes'
    BY <1>1, <1>8, <2>1, EnterTypes DEF TickBegin, Pcs
  <2>3. events' \in 0..MaxEvents
    BY <1>1, <1>8, MaxEventsAssumption DEF TickBegin, Event, WorldTypes
  <2>4. WorldTypes'
    BY <1>1, <1>8, <2>3 DEF TickBegin, WorldTypes, projectVars
  <2> QED
    BY <2>2, <2>4
<1> QED
  BY <1>2, <1>3, <1>4, <1>5, <1>6, <1>7, <1>8

-----------------------------------------------------------------------------
(* The order of the steps *)

\* No step takes a file out of its last queue, nor touches a completed task.
Forward ==
  \A t \in Tasks : /\ queue[t] # {} => queue'[t] # {}
                   /\ queue[t] = {"completed"} => queue'[t] = {"completed"}

\* A task file appears only after the step before is completed.
InTurn ==
  \A t \in Tasks : queue[t] = {} /\ queue'[t] # {} /\ t[2] > 1 =>
                     queue[<<t[1], t[2] - 1>>] = {"completed"}

\* The process goes on with the campaign and the file it has, or leaves.
Keeps(p) ==
  \/ pc'[p] = "idle"
  \/ /\ pc[p] # "idle" /\ at'[p] = at[p] /\ mem'[p].file = mem[p].file
     /\ saved'[at[p]] = saved[at[p]]
     /\ pc'[p] \in Completing => mem[p].file.current
     /\ pc'[p] = "unlink" => queue'[Task(p)] = {"approved", "completed"}

\* A process that keeps what it has keeps what it knows.
LEMMA KeepsInHand ==
  ASSUME IInv, TypeOK', Forward, NEW p \in Procs, Keeps(p) PROVE InHand(p)'
<1> SUFFICES ASSUME pc'[p] # "idle" PROVE InHand(p)'
  BY DEF InHand
<1>1. TickTypes
  BY TypeParts DEF IInv
<1>2. /\ pc[p] # "idle" /\ at'[p] = at[p] /\ mem'[p].file = mem[p].file
      /\ saved'[at[p]] = saved[at[p]] /\ Task(p)' = Task(p)
      /\ pc'[p] \in Completing => mem[p].file.current
      /\ pc'[p] = "unlink" => queue'[Task(p)] = {"approved", "completed"}
  BY DEF Keeps, Task
<1>3. at[p] \in Campaigns /\ mem[p].file.index \in 1..(Steps + 1)
  BY <1>1, <1>2, StepsAssumption DEF TickTypes, Memories, States
<1>4. /\ saved[at[p]].state \notin FinalStates
      /\ saved[at[p]].index <= mem[p].file.index
      /\ \A i \in 1..(mem[p].file.index - 1) : queue[<<at[p], i>>] = {"completed"}
      /\ mem[p].file.current => mem[p].file.index <= Steps /\ queue[Task(p)] # {}
      /\ mem[p].file.state # "none"
      /\ mem[p].file.state = "completed" => mem[p].file.index = Steps + 1
  BY <1>2 DEF IInv, Order, InHand
<1>5. \A i \in 1..(mem[p].file.index - 1) : queue'[<<at[p], i>>] = {"completed"}
  <2> SUFFICES ASSUME NEW i \in 1..(mem[p].file.index - 1) PROVE queue'[<<at[p], i>>] = {"completed"}
    OBVIOUS
  <2>1. <<at[p], i>> \in Tasks
    BY <1>3, StepsAssumption DEF Tasks
  <2> QED
    BY <1>4, <2>1 DEF Forward
<1>6. mem[p].file.current => queue'[Task(p)] # {}
  BY <1>1, <1>2, <1>4, TaskOfTick DEF Forward
<1> QED
  BY <1>2, <1>4, <1>5, <1>6 DEF InHand

\* And its lock.
LEMMA LocksKept ==
  ASSUME IInv, TypeOK', \A p \in Procs : Keeps(p) PROVE LocksApart'
<1>1. \A p \in Procs : at'[p] # 0 => at'[p] = at[p]
  BY TypeParts DEF Keeps, TickTypes
<1> QED
  BY <1>1 DEF IInv, Order, LocksApart

\* Files that appear in turn and never go back keep the steps in order.
LEMMA StepsKept ==
  ASSUME IInv, Forward, InTurn, saved' = saved PROVE StepsInOrder'
<1>1. WorldTypes
  BY TypeParts DEF IInv
<1> SUFFICES ASSUME NEW c \in Campaigns
             PROVE  /\ \A i \in 2..Steps : queue'[<<c, i>>] # {} => queue'[<<c, i - 1>>] = {"completed"}
                    /\ \A i \in 1..(saved[c].index - 1) : queue'[<<c, i>>] = {"completed"}
                    /\ saved[c].current => queue'[<<c, saved[c].index>>] # {}
                    /\ saved[c].state = "completed" => saved[c].index = Steps + 1
  BY DEF StepsInOrder
<1>2. saved[c].index \in 1..(Steps + 1) /\ (saved[c].current => saved[c].index <= Steps)
  BY <1>1, StepsAssumption DEF WorldTypes, States, IInv, Order, FileInOrder
<1>3. ASSUME NEW i \in 2..Steps, queue'[<<c, i>>] # {} PROVE queue'[<<c, i - 1>>] = {"completed"}
  <2>1. <<c, i>> \in Tasks /\ <<c, i - 1>> \in Tasks
    BY StepsAssumption DEF Tasks
  <2>2. queue[<<c, i - 1>>] = {"completed"}
    <3>1. CASE queue[<<c, i>>] = {}
      BY <1>3, <2>1, <3>1 DEF InTurn
    <3>2. CASE queue[<<c, i>>] # {}
      BY <3>2 DEF IInv, Order, StepsInOrder
    <3> QED
      BY <3>1, <3>2
  <2> QED
    BY <2>1, <2>2 DEF Forward
<1>4. ASSUME NEW i \in 1..(saved[c].index - 1) PROVE queue'[<<c, i>>] = {"completed"}
  <2>1. <<c, i>> \in Tasks
    BY <1>2, StepsAssumption DEF Tasks
  <2> QED
    BY <2>1 DEF IInv, Order, StepsInOrder, Forward
<1>5. saved[c].current => queue'[<<c, saved[c].index>>] # {}
  <2>1. saved[c].current => <<c, saved[c].index>> \in Tasks
    BY <1>2, StepsAssumption DEF Tasks
  <2> QED
    BY <2>1 DEF IInv, Order, StepsInOrder, Forward
<1> QED
  BY <1>3, <1>4, <1>5 DEF IInv, Order, StepsInOrder

\* Where every process keeps what it has, the order stays.
LEMMA QuietOrder ==
  ASSUME IInv, TypeOK', Forward, InTurn, saved' = saved, \A p \in Procs : Keeps(p)
  PROVE  Order'
BY KeepsInHand, LocksKept, StepsKept DEF IInv, Order, FileInOrder

\* A process that is not part of a step keeps what it has.
LEMMA BystanderKeeps ==
  ASSUME IInv, NEW q \in Procs, pc'[q] = pc[q], at'[q] = at[q], mem'[q] = mem[q],
         saved'[at[q]] = saved[at[q]],
         pc[q] = "unlink" => queue'[Task(q)] = queue[Task(q)]
  PROVE  Keeps(q)
BY DEF Keeps, IInv, Order, InHand

\* The stages take tasks from pending and work only, which no tick has completed.
LEMMA PipelineOrder ==
  ASSUME IInv, TypeOK', \/ Apply \/ CycleBreak
                        \/ \E t \in Tasks : Build(t) \/ Stop(t) \/ Approve(t)
  PROVE  Order'
<1>1. queue \in [Tasks -> SUBSET Queues] /\ TickTypes
  BY TypeParts DEF IInv, WorldTypes
<1>2. UNCHANGED <<saved, pc, at, mem>>
  BY DEF Apply, CycleBreak, Build, Stop, Approve, tickVars
<1>3. \/ queue' = queue
      \/ \E t \in Tasks, q \in {"work", "stopped", "approved"} :
           queue[t] \in {{"pending"}, {"work"}} /\ queue' = [queue EXCEPT ![t] = {q}]
  BY DEF Apply, CycleBreak, Build, Stop, Approve
<1>4. Forward /\ InTurn
  BY <1>1, <1>3 DEF Forward, InTurn
<1>5. ASSUME NEW p \in Procs PROVE Keeps(p)
  <2>1. pc[p] = "unlink" => Task(p) \in Tasks /\ queue[Task(p)] = {"approved", "completed"}
    BY TaskInHand DEF Completing, IInv, Order, InHand
  <2>2. pc[p] = "unlink" => queue'[Task(p)] = queue[Task(p)]
    BY <1>1, <1>3, <2>1
  <2> QED
    BY <1>2, <2>2, BystanderKeeps
<1> QED
  BY <1>2, <1>4, <1>5, QuietOrder

\* A tick has the lock of its campaign, so no other process looks at its task.
LEMMA OtherTask ==
  ASSUME IInv, NEW p \in Procs, NEW q \in Procs, p # q, pc[p] # "idle"
  PROVE  at[p] # at[q] /\ Task(p) # Task(q)
BY TypeParts DEF IInv, Order, LocksApart, TickTypes, Task

\* The steps of a tick that leave the queues and the file alone, and the link.
LEMMA GitOrder ==
  ASSUME IInv, TypeOK', NEW p \in Procs,
         \/ Locate(p) \/ CheckBranch(p) \/ ReadChanges(p) \/ Commit(p) \/ Checkout(p)
         \/ Merge(p) \/ Link(p) \/ Crash(p) \/ MergeConflict(p)
  PROVE  Order'
<1>1. queue \in [Tasks -> SUBSET Queues] /\ TickTypes
  BY TypeParts DEF IInv, WorldTypes
<1>2. pc[p] # "idle" /\ saved' = saved
  BY DEF Locate, CheckBranch, ReadChanges, Commit, Checkout, Merge, Link, Crash, MergeConflict
<1>3. \/ queue' = queue
      \/ /\ queue[Task(p)] = {"approved"} /\ pc[p] = "link"
         /\ queue' = [queue EXCEPT ![Task(p)] = {"approved", "completed"}]
  BY DEF Locate, CheckBranch, ReadChanges, Commit, Checkout, Merge, Link, Crash, MergeConflict
<1>4. Forward /\ InTurn
  BY <1>1, <1>3 DEF Forward, InTurn
<1>5. ASSUME NEW q \in Procs, q # p PROVE Keeps(q)
  <2>1. pc'[q] = pc[q] /\ at'[q] = at[q] /\ mem'[q] = mem[q]
    BY <1>1, <1>5 DEF Locate, CheckBranch, ReadChanges, Commit, Checkout, Merge, Link, Crash,
                      MergeConflict, Leave, Die, Goto, TickTypes
  <2>2. Task(p) # Task(q)
    BY <1>2, <1>5, OtherTask
  <2>3. pc[q] = "unlink" => queue'[Task(q)] = queue[Task(q)]
    <3>1. pc[q] = "unlink" => Task(q) \in Tasks
      BY TaskInHand DEF Completing
    <3> QED
      BY <1>1, <1>3, <2>2, <3>1
  <2> QED
    BY <1>2, <2>1, <2>3, BystanderKeeps
<1>6. Keeps(p)
  <2>1. CASE Leave(p)
    BY <1>1, <2>1 DEF Keeps, Leave, Goto, TickTypes
  <2>2. CASE ~Leave(p)
    <3>1. at' = at /\ mem'[p].file = mem[p].file
      BY <1>1, <2>2 DEF Locate, CheckBranch, ReadChanges, Commit, Checkout, Merge, Link, Crash,
                        MergeConflict, Die, TickTypes, Memories
    <3>2. pc'[p] \in Completing => mem[p].file.current
      <4>1. pc[p] \in Completing \/ mem[p].file.current \/ pc'[p] \notin Completing
        BY <1>1, <2>2 DEF Locate, CheckBranch, ReadChanges, Commit, Checkout, Merge, Link, Crash,
                          MergeConflict, Die, TickTypes, Goto, Completing
      <4> QED
        BY <1>2, <4>1 DEF IInv, Order, InHand
    <3>3. pc'[p] = "unlink" => queue'[Task(p)] = {"approved", "completed"}
      <4>1. pc'[p] = "unlink" => Link(p)
        BY <1>1, <2>2 DEF Locate, CheckBranch, ReadChanges, Commit, Checkout, Merge, Crash,
                          MergeConflict, Die, TickTypes, Goto
      <4>2. Link(p) => Task(p) \in Tasks
        BY TaskInHand DEF Link, Completing
      <4> QED
        BY <1>1, <2>2, <4>1, <4>2 DEF Link, Die
    <3> QED
      BY <1>2, <3>1, <3>2, <3>3 DEF Keeps
  <2> QED
    BY <2>1, <2>2
<1> QED
  BY <1>2, <1>4, <1>5, <1>6, QuietOrder

\* What leaves the queues, the files and the processes alone.
LEMMA IdleOrder ==
  ASSUME IInv, TypeOK', UNCHANGED <<queue, saved, pc, at, mem>> PROVE Order'
<1>1. Forward /\ InTurn
  BY DEF Forward, InTurn
<1>2. \A p \in Procs : Keeps(p)
  BY BystanderKeeps
<1> QED
  BY <1>1, <1>2, QuietOrder

\* A tick begins with what the file says, or with the first step of a new campaign.
LEMMA EnterOrder ==
  ASSUME IInv, TypeOK', NEW p \in Procs, NEW c \in Campaigns, NEW step, NEW file,
         at[p] = 0, ~Locked(c), Enter(p, c, step, file), UNCHANGED <<queue, saved>>,
         saved[c].state \notin FinalStates,
         \/ step = "create" /\ file = Started /\ saved[c].state = "none"
         \/ step = "locate" /\ file = saved[c] /\ saved[c].state # "none"
  PROVE  Order'
<1>1. TickTypes /\ WorldTypes
  BY TypeParts DEF IInv
<1>2. Forward /\ InTurn
  BY DEF Forward, InTurn
<1>3. at'[p] = c /\ pc'[p] = step /\ mem'[p].file = file /\ Task(p)' = <<c, file.index>>
  BY <1>1 DEF Enter, Goto, TickTypes, Idle, Task
<1>4. ASSUME NEW q \in Procs, q # p PROVE at'[q] = at[q] /\ Keeps(q)
  <2>1. pc'[q] = pc[q] /\ at'[q] = at[q] /\ mem'[q] = mem[q]
    BY <1>1, <1>4 DEF Enter, Goto, TickTypes
  <2> QED
    BY <2>1, BystanderKeeps
<1>5. LocksApart'
  BY <1>3, <1>4 DEF IInv, Order, LocksApart, Locked
<1>6. /\ saved[c].index <= file.index
      /\ \A i \in 1..(file.index - 1) : queue[<<c, i>>] = {"completed"}
      /\ file.current => file.index <= Steps /\ queue[<<c, file.index>>] # {}
      /\ file.state \notin {"none", "completed"}
  <2>1. CASE file = Started /\ saved[c].state = "none"
    <3>1. file.index = 1 /\ ~file.current /\ file.state = "active" /\ saved[c].index = 1
      BY <2>1 DEF Started, NotStarted, IInv, Order, FileInOrder
    <3> QED
      BY <3>1
  <2>2. CASE file = saved[c] /\ saved[c].state # "none"
    <3>1. saved[c].index \in Int
      BY <1>1, StepsAssumption DEF WorldTypes, States
    <3> QED
      BY <2>2, <3>1 DEF IInv, Order, FileInOrder, StepsInOrder, FinalStates
  <2> QED
    BY <2>1, <2>2
<1>7. InHand(p)'
  BY <1>3, <1>6 DEF InHand, Completing
<1>8. \A q \in Procs : InHand(q)'
  BY <1>2, <1>4, <1>7, KeepsInHand
<1>9. StepsInOrder'
  BY <1>2, StepsKept
<1> QED
  BY <1>5, <1>8, <1>9 DEF IInv, Order, FileInOrder

\* The move to completed ends, and the copy of the file goes on to the next step.
LEMMA UnlinkOrder == ASSUME IInv, TypeOK', NEW p \in Procs, Unlink(p) PROVE Order'
<1>1. TickTypes /\ queue \in [Tasks -> SUBSET Queues]
  BY TypeParts DEF IInv, WorldTypes
<1>2. /\ pc[p] = "unlink" /\ at' = at /\ pc'[p] = "create" /\ UNCHANGED saved
      /\ mem'[p].file = Advance(mem[p].file)
  BY <1>1 DEF Unlink, Goto, TickTypes, Memories
<1>3. Task(p) \in Tasks /\ mem[p].file.index <= Steps /\ queue[Task(p)] = {"approved", "completed"}
  BY <1>2, TaskInHand DEF Completing, IInv, Order, InHand
<1>4. queue' = [queue EXCEPT ![Task(p)] = {"completed"}]
  BY <1>3 DEF Unlink
<1>5. Forward /\ InTurn
  BY <1>1, <1>3, <1>4 DEF Forward, InTurn
<1>6. ASSUME NEW q \in Procs, q # p PROVE Keeps(q)
  <2>1. pc'[q] = pc[q] /\ at'[q] = at[q] /\ mem'[q] = mem[q]
    BY <1>1, <1>6 DEF Unlink, Goto, TickTypes
  <2>2. Task(p) # Task(q)
    BY <1>2, <1>6, OtherTask
  <2>3. pc[q] = "unlink" => Task(q) \in Tasks
    BY TaskInHand DEF Completing
  <2>4. pc[q] = "unlink" => queue'[Task(q)] = queue[Task(q)]
    BY <1>1, <1>4, <2>2, <2>3
  <2> QED
    BY <1>2, <2>1, <2>4, BystanderKeeps
<1>7. LocksApart'
  BY <1>2 DEF IInv, Order, LocksApart
<1>8. InHand(p)'
  <2>1. mem[p].file \in States /\ mem[p].file.index \in Int /\ at[p] \in Campaigns
    BY <1>1, <1>2, FileTypes, StepsAssumption DEF TickTypes, States
  <2>2. saved[at[p]].index \in Int
    BY <2>1, TypeParts, StepsAssumption DEF IInv, WorldTypes, States
  <2>3. /\ mem'[p].file.index = mem[p].file.index + 1
        /\ mem'[p].file.current = FALSE
        /\ mem'[p].file.state = mem[p].file.state
    BY <1>2, <2>1 DEF Advance, States
  <2>4. /\ saved[at[p]].state \notin FinalStates
        /\ saved[at[p]].index <= mem[p].file.index
        /\ \A i \in 1..(mem[p].file.index - 1) : queue[<<at[p], i>>] = {"completed"}
        /\ mem[p].file.state # "none"
        /\ mem[p].file.state # "completed"
    BY <1>2, <1>3, <2>1, StepsAssumption DEF IInv, Order, InHand
  <2>5. \A i \in 1..mem[p].file.index : queue'[<<at[p], i>>] = {"completed"}
    <3> SUFFICES ASSUME NEW i \in 1..mem[p].file.index PROVE queue'[<<at[p], i>>] = {"completed"}
      OBVIOUS
    <3>1. <<at[p], i>> \in Tasks
      BY <1>3, <2>1, StepsAssumption DEF Tasks
    <3>2. CASE i = mem[p].file.index
      BY <1>1, <1>3, <1>4, <3>2 DEF Task
    <3>3. CASE i # mem[p].file.index
      BY <1>5, <2>1, <2>4, <3>1, <3>3 DEF Forward
    <3> QED
      BY <3>2, <3>3
  <2>6. mem'[p].file.index - 1 = mem[p].file.index
    BY <2>1, <2>3
  <2>7. saved'[at'[p]] = saved[at[p]] /\ saved[at[p]].index <= mem'[p].file.index
    BY <1>2, <2>1, <2>2, <2>3, <2>4
  <2> QED
    BY <1>2, <2>3, <2>4, <2>5, <2>6, <2>7 DEF InHand, Completing
<1>9. \A q \in Procs : InHand(q)'
  BY <1>5, <1>6, <1>8, KeepsInHand
<1> QED
  BY <1>2, <1>5, <1>7, <1>9, StepsKept DEF IInv, Order, FileInOrder

\* The task of the next step is created, or the campaign comes to its end.
LEMMA CreateOrder == ASSUME IInv, TypeOK', NEW p \in Procs, Create(p) PROVE Order'
<1>1. TickTypes /\ queue \in [Tasks -> SUBSET Queues]
  BY TypeParts DEF IInv, WorldTypes
<1>2. pc[p] = "create" /\ UNCHANGED saved
  BY DEF Create
<1>3. at[p] \in Campaigns /\ mem[p].file \in States
  BY <1>1, <1>2, FileTypes DEF TickTypes
<1>4. mem[p].file.index \in 1..(Steps + 1) /\ saved[at[p]].index \in Int
  BY <1>3, TypeParts, StepsAssumption DEF IInv, WorldTypes, States
<1>5. \/ queue' = queue
      \/ /\ mem[p].file.index <= Steps
         /\ "pending" \in queue[Task(p)] \/ queue[Task(p)] = {}
         /\ queue' = [queue EXCEPT ![Task(p)] = @ \cup {"pending"}]
  BY DEF Create, MayCreate
<1>6. mem[p].file.index <= Steps => Task(p) \in Tasks
  BY <1>1, <1>2, TaskOfTick
<1>7. Forward
  BY <1>1, <1>5, <1>6 DEF Forward
<1>8. InTurn
  <2> SUFFICES ASSUME NEW t \in Tasks, queue[t] = {}, queue'[t] # {}, t[2] > 1
               PROVE  queue[<<t[1], t[2] - 1>>] = {"completed"}
    BY DEF InTurn
  <2>1. t = Task(p) /\ mem[p].file.index <= Steps
    BY <1>1, <1>5, <1>6
  <2>2. t[1] = at[p] /\ t[2] = mem[p].file.index
    BY <2>1 DEF Task
  <2>3. t[2] - 1 \in 1..(mem[p].file.index - 1)
    BY <1>4, <2>2
  <2> QED
    BY <1>2, <2>2, <2>3 DEF IInv, Order, InHand
<1>9. ASSUME NEW q \in Procs, q # p PROVE Keeps(q)
  <2>1. pc'[q] = pc[q] /\ at'[q] = at[q] /\ mem'[q] = mem[q]
    BY <1>1, <1>9 DEF Create, Leave, Goto, TickTypes
  <2>2. Task(p) # Task(q)
    BY <1>2, <1>9, OtherTask
  <2>3. pc[q] = "unlink" => Task(q) \in Tasks
    BY TaskInHand DEF Completing
  <2>4. pc[q] = "unlink" => queue'[Task(q)] = queue[Task(q)]
    BY <1>1, <1>5, <2>2, <2>3
  <2> QED
    BY <1>2, <2>1, <2>4, BystanderKeeps
<1>10. at'[p] \in {at[p], 0}
  BY <1>1 DEF Create, Leave, TickTypes
<1>11. LocksApart'
  <2>1. \A q \in Procs : at'[q] # 0 => at'[q] = at[q]
    <3>1. \A q \in Procs : q # p => at'[q] = at[q]
      BY <1>1 DEF Create, Leave, TickTypes
    <3> QED
      BY <1>10, <3>1
  <2> QED
    BY <2>1 DEF IInv, Order, LocksApart
<1>12. InHand(p)'
  <2>1. CASE Leave(p)
    BY <1>1, <2>1 DEF InHand, Leave, Goto, TickTypes
  <2>2. CASE ~Leave(p)
    <3>1. /\ pc'[p] = "save" /\ at'[p] = at[p]
          /\ mem'[p].file.index = mem[p].file.index
          /\ \/ /\ ~mem'[p].file.current
                /\ \/ mem'[p].file.state = "deadline_reached"
                   \/ mem'[p].file.state = "completed" /\ mem[p].file.index > Steps
             \/ /\ mem'[p].file.state = mem[p].file.state
                /\ mem[p].file.index <= Steps
                /\ queue' = [queue EXCEPT ![Task(p)] = @ \cup {"pending"}]
      <4>1. pc'[p] = "save" /\ at'[p] = at[p]
        BY <1>1, <2>2 DEF Create, Goto, TickTypes
      <4>2. \/ /\ mem[p].file.index > Steps
               /\ mem' = [mem EXCEPT ![p].file.state = "completed", ![p].file.current = FALSE]
            \/ mem' = [mem EXCEPT ![p].file.state = "deadline_reached", ![p].file.current = FALSE]
            \/ /\ mem[p].file.index <= Steps
               /\ queue' = [queue EXCEPT ![Task(p)] = @ \cup {"pending"}]
               /\ mem' = [mem EXCEPT ![p].file.current = TRUE]
        BY <2>2 DEF Create
      <4>3. mem \in [Procs -> [file: States, late: BOOLEAN, changed: BOOLEAN]]
        BY <1>1 DEF TickTypes, Memories
      <4>4. ASSUME mem' = [mem EXCEPT ![p].file.current = TRUE]
            PROVE  mem'[p].file = [mem[p].file EXCEPT !.current = TRUE]
        BY <4>3, <4>4
      <4>6. /\ [mem[p].file EXCEPT !.current = TRUE].index = mem[p].file.index
            /\ [mem[p].file EXCEPT !.current = TRUE].state = mem[p].file.state
        BY <1>3 DEF States
      <4>7. CASE /\ mem[p].file.index > Steps
                 /\ mem' = [mem EXCEPT ![p].file.state = "completed", ![p].file.current = FALSE]
        <5>1. mem'[p].file = [mem[p].file EXCEPT !.state = "completed", !.current = FALSE]
          BY <4>3, <4>7
        <5>2. /\ mem'[p].file.index = mem[p].file.index
              /\ mem'[p].file.state = "completed"
              /\ ~mem'[p].file.current
          BY <1>3, <5>1 DEF States
        <5> QED
          BY <4>1, <4>7, <5>2
      <4>8. CASE mem' = [mem EXCEPT ![p].file.state = "deadline_reached", ![p].file.current = FALSE]
        <5>1. mem'[p].file = [mem[p].file EXCEPT !.state = "deadline_reached", !.current = FALSE]
          BY <4>3, <4>8
        <5>2. /\ mem'[p].file.index = mem[p].file.index
              /\ mem'[p].file.state = "deadline_reached"
              /\ ~mem'[p].file.current
          BY <1>3, <5>1 DEF States
        <5> QED
          BY <4>1, <4>8, <5>2
      <4>9. CASE /\ mem[p].file.index <= Steps
                 /\ queue' = [queue EXCEPT ![Task(p)] = @ \cup {"pending"}]
                 /\ mem' = [mem EXCEPT ![p].file.current = TRUE]
        BY <4>1, <4>4, <4>6, <4>9
      <4> QED
        BY <4>2, <4>7, <4>8, <4>9
    <3>2. /\ saved[at[p]].state \notin FinalStates
          /\ saved[at[p]].index <= mem[p].file.index
          /\ \A i \in 1..(mem[p].file.index - 1) : queue[<<at[p], i>>] = {"completed"}
          /\ mem[p].file.state # "none"
          /\ mem[p].file.state = "completed" => mem[p].file.index = Steps + 1
      BY <1>2 DEF IInv, Order, InHand
    <3>3. \A i \in 1..(mem[p].file.index - 1) : queue'[<<at[p], i>>] = {"completed"}
      <4> SUFFICES ASSUME NEW i \in 1..(mem[p].file.index - 1)
                   PROVE  queue'[<<at[p], i>>] = {"completed"}
        OBVIOUS
      <4>1. <<at[p], i>> \in Tasks
        BY <1>3, <1>4, StepsAssumption DEF Tasks
      <4> QED
        BY <1>7, <3>2, <4>1 DEF Forward
    <3>4. mem'[p].file.current =>
            mem[p].file.index <= Steps /\ queue'[<<at[p], mem[p].file.index>>] # {}
      BY <1>1, <1>6, <3>1 DEF Task
    <3>5. mem'[p].file.state # "none"
          /\ (mem'[p].file.state = "completed" => mem[p].file.index = Steps + 1)
      BY <1>4, <3>1, <3>2, StepsAssumption
    <3> QED
      BY <1>2, <3>1, <3>2, <3>3, <3>4, <3>5 DEF InHand, Completing, Task
  <2> QED
    BY <2>1, <2>2
<1>13. \A q \in Procs : InHand(q)'
  BY <1>7, <1>9, <1>12, KeepsInHand
<1> QED
  BY <1>2, <1>7, <1>8, <1>11, <1>13, StepsKept DEF IInv, Order, FileInOrder

\* The file takes over what the copy says, and the lock is given back.
LEMMA SaveOrder == ASSUME IInv, TypeOK', NEW p \in Procs, Save(p) PROVE Order'
<1>1. TickTypes /\ WorldTypes
  BY TypeParts DEF IInv
<1>2. pc[p] = "save" /\ queue' = queue /\ at[p] \in Campaigns
      /\ saved' = [saved EXCEPT ![at[p]] = mem[p].file]
  BY <1>1 DEF Save, TickTypes
<1>3. Forward
  BY <1>2 DEF Forward
<1>4. ASSUME NEW q \in Procs PROVE Keeps(q)
  <2>1. CASE q = p
    BY <1>1, <2>1 DEF Save, Leave, Goto, TickTypes, Keeps
  <2>2. CASE q # p
    <3>1. pc'[q] = pc[q] /\ at'[q] = at[q] /\ mem'[q] = mem[q]
      BY <1>1, <2>2 DEF Save, Leave, Goto, TickTypes
    <3>2. at[q] # at[p]
      BY <1>2, <2>2, OtherTask
    <3>3. saved'[at[q]] = saved[at[q]]
      BY <1>1, <1>2, <3>2 DEF WorldTypes
    <3> QED
      BY <1>2, <3>1, <3>3, BystanderKeeps DEF Task
  <2> QED
    BY <2>1, <2>2
<1>5. LocksApart' /\ \A q \in Procs : InHand(q)'
  BY <1>3, <1>4, KeepsInHand, LocksKept
<1>6. /\ mem[p].file.current => mem[p].file.index <= Steps /\ queue[Task(p)] # {}
      /\ mem[p].file.state # "none"
      /\ mem[p].file.state = "completed" => mem[p].file.index = Steps + 1
      /\ \A i \in 1..(mem[p].file.index - 1) : queue[<<at[p], i>>] = {"completed"}
  BY <1>2 DEF IInv, Order, InHand
<1>7. \A c \in Campaigns : saved'[c] = IF c = at[p] THEN mem[p].file ELSE saved[c]
  BY <1>1, <1>2 DEF WorldTypes
<1>8. \A c \in Campaigns : FileInOrder(c)'
  BY <1>6, <1>7 DEF IInv, Order, FileInOrder
<1>9. StepsInOrder'
  <2>1. ASSUME NEW c \in Campaigns, c # at[p]
        PROVE  /\ \A i \in 2..Steps : queue'[<<c, i>>] # {} => queue'[<<c, i - 1>>] = {"completed"}
               /\ \A i \in 1..(saved'[c].index - 1) : queue'[<<c, i>>] = {"completed"}
               /\ saved'[c].current => queue'[<<c, saved'[c].index>>] # {}
               /\ saved'[c].state = "completed" => saved'[c].index = Steps + 1
    BY <1>2, <1>7, <2>1 DEF IInv, Order, StepsInOrder
  <2>2. /\ \A i \in 2..Steps : queue'[<<at[p], i>>] # {} => queue'[<<at[p], i - 1>>] = {"completed"}
        /\ \A i \in 1..(saved'[at[p]].index - 1) : queue'[<<at[p], i>>] = {"completed"}
        /\ saved'[at[p]].current => queue'[<<at[p], saved'[at[p]].index>>] # {}
        /\ saved'[at[p]].state = "completed" => saved'[at[p]].index = Steps + 1
    BY <1>2, <1>6, <1>7 DEF IInv, Order, StepsInOrder, Task
  <2> QED
    BY <2>1, <2>2 DEF StepsInOrder
<1> QED
  BY <1>5, <1>8, <1>9 DEF Order

-----------------------------------------------------------------------------
(* The theorems *)

\* The three facts of the induction.
LEMMA InitIInv == ASSUME Init PROVE IInv
<1>1. NotStarted \in States /\ Idle \in Memories
  BY StepsAssumption DEF Idle, NotStarted, States, Memories
<1>2. \A p \in Procs : at[p] = 0 <=> pc[p] = "idle"
  BY DEF Init
<1>3. TickTypes
  <2>1. pc \in [Procs -> Pcs] /\ at \in [Procs -> Campaigns \cup {0}] /\ todo \subseteq Campaigns
    BY DEF Init, Pcs
  <2>2. mem \in [Procs -> Memories]
    BY <1>1 DEF Init
  <2> QED
    BY <1>2, <2>1, <2>2 DEF TickTypes
<1>4. WorldTypes
  <2>1. /\ head \in Branches /\ tree \in Tasks \cup {None} /\ building \in Tasks \cup {None}
        /\ due \in BOOLEAN /\ expired \subseteq Campaigns
    BY DEF Init, Branches
  <2>2. events \in 0..MaxEvents
    BY MaxEventsAssumption DEF Init
  <2>3. queue \in [Tasks -> SUBSET Queues] /\ audited \in [Tasks -> {"no", "nothing", "change"}]
    BY DEF Init
  <2>4. held \in [Branches -> SUBSET Tasks] /\ saved \in [Campaigns -> States]
    BY <1>1 DEF Init
  <2> QED
    BY <2>1, <2>2, <2>3, <2>4 DEF WorldTypes
<1>5. \A p \in Procs : InHand(p)
  BY DEF Init, InHand
<1>6. LocksApart
  BY DEF Init, LocksApart
<1>7. \A c \in Campaigns : saved[c].index = 1 /\ ~saved[c].current /\ saved[c].state = "none"
  BY DEF Init, NotStarted
<1>8. \A c \in Campaigns : FileInOrder(c)
  BY <1>7 DEF FileInOrder
<1>9. \A c \in Campaigns, i \in 1..Steps : queue[<<c, i>>] = {}
  BY DEF Init, Tasks
<1>10. StepsInOrder
  <2>1. \A c \in Campaigns, i \in 2..Steps : queue[<<c, i>>] = {}
    BY <1>9, StepsAssumption
  <2> QED
    BY <1>7, <2>1 DEF StepsInOrder
<1> QED
  BY <1>3, <1>4, <1>5, <1>6, <1>8, <1>10, TypeParts DEF IInv, Order

LEMMA StepIInv == ASSUME IInv, [Next]_vars PROVE IInv'
<1>1. CASE Apply \/ CycleBreak \/ \E t \in Tasks : Build(t) \/ Stop(t) \/ Approve(t)
  BY <1>1, PipelineTypes, PipelineOrder DEF IInv
<1>2. ASSUME NEW p \in Procs, TickStep(p) PROVE IInv'
  <2>1. TypeOK'
    BY <1>2, TickStepTypes
  <2>2. CASE \/ Locate(p) \/ CheckBranch(p) \/ ReadChanges(p) \/ Commit(p) \/ Checkout(p)
             \/ Merge(p) \/ Link(p)
    BY <2>1, <2>2, GitOrder DEF IInv
  <2>3. CASE Unlink(p) \/ Create(p) \/ Save(p)
    BY <2>1, <2>3, UnlinkOrder, CreateOrder, SaveOrder DEF IInv
  <2> QED
    BY <1>2, <2>2, <2>3 DEF TickStep
<1>3. ASSUME NEW p \in Procs, Crash(p) \/ MergeConflict(p) PROVE IInv'
  BY <1>3, OtherTypes, GitOrder DEF IInv
<1>4. CASE TickAll \/ \E c \in Campaigns : TickSkip(c) \/ Expire(c)
  <2>1. TypeOK'
    BY <1>4, OtherTypes
  <2>2. UNCHANGED <<queue, saved, pc, at, mem>>
    BY <1>4 DEF TickAll, TickSkip, Expire, tickVars
  <2> QED
    BY <2>1, <2>2, IdleOrder DEF IInv
<1>5. ASSUME NEW c \in Campaigns, StartCampaign(c) PROVE IInv'
  <2>1. TypeOK'
    BY <1>5, OtherTypes
  <2>2. /\ at["owner"] = 0 /\ ~Locked(c) /\ saved[c].state = "none"
        /\ Enter("owner", c, "create", Started) /\ UNCHANGED <<queue, saved>>
    BY <1>5 DEF StartCampaign
  <2>3. "owner" \in Procs /\ saved[c].state \notin FinalStates
    BY <2>2 DEF Procs, FinalStates
  <2>4. Order'
    BY <2>1, <2>2, <2>3, EnterOrder
  <2> QED
    BY <2>1, <2>4 DEF IInv
<1>6. ASSUME NEW p \in Procs, NEW c \in Campaigns, TickBegin(p, c) PROVE IInv'
  <2>1. TypeOK'
    BY <1>6, OtherTypes
  <2>2. /\ at[p] = 0 /\ ~Locked(c) /\ saved[c].state \notin {"none"} \cup FinalStates
        /\ Enter(p, c, "locate", saved[c]) /\ UNCHANGED <<queue, saved>>
    BY <1>6 DEF TickBegin, NextTick
  <2>3. Order'
    BY <2>1, <2>2, EnterOrder
  <2> QED
    BY <2>1, <2>3 DEF IInv
<1>7. CASE UNCHANGED vars
  <2>1. TypeOK'
    BY <1>7 DEF IInv, TypeOK, vars, projectVars, tickVars
  <2>2. UNCHANGED <<queue, saved, pc, at, mem>>
    BY <1>7 DEF vars, tickVars
  <2> QED
    BY <2>1, <2>2, IdleOrder DEF IInv
<1>8. {"supervisor", "owner"} \subseteq Procs
  BY DEF Procs
<1> QED
  BY <1>1, <1>2, <1>3, <1>4, <1>5, <1>6, <1>7, <1>8 DEF Next, Supervisor, Owner, Faults, Pipeline

LEMMA InvariantIInv == Spec => []IInv
<1>1. Init => IInv
  BY InitIInv
<1>2. IInv /\ [Next]_vars => IInv'
  BY StepIInv
<1> QED
  BY <1>1, <1>2, PTL DEF Spec

\* Every variable keeps its type.
THEOREM TypeCorrect == Spec => []TypeOK
<1>1. IInv => TypeOK
  BY DEF IInv
<1> QED
  BY <1>1, InvariantIInv, PTL

\* The tasks of a plan are created one after another, and the state file is never
\* ahead of the queues, wherever a tick of either process dies (tick_locked,
\* create_next_task, atomic_json).
THEOREM StepsStayInOrder == Spec => []StepsInOrder
<1>1. IInv => StepsInOrder
  BY DEF IInv, Order
<1> QED
  BY <1>1, InvariantIInv, PTL

\* Only Save writes a state file.
LEMMA StepProgress ==
  ASSUME IInv, [Next]_vars
  PROVE  \A c \in Campaigns : /\ saved'[c].index >= saved[c].index
                              /\ saved[c].state \in FinalStates => saved'[c] = saved[c]
<1> DEFINE Kept == \A c \in Campaigns : /\ saved'[c].index >= saved[c].index
                                        /\ saved[c].state \in FinalStates => saved'[c] = saved[c]
<1>1. TickTypes /\ WorldTypes
  BY TypeParts DEF IInv
<1>2. \A c \in Campaigns : saved[c].index \in Int
  BY <1>1, StepsAssumption DEF WorldTypes, States
<1>3. CASE UNCHANGED saved
  BY <1>2, <1>3
<1>4. ASSUME NEW p \in Procs, Save(p) PROVE Kept
  <2>1. pc[p] = "save" /\ saved' = [saved EXCEPT ![at[p]] = mem[p].file]
    BY <1>4 DEF Save
  <2>2. saved[at[p]].state \notin FinalStates /\ saved[at[p]].index <= mem[p].file.index
    BY <2>1 DEF IInv, Order, InHand
  <2>3. mem[p].file.index \in Int
    BY <1>1, FileTypes, StepsAssumption DEF States
  <2>4. \A c \in Campaigns : saved'[c] = IF c = at[p] THEN mem[p].file ELSE saved[c]
    BY <1>1, <2>1 DEF WorldTypes
  <2> QED
    BY <1>2, <2>2, <2>3, <2>4
<1>5. UNCHANGED saved \/ \E p \in Procs : Save(p)
  <2>1. \A p \in Procs : TickStep(p) => UNCHANGED saved \/ Save(p)
    BY DEF TickStep, Locate, CheckBranch, ReadChanges, Commit, Checkout, Merge, Link, Unlink, Create
  <2>2. Pipeline \/ TickAll => UNCHANGED saved
    BY DEF Pipeline, Apply, Build, Stop, Approve, TickAll
  <2>3. \A c \in Campaigns : StartCampaign(c) \/ TickSkip(c) \/ Expire(c) => UNCHANGED saved
    BY DEF StartCampaign, TickSkip, Expire
  <2>4. \A p \in Procs, c \in Campaigns : TickBegin(p, c) => UNCHANGED saved
    BY DEF TickBegin
  <2>5. Faults => UNCHANGED saved
    BY DEF Faults, CycleBreak, Crash, MergeConflict
  <2>6. UNCHANGED vars => UNCHANGED saved
    BY DEF vars
  <2>7. "supervisor" \in Procs /\ "owner" \in Procs
    BY DEF Procs
  <2> QED
    BY <2>1, <2>2, <2>3, <2>4, <2>5, <2>6, <2>7 DEF Next, Supervisor, Owner
<1> QED
  BY <1>3, <1>4, <1>5

\* No tick loses what another one saved: the state file of a campaign never goes back
\* to an earlier step nor out of a final state (tick_locked, under acquire_lock).
THEOREM ProgressIsKept == Spec => ProgressKept
<1>1. IInv /\ [Next]_vars =>
        [\A c \in Campaigns : /\ saved'[c].index >= saved[c].index
                              /\ saved[c].state \in FinalStates => saved'[c] = saved[c]]_vars
  BY StepProgress
<1> QED
  BY <1>1, InvariantIInv, PTL DEF Spec, ProgressKept

-----------------------------------------------------------------------------
(* What reaches the integration branch *)

Sup == "supervisor"
Own == "owner"

\* The part of a tick before it has committed what is in the checkout.
Before == {"locate", "branch", "changes", "commit"}

\* Stage 01B is at work on a task of the queue while the supervisor ticks no campaign.
BuildingApart == building # None => at[Sup] = 0 /\ todo = {} /\ queue[building] = {"work"}

\* Stage 01C audits a task once, when it takes it out of the queues of work.
AuditedOnce == \A t \in Tasks : queue[t] \subseteq {"pending", "work"} => audited[t] = "no"

\* A tick has found its task approved, and the lock of the campaign keeps it there.
ReadyInHand ==
  \A p \in Procs : pc[p] \in Completing \ {"unlink"} => queue[Task(p)] = {"approved"}

\* Starting a campaign is no event; a tick of the owner is.
OwnerWaits == events = 0 => pc[Own] \in {"idle", "create", "save"}

World == BuildingApart /\ AuditedOnce /\ ReadyInHand /\ OwnerWaits

\* A candidate is on its own branch, unless one thing has gone wrong and the checkout
\* of the integration branch carried it along; an approved one is what was audited.
Checkouts ==
  /\ tree # None => \/ head = tree
                    \/ /\ head = Integration /\ events = 1
                       /\ pc[Own] \notin Before \cup {"checkout"}
  /\ tree # None /\ "approved" \in queue[tree] => audited[tree] = "change"

\* The tick of the supervisor commits nothing but what Stage 01C has audited.
SupervisorTick ==
  /\ pc[Sup] = "changes" => head \in {Task(Sup), Integration}
  /\ pc[Sup] \in {"changes", "commit"} => tree \in {None, Task(Sup)}
  /\ pc[Sup] \in {"commit", "merge"} => mem[Sup].changed
  /\ pc[Sup] \in {"commit", "checkout", "merge"} /\ mem[Sup].changed =>
       audited[Task(Sup)] = "change"
  /\ pc[Sup] \in {"checkout", "merge"} => tree = None
  /\ events = 0 /\ pc[Sup] = "merge" => head = Integration

\* A candidate that was not audited is at most in the history of its own branch, put
\* there by a tick of the owner, which does not merge that branch.
Histories ==
  \A b \in Branches : \A t \in held[b] :
    \/ audited[t] = "change"
    \/ /\ b = t /\ events = 1
       /\ pc[Own] \notin Before
       /\ pc[Own] \in {"checkout", "merge"} => Task(Own) # t

OneEvent == events <= 1 => Checkouts /\ SupervisorTick /\ Histories

\* Where nothing goes wrong, an approved change stays in the checkout until a tick has
\* committed it, and that tick merges it before it moves the task.
Calm ==
  events = 0 =>
    /\ pc[Sup] \in {"changes", "commit"} => head = Task(Sup)
    /\ pc[Sup] = "checkout" /\ audited[Task(Sup)] = "change" =>
         mem[Sup].changed /\ Task(Sup) \in held[Task(Sup)]
    /\ pc[Sup] = "merge" => Task(Sup) \in held[Task(Sup)]
    /\ pc[Sup] \in {"link", "unlink"} /\ audited[Task(Sup)] = "change" =>
         Task(Sup) \in held[Integration]
    /\ \A t \in Tasks : queue[t] = {"approved"} /\ audited[t] = "change" =>
         tree = t \/ (pc[Sup] \in {"checkout", "merge", "link"} /\ Task(Sup) = t)
    /\ CompletedMeansMerged

-----------------------------------------------------------------------------
(* What a step of a tick does, in the terms of these invariants *)

\* A branch of a task, the two others, and no branch.
LEMMA Names == /\ Integration \notin Tasks /\ Base \notin Tasks /\ None \notin Tasks
               /\ Integration # None
               /\ Tasks \subseteq Branches /\ Integration \in Branches
               /\ Procs = {Sup, Own} /\ Sup # Own
BY CampaignsAssumption DEF Integration, Base, None, Tasks, Branches, Procs, Sup, Own

\* What a tick does to the queues.
Links(p)   == /\ pc[p] = "link" /\ queue[Task(p)] = {"approved"}
              /\ queue' = [queue EXCEPT ![Task(p)] = {"approved", "completed"}]
Unlinks(p) == /\ pc[p] = "unlink" /\ queue[Task(p)] = {"approved", "completed"}
              /\ queue' = [queue EXCEPT ![Task(p)] = {"completed"}]
Creates(p) == /\ pc[p] = "create" /\ ("pending" \in queue[Task(p)] \/ queue[Task(p)] = {})
              /\ queue' = [queue EXCEPT ![Task(p)] = @ \cup {"pending"}]

LEMMA QueueSteps ==
  ASSUME IInv, NEW p \in Procs, TickStep(p) \/ Crash(p) \/ MergeConflict(p)
  PROVE  \/ queue' = queue
         \/ Task(p) \in Tasks /\ (Links(p) \/ Unlinks(p) \/ Creates(p))
<1>1. TickTypes /\ WorldTypes
  BY TypeParts DEF IInv
<1>2. CASE Locate(p) \/ CheckBranch(p) \/ ReadChanges(p) \/ Commit(p) \/ Checkout(p)
           \/ Merge(p) \/ Save(p) \/ Crash(p) \/ MergeConflict(p)
  BY <1>2 DEF Locate, CheckBranch, ReadChanges, Commit, Checkout, Merge, Save, Crash, MergeConflict
<1>3. CASE Link(p)
  BY <1>3, TaskInHand DEF Link, Links, Completing
<1>4. CASE Unlink(p)
  <2>1. pc[p] = "unlink" /\ queue[Task(p)] = {"approved", "completed"} /\ Task(p) \in Tasks
    BY <1>4, TaskInHand DEF Unlink, IInv, Order, InHand, Completing
  <2> QED
    BY <1>4, <2>1 DEF Unlink, Unlinks
<1>5. CASE Create(p)
  BY <1>1, <1>5, TaskOfTick DEF Create, Creates, MayCreate
<1> QED
  BY <1>2, <1>3, <1>4, <1>5 DEF TickStep

\* A step of one process leaves the other where it is.
LEMMA OneMoves ==
  ASSUME IInv, NEW p \in Procs, TickStep(p) \/ Crash(p) \/ MergeConflict(p)
  PROVE  /\ pc[p] # "idle" /\ at[p] # 0
         /\ \A q \in Procs \ {p} : /\ pc'[q] = pc[q] /\ at'[q] = at[q]
                                   /\ mem'[q] = mem[q] /\ Task(q)' = Task(q)
         /\ UNCHANGED <<building, audited>>
         /\ p # Sup => todo' = todo
         /\ TickStep(p) => events' = events
<1>1. TickTypes
  BY TypeParts DEF IInv
<1>2. pc[p] # "idle" /\ at[p] # 0
  BY <1>1 DEF TickStep, Locate, CheckBranch, ReadChanges, Commit, Checkout, Merge, Link, Unlink,
              Create, Save, Crash, MergeConflict, TickTypes
<1>3. ASSUME NEW q \in Procs, q # p
      PROVE  pc'[q] = pc[q] /\ at'[q] = at[q] /\ mem'[q] = mem[q] /\ Task(q)' = Task(q)
  <2>1. pc'[q] = pc[q] /\ at'[q] = at[q] /\ mem'[q] = mem[q]
    BY <1>1, <1>3 DEF TickStep, Locate, CheckBranch, ReadChanges, Commit, Checkout, Merge, Link,
       Unlink, Create, Save, Crash, MergeConflict, Goto, Leave, Die, TickTypes
  <2> QED
    BY <2>1 DEF Task
<1>4. UNCHANGED <<building, audited>>
  BY DEF TickStep, Locate, CheckBranch, ReadChanges, Commit, Checkout, Merge, Link, Unlink,
         Create, Save, Crash, MergeConflict
<1>5. p # Sup => todo' = todo
  BY DEF TickStep, Locate, CheckBranch, ReadChanges, Commit, Checkout, Merge, Link, Unlink,
         Create, Save, Crash, MergeConflict, Die, Sup
<1>6. TickStep(p) => events' = events
  BY DEF TickStep, Locate, CheckBranch, ReadChanges, Commit, Checkout, Merge, Link, Unlink,
         Create, Save
<1> QED
  BY <1>2, <1>3, <1>4, <1>5, <1>6

\* The course of a tick: where it goes from where, and what it does to the checkout.
Stays(p) == Task(p)' = Task(p) /\ mem'[p] = mem[p]

Ends(p) ==
  /\ pc'[p] = "idle" /\ UNCHANGED projectVars
  /\ pc[p] = "checkout" => tree # None
  /\ pc[p] = "commit" => tree = None
  /\ pc[p] = "link" => queue[Task(p)] # {"approved"}
  /\ pc[p] # "merge"
Finds(p) ==
  /\ pc[p] = "locate" /\ pc'[p] = "branch" /\ Stays(p) /\ UNCHANGED projectVars
  /\ queue[Task(p)] = {"approved"}
Proceeds(p) ==
  /\ pc[p] \in {"locate", "unlink", "create"} /\ pc'[p] \in {"create", "save"}
  /\ UNCHANGED projectVars
OnBranch(p) ==
  /\ pc[p] = "branch" /\ pc'[p] = "changes" /\ Stays(p) /\ UNCHANGED projectVars
  /\ head = Task(p)
NoChange(p) ==
  /\ pc[p] = "changes" /\ pc'[p] = "checkout" /\ Task(p)' = Task(p) /\ ~mem'[p].changed
  /\ UNCHANGED projectVars /\ tree = None
Change(p) ==
  /\ pc[p] = "changes" /\ pc'[p] = "commit" /\ Task(p)' = Task(p) /\ mem'[p].changed
  /\ UNCHANGED projectVars /\ tree # None
Commits(p) ==
  /\ pc[p] = "commit" /\ pc'[p] = "checkout" /\ Stays(p)
  /\ tree # None /\ tree' = None /\ head' = head
  /\ held' = [held EXCEPT ![head] = @ \cup {tree}]
ChecksOut(p) ==
  /\ pc[p] = "checkout" /\ pc'[p] = (IF mem[p].changed THEN "merge" ELSE "link") /\ Stays(p)
  /\ head' = Integration /\ UNCHANGED <<tree, held>>
Merges(p) ==
  /\ pc[p] = "merge" /\ pc'[p] = "link" /\ Stays(p)
  /\ UNCHANGED <<head, tree>>
  /\ held' = [held EXCEPT ![head] = @ \cup held[Task(p)]]
BeginsMove(p) ==
  /\ pc[p] = "link" /\ pc'[p] = "unlink" /\ Stays(p) /\ UNCHANGED projectVars
  /\ queue' = [queue EXCEPT ![Task(p)] = {"approved", "completed"}]

Course(p) ==
  \/ Ends(p) \/ Finds(p) \/ Proceeds(p) \/ OnBranch(p) \/ NoChange(p) \/ Change(p)
  \/ Commits(p) \/ ChecksOut(p) \/ Merges(p) \/ BeginsMove(p)

\* Leaving is the end of a tick wherever it leaves the project alone.
LEMMA LeaveEnds == ASSUME TickTypes, NEW p \in Procs, Leave(p) PROVE pc'[p] = "idle"
BY DEF Leave, Goto, TickTypes

LEMMA TickCourse == ASSUME IInv, NEW p \in Procs, TickStep(p) PROVE Course(p)
<1>1. TickTypes /\ WorldTypes
  BY TypeParts DEF IInv
<1>2. Leave(p) => pc'[p] = "idle"
  BY <1>1, LeaveEnds
<1>3. \A step \in Pcs : Goto(p, step) => pc'[p] = step
  BY <1>1 DEF Goto, TickTypes
<1>4. UNCHANGED <<at, mem>> => Stays(p)
  BY DEF Stays, Task
<1>5. CASE Locate(p)
  <2>1. pc[p] = "locate" /\ UNCHANGED projectVars
    BY <1>5 DEF Locate
  <2>2. \/ Leave(p)
        \/ Goto(p, "branch") /\ UNCHANGED <<at, mem>> /\ queue[Task(p)] = {"approved"}
        \/ Goto(p, "create") \/ Goto(p, "save")
    BY <1>5 DEF Locate, Ready
  <2> QED
    BY <1>2, <1>3, <1>4, <2>1, <2>2 DEF Course, Ends, Finds, Proceeds, Pcs
<1>6. CASE CheckBranch(p)
  BY <1>2, <1>3, <1>4, <1>6 DEF CheckBranch, Course, Ends, OnBranch, Pcs
<1>7. CASE ReadChanges(p)
  <2>1. pc[p] = "changes" /\ UNCHANGED projectVars
    BY <1>7 DEF ReadChanges
  <2>2. CASE Leave(p)
    BY <1>2, <2>1, <2>2 DEF Course, Ends
  <2>3. CASE /\ Goto(p, IF tree = None THEN "checkout" ELSE "commit")
             /\ mem' = [mem EXCEPT ![p].changed = tree # None]
             /\ UNCHANGED at
    <3>1. mem'[p].file = mem[p].file /\ (mem'[p].changed <=> tree # None)
      BY <1>1, <2>3 DEF TickTypes, Memories
    <3>2. Task(p)' = Task(p)
      BY <2>3, <3>1 DEF Task
    <3>3. pc'[p] = IF tree = None THEN "checkout" ELSE "commit"
      BY <1>3, <2>3 DEF Pcs
    <3> QED
      BY <2>1, <3>1, <3>2, <3>3 DEF Course, NoChange, Change
  <2> QED
    BY <1>7, <2>2, <2>3 DEF ReadChanges
<1>8. CASE Commit(p)
  BY <1>2, <1>3, <1>4, <1>8 DEF Commit, Die, Course, Ends, Commits, Pcs, projectVars
<1>9. CASE Checkout(p)
  <2>1. pc[p] = "checkout" /\ UNCHANGED <<tree, held>>
    BY <1>9 DEF Checkout
  <2>2. CASE /\ head' = Integration
             /\ Goto(p, IF mem[p].changed THEN "merge" ELSE "link")
             /\ UNCHANGED <<todo, at, mem>>
    <3>1. pc'[p] = IF mem[p].changed THEN "merge" ELSE "link"
      BY <1>3, <2>2 DEF Pcs
    <3> QED
      BY <1>4, <2>1, <2>2, <3>1 DEF Course, ChecksOut
  <2>3. CASE tree # None /\ Die(p) /\ UNCHANGED head
    BY <1>2, <2>1, <2>3 DEF Die, Course, Ends, projectVars
  <2> QED
    BY <1>9, <2>2, <2>3 DEF Checkout
<1>10. CASE Merge(p)
  BY <1>3, <1>4, <1>10 DEF Merge, Course, Merges, Pcs
<1>11. CASE Link(p)
  BY <1>2, <1>3, <1>4, <1>11 DEF Link, Die, Course, Ends, BeginsMove, Pcs
<1>12. CASE Unlink(p)
  BY <1>3, <1>12 DEF Unlink, Course, Proceeds, Pcs
<1>13. CASE Create(p)
  <2>1. Leave(p) \/ Goto(p, "save")
    BY <1>13 DEF Create
  <2>2. pc[p] = "create" /\ UNCHANGED projectVars
    BY <1>13 DEF Create
  <2> QED
    BY <1>2, <1>3, <2>1, <2>2 DEF Course, Ends, Proceeds, Pcs
<1>14. CASE Save(p)
  BY <1>2, <1>14 DEF Save, Course, Ends
<1> QED
  BY <1>5, <1>6, <1>7, <1>8, <1>9, <1>10, <1>11, <1>12, <1>13, <1>14 DEF TickStep

\* The steps that leave everything of these invariants alone but a counter or a list.
LEMMA Openings ==
  ASSUME IInv, \/ TickAll \/ CycleBreak
               \/ \E c \in Campaigns : StartCampaign(c) \/ TickSkip(c) \/ Expire(c)
               \/ \E p \in Procs, c \in Campaigns : TickBegin(p, c)
  PROVE  /\ UNCHANGED <<queue, projectVars, building, audited>>
         /\ \A p \in Procs : \/ /\ pc'[p] = pc[p] /\ at'[p] = at[p]
                                /\ mem'[p] = mem[p] /\ Task(p)' = Task(p)
                             \/ p = Own /\ pc'[p] = "create" /\ events' = events
                             \/ p = Own /\ pc'[p] = "locate" /\ events' = events + 1
                             \/ p = Sup /\ pc'[p] = "locate" /\ pc[p] = "idle" /\ todo # {}
         /\ events' \in {events, events + 1}
         /\ building # None => todo' \subseteq todo
<1>1. TickTypes
  BY TypeParts DEF IInv
<1>2. "owner" \in Procs /\ "supervisor" \in Procs
  BY DEF Procs
<1> DEFINE Same(p) == pc'[p] = pc[p] /\ at'[p] = at[p] /\ mem'[p] = mem[p] /\ Task(p)' = Task(p)
<1>3. CASE TickAll \/ CycleBreak \/ \E c \in Campaigns : TickSkip(c) \/ Expire(c)
  <2>1. UNCHANGED <<queue, projectVars, building, audited, pc, at, mem>>
        /\ events' \in {events, events + 1}
        /\ (building # None => todo' \subseteq todo)
    BY <1>3 DEF TickAll, CycleBreak, TickSkip, Expire, Event, tickVars
  <2>2. \A p \in Procs : Same(p)
    BY <2>1 DEF Task
  <2> QED
    BY <2>1, <2>2
<1>4. ASSUME NEW p \in Procs, NEW c \in Campaigns, NEW step, NEW file, Enter(p, c, step, file)
      PROVE  pc'[p] = step /\ \A q \in Procs : q # p => Same(q)
  <2>1. pc'[p] = step
    BY <1>1, <1>4 DEF Enter, Goto, TickTypes
  <2>2. \A q \in Procs : q # p => pc'[q] = pc[q] /\ at'[q] = at[q] /\ mem'[q] = mem[q]
    BY <1>1, <1>4 DEF Enter, Goto, TickTypes
  <2> QED
    BY <2>1, <2>2 DEF Task
<1>5. ASSUME NEW c \in Campaigns, StartCampaign(c)
      PROVE  /\ UNCHANGED <<queue, projectVars, building, audited, events, todo>>
             /\ pc'[Own] = "create" /\ \A q \in Procs : q # Own => Same(q)
  BY <1>2, <1>4, <1>5 DEF StartCampaign, Own
<1>6. ASSUME NEW p \in Procs, NEW c \in Campaigns, TickBegin(p, c)
      PROVE  /\ UNCHANGED <<queue, projectVars, building, audited>> /\ todo' \subseteq todo
             /\ pc'[p] = "locate" /\ \A q \in Procs : q # p => Same(q)
             /\ \/ p = Sup /\ pc[p] = "idle" /\ todo # {} /\ events' = events
                \/ p = Own /\ events' = events + 1
  <2>1. pc'[p] = "locate" /\ \A q \in Procs : q # p => Same(q)
    BY <1>4, <1>6 DEF TickBegin
  <2>2. UNCHANGED <<queue, projectVars, building, audited>> /\ todo' \subseteq todo
    BY <1>6 DEF TickBegin
  <2>3. \/ p = Sup /\ pc[p] = "idle" /\ todo # {} /\ events' = events
        \/ p = Own /\ events' = events + 1
    BY <1>1, <1>2, <1>6 DEF TickBegin, NextTick, Event, Sup, Own, TickTypes
  <2> QED
    BY <2>1, <2>2, <2>3
<1>7. CASE \E c \in Campaigns : StartCampaign(c)
  BY <1>5, <1>7
<1>8. CASE \E p \in Procs, c \in Campaigns : TickBegin(p, c)
  BY <1>6, <1>8
<1> QED
  BY <1>3, <1>7, <1>8

\* What the stages do, while the supervisor ticks no campaign.
Applies ==
  /\ building \in Tasks /\ tree = None /\ head' = building /\ tree' \in {building, None}
  /\ held' = [held EXCEPT ![building] = held[Integration]]
  /\ building' = None /\ UNCHANGED <<queue, audited>>
Builds(t) ==
  /\ queue[t] = {"pending"} /\ UNCHANGED <<projectVars, audited>>
  /\ \/ tree = None /\ building' = t /\ queue' = [queue EXCEPT ![t] = {"work"}]
     \/ tree # None /\ building' = None /\ queue' = [queue EXCEPT ![t] = {"stopped"}]
Stops(t) ==
  /\ queue[t] = {"work"} /\ queue' = [queue EXCEPT ![t] = {"stopped"}] /\ building' = None
  /\ UNCHANGED <<held, audited>>
  /\ \/ UNCHANGED <<head, tree>>
     \/ tree = t /\ tree' = None
Approves(t) ==
  /\ queue[t] = {"work"} /\ queue' = [queue EXCEPT ![t] = {"approved"}] /\ head = t
  /\ building = None /\ UNCHANGED <<projectVars, building>>
  /\ audited' = [audited EXCEPT ![t] = IF tree = None THEN "nothing" ELSE "change"]

LEMMA StageSteps ==
  ASSUME IInv, World, Apply \/ \E t \in Tasks : Build(t) \/ Stop(t) \/ Approve(t)
  PROVE  /\ UNCHANGED <<pc, at, mem, todo, events>> /\ \A p \in Procs : Task(p)' = Task(p)
         /\ at[Sup] = 0 /\ pc[Sup] = "idle" /\ todo = {}
         /\ Applies \/ \E t \in Tasks : Builds(t) \/ Stops(t) \/ Approves(t)
<1>1. TickTypes /\ WorldTypes /\ Sup \in Procs
  BY TypeParts, Names DEF IInv
<1>2. UNCHANGED <<pc, at, mem, todo, events>>
  BY DEF Apply, Build, Stop, Approve, tickVars
<1>3. \A p \in Procs : Task(p)' = Task(p)
  BY <1>2 DEF Task
<1>4. at[Sup] = 0 /\ todo = {}
  BY DEF Apply, Build, Stop, Approve, Stages, World, BuildingApart, Sup
<1>5. pc[Sup] = "idle"
  BY <1>1, <1>4 DEF TickTypes
<1>6. Apply => Applies
  BY <1>1 DEF Apply, Applies, WorldTypes
<1>7. \A t \in Tasks : Build(t) => Builds(t)
  BY DEF Build, Builds
<1>8. \A t \in Tasks : Stop(t) => Stops(t)
  BY DEF Stop, Stops
<1>9. \A t \in Tasks : Approve(t) => Approves(t)
  BY DEF Approve, Approves
<1> QED
  BY <1>2, <1>3, <1>4, <1>5, <1>6, <1>7, <1>8, <1>9

\* The four groups of steps.
LEMMA Groups ==
  [Next]_vars =>
    \/ Apply \/ \E t \in Tasks : Build(t) \/ Stop(t) \/ Approve(t)
    \/ \E p \in Procs : TickStep(p) \/ Crash(p) \/ MergeConflict(p)
    \/ TickAll \/ CycleBreak
    \/ \E c \in Campaigns : StartCampaign(c) \/ TickSkip(c) \/ Expire(c)
    \/ \E p \in Procs, c \in Campaigns : TickBegin(p, c)
    \/ UNCHANGED vars
<1>1. "supervisor" \in Procs /\ "owner" \in Procs
  BY DEF Procs
<1> QED
  BY <1>1 DEF Next, Supervisor, Owner, Faults, Pipeline

-----------------------------------------------------------------------------
(* World *)

LEMMA InitWorld == ASSUME Init PROVE World
BY Names DEF Init, World, BuildingApart, AuditedOnce, ReadyInHand, OwnerWaits, Completing

\* A step keeps the task a tick has found approved, as it locks the campaign.
LEMMA WorldStages ==
  ASSUME IInv, World, Apply \/ \E t \in Tasks : Build(t) \/ Stop(t) \/ Approve(t)
  PROVE  World'
<1>1. queue \in [Tasks -> SUBSET Queues] /\ audited \in [Tasks -> {"no", "nothing", "change"}]
      /\ None \notin Tasks
  BY TypeParts, Names DEF IInv, WorldTypes
<1>2. /\ UNCHANGED <<pc, at, mem, todo, events>> /\ \A p \in Procs : Task(p)' = Task(p)
      /\ at[Sup] = 0 /\ todo = {}
      /\ Applies \/ \E t \in Tasks : Builds(t) \/ Stops(t) \/ Approves(t)
  BY StageSteps
<1>3. BuildingApart /\ AuditedOnce /\ ReadyInHand /\ OwnerWaits
  BY DEF World
<1>4. BuildingApart'
  BY <1>1, <1>2, <1>3 DEF BuildingApart, Applies, Builds, Stops, Approves
<1>5. AuditedOnce'
  <2>1. CASE Applies
    BY <1>3, <2>1 DEF AuditedOnce, Applies
  <2>2. ASSUME NEW t \in Tasks, Builds(t) \/ Stops(t) PROVE AuditedOnce'
    <3>1. \A u \in Tasks : queue'[u] \subseteq {"pending", "work"} => queue[u] \subseteq {"pending", "work"}
      BY <1>1, <2>2 DEF Builds, Stops
    <3>2. audited' = audited
      BY <2>2 DEF Builds, Stops
    <3> QED
      BY <1>3, <3>1, <3>2 DEF AuditedOnce
  <2>3. ASSUME NEW t \in Tasks, Approves(t) PROVE AuditedOnce'
    <3>1. \A u \in Tasks : u # t => queue'[u] = queue[u] /\ audited'[u] = audited[u]
      BY <1>1, <2>3 DEF Approves
    <3>2. queue'[t] = {"approved"}
      BY <1>1, <2>3 DEF Approves
    <3> QED
      BY <1>3, <3>1, <3>2 DEF AuditedOnce
  <2> QED
    BY <1>2, <2>1, <2>2, <2>3
<1>6. ReadyInHand'
  <2>1. \A u \in Tasks : queue[u] = {"approved"} => queue'[u] = {"approved"}
    BY <1>1, <1>2 DEF Applies, Builds, Stops, Approves
  <2> SUFFICES ASSUME NEW p \in Procs, pc[p] \in Completing \ {"unlink"}
               PROVE  queue'[Task(p)] = {"approved"}
    BY <1>2 DEF ReadyInHand
  <2>2. Task(p) \in Tasks
    BY TaskInHand DEF Completing
  <2> QED
    BY <1>3, <2>1, <2>2 DEF ReadyInHand
<1>7. OwnerWaits'
  BY <1>2, <1>3 DEF OwnerWaits
<1> QED
  BY <1>4, <1>5, <1>6, <1>7 DEF World

LEMMA WorldTick ==
  ASSUME IInv, World, NEW p \in Procs, TickStep(p) \/ Crash(p) \/ MergeConflict(p)
  PROVE  World'
<1>1. /\ queue \in [Tasks -> SUBSET Queues] /\ None \notin Tasks
      /\ Sup \in Procs /\ Own \in Procs /\ events \in 0..MaxEvents
      /\ building \in Tasks \cup {None}
  BY TypeParts, Names DEF IInv, WorldTypes
<1>2. /\ pc[p] # "idle" /\ at[p] # 0
      /\ \A q \in Procs \ {p} : /\ pc'[q] = pc[q] /\ at'[q] = at[q]
                                /\ mem'[q] = mem[q] /\ Task(q)' = Task(q)
      /\ UNCHANGED <<building, audited>>
      /\ p # Sup => todo' = todo
      /\ TickStep(p) => events' = events
  BY OneMoves
<1>3. BuildingApart /\ AuditedOnce /\ ReadyInHand /\ OwnerWaits
  BY DEF World
<1>4. \/ queue' = queue
      \/ Task(p) \in Tasks /\ (Links(p) \/ Unlinks(p) \/ Creates(p))
  BY QueueSteps
<1>5. BuildingApart'
  <2>1. CASE building = None
    BY <1>2, <2>1 DEF BuildingApart
  <2>2. CASE building # None
    <3>1. at[Sup] = 0 /\ todo = {} /\ queue[building] = {"work"} /\ p # Sup
      BY <1>2, <1>3, <2>2 DEF BuildingApart
    <3>2. queue'[building] = queue[building]
      BY <1>1, <1>4, <2>2, <3>1 DEF Links, Unlinks, Creates
    <3> QED
      BY <1>1, <1>2, <3>1, <3>2 DEF BuildingApart
  <2> QED
    BY <2>1, <2>2
<1>6. AuditedOnce'
  <2>1. \A u \in Tasks : queue'[u] \subseteq {"pending", "work"} => queue[u] \subseteq {"pending", "work"}
    <3>1. CASE queue' = queue
      BY <3>1
    <3>2. CASE Task(p) \in Tasks /\ (Links(p) \/ Unlinks(p) \/ Creates(p))
      <4>1. \A u \in Tasks : u # Task(p) => queue'[u] = queue[u]
        BY <1>1, <3>2 DEF Links, Unlinks, Creates
      <4>2. \/ "completed" \in queue'[Task(p)]
            \/ queue'[Task(p)] = queue[Task(p)] \cup {"pending"}
        BY <1>1, <3>2 DEF Links, Unlinks, Creates
      <4> QED
        BY <4>1, <4>2
    <3> QED
      BY <1>4, <3>1, <3>2
  <2> QED
    BY <1>2, <1>3, <2>1 DEF AuditedOnce
<1>7. ReadyInHand'
  <2>1. ASSUME NEW q \in Procs, q # p, pc'[q] \in Completing \ {"unlink"}
        PROVE  queue'[Task(q)'] = {"approved"}
    <3>1. Task(q) # Task(p) /\ Task(q) \in Tasks /\ queue[Task(q)] = {"approved"} /\ Task(q)' = Task(q)
      BY <1>2, <1>3, <2>1, OtherTask, TaskInHand DEF Completing, ReadyInHand
    <3>2. queue'[Task(q)] = queue[Task(q)]
      BY <1>1, <1>4, <3>1 DEF Links, Unlinks, Creates
    <3> QED
      BY <3>1, <3>2
  <2>2. ASSUME pc'[p] \in Completing \ {"unlink"} PROVE queue'[Task(p)'] = {"approved"}
    <3>1. TickStep(p)
      <4>1. Crash(p) \/ MergeConflict(p) => pc'[p] = "idle"
        BY TypeParts, LeaveEnds DEF IInv, Crash, MergeConflict, Die
      <4> QED
        BY <2>2, <4>1 DEF Completing
    <3>2. Finds(p) \/ OnBranch(p) \/ NoChange(p) \/ Change(p) \/ Commits(p) \/ ChecksOut(p) \/ Merges(p)
      BY <2>2, <3>1, TickCourse DEF Course, Ends, Proceeds, BeginsMove, Completing
    <3>3. queue[Task(p)] = {"approved"} /\ Task(p)' = Task(p) /\ pc[p] \notin {"link", "unlink", "create"}
      BY <1>3, <3>2 DEF Finds, OnBranch, NoChange, Change, Commits, ChecksOut, Merges, Stays,
                        ReadyInHand, Completing
    <3>4. queue' = queue
      BY <1>4, <3>3 DEF Links, Unlinks, Creates
    <3> QED
      BY <3>3, <3>4
  <2> QED
    BY <2>1, <2>2 DEF ReadyInHand
<1>8. OwnerWaits'
  <2>1. CASE TickStep(p)
    <3>1. CASE p = Own
      <4>1. pc[Own] \in {"create", "save"} => pc'[Own] \in {"idle", "save", "create"}
        BY <2>1, <3>1, <1>1, TickCourse DEF Course, Ends, Finds, Proceeds, OnBranch, NoChange,
           Change, Commits, ChecksOut, Merges, BeginsMove
      <4> QED
        BY <1>2, <1>3, <2>1, <3>1, <4>1 DEF OwnerWaits
    <3>2. CASE p # Own
      BY <1>1, <1>2, <1>3, <2>1, <3>2 DEF OwnerWaits
    <3> QED
      BY <3>1, <3>2
  <2>2. CASE Crash(p) \/ MergeConflict(p)
    <3>1. events' = events + 1
      BY <2>2 DEF Crash, MergeConflict, Event
    <3>2. events' # 0
      BY <1>1, <3>1
    <3> QED
      BY <3>2 DEF OwnerWaits
  <2> QED
    BY <2>1, <2>2
<1> QED
  BY <1>5, <1>6, <1>7, <1>8 DEF World

LEMMA WorldOpening ==
  ASSUME IInv, World, \/ TickAll \/ CycleBreak
                      \/ \E c \in Campaigns : StartCampaign(c) \/ TickSkip(c) \/ Expire(c)
                      \/ \E p \in Procs, c \in Campaigns : TickBegin(p, c)
  PROVE  World'
<1>1. Sup \in Procs /\ Own \in Procs /\ Sup # Own /\ events \in 0..MaxEvents
  BY TypeParts, Names DEF IInv, WorldTypes
<1>2. /\ UNCHANGED <<queue, projectVars, building, audited>>
      /\ \A p \in Procs : \/ /\ pc'[p] = pc[p] /\ at'[p] = at[p]
                             /\ mem'[p] = mem[p] /\ Task(p)' = Task(p)
                          \/ p = Own /\ pc'[p] = "create" /\ events' = events
                          \/ p = Own /\ pc'[p] = "locate" /\ events' = events + 1
                          \/ p = Sup /\ pc'[p] = "locate" /\ pc[p] = "idle" /\ todo # {}
      /\ events' \in {events, events + 1}
      /\ building # None => todo' \subseteq todo
  BY Openings
<1>3. BuildingApart /\ AuditedOnce /\ ReadyInHand /\ OwnerWaits
  BY DEF World
<1>4. BuildingApart'
  BY <1>1, <1>2, <1>3 DEF BuildingApart
<1>5. AuditedOnce'
  BY <1>2, <1>3 DEF AuditedOnce
<1>6. ReadyInHand'
  <2> SUFFICES ASSUME NEW p \in Procs, pc'[p] \in Completing \ {"unlink"}
               PROVE  queue'[Task(p)'] = {"approved"}
    BY DEF ReadyInHand
  <2>1. pc'[p] = pc[p] /\ Task(p)' = Task(p)
    BY <1>2 DEF Completing
  <2> QED
    BY <1>2, <1>3, <2>1 DEF ReadyInHand
<1>7. OwnerWaits'
  BY <1>1, <1>2, <1>3 DEF OwnerWaits
<1> QED
  BY <1>4, <1>5, <1>6, <1>7 DEF World

LEMMA StepWorld == ASSUME IInv, World, [Next]_vars PROVE World'
<1>1. CASE UNCHANGED vars
  BY <1>1 DEF vars, projectVars, tickVars, World, BuildingApart, AuditedOnce, ReadyInHand, OwnerWaits, Task
<1> QED
  BY <1>1, Groups, WorldStages, WorldTick, WorldOpening

-----------------------------------------------------------------------------
(* At most one event *)

LEMMA InitOneEvent == ASSUME Init PROVE OneEvent
<1>1. pc[Sup] = "idle" /\ tree = None /\ \A b \in Branches : held[b] = {}
  BY Names DEF Init
<1> QED
  BY <1>1 DEF OneEvent, Checkouts, SupervisorTick, Histories

\* A candidate is built on its own branch, and what is approved is what was audited.
LEMMA OneEventStages ==
  ASSUME IInv, World, OneEvent,
         Apply \/ \E t \in Tasks : Build(t) \/ Stop(t) \/ Approve(t)
  PROVE  OneEvent'
<1>1. /\ queue \in [Tasks -> SUBSET Queues] /\ audited \in [Tasks -> {"no", "nothing", "change"}]
      /\ held \in [Branches -> SUBSET Tasks] /\ tree \in Tasks \cup {None}
      /\ building \in Tasks \cup {None}
  BY TypeParts DEF IInv, WorldTypes
<1>2. /\ UNCHANGED <<pc, at, mem, todo, events>> /\ Task(Own)' = Task(Own)
      /\ pc[Sup] = "idle"
      /\ Applies \/ \E t \in Tasks : Builds(t) \/ Stops(t) \/ Approves(t)
  BY StageSteps, Names
<1>3. /\ Integration \notin Tasks /\ None \notin Tasks /\ Integration \in Branches
      /\ Tasks \subseteq Branches
  BY Names
<1>4. SupervisorTick'
  BY <1>2 DEF SupervisorTick
<1> SUFFICES ASSUME events <= 1 PROVE Checkouts' /\ Histories'
  BY <1>2, <1>4 DEF OneEvent
<1>5. Checkouts /\ Histories
  BY DEF OneEvent
<1>6. CASE Applies
  <2>1. queue[building] = {"work"}
    BY <1>3, <1>6 DEF Applies, World, BuildingApart
  <2>2. Checkouts'
    BY <1>6, <2>1 DEF Applies, Checkouts
  <2>3. \A t \in held[Integration] : audited[t] = "change"
    BY <1>1, <1>3, <1>5 DEF Histories
  <2>4. \A b \in Branches : held'[b] = IF b = building THEN held[Integration] ELSE held[b]
    BY <1>1, <1>3, <1>6 DEF Applies
  <2>5. Histories'
    BY <1>2, <1>5, <1>6, <2>3, <2>4 DEF Applies, Histories
  <2> QED
    BY <2>2, <2>5
<1>7. ASSUME NEW t \in Tasks, Builds(t) \/ Stops(t) PROVE Checkouts' /\ Histories'
  <2>1. UNCHANGED <<held, audited>> /\ \/ UNCHANGED <<head, tree>>
                                       \/ tree' = None
    BY <1>7 DEF Builds, Stops, projectVars
  <2>2. \A u \in Tasks : "approved" \in queue'[u] => "approved" \in queue[u]
    BY <1>1, <1>7 DEF Builds, Stops
  <2>3. Checkouts'
    BY <1>1, <1>2, <1>5, <2>1, <2>2 DEF Checkouts
  <2>4. Histories'
    BY <1>2, <1>5, <2>1 DEF Histories
  <2> QED
    BY <2>3, <2>4
<1>8. ASSUME NEW t \in Tasks, Approves(t) PROVE Checkouts' /\ Histories'
  <2>1. audited[t] = "no" /\ UNCHANGED <<head, tree, held>> /\ head = t
    BY <1>8 DEF Approves, World, AuditedOnce, projectVars
  <2>2. \A u \in Tasks : u # t => queue'[u] = queue[u] /\ audited'[u] = audited[u]
    BY <1>1, <1>8 DEF Approves
  <2>3. tree # None => tree = t /\ audited'[t] = "change"
    BY <1>1, <1>3, <1>5, <1>8, <2>1 DEF Checkouts, Approves
  <2>4. Checkouts'
    BY <1>1, <1>5, <2>1, <2>3 DEF Checkouts
  <2>5. Histories'
    BY <1>1, <1>2, <1>5, <2>1, <2>2 DEF Histories
  <2> QED
    BY <2>4, <2>5
<1> QED
  BY <1>2, <1>6, <1>7, <1>8

\* A step of a tick takes no candidate into the checkout.
LEMMA TickTree ==
  ASSUME IInv, NEW p \in Procs, TickStep(p)
  PROVE  /\ tree' \in {tree, None} /\ UNCHANGED <<audited, events>>
         /\ head' = head \/ ChecksOut(p)
         /\ \A t \in Tasks : "approved" \in queue'[t] => "approved" \in queue[t]
<1>1. queue \in [Tasks -> SUBSET Queues]
  BY TypeParts DEF IInv, WorldTypes
<1>2. tree' \in {tree, None} /\ (head' = head \/ ChecksOut(p))
  BY TickCourse DEF Course, Ends, Finds, Proceeds, OnBranch, NoChange, Change, Commits, ChecksOut,
                    Merges, BeginsMove, projectVars
<1>3. UNCHANGED <<audited, events>>
  BY OneMoves
<1>4. \A t \in Tasks : "approved" \in queue'[t] => "approved" \in queue[t]
  BY <1>1, QueueSteps DEF Links, Unlinks, Creates
<1> QED
  BY <1>2, <1>3, <1>4

\* The tick of the owner is the event, once it is more than the start of a campaign.
LEMMA OwnerIsEvent ==
  ASSUME IInv, World, events <= 1, pc[Own] \notin {"idle", "create", "save"}
  PROVE  events = 1
BY TypeParts, MaxEventsAssumption DEF IInv, WorldTypes, World, OwnerWaits

LEMMA CheckoutsTick ==
  ASSUME IInv, World, OneEvent, events <= 1, NEW p \in Procs, TickStep(p)
  PROVE  Checkouts'
<1>1. tree \in Tasks \cup {None} /\ Procs = {Sup, Own} /\ Sup # Own /\ None \notin Tasks
  BY TypeParts, Names DEF IInv, WorldTypes
<1>2. /\ tree' \in {tree, None} /\ UNCHANGED <<audited, events>>
      /\ head' = head \/ ChecksOut(p)
      /\ \A t \in Tasks : "approved" \in queue'[t] => "approved" \in queue[t]
  BY TickTree
<1>3. Checkouts /\ SupervisorTick
  BY DEF OneEvent
<1>4. \A q \in Procs : q # p => pc'[q] = pc[q]
  BY OneMoves
<1> SUFFICES ASSUME tree' # None, tree # None, tree' = tree PROVE Checkouts'
  BY <1>2 DEF Checkouts
<1>5. "approved" \in queue'[tree] => audited[tree] = "change"
  BY <1>1, <1>2, <1>3 DEF Checkouts
<1>6. CASE head' = head
  <2>1. CASE head = tree
    BY <1>2, <1>5, <1>6, <2>1 DEF Checkouts
  <2>2. CASE head # tree
    <3>1. head = Integration /\ events = 1 /\ pc[Own] \notin Before \cup {"checkout"}
      BY <1>3, <2>2 DEF Checkouts
    <3>2. p = Own => pc'[Own] \notin Before \cup {"checkout"}
      BY <3>1, TickCourse DEF Course, Ends, Finds, Proceeds, OnBranch, NoChange, Change, Commits,
                              ChecksOut, Merges, BeginsMove, Before
    <3>3. pc'[Own] \notin Before \cup {"checkout"}
      BY <1>1, <1>4, <3>1, <3>2
    <3> QED
      BY <1>2, <1>5, <1>6, <3>1, <3>3 DEF Checkouts
  <2> QED
    BY <2>1, <2>2
<1>7. CASE ChecksOut(p)
  <2>1. p = Own
    BY <1>1, <1>3, <1>7 DEF SupervisorTick, ChecksOut
  <2>2. events = 1
    BY <1>7, <2>1, OwnerIsEvent DEF ChecksOut
  <2>3. head' = Integration /\ pc'[Own] \in {"merge", "link"}
    BY <1>7, <2>1 DEF ChecksOut
  <2> QED
    BY <1>2, <1>5, <2>2, <2>3 DEF Checkouts, Before
<1> QED
  BY <1>2, <1>6, <1>7

LEMMA SupervisorTickTick ==
  ASSUME IInv, World, OneEvent, events <= 1, NEW p \in Procs, TickStep(p)
  PROVE  SupervisorTick'
<1>1. /\ tree \in Tasks \cup {None} /\ Procs = {Sup, Own} /\ Sup # Own
      /\ None \notin Tasks /\ Integration \notin Tasks
  BY TypeParts, Names DEF IInv, WorldTypes
<1>2. /\ tree' \in {tree, None} /\ UNCHANGED <<audited, events>>
      /\ head' = head \/ ChecksOut(p)
  BY TickTree
<1>3. Checkouts /\ SupervisorTick
  BY DEF OneEvent
<1>4. CASE p = Own
  <2>1. pc'[Sup] = pc[Sup] /\ mem'[Sup] = mem[Sup] /\ Task(Sup)' = Task(Sup)
    BY <1>1, <1>4, OneMoves
  <2>2. head' \in {head, Integration} /\ (events = 0 => head' = head)
    BY <1>2, <1>4, OwnerIsEvent DEF ChecksOut
  <2> QED
    BY <1>2, <1>3, <2>1, <2>2 DEF SupervisorTick
<1>5. CASE p = Sup
  <2>1. pc[Sup] \in Completing => Task(Sup) \in Tasks
    BY <1>1, TaskInHand DEF Completing
  <2>2. CASE \/ Ends(Sup) \/ Finds(Sup) \/ Proceeds(Sup) \/ Merges(Sup) \/ BeginsMove(Sup)
    <3>1. pc'[Sup] \in {"idle", "branch", "create", "save", "link", "unlink"}
      BY <2>2 DEF Ends, Finds, Proceeds, Merges, BeginsMove
    <3> QED
      BY <3>1 DEF SupervisorTick
  <2>3. CASE OnBranch(Sup)
    <3>1. tree \in {None, Task(Sup)}
      BY <1>1, <1>3, <2>1, <2>3 DEF OnBranch, Checkouts, Completing
    <3> QED
      BY <2>3, <3>1 DEF OnBranch, Stays, SupervisorTick, projectVars
  <2>4. CASE NoChange(Sup)
    BY <2>4 DEF NoChange, SupervisorTick, projectVars
  <2>5. CASE Change(Sup)
    <3>1. tree = Task(Sup) /\ queue[tree] = {"approved"}
      BY <1>1, <1>3, <2>5 DEF Change, SupervisorTick, World, ReadyInHand, Completing
    <3>2. audited[tree] = "change"
      BY <1>3, <2>5, <3>1 DEF Change, Checkouts
    <3> QED
      BY <1>2, <2>5, <3>1, <3>2 DEF Change, SupervisorTick, projectVars
  <2>6. CASE Commits(Sup)
    BY <1>2, <1>3, <2>6 DEF Commits, Stays, SupervisorTick
  <2>7. CASE ChecksOut(Sup)
    BY <1>2, <1>3, <2>7 DEF ChecksOut, Stays, SupervisorTick
  <2> QED
    BY <1>5, <2>2, <2>3, <2>4, <2>5, <2>6, <2>7, TickCourse DEF Course
<1> QED
  BY <1>1, <1>4, <1>5

LEMMA HistoriesTick ==
  ASSUME IInv, World, OneEvent, events <= 1, NEW p \in Procs, TickStep(p)
  PROVE  Histories'
<1>1. /\ held \in [Branches -> SUBSET Tasks] /\ head \in Branches /\ tree \in Tasks \cup {None}
      /\ Procs = {Sup, Own} /\ Sup # Own /\ Tasks \subseteq Branches
      /\ None \notin Tasks /\ Integration \notin Tasks
  BY TypeParts, Names DEF IInv, WorldTypes
<1>2. UNCHANGED <<audited, events>>
  BY TickTree
<1>3. Checkouts /\ SupervisorTick /\ Histories
  BY DEF OneEvent
<1>4. \A q \in Procs : q # p => pc'[q] = pc[q] /\ Task(q)' = Task(q)
  BY OneMoves
<1>5. ASSUME ~Commits(p), held' = held PROVE Histories'
  <2> SUFFICES ASSUME NEW b \in Branches, NEW t \in held[b], audited[t] # "change"
               PROVE  /\ b = t /\ events = 1
                      /\ pc'[Own] \notin Before
                      /\ pc'[Own] \in {"checkout", "merge"} => Task(Own)' # t
    BY <1>2, <1>5 DEF Histories
  <2>1. /\ b = t /\ events = 1
        /\ pc[Own] \notin Before
        /\ pc[Own] \in {"checkout", "merge"} => Task(Own) # t
    BY <1>3 DEF Histories
  <2>2. CASE p = Own
    <3>1. /\ pc'[Own] \notin Before
          /\ pc'[Own] \in {"checkout", "merge"} => pc[Own] = "checkout" /\ Task(Own)' = Task(Own)
      BY <1>5, <2>1, <2>2, TickCourse DEF Course, Ends, Finds, Proceeds, OnBranch, NoChange, Change,
         ChecksOut, Merges, BeginsMove, Stays, Before
    <3> QED
      BY <2>1, <3>1
  <2>3. CASE p # Own
    BY <1>1, <1>4, <2>1, <2>3
  <2> QED
    BY <2>2, <2>3
<1>6. CASE Commits(p)
  <2>1. tree \in Tasks /\ \A b \in Branches : held'[b] = IF b = head THEN held[b] \cup {tree} ELSE held[b]
    BY <1>1, <1>6 DEF Commits
  <2>2. CASE p = Sup
    <3>1. audited[tree] = "change" /\ pc'[Own] = pc[Own] /\ Task(Own)' = Task(Own)
      BY <1>1, <1>3, <1>4, <1>6, <2>2 DEF Commits, SupervisorTick
    <3> SUFFICES ASSUME NEW b \in Branches, NEW t \in held'[b], audited[t] # "change"
                 PROVE  /\ b = t /\ events = 1
                        /\ pc'[Own] \notin Before
                        /\ pc'[Own] \in {"checkout", "merge"} => Task(Own)' # t
      BY <1>2 DEF Histories
    <3>2. t \in held[b]
      BY <2>1, <3>1
    <3>3. /\ b = t /\ events = 1
          /\ pc[Own] \notin Before
          /\ pc[Own] \in {"checkout", "merge"} => Task(Own) # t
      BY <1>3, <3>2 DEF Histories
    <3> QED
      BY <3>1, <3>3
  <2>3. CASE p = Own
    <3>1. pc[Own] = "commit" /\ pc'[Own] = "checkout" /\ Task(Own)' = Task(Own) /\ tree # None
      BY <1>6, <2>3 DEF Commits, Stays
    <3>2. events = 1 /\ head = tree
      BY <1>3, <3>1, OwnerIsEvent DEF Checkouts, Before
    <3>3. \A b \in Branches : \A t \in held[b] : audited[t] = "change"
      BY <1>3, <3>1 DEF Histories, Before
    <3>4. Task(Own) = tree => audited[tree] = "change"
      BY <1>1, <1>3, <3>1 DEF Checkouts, World, ReadyInHand, Completing
    <3> QED
      BY <1>2, <2>1, <3>1, <3>2, <3>3, <3>4 DEF Histories, Before
  <2> QED
    BY <1>1, <2>2, <2>3
<1>7. CASE Merges(p)
  <2>1. Task(p) \in Branches /\ pc[p] = "merge" /\ pc'[p] = "link"
    BY <1>1, <1>7, TaskInHand DEF Merges, Completing
  <2>2. \A b \in Branches : held'[b] = IF b = head THEN held[b] \cup held[Task(p)] ELSE held[b]
    BY <1>1, <1>7 DEF Merges
  <2>3. \A t \in held[Task(p)] : audited[t] = "change"
    <3>1. CASE p = Sup
      BY <1>3, <2>1, <3>1 DEF SupervisorTick, Histories
    <3>2. CASE p = Own
      BY <1>3, <2>1, <3>2 DEF Histories
    <3> QED
      BY <1>1, <3>1, <3>2
  <2>4. \/ pc'[Own] = pc[Own] /\ Task(Own)' = Task(Own)
        \/ pc'[Own] = "link"
    BY <1>1, <1>4, <2>1
  <2> SUFFICES ASSUME NEW b \in Branches, NEW t \in held'[b], audited[t] # "change"
               PROVE  /\ b = t /\ events = 1
                      /\ pc'[Own] \notin Before
                      /\ pc'[Own] \in {"checkout", "merge"} => Task(Own)' # t
    BY <1>2 DEF Histories
  <2>5. t \in held[b]
    BY <2>2, <2>3
  <2>6. /\ b = t /\ events = 1
        /\ pc[Own] \notin Before
        /\ pc[Own] \in {"checkout", "merge"} => Task(Own) # t
    BY <1>3, <2>5 DEF Histories
  <2> QED
    BY <2>4, <2>6 DEF Before
<1> QED
  BY <1>5, <1>6, <1>7, TickCourse DEF Course, Ends, Finds, Proceeds, OnBranch, NoChange, Change,
     ChecksOut, BeginsMove, projectVars, Commits

\* A crash, a conflict or a tick of the owner is the first event, and finds everything
\* in order.
LEMMA OneEventFault ==
  ASSUME IInv, World, OneEvent, NEW p \in Procs, Crash(p) \/ MergeConflict(p)
  PROVE  OneEvent'
<1>1. /\ events \in Nat /\ Procs = {Sup, Own} /\ Sup # Own /\ None \notin Tasks
      /\ tree \in Tasks \cup {None}
  BY TypeParts, MaxEventsAssumption, Names DEF IInv, WorldTypes
<1>2. events' = events + 1 /\ UNCHANGED <<queue, held, audited, head>> /\ pc'[p] = "idle"
  <2>1. events' = events + 1 /\ UNCHANGED <<queue, held, audited, head>> /\ Leave(p)
    BY DEF Crash, MergeConflict, Event, Die, projectVars
  <2> QED
    BY <2>1, TypeParts, LeaveEnds DEF IInv
<1> SUFFICES ASSUME events = 0, events' = 1 PROVE Checkouts' /\ SupervisorTick' /\ Histories'
  BY <1>1, <1>2 DEF OneEvent
<1>3. Checkouts /\ SupervisorTick /\ Histories /\ pc[Own] \in {"idle", "create", "save"}
  BY DEF OneEvent, World, OwnerWaits
<1>4. /\ \A q \in Procs \ {p} : /\ pc'[q] = pc[q] /\ mem'[q] = mem[q] /\ Task(q)' = Task(q)
      /\ pc'[Own] \in {"idle", "create", "save"}
  <2>1. \A q \in Procs \ {p} : pc'[q] = pc[q] /\ mem'[q] = mem[q] /\ Task(q)' = Task(q)
    BY OneMoves
  <2> QED
    BY <1>1, <1>2, <1>3, <2>1
<1>5. \A b \in Branches : \A t \in held[b] : audited[t] = "change"
  BY <1>3 DEF Histories
<1>6. Histories'
  BY <1>2, <1>5 DEF Histories
<1>7. CASE tree' = tree
  <2>1. Checkouts'
    BY <1>2, <1>3, <1>7 DEF Checkouts
  <2>2. p = Own => pc'[Sup] = pc[Sup] /\ mem'[Sup] = mem[Sup] /\ Task(Sup)' = Task(Sup)
    BY <1>1, <1>4
  <2>3. SupervisorTick'
    BY <1>1, <1>2, <1>3, <1>7, <2>2 DEF SupervisorTick
  <2> QED
    BY <1>6, <2>1, <2>3
<1>8. CASE MergeConflict(p)
  <2>1. p = Sup /\ pc[Sup] = "merge" /\ tree' = Task(Sup)
    BY <1>1, <1>3, <1>8 DEF MergeConflict
  <2>2. head = Integration /\ audited[Task(Sup)] = "change"
    BY <1>3, <2>1 DEF SupervisorTick
  <2>3. SupervisorTick'
    BY <1>2, <2>1 DEF SupervisorTick
  <2>4. Checkouts'
    BY <1>2, <1>4, <2>1, <2>2 DEF Checkouts, Before
  <2> QED
    BY <1>6, <2>3, <2>4
<1> QED
  BY <1>7, <1>8 DEF Crash, projectVars

LEMMA OneEventOpening ==
  ASSUME IInv, World, OneEvent,
         \/ TickAll \/ CycleBreak
         \/ \E c \in Campaigns : StartCampaign(c) \/ TickSkip(c) \/ Expire(c)
         \/ \E p \in Procs, c \in Campaigns : TickBegin(p, c)
  PROVE  OneEvent'
<1>1. /\ events \in Nat /\ Sup \in Procs /\ Own \in Procs /\ Sup # Own
  BY TypeParts, MaxEventsAssumption, Names DEF IInv, WorldTypes
<1>2. /\ UNCHANGED <<queue, projectVars, building, audited>>
      /\ \A p \in Procs : \/ /\ pc'[p] = pc[p] /\ at'[p] = at[p]
                             /\ mem'[p] = mem[p] /\ Task(p)' = Task(p)
                          \/ p = Own /\ pc'[p] = "create" /\ events' = events
                          \/ p = Own /\ pc'[p] = "locate" /\ events' = events + 1
                          \/ p = Sup /\ pc'[p] = "locate" /\ pc[p] = "idle" /\ todo # {}
      /\ events' \in {events, events + 1}
  BY Openings
<1> SUFFICES ASSUME events' <= 1 PROVE Checkouts' /\ SupervisorTick' /\ Histories'
  BY DEF OneEvent
<1>3. Checkouts /\ SupervisorTick /\ Histories /\ events <= 1
  BY <1>1, <1>2 DEF OneEvent
<1>4. UNCHANGED <<head, tree, held>>
  BY <1>2 DEF projectVars
<1>5. /\ events' # events => events = 0 /\ events' = 1
      /\ \/ pc'[Own] = pc[Own] /\ Task(Own)' = Task(Own)
         \/ pc'[Own] = "create"
         \/ pc'[Own] = "locate" /\ events = 0
  BY <1>1, <1>2, <1>3
<1>6. Checkouts'
  BY <1>2, <1>3, <1>4, <1>5 DEF Checkouts, Before
<1>7. SupervisorTick'
  <2>1. CASE pc'[Sup] = "locate"
    BY <2>1 DEF SupervisorTick
  <2>2. CASE pc'[Sup] = pc[Sup] /\ mem'[Sup] = mem[Sup] /\ Task(Sup)' = Task(Sup)
    BY <1>2, <1>3, <1>4, <1>5, <2>2 DEF SupervisorTick
  <2> QED
    BY <1>1, <1>2, <2>1, <2>2
<1>8. Histories'
  <2> SUFFICES ASSUME NEW b \in Branches, NEW t \in held[b], audited[t] # "change"
               PROVE  /\ b = t /\ events' = 1
                      /\ pc'[Own] \notin Before
                      /\ pc'[Own] \in {"checkout", "merge"} => Task(Own)' # t
    BY <1>2, <1>4 DEF Histories
  <2>1. /\ b = t /\ events = 1
        /\ pc[Own] \notin Before
        /\ pc[Own] \in {"checkout", "merge"} => Task(Own) # t
    BY <1>3 DEF Histories
  <2> QED
    BY <1>5, <2>1 DEF Before
<1> QED
  BY <1>6, <1>7, <1>8

LEMMA StepOneEvent == ASSUME IInv, World, OneEvent, [Next]_vars PROVE OneEvent'
<1>1. CASE UNCHANGED vars
  BY <1>1 DEF vars, projectVars, tickVars, OneEvent, Checkouts, SupervisorTick, Histories, Task
<1>2. ASSUME NEW p \in Procs, TickStep(p) PROVE OneEvent'
  BY <1>2, CheckoutsTick, SupervisorTickTick, HistoriesTick, TickTree DEF OneEvent
<1> QED
  BY <1>1, <1>2, Groups, OneEventStages, OneEventFault, OneEventOpening

-----------------------------------------------------------------------------
(* No event *)

LEMMA InitCalm == ASSUME Init PROVE Calm
<1>1. pc[Sup] = "idle" /\ \A t \in Tasks : queue[t] = {}
  BY Names DEF Init
<1> QED
  BY <1>1 DEF Calm, CompletedMeansMerged

\* Stage 01C finds in the checkout the candidate that Stage 01B has put there.
LEMMA CalmStages ==
  ASSUME IInv, World, OneEvent, Calm,
         Apply \/ \E t \in Tasks : Build(t) \/ Stop(t) \/ Approve(t)
  PROVE  Calm'
<1>1. /\ queue \in [Tasks -> SUBSET Queues] /\ audited \in [Tasks -> {"no", "nothing", "change"}]
      /\ held \in [Branches -> SUBSET Tasks] /\ tree \in Tasks \cup {None}
      /\ Integration \notin Tasks /\ None \notin Tasks /\ Integration \in Branches
      /\ Tasks \subseteq Branches
  BY TypeParts, Names DEF IInv, WorldTypes
<1>2. /\ UNCHANGED <<pc, events>> /\ pc[Sup] = "idle"
      /\ Applies \/ \E t \in Tasks : Builds(t) \/ Stops(t) \/ Approves(t)
  BY StageSteps
<1> SUFFICES ASSUME events = 0
             PROVE  /\ \A t \in Tasks : queue'[t] = {"approved"} /\ audited'[t] = "change" => tree' = t
                    /\ CompletedMeansMerged'
  BY <1>2 DEF Calm
<1>3. /\ \A t \in Tasks : queue[t] = {"approved"} /\ audited[t] = "change" => tree = t
      /\ CompletedMeansMerged
      /\ tree # None => head = tree
  BY <1>2 DEF Calm, OneEvent, Checkouts
<1>4. CASE Applies
  <2>1. held'[Integration] = held[Integration]
    BY <1>1, <1>4 DEF Applies
  <2> QED
    BY <1>1, <1>3, <1>4, <2>1 DEF Applies, CompletedMeansMerged
<1>5. ASSUME NEW t \in Tasks, Builds(t) \/ Stops(t)
      PROVE  /\ \A u \in Tasks : queue'[u] = {"approved"} /\ audited'[u] = "change" => tree' = u
             /\ CompletedMeansMerged'
  <2>1. \A u \in Tasks : \/ queue'[u] = queue[u] /\ u # t
                         \/ queue'[u] \in {{"work"}, {"stopped"}}
    BY <1>1, <1>5 DEF Builds, Stops
  <2>2. UNCHANGED <<held, audited>> /\ (tree' = tree \/ tree = t)
    BY <1>5 DEF Builds, Stops, projectVars
  <2> QED
    BY <1>3, <2>1, <2>2 DEF CompletedMeansMerged
<1>6. ASSUME NEW t \in Tasks, Approves(t)
      PROVE  /\ \A u \in Tasks : queue'[u] = {"approved"} /\ audited'[u] = "change" => tree' = u
             /\ CompletedMeansMerged'
  <2>1. \A u \in Tasks : u # t => queue'[u] = queue[u] /\ audited'[u] = audited[u]
    BY <1>1, <1>6 DEF Approves
  <2>2. queue'[t] = {"approved"} /\ UNCHANGED <<tree, held>> /\ (audited'[t] = "change" => tree = t)
    BY <1>1, <1>3, <1>6 DEF Approves, projectVars
  <2> QED
    BY <1>3, <2>1, <2>2 DEF CompletedMeansMerged
<1> QED
  BY <1>2, <1>4, <1>5, <1>6

\* The owner only starts campaigns, which touches neither the checkout nor a branch.
LEMMA CalmOwner ==
  ASSUME IInv, World, Calm, TickStep(Own), events = 0
  PROVE  Calm'
<1>1. /\ queue \in [Tasks -> SUBSET Queues] /\ Sup \in Procs /\ Own \in Procs /\ Sup # Own
  BY TypeParts, Names DEF IInv, WorldTypes
<1>2. pc[Own] \in {"create", "save"}
  BY <1>1, OneMoves DEF World, OwnerWaits
<1>3. UNCHANGED projectVars
  BY <1>1, <1>2, TickCourse DEF Course, Ends, Finds, Proceeds, OnBranch, NoChange, Change, Commits,
                                ChecksOut, Merges, BeginsMove
<1>4. /\ pc'[Sup] = pc[Sup] /\ mem'[Sup] = mem[Sup] /\ Task(Sup)' = Task(Sup)
      /\ UNCHANGED <<audited, events>>
  BY <1>1, OneMoves
<1>5. \A t \in Tasks : queue'[t] = queue[t] \/ queue'[t] = queue[t] \cup {"pending"}
  BY <1>1, <1>2, QueueSteps DEF Links, Unlinks, Creates
<1>6. \A t \in Tasks : /\ queue'[t] = {"approved"} => queue[t] = {"approved"}
                       /\ "completed" \in queue'[t] => "completed" \in queue[t]
  <2> SUFFICES ASSUME NEW t \in Tasks
               PROVE  /\ queue'[t] = {"approved"} => queue[t] = {"approved"}
                      /\ "completed" \in queue'[t] => "completed" \in queue[t]
    OBVIOUS
  <2>1. queue'[t] = queue[t] \/ queue'[t] = queue[t] \cup {"pending"}
    BY <1>5
  <2> QED
    BY <2>1
<1>7. CompletedMeansMerged'
  BY <1>3, <1>4, <1>6 DEF Calm, CompletedMeansMerged, projectVars
<1> QED
  BY <1>3, <1>4, <1>6, <1>7 DEF Calm, projectVars

\* The supervisor commits an approved change, merges it and only then moves the task.
LEMMA CalmSupervisor ==
  ASSUME IInv, World, OneEvent, Calm, TickStep(Sup), events = 0
  PROVE  Calm'
<1>1. /\ queue \in [Tasks -> SUBSET Queues] /\ held \in [Branches -> SUBSET Tasks]
      /\ head \in Branches /\ tree \in Tasks \cup {None}
      /\ Integration \notin Tasks /\ None \notin Tasks /\ Integration \in Branches
      /\ Tasks \subseteq Branches /\ Sup \in Procs
  BY TypeParts, Names DEF IInv, WorldTypes
<1>2. UNCHANGED <<audited, events>>
  BY <1>1, TickTree
<1>3. pc[Sup] \in Completing => Task(Sup) \in Tasks
  BY <1>1, TaskInHand DEF Completing
<1>4. pc[Sup] \in Completing \ {"unlink"} => queue[Task(Sup)] = {"approved"}
  BY <1>1 DEF World, ReadyInHand
<1>5. /\ pc[Sup] \in {"changes", "commit"} => head = Task(Sup)
      /\ pc[Sup] = "checkout" /\ audited[Task(Sup)] = "change" =>
           mem[Sup].changed /\ Task(Sup) \in held[Task(Sup)]
      /\ pc[Sup] = "merge" => Task(Sup) \in held[Task(Sup)]
      /\ pc[Sup] \in {"link", "unlink"} /\ audited[Task(Sup)] = "change" =>
           Task(Sup) \in held[Integration]
      /\ \A t \in Tasks : queue[t] = {"approved"} /\ audited[t] = "change" =>
           tree = t \/ (pc[Sup] \in {"checkout", "merge", "link"} /\ Task(Sup) = t)
      /\ CompletedMeansMerged
  BY DEF Calm
<1>6. /\ tree # None => head = tree
      /\ SupervisorTick
  BY DEF OneEvent, Checkouts
<1> DEFINE Kept == \A t \in Tasks : queue'[t] = {"approved"} /\ audited[t] = "change" =>
                      tree' = t \/ (pc'[Sup] \in {"checkout", "merge", "link"} /\ Task(Sup)' = t)
           Past == /\ pc'[Sup] \in {"changes", "commit"} => head' = Task(Sup)'
                   /\ pc'[Sup] = "checkout" /\ audited[Task(Sup)'] = "change" =>
                        mem'[Sup].changed /\ Task(Sup)' \in held'[Task(Sup)']
                   /\ pc'[Sup] = "merge" => Task(Sup)' \in held'[Task(Sup)']
                   /\ pc'[Sup] \in {"link", "unlink"} /\ audited[Task(Sup)'] = "change" =>
                        Task(Sup)' \in held'[Integration]
<1>7. ASSUME Kept, Past, held[Integration] \subseteq held'[Integration],
             \A t \in Tasks : "completed" \in queue'[t] /\ audited[t] = "change" =>
               "completed" \in queue[t] \/ t \in held[Integration]
      PROVE  Calm'
  <2>1. CompletedMeansMerged'
    BY <1>2, <1>5, <1>7 DEF CompletedMeansMerged
  <2> QED
    BY <1>2, <1>7, <2>1 DEF Calm
<1> HIDE DEF Kept, Past
\* The queues: only the link makes a task completed.
<1>8. \/ queue' = queue
      \/ Task(Sup) \in Tasks /\ (Links(Sup) \/ Unlinks(Sup) \/ Creates(Sup))
  BY <1>1, QueueSteps
<1>9. ASSUME NEW t \in Tasks
      PROVE  /\ queue'[t] = {"approved"} => queue[t] = {"approved"}
             /\ "completed" \in queue'[t] /\ audited[t] = "change" =>
                  "completed" \in queue[t] \/ t \in held[Integration]
  <2>1. CASE queue' = queue
    BY <2>1
  <2>2. CASE Task(Sup) \in Tasks /\ (Links(Sup) \/ Unlinks(Sup) \/ Creates(Sup)) /\ t # Task(Sup)
    <3>1. queue'[t] = queue[t]
      BY <1>1, <2>2 DEF Links, Unlinks, Creates
    <3> QED
      BY <3>1
  <2>3. CASE Task(Sup) = t /\ Links(Sup)
    <3>1. queue'[t] = {"approved", "completed"} /\ pc[Sup] = "link"
      BY <1>1, <2>3 DEF Links
    <3> QED
      BY <1>5, <2>3, <3>1
  <2>4. CASE Task(Sup) = t /\ Unlinks(Sup)
    <3>1. queue'[t] = {"completed"} /\ pc[Sup] = "unlink" /\ "completed" \in queue[t]
      BY <1>1, <2>4 DEF Unlinks
    <3> QED
      BY <2>4, <3>1
  <2>5. CASE Task(Sup) = t /\ Creates(Sup)
    <3>1. queue'[t] = queue[t] \cup {"pending"} /\ pc[Sup] = "create"
      BY <1>1, <2>5 DEF Creates
    <3> QED
      BY <3>1
  <2> QED
    BY <1>8, <2>1, <2>2, <2>3, <2>4, <2>5
<1>10. \A t \in Tasks : "completed" \in queue'[t] /\ audited[t] = "change" =>
         "completed" \in queue[t] \/ t \in held[Integration]
  BY <1>9
<1>11. CASE Ends(Sup)
  <2>1. pc[Sup] \notin {"checkout", "merge", "link"}
    BY <1>4, <1>6, <1>11 DEF Ends, SupervisorTick, Completing
  <2>2. pc'[Sup] = "idle" /\ UNCHANGED <<tree, held>>
    BY <1>11 DEF Ends, projectVars
  <2>3. Kept /\ Past
    BY <1>5, <1>9, <2>1, <2>2 DEF Kept, Past
  <2> QED
    BY <1>7, <1>10, <2>2, <2>3
<1>12. CASE Finds(Sup) \/ Proceeds(Sup)
  <2>1. /\ pc[Sup] \notin {"checkout", "merge", "link"} /\ UNCHANGED <<tree, held>>
        /\ pc'[Sup] \in {"branch", "create", "save"}
    BY <1>12 DEF Finds, Proceeds, projectVars
  <2>2. Kept /\ Past
    BY <1>5, <1>9, <2>1 DEF Kept, Past
  <2> QED
    BY <1>7, <1>10, <2>1, <2>2
<1>13. CASE OnBranch(Sup) \/ NoChange(Sup) \/ Change(Sup)
  <2>1. /\ pc[Sup] \notin {"checkout", "merge", "link"} /\ UNCHANGED <<head, tree, held>>
        /\ Task(Sup)' = Task(Sup) /\ head = Task(Sup)
    BY <1>5, <1>13 DEF OnBranch, NoChange, Change, Stays, projectVars
  <2>2. Kept
    BY <1>5, <1>9, <2>1 DEF Kept
  <2>3. CASE OnBranch(Sup) \/ Change(Sup)
    BY <1>7, <1>10, <2>1, <2>2, <2>3 DEF Past, OnBranch, Change
  <2>4. CASE NoChange(Sup)
    <3>1. tree = None /\ pc[Sup] = "changes" /\ pc'[Sup] = "checkout"
      BY <2>4 DEF NoChange
    <3>2. audited[Task(Sup)] # "change"
      BY <1>1, <1>3, <1>4, <1>5, <3>1 DEF Completing
    <3>3. Past
      BY <2>1, <3>1, <3>2 DEF Past
    <3> QED
      BY <1>7, <1>10, <2>1, <2>2, <3>3
  <2> QED
    BY <1>13, <2>3, <2>4
<1>14. CASE Commits(Sup)
  <2>1. /\ tree = Task(Sup) /\ head = Task(Sup) /\ Task(Sup)' = Task(Sup) /\ mem'[Sup] = mem[Sup]
        /\ pc[Sup] = "commit" /\ pc'[Sup] = "checkout" /\ Task(Sup) \in Tasks
    BY <1>3, <1>6, <1>5, <1>14 DEF Commits, Stays, Completing
  <2>2. \A b \in Branches : held'[b] = IF b = head THEN held[b] \cup {tree} ELSE held[b]
    BY <1>1, <1>14 DEF Commits
  <2>3. Kept
    BY <1>5, <1>9, <2>1 DEF Kept
  <2>4. Past
    BY <1>1, <1>6, <2>1, <2>2 DEF Past, SupervisorTick
  <2>5. held[Integration] \subseteq held'[Integration]
    BY <1>1, <2>2
  <2> QED
    BY <1>7, <1>10, <2>3, <2>4, <2>5
<1>15. CASE ChecksOut(Sup)
  <2>1. /\ pc[Sup] = "checkout" /\ pc'[Sup] = (IF mem[Sup].changed THEN "merge" ELSE "link")
        /\ Task(Sup)' = Task(Sup) /\ UNCHANGED <<tree, held>>
    BY <1>15 DEF ChecksOut, Stays
  <2>2. Kept
    BY <1>5, <1>9, <2>1 DEF Kept
  <2>3. mem[Sup].changed => audited[Task(Sup)] = "change"
    BY <1>6, <2>1 DEF SupervisorTick
  <2>4. Past
    BY <1>5, <2>1, <2>3 DEF Past
  <2> QED
    BY <1>7, <1>10, <2>1, <2>2, <2>4
<1>16. CASE Merges(Sup)
  <2>1. /\ pc[Sup] = "merge" /\ pc'[Sup] = "link" /\ Task(Sup)' = Task(Sup) /\ tree' = tree
        /\ head = Integration
    BY <1>6, <1>16 DEF Merges, Stays, SupervisorTick
  <2>2. held'[Integration] = held[Integration] \cup held[Task(Sup)]
    BY <1>1, <1>16, <2>1 DEF Merges
  <2>3. Kept
    BY <1>5, <1>9, <2>1 DEF Kept
  <2>4. Past
    BY <1>5, <2>1, <2>2 DEF Past
  <2> QED
    BY <1>7, <1>10, <2>2, <2>3, <2>4
<1>17. CASE BeginsMove(Sup)
  <2>1. /\ pc[Sup] = "link" /\ pc'[Sup] = "unlink" /\ Task(Sup)' = Task(Sup)
        /\ UNCHANGED <<tree, held>> /\ Task(Sup) \in Tasks
    BY <1>3, <1>17 DEF BeginsMove, Stays, projectVars, Completing
  <2>2. queue'[Task(Sup)] = {"approved", "completed"}
    BY <1>1, <1>17, <2>1 DEF BeginsMove
  <2>3. Kept
    BY <1>5, <1>9, <2>1, <2>2 DEF Kept
  <2>4. Past
    BY <1>5, <2>1 DEF Past
  <2> QED
    BY <1>7, <1>10, <2>1, <2>3, <2>4
<1> QED
  BY <1>1, <1>11, <1>12, <1>13, <1>14, <1>15, <1>16, <1>17, TickCourse DEF Course

LEMMA CalmOpening ==
  ASSUME IInv, World, Calm,
         \/ TickAll \/ CycleBreak
         \/ \E c \in Campaigns : StartCampaign(c) \/ TickSkip(c) \/ Expire(c)
         \/ \E p \in Procs, c \in Campaigns : TickBegin(p, c)
  PROVE  Calm'
<1>1. /\ events \in Nat /\ Sup \in Procs /\ Sup # Own
  BY TypeParts, MaxEventsAssumption, Names DEF IInv, WorldTypes
<1>2. /\ UNCHANGED <<queue, projectVars, building, audited>>
      /\ \A p \in Procs : \/ /\ pc'[p] = pc[p] /\ at'[p] = at[p]
                             /\ mem'[p] = mem[p] /\ Task(p)' = Task(p)
                          \/ p = Own /\ pc'[p] = "create" /\ events' = events
                          \/ p = Own /\ pc'[p] = "locate" /\ events' = events + 1
                          \/ p = Sup /\ pc'[p] = "locate" /\ pc[p] = "idle" /\ todo # {}
      /\ events' \in {events, events + 1}
  BY Openings
<1> SUFFICES ASSUME events' = 0, events = 0 PROVE Calm'
  BY <1>1, <1>2 DEF Calm
<1>3. UNCHANGED <<head, tree, held>>
  BY <1>2 DEF projectVars
<1>4. CompletedMeansMerged'
  BY <1>2, <1>3 DEF Calm, CompletedMeansMerged
<1>5. CASE pc'[Sup] = pc[Sup] /\ mem'[Sup] = mem[Sup] /\ Task(Sup)' = Task(Sup)
  BY <1>2, <1>3, <1>4, <1>5 DEF Calm
<1>6. CASE pc'[Sup] = "locate" /\ pc[Sup] = "idle"
  BY <1>2, <1>3, <1>4, <1>6 DEF Calm
<1> QED
  BY <1>1, <1>2, <1>5, <1>6

LEMMA StepCalm == ASSUME IInv, World, OneEvent, Calm, [Next]_vars PROVE Calm'
<1>1. CASE UNCHANGED vars
  BY <1>1 DEF vars, projectVars, tickVars, Calm, CompletedMeansMerged, Task
<1>2. ASSUME NEW p \in Procs, TickStep(p) PROVE Calm'
  <2>1. CASE events = 0
    BY <1>2, <2>1, CalmSupervisor, CalmOwner, Names
  <2>2. CASE events # 0
    BY <1>2, <2>2, TickTree DEF Calm
  <2> QED
    BY <2>1, <2>2
<1>3. ASSUME NEW p \in Procs, Crash(p) \/ MergeConflict(p) PROVE Calm'
  <2>1. events \in Nat
    BY TypeParts, MaxEventsAssumption DEF IInv, WorldTypes
  <2>2. events' = events + 1
    BY <1>3 DEF Crash, MergeConflict, Event
  <2> QED
    BY <2>1, <2>2 DEF Calm
<1> QED
  BY <1>1, <1>2, <1>3, Groups, CalmStages, CalmOpening

LEMMA InvariantWorld == Spec => [](World /\ OneEvent /\ Calm)
<1>1. Init => World /\ OneEvent /\ Calm
  BY InitWorld, InitOneEvent, InitCalm
<1>2. IInv /\ World /\ OneEvent /\ Calm /\ [Next]_vars => (World /\ OneEvent /\ Calm)'
  BY StepWorld, StepOneEvent, StepCalm
<1> QED
  BY <1>1, <1>2, InvariantIInv, PTL DEF Spec

-----------------------------------------------------------------------------
\* While no more than one thing has gone wrong, for any number of campaigns and steps,
\* whatever is in the history of the integration branch is a candidate that Stage 01C
\* has audited (complete_approved: the branch check, git add, git merge).  The bound on
\* what may still go wrong plays no part.
THEOREM OneEventMergesAudited == Spec => [](events <= 1 => OnlyAudited)
<1>1. IInv /\ OneEvent => (events <= 1 => OnlyAudited)
  <2> SUFFICES ASSUME IInv, OneEvent, events <= 1, NEW t \in held[Integration]
               PROVE  audited[t] = "change"
    BY DEF OnlyAudited
  <2>1. t \in Tasks
    BY TypeParts, Names DEF IInv, WorldTypes
  <2> QED
    BY <2>1, Names DEF OneEvent, Histories
<1> QED
  BY <1>1, InvariantIInv, InvariantWorld, PTL

\* While nothing has gone wrong, for any number of campaigns that share the checkout, a
\* completed task whose candidate changed something is merged (complete_approved).
THEOREM UndisturbedMerges == Spec => []UndisturbedMeansMerged
<1>1. Calm => UndisturbedMeansMerged
  BY DEF Calm, UndisturbedMeansMerged
<1> QED
  BY <1>1, InvariantWorld, PTL
=============================================================================
