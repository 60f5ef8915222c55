---------------------------- MODULE TelegramBridge ----------------------------
(***************************************************************************)
(* The Telegram bridge: the long-poll loop of telegram_bridge.run as       *)
(* telegram_bridge_v3 replaces it, the commands of the owner, the intake   *)
(* behind them, and the notifications of terminal tasks.                   *)
(*                                                                         *)
(* A message of the owner is an update with a number; its task, if one is  *)
(* created for it, is named by the same number.  The offset below which    *)
(* updates are done is written to a file before an update is handled.      *)
(***************************************************************************)
EXTENDS Integers, FiniteSets

CONSTANTS
  Messages,   \* the number of messages the owner sends: update ids 1..Messages
  Asks,       \* those of them that ask for a task
  MaxEvents   \* bound: crashes, failed calls, tasks that are taken up again

ASSUME MessagesAssumption == Messages \in Nat /\ Asks \subseteq 1..Messages
ASSUME MaxEventsAssumption == MaxEvents \in Nat

VARIABLES
  sent,      \* messages the owner has sent
  state,     \* the queue of each message's task, "none" before there is one
  bermet,    \* the tasks of the project AK BERMET
  logged,    \* the tasks with a PASS log of the publisher
  created,   \* history: how many tasks each message has created
  answered,  \* history: the messages that were handled
  told,      \* history: how often the owner was told what of each message
  file,      \* the offset file
  offset,    \* the offset in memory
  upto,      \* the last update of the batch
  pc,        \* where the bridge is
  say,       \* the reply it is about to send
  known,     \* whether the file of notified tasks exists
  notified,  \* that file: the terminal queue each task was last notified in
  silent,    \* history: what its first writing took over
  snap,      \* the terminal tasks this round has found
  crashes,   \* history: how often the bridge was killed
  events     \* how much of the bound is used

taskVars   == <<state, bermet, logged>>
offsetVars == <<file, offset, upto>>
noteVars   == <<known, notified, silent, snap>>
vars == <<sent, taskVars, created, answered, told, offsetVars, pc, say, noteVars, crashes, events>>

-----------------------------------------------------------------------------
Updates  == 1..Messages
Terminal == {"completed", "blocked"}
Texts    == {"created", "not created", "answer"} \cup Terminal

\* The update being handled is the one below the offset.
Cur == offset - 1

Event == events < MaxEvents /\ events' = events + 1

Goto(label) == pc' = label

Tell(m, text) == told' = [told EXCEPT ![m][text] = @ + 1]

\* A call of Telegram: it is retried, and in the end it has failed or not; one that
\* failed may have been delivered.
Failed(m, text) == Event /\ (Tell(m, text) \/ UNCHANGED told)

-----------------------------------------------------------------------------
(* run_v3: the updates *)

Start ==
  /\ pc = "down" /\ Goto("poll")
  /\ offset' = file
  /\ UNCHANGED <<sent, taskVars, created, answered, told, file, upto, say, noteVars,
                 crashes, events>>

GetUpdates ==
  /\ pc = "poll" /\ Goto("batch")
  /\ upto' = sent
  /\ UNCHANGED <<sent, taskVars, created, answered, told, file, offset, say, noteVars,
                 crashes, events>>

Advance ==
  /\ pc = "batch" /\ offset <= upto /\ Goto("write")
  /\ offset' = offset + 1
  /\ UNCHANGED <<sent, taskVars, created, answered, told, file, upto, say, noteVars,
                 crashes, events>>

\* Mutant: the last update of a batch is not checkpointed.
WriteOffset_Later ==
  /\ pc = "write" /\ Goto("handle")
  /\ file' = IF offset > upto THEN file ELSE offset
  /\ UNCHANGED <<sent, taskVars, created, answered, told, offset, upto, say, noteVars,
                 crashes, events>>

\* write_offset: "Checkpoint before side effects."
WriteOffset ==
  /\ pc = "write" /\ Goto("handle")
  /\ file' = offset
  /\ UNCHANGED <<sent, taskVars, created, answered, told, offset, upto, say, noteVars,
                 crashes, events>>

-----------------------------------------------------------------------------
(* handle_update *)

\* /ai status, help, and the read-only commands of version 2.
HandleOther ==
  /\ pc = "handle" /\ Cur \notin Asks /\ Goto("reply")
  /\ answered' = answered \cup {Cur}
  /\ say' = "answer"
  /\ UNCHANGED <<sent, taskVars, created, told, offsetVars, noteVars, crashes, events>>

\* submit: the child of submit_task.py links the task, in the project the message
\* names.
SubmitLinks ==
  /\ pc = "handle" /\ Cur \in Asks /\ Goto("created")
  /\ state' = [state EXCEPT ![Cur] = "queued"]
  /\ bermet' \in {bermet, bermet \cup {Cur}}
  /\ created' = [created EXCEPT ![Cur] = @ + 1]
  /\ answered' = answered \cup {Cur}
  /\ UNCHANGED <<sent, logged, told, offsetVars, say, noteVars, crashes, events>>

\* The project is unknown, or the intake refuses.
SubmitRefused ==
  /\ pc = "handle" /\ Cur \in Asks /\ Goto("reply")
  /\ answered' = answered \cup {Cur}
  /\ say' = "not created"
  /\ UNCHANGED <<sent, taskVars, created, told, offsetVars, noteVars, crashes, events>>

\* The child returns; or it runs into its timeout although the task is there.
SubmitReturns ==
  /\ pc = "created" /\ Goto("reply")
  /\ \/ say' = "created" /\ UNCHANGED events
     \/ say' = "not created" /\ Event
  /\ UNCHANGED <<sent, taskVars, created, answered, told, offsetVars, noteVars, crashes>>

Reply ==
  /\ pc = "reply" /\ Goto("batch")
  /\ Tell(Cur, say)
  /\ UNCHANGED <<sent, taskVars, created, answered, offsetVars, say, noteVars, crashes,
                 events>>

\* Mutant: the batch goes on as if nothing had happened, from its end.
ReplyFails_SkipsBatch ==
  /\ pc = "reply" /\ Failed(Cur, say) /\ Goto("poll")
  /\ offset' = upto + 1
  /\ UNCHANGED <<sent, taskVars, created, answered, file, upto, say, noteVars, crashes>>

\* The BridgeError of the send that says "Task created" is taken for one of the
\* submission; any other leaves the batch, and the rest of it is asked for again.
ReplyFails ==
  /\ pc = "reply" /\ Failed(Cur, say)
  /\ IF say = "created"
     THEN say' = "not created" /\ UNCHANGED pc
     ELSE Goto("poll") /\ UNCHANGED say
  /\ UNCHANGED <<sent, taskVars, created, answered, offsetVars, noteVars, crashes>>

-----------------------------------------------------------------------------
(* notify_terminal_changes *)

Nothing == [m \in Updates |-> "none"]

\* _terminal_snapshot: the tasks of AK BERMET that have come to an end.
Found ==
  [m \in Updates |-> IF m \in bermet /\ state[m] \in Terminal THEN state[m] ELSE "none"]

\* The first round only writes down what there is.
Baseline ==
  /\ pc = "batch" /\ offset > upto /\ ~known /\ Goto("poll")
  /\ known' = TRUE
  /\ notified' = Found
  /\ silent' = {<<m, Found[m]>> : m \in {u \in Updates : Found[u] # "none"}}
  /\ UNCHANGED <<sent, taskVars, created, answered, told, offsetVars, say, snap, crashes,
                 events>>

Snapshot ==
  /\ pc = "batch" /\ offset > upto /\ known /\ Goto("notify")
  /\ snap' = Found
  /\ UNCHANGED <<sent, taskVars, created, answered, told, offsetVars, say, known, notified,
                 silent, crashes, events>>

Due == {m \in Updates : snap[m] # "none" /\ snap[m] # notified[m]}

\* In the order of the task ids.
NextDue == CHOOSE m \in Due : \A k \in Due : m <= k

\* Mutant: the log of the publisher is not asked for.
Reportable_Always(m) == TRUE

\* _notification: a completed task has something to tell when the log of its publisher
\* is there; the branch of each task of the bridge is one of code.
Reportable(m) == snap[m] = "completed" => m \in logged

\* The round goes on with the next task.
Defer ==
  /\ pc = "notify" /\ Due # {} /\ ~Reportable(NextDue)
  /\ snap' = [snap EXCEPT ![NextDue] = "none"]
  /\ UNCHANGED <<sent, taskVars, created, answered, told, offsetVars, pc, say, known,
                 notified, silent, crashes, events>>

Notify ==
  /\ pc = "notify" /\ Due # {} /\ Reportable(NextDue) /\ Goto("note")
  /\ Tell(NextDue, snap[NextDue])
  /\ UNCHANGED <<sent, taskVars, created, answered, offsetVars, say, noteVars, crashes,
                 events>>

\* Mutant: what could not be sent is written down all the same.
NotifyFails_Notes ==
  /\ pc = "notify" /\ Due # {} /\ Reportable(NextDue)
  /\ Failed(NextDue, snap[NextDue]) /\ Goto("note")
  /\ UNCHANGED <<sent, taskVars, created, answered, offsetVars, say, noteVars, crashes>>

NotifyFails ==
  /\ pc = "notify" /\ Due # {} /\ Reportable(NextDue)
  /\ Failed(NextDue, snap[NextDue]) /\ Goto("poll")
  /\ UNCHANGED <<sent, taskVars, created, answered, offsetVars, say, noteVars, crashes>>

\* Mutant: the file is not written after each message.
Note_AtTheEnd ==
  /\ pc = "note" /\ Goto("notify")
  /\ snap' = [snap EXCEPT ![NextDue] = "none"]
  /\ UNCHANGED <<sent, taskVars, created, answered, told, offsetVars, say, known, silent,
                 notified, crashes, events>>

\* _write_state, after each message.
Note ==
  /\ pc = "note" /\ Goto("notify")
  /\ notified' = [notified EXCEPT ![NextDue] = snap[NextDue]]
  /\ UNCHANGED <<sent, taskVars, created, answered, told, offsetVars, say, known, silent,
                 snap, crashes, events>>

EndRound ==
  /\ pc = "notify" /\ Due = {} /\ Goto("poll")
  /\ UNCHANGED <<sent, taskVars, created, answered, told, offsetVars, say, noteVars,
                 crashes, events>>

-----------------------------------------------------------------------------
(* The owner, the pipeline and crashes *)

SendMessage ==
  /\ sent < Messages
  /\ sent' = sent + 1
  /\ UNCHANGED <<taskVars, created, answered, told, offsetVars, pc, say, noteVars, crashes,
                 events>>

\* The task ends; auto-repair may take one up again.
Pipeline(m) ==
  /\ \/ state[m] = "queued" /\ state' \in {[state EXCEPT ![m] = q] : q \in Terminal}
        /\ UNCHANGED events
     \/ state[m] = "blocked" /\ Event /\ state' = [state EXCEPT ![m] = "queued"]
  /\ UNCHANGED <<sent, bermet, logged, created, answered, told, offsetVars, pc, say,
                 noteVars, crashes>>

\* The publisher writes its log when it has moved the task; killed in between, it never
\* does.
WriteLog(m) ==
  /\ state[m] = "completed" /\ m \notin logged
  /\ logged' = logged \cup {m}
  /\ UNCHANGED <<sent, state, bermet, created, answered, told, offsetVars, pc, say, noteVars,
                 crashes, events>>

Crash ==
  /\ pc # "down" /\ Event /\ Goto("down")
  /\ crashes' = crashes + 1
  /\ UNCHANGED <<sent, taskVars, created, answered, told, offsetVars, say, noteVars>>

-----------------------------------------------------------------------------
Init ==
  /\ sent = 0
  /\ state = Nothing /\ bermet = {} /\ logged = {}
  /\ created = [m \in Updates |-> 0]
  /\ answered = {}
  /\ told = [m \in Updates |-> [t \in Texts |-> 0]]
  /\ file = 1 /\ offset = 1 /\ upto = 0
  /\ pc = "down" /\ say = "answer"
  /\ known \in BOOLEAN
  /\ notified = Nothing /\ silent = {} /\ snap = Nothing
  /\ crashes = 0 /\ events = 0

Loop == Start \/ GetUpdates \/ Advance \/ WriteOffset
Handle == HandleOther \/ SubmitLinks \/ SubmitRefused \/ SubmitReturns \/ Reply
Notifications == Baseline \/ Snapshot \/ Defer \/ Notify \/ Note \/ EndRound

Bridge == Loop \/ Handle \/ Notifications

Faults == ReplyFails \/ NotifyFails \/ Crash

Others == SendMessage \/ \E m \in Updates : Pipeline(m) \/ WriteLog(m)

Next == Bridge \/ Faults \/ Others

Spec == Init /\ [][Next]_vars

\* systemd restarts the bridge and its loop has no end.
FairSpec == Spec /\ WF_vars(Bridge)

-----------------------------------------------------------------------------
(* Properties *)

TypeOK ==
  /\ sent \in 0..Messages
  /\ state \in [Updates -> {"none", "queued"} \cup Terminal]
  /\ bermet \subseteq Updates /\ logged \subseteq Updates
  /\ created \in [Updates -> Nat]
  /\ answered \subseteq Updates
  /\ told \in [Updates -> [Texts -> Nat]]
  /\ file \in 1..(Messages + 1) /\ offset \in 1..(Messages + 1) /\ upto \in 0..Messages
  /\ file <= offset \/ pc = "down"
  /\ pc \in {"down", "poll", "batch", "write", "handle", "created", "reply", "notify", "note"}
  /\ pc \in {"write", "handle", "created", "reply"} => Cur \in 1..upto
  /\ pc = "note" => Due # {}
  /\ say \in Texts
  /\ known \in BOOLEAN
  /\ {notified, snap} \subseteq [Updates -> {"none"} \cup Terminal]
  /\ silent \subseteq Updates \X Terminal
  /\ crashes \in 0..events /\ events \in 0..MaxEvents

\* A message creates one task at most, whatever crashes and whichever reply or
\* acknowledgement is lost (the checkpoint of run before handle_update).
OneTaskPerMessage == \A m \in Updates : created[m] <= 1

\* A message the bridge has put behind it was handled, but for the one a crash
\* interrupted: a reply that cannot be sent loses no other message of its batch.
LostOnlyByCrash ==
  pc \in {"poll", "batch"} => Cardinality(1..(offset - 1) \ answered) <= crashes

\* A terminal state is told once, and again only where something failed or the task
\* was taken up again in between; a completion is told of AK BERMET tasks only, and when
\* its log is there; and the file of notified tasks never claims what the owner was not
\* told, but for what its first writing took over (notify_terminal_changes).
ToldOnce ==
  \A m \in Updates :
    /\ \A q \in Terminal : told[m][q] <= 1 + events
    /\ told[m]["completed"] > 0 => m \in bermet \cap logged
    /\ notified[m] # "none" =>
         <<m, notified[m]>> \in silent \/ told[m][notified[m]] > 0

\* A task of AK BERMET has come to rest, a completed one with the log of its publisher.
Rests(m, q) == m \in bermet /\ state[m] = q /\ (q = "completed" => m \in logged)

\* Every message is put behind in the end, and the file comes to say of each task the
\* state it rests in, about which the owner was told: a task that was noted as blocked,
\* taken up again and completed is told again, however the calls fail in between.
EndTold ==
  \A m \in Updates :
    /\ sent >= m ~> file > m
    /\ \A q \in Terminal :
         <>[]Rests(m, q) =>
           <>[](notified[m] = q /\ (told[m][q] > 0 \/ <<m, q>> \in silent))

=============================================================================
