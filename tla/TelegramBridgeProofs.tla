------------------------ MODULE TelegramBridgeProofs ------------------------
(***************************************************************************)
(* Proofs about TelegramBridge, for any number of messages and any bound   *)
(* on what goes wrong.  The three properties rest on invariants of their   *)
(* own: where the offset file may lag behind the offset in memory, which   *)
(* notification has been paid for with an event, and which message a crash *)
(* may have cost.                                                          *)
(***************************************************************************)
EXTENDS TelegramBridge, TLAPS, FiniteSetTheorems, WellFoundedInduction

\* The file lags behind only between Advance and WriteOffset, or after a crash there.
Offsets ==
  /\ pc \notin {"down", "write"} => file = offset
  /\ pc = "write" => file = Cur

\* No task yet for what is still to be handled, and no state without a task.
Uncreated ==
  /\ \A m \in Updates : created[m] <= 1
  /\ \A m \in Updates : m >= file \/ (pc = "handle" /\ m = Cur) => created[m] = 0
  /\ \A m \in Updates : created[m] = 0 => state[m] = "none"

\* What the file and the round say of a completed task stays true, and the round is at
\* least as young as the file.
Completed ==
  /\ \A m \in Updates : "completed" \in {notified[m], snap[m]} => state[m] = "completed"
  /\ pc \in {"notify", "note"} =>
       \A m \in Updates : notified[m] = "completed" => snap[m] = "completed"

\* The notes are about AK BERMET tasks only, and a completion was told with its log.
Evidence ==
  /\ \A m \in Updates : notified[m] # "none" \/ snap[m] # "none" => m \in bermet
  /\ \A m \in Updates : told[m]["completed"] > 0 => m \in bermet /\ m \in logged

FirstWriting ==
  /\ ~known => notified = Nothing
  /\ pc \in {"notify", "note"} => known

\* The message that the file, or the step about to write it, accounts for; each of the
\* others was paid for with an event.
Accounted(m, q) ==
  notified[m] \in {q, "completed"} \/ (pc = "note" /\ NextDue = m /\ snap[m] = q)

ToldPaid ==
  \A m \in Updates : \A q \in Terminal :
    told[m][q] <= events + (IF Accounted(m, q) THEN 1 ELSE 0)

ToldBeforeNote == pc = "note" => told[NextDue][snap[NextDue]] > 0

NotedWasTold ==
  \A m \in Updates :
    notified[m] # "none" => <<m, notified[m]>> \in silent \/ told[m][notified[m]] > 0

Replies == say \in {"created", "not created", "answer"}

\* Below the file everything was handled, but for what is being handled and what
\* crashes have cost.
Behind == 1..(IF pc = "handle" THEN file - 2 ELSE file - 1)

Lost == Cardinality(Behind \ answered) <= crashes

IInv ==
  /\ TypeOK
  /\ Offsets /\ Uncreated
  /\ Completed /\ Evidence /\ FirstWriting /\ Replies
  /\ ToldPaid /\ ToldBeforeNote /\ NotedWasTold
  /\ Lost

-----------------------------------------------------------------------------
\* A round that has something to tell has a least task to tell of (NextDue).  The
\* intervals 1..m order the finite sets of updates, and that order is well founded.
LEMMA NextIsDue == TypeOK /\ Due # {} => NextDue \in Due
<1> SUFFICES ASSUME TypeOK, Due # {} PROVE NextDue \in Due
  OBVIOUS
<1> DEFINE Intervals == {1..m : m \in Due}
<1>1. Due \subseteq Updates /\ Updates \subseteq Nat
  BY MessagesAssumption DEF Due, Updates
<1>2. Intervals \subseteq FiniteSubsetsOf(Nat) /\ Intervals # {}
  <2>1. \A m \in Due : 1..m \subseteq Nat /\ IsFiniteSet(1..m)
    BY <1>1, FS_Interval
  <2> QED
    BY <2>1 DEF FiniteSubsetsOf
<1>3. PICK I \in Intervals : \A J \in Intervals : <<J, I>> \notin StrictSubsetOrdering(Nat)
  BY <1>2, FS_StrictSubsetOrderingWellFounded, WFMin
<1>4. PICK m \in Due : I = 1..m
  OBVIOUS
<1>5. \A k \in Due : m <= k
  <2> SUFFICES ASSUME NEW k \in Due, k < m PROVE FALSE
    BY <1>1, <1>4
  <2>1. 1..k \subseteq 1..m /\ 1..k # 1..m /\ {1..k, 1..m} \subseteq SUBSET Nat
    BY <1>1 DEF Updates
  <2> QED
    <3>1. <<1..k, 1..m>> \in StrictSubsetOrdering(Nat)
      BY <2>1 DEF StrictSubsetOrdering
    <3> QED
      BY <1>3, <1>4, <3>1
<1> QED
  BY <1>4, <1>5 DEF NextDue

\* What it tells is a terminal state the file does not have.
LEMMA NextDueFacts ==
  TypeOK /\ Due # {} => /\ NextDue \in Updates
                        /\ snap[NextDue] \in Terminal /\ snap[NextDue] \in Texts
                        /\ snap[NextDue] # notified[NextDue]
<1> SUFFICES ASSUME TypeOK, Due # {} PROVE /\ NextDue \in Updates
                        /\ snap[NextDue] \in Terminal /\ snap[NextDue] \in Texts
                        /\ snap[NextDue] # notified[NextDue]
  OBVIOUS
<1>1. NextDue \in Updates /\ snap[NextDue] # "none" /\ snap[NextDue] # notified[NextDue]
  BY NextIsDue, Zenon DEF Due
<1>2. snap[NextDue] \in Terminal
  BY <1>1 DEF TypeOK
<1> QED
  BY <1>1, <1>2 DEF Texts

\* While a message is handled, the one below the offset is an update of the batch.
LEMMA CurIsUpdate == TypeOK /\ pc \in {"write", "handle", "created", "reply"} => Cur \in Updates
BY MessagesAssumption DEF TypeOK, Updates

\* The bridge starts with nothing sent and nothing told (Init).
LEMMA InitIInv == Init => IInv
<1> SUFFICES ASSUME Init PROVE IInv
  OBVIOUS
<1>1. TypeOK
  <2>1. told \in [Updates -> [Texts -> Nat]] /\ say \in Texts
    BY DEF Init, Texts
  <2>2. Nothing \in [Updates -> {"none"} \cup Terminal]
    BY DEF Nothing
  <2>3. state \in [Updates -> {"none", "queued"} \cup Terminal] /\ created \in [Updates -> Nat]
    BY DEF Init, Nothing
  <2>4. /\ sent \in 0..Messages /\ file \in 1..(Messages + 1) /\ offset \in 1..(Messages + 1)
        /\ upto \in 0..Messages /\ crashes \in 0..events /\ events \in 0..MaxEvents
    BY MessagesAssumption, MaxEventsAssumption DEF Init
  <2> QED
    BY <2>1, <2>2, <2>3, <2>4 DEF Init, TypeOK
<1>2. Offsets /\ Uncreated
  BY DEF Init, Offsets, Uncreated, Nothing, Cur
<1>3. Completed /\ Evidence /\ FirstWriting /\ Replies
  <2>1. \A m \in Updates : told[m]["completed"] = 0
    BY DEF Init, Texts, Terminal
  <2> QED
    BY <2>1 DEF Init, Completed, Evidence, FirstWriting, Replies, Nothing
<1>4. ToldPaid /\ ToldBeforeNote /\ NotedWasTold
  <2>1. Terminal \subseteq Texts
    BY DEF Texts
  <2>2. \A m \in Updates : notified[m] = "none" /\ \A q \in Terminal : told[m][q] = 0
    BY <2>1 DEF Init, Nothing
  <2> QED
    BY <2>2 DEF Init, ToldPaid, ToldBeforeNote, NotedWasTold
<1>5. Lost
  <2>1. Behind \ answered = {}
    BY DEF Init, Behind
  <2>2. Cardinality(Behind \ answered) = 0
    BY <2>1, FS_EmptySet
  <2> QED
    BY <2>2 DEF Init, Lost
<1> QED
  BY <1>1, <1>2, <1>3, <1>4, <1>5 DEF IInv

\* A call that failed may have told the owner once, and has cost an event.
LEMMA FailedFacts ==
  ASSUME TypeOK, NEW m \in Updates, NEW text \in Texts, Failed(m, text)
  PROVE  /\ events' = events + 1 /\ events' \in 0..MaxEvents
         /\ told' \in [Updates -> [Texts -> Nat]]
         /\ \A k \in Updates, t \in Texts :
              told[k][t] <= told'[k][t] /\ told'[k][t] <= told[k][t] + 1
         /\ \A k \in Updates, t \in Texts : <<k, t>> # <<m, text>> => told'[k][t] = told[k][t]
<1>1. events' = events + 1 /\ events' \in 0..MaxEvents
  BY MaxEventsAssumption DEF TypeOK, Failed, Event
<1>2. told \in [Updates -> [Texts -> Nat]]
  BY DEF TypeOK
<1>3. \/ told' = told
      \/ told' = [told EXCEPT ![m] = [told[m] EXCEPT ![text] = told[m][text] + 1]]
  BY DEF Failed, Tell
<1> QED
  BY <1>1, <1>2, <1>3

\* Every step keeps the types.
LEMMA StepTypeOK == TypeOK /\ [Next]_vars => TypeOK'
<1> SUFFICES ASSUME TypeOK, [Next]_vars PROVE TypeOK'
  OBVIOUS
<1> USE MessagesAssumption, MaxEventsAssumption
<1>1. CASE Start
  BY <1>1 DEF Start, TypeOK, Goto, noteVars, taskVars, Cur, Due
<1>2. CASE GetUpdates
  BY <1>2 DEF GetUpdates, TypeOK, Goto, noteVars, taskVars, Cur, Due
<1>3. CASE Advance
  BY <1>3 DEF Advance, TypeOK, Goto, noteVars, taskVars, Cur, Due
<1>4. CASE WriteOffset
  BY <1>4 DEF WriteOffset, TypeOK, Goto, noteVars, taskVars, Cur, Due
<1>5. CASE HandleOther
  <2>1. say' \in Texts /\ answered' \subseteq Updates
    BY <1>5, CurIsUpdate DEF HandleOther, Texts, TypeOK
  <2> QED
    BY <1>5, <2>1 DEF HandleOther, TypeOK, Goto, noteVars, taskVars, offsetVars, Cur, Due
<1>6. CASE SubmitLinks
  <2>1. Cur \in Updates
    BY <1>6, CurIsUpdate DEF SubmitLinks
  <2> QED
    BY <1>6, <2>1 DEF SubmitLinks, TypeOK, Goto, noteVars, taskVars, offsetVars, Cur, Due
<1>7. CASE SubmitRefused
  <2>1. say' \in Texts /\ answered' \subseteq Updates
    BY <1>7, CurIsUpdate DEF SubmitRefused, Texts, TypeOK
  <2> QED
    BY <1>7, <2>1 DEF SubmitRefused, TypeOK, Goto, noteVars, taskVars, offsetVars, Cur, Due
<1>8. CASE SubmitReturns
  <2>1. say' \in Texts
    BY <1>8 DEF SubmitReturns, Texts
  <2>2. events' \in {events, events + 1} /\ events' \in 0..MaxEvents
    <3>1. events' = events \/ (events < MaxEvents /\ events' = events + 1)
      BY <1>8 DEF SubmitReturns, Event
    <3> QED
      BY <3>1 DEF TypeOK
  <2>3. /\ UNCHANGED <<sent, taskVars, created, answered, told, offsetVars, noteVars, crashes>>
        /\ pc = "created" /\ pc' = "reply"
    BY <1>8 DEF SubmitReturns, Goto
  <2> QED
    BY <2>1, <2>2, <2>3 DEF TypeOK, noteVars, taskVars, offsetVars, Cur
<1>9. CASE Reply
  <2>1. Cur \in Updates
    BY <1>9, CurIsUpdate DEF Reply
  <2> QED
    BY <1>9, <2>1 DEF Reply, TypeOK, Goto, noteVars, taskVars, offsetVars, Cur, Due, Tell
<1>10. CASE Baseline
  <2>1. Found \in [Updates -> {"none"} \cup Terminal]
    BY DEF Found
  <2>2. {<<m, Found[m]>> : m \in {u \in Updates : Found[u] # "none"}} \subseteq Updates \X Terminal
    BY <2>1
  <2> QED
    BY <1>10, <2>1, <2>2 DEF Baseline, TypeOK, Goto, offsetVars, taskVars, Cur
<1>11. CASE Snapshot
  <2>1. Found \in [Updates -> {"none"} \cup Terminal]
    BY DEF Found
  <2> QED
    BY <1>11, <2>1 DEF Snapshot, TypeOK, Goto, offsetVars, taskVars, Cur
<1>12. CASE Notify
  <2>1. NextDue \in Updates /\ snap[NextDue] \in Texts
    BY <1>12, NextDueFacts DEF Notify
  <2> QED
    BY <1>12, <2>1 DEF Notify, TypeOK, Goto, Tell, offsetVars, noteVars, taskVars, Cur, Due
<1>13. CASE Note
  <2>1. NextDue \in Updates /\ snap[NextDue] \in {"none"} \cup Terminal
    BY <1>13, NextDueFacts DEF Note, TypeOK
  <2> QED
    BY <1>13, <2>1 DEF Note, TypeOK, Goto, offsetVars, taskVars, Cur
<1>14. CASE EndRound
  BY <1>14 DEF EndRound, TypeOK, Goto, offsetVars, noteVars, taskVars, Cur
<1>15. CASE ReplyFails
  <2>1. Cur \in Updates /\ say \in Texts /\ Failed(Cur, say)
    BY <1>15, CurIsUpdate DEF ReplyFails, TypeOK
  <2>2. events' \in 0..MaxEvents /\ events' = events + 1 /\ told' \in [Updates -> [Texts -> Nat]]
    BY <2>1, FailedFacts
  <2>3. pc = "reply" /\ pc' \in {"reply", "poll"} /\ say' \in Texts
    BY <1>15, <2>1 DEF ReplyFails, Goto, Texts
  <2>4. UNCHANGED <<sent, taskVars, created, answered, offsetVars, noteVars, crashes>>
    BY <1>15 DEF ReplyFails
  <2> QED
    BY <2>2, <2>3, <2>4 DEF TypeOK, offsetVars, noteVars, taskVars, Cur
<1>16. CASE NotifyFails
  <2>1. NextDue \in Updates /\ snap[NextDue] \in Texts /\ Failed(NextDue, snap[NextDue])
    BY <1>16, NextDueFacts DEF NotifyFails
  <2>2. events' \in 0..MaxEvents /\ events' = events + 1 /\ told' \in [Updates -> [Texts -> Nat]]
    BY <2>1, FailedFacts
  <2> QED
    BY <1>16, <2>2 DEF NotifyFails, TypeOK, Goto, offsetVars, noteVars, taskVars, Cur
<1>17. CASE Crash
  BY <1>17 DEF Crash, Event, TypeOK, Goto, offsetVars, noteVars, taskVars, Cur
<1>18. CASE SendMessage
  BY <1>18 DEF SendMessage, TypeOK, offsetVars, noteVars, taskVars, Cur, Due
<1>19. CASE \E m \in Updates : Pipeline(m)
  <2>1. state' \in [Updates -> {"none", "queued"} \cup Terminal]
    BY <1>19 DEF Pipeline, TypeOK
  <2>2. events' \in {events, events + 1} /\ events' \in 0..MaxEvents
    BY <1>19 DEF Pipeline, TypeOK, Event
  <2> QED
    BY <1>19, <2>1, <2>2 DEF Pipeline, TypeOK, offsetVars, noteVars, taskVars, Cur, Due
<1>20. CASE \E m \in Updates : WriteLog(m)
  BY <1>20 DEF WriteLog, TypeOK, offsetVars, noteVars, taskVars, Cur, Due
<1>21. CASE Defer
  BY <1>21 DEF Defer, TypeOK, offsetVars, taskVars, Goto, Cur
<1>22. CASE UNCHANGED vars
  BY <1>22 DEF vars, TypeOK, offsetVars, noteVars, taskVars, Cur, Due
<1> QED
  BY <1>1, <1>2, <1>3, <1>4, <1>5, <1>6, <1>7, <1>8, <1>9, <1>10, <1>11, <1>12, <1>13, <1>14,
     <1>15, <1>16, <1>17, <1>18, <1>19, <1>20, <1>21, <1>22
     DEF Next, Bridge, Loop, Handle, Notifications, Faults, Others

-----------------------------------------------------------------------------
\* Checkpoint before side effects: the file is past a message before its task is linked.
LEMMA StepTasks == TypeOK /\ Offsets /\ Uncreated /\ [Next]_vars => Offsets' /\ Uncreated'
<1> SUFFICES ASSUME TypeOK, Offsets, Uncreated, [Next]_vars PROVE Offsets' /\ Uncreated'
  OBVIOUS
<1> USE DEF Offsets, Uncreated, Goto, Cur, taskVars
<1>a. file \in Int /\ offset \in Int /\ Updates \subseteq Int
  BY DEF TypeOK, Updates
<1>1. CASE Start
  BY <1>1, <1>a DEF Start
<1>2. CASE GetUpdates
  BY <1>2, <1>a DEF GetUpdates
<1>3. CASE Advance
  BY <1>3, <1>a DEF Advance
<1>4. CASE WriteOffset
  BY <1>4, <1>a DEF WriteOffset
<1>5. CASE HandleOther
  BY <1>5, <1>a DEF HandleOther, offsetVars
<1>6. CASE SubmitLinks
  <2>1. Cur \in Updates
    BY <1>6, CurIsUpdate DEF SubmitLinks
  <2>2. created[Cur] = 0
    BY <1>6, <2>1 DEF SubmitLinks
  <2> QED
    BY <1>6, <1>a, <2>1, <2>2 DEF SubmitLinks, offsetVars, TypeOK
<1>7. CASE SubmitRefused
  BY <1>7, <1>a DEF SubmitRefused, offsetVars
<1>8. CASE SubmitReturns
  BY <1>8, <1>a DEF SubmitReturns, offsetVars
<1>9. CASE Reply
  BY <1>9, <1>a DEF Reply, offsetVars
<1>10. CASE Baseline
  BY <1>10, <1>a DEF Baseline, offsetVars
<1>11. CASE Snapshot
  BY <1>11, <1>a DEF Snapshot, offsetVars
<1>12. CASE Notify
  BY <1>12, <1>a DEF Notify, offsetVars
<1>13. CASE Note
  BY <1>13, <1>a DEF Note, offsetVars
<1>14. CASE EndRound
  BY <1>14, <1>a DEF EndRound, offsetVars
<1>15. CASE ReplyFails
  BY <1>15, <1>a DEF ReplyFails, offsetVars
<1>16. CASE NotifyFails
  BY <1>16, <1>a DEF NotifyFails, offsetVars
<1>17. CASE Crash
  BY <1>17, <1>a DEF Crash, offsetVars
<1>18. CASE SendMessage
  BY <1>18, <1>a DEF SendMessage, offsetVars
<1>19. CASE \E m \in Updates : Pipeline(m)
  <2> PICK m \in Updates : Pipeline(m)
    BY <1>19
  <2>1. state[m] # "none" /\ \A k \in Updates : k # m => state'[k] = state[k]
    BY DEF Pipeline, TypeOK
  <2> QED
    BY <2>1 DEF Pipeline, offsetVars
<1>20. CASE \E m \in Updates : WriteLog(m)
  BY <1>20, <1>a DEF WriteLog, offsetVars
<1>21. CASE Defer
  BY <1>21, <1>a DEF Defer, taskVars, offsetVars
<1>22. CASE UNCHANGED vars
  BY <1>22, <1>a DEF vars, taskVars, offsetVars
<1> QED
  BY <1>1, <1>2, <1>3, <1>4, <1>5, <1>6, <1>7, <1>8, <1>9, <1>10, <1>11, <1>12, <1>13, <1>14,
     <1>15, <1>16, <1>17, <1>18, <1>19, <1>20, <1>21, <1>22
     DEF Next, Bridge, Loop, Handle, Notifications, Faults, Others

\* Every message below the file was handled, except for the one being handled and one for
\* each crash: the set of lost messages grows by a crash in the handler only.
LEMMA StepLost == TypeOK /\ Offsets /\ Lost /\ [Next]_vars => Lost'
<1> SUFFICES ASSUME TypeOK, Offsets, Lost, [Next]_vars PROVE Lost'
  OBVIOUS
<1>a. file \in Nat /\ file > 0 /\ crashes \in Nat
  BY MessagesAssumption, MaxEventsAssumption DEF TypeOK
<1>b. IsFiniteSet(Behind)
  BY <1>a, FS_Interval DEF Behind
<1>c. IsFiniteSet(Behind \ answered) /\ Cardinality(Behind \ answered) \in Nat
  BY <1>b, FS_Subset, FS_CardinalityType
<1>d. SUFFICES
        \/ Behind' \ answered' \subseteq Behind \ answered /\ crashes' = crashes
        \/ /\ Behind' \ answered' \subseteq (Behind \ answered) \cup {Cur}
           /\ crashes' = crashes + 1
  <2>1. CASE Behind' \ answered' \subseteq Behind \ answered /\ crashes' = crashes
    <3>1. /\ Cardinality(Behind' \ answered') <= Cardinality(Behind \ answered)
          /\ Cardinality(Behind' \ answered') \in Nat
      BY <1>c, <2>1, FS_Subset, FS_CardinalityType
    <3> QED
      BY <1>a, <1>c, <2>1, <3>1 DEF Lost
  <2>2. CASE Behind' \ answered' \subseteq (Behind \ answered) \cup {Cur} /\ crashes' = crashes + 1
    <3>1. /\ IsFiniteSet((Behind \ answered) \cup {Cur})
          /\ Cardinality((Behind \ answered) \cup {Cur}) <= crashes + 1
          /\ Cardinality((Behind \ answered) \cup {Cur}) \in Nat
      BY <1>a, <1>c, FS_AddElement DEF Lost
    <3>2. /\ Cardinality(Behind' \ answered') <= Cardinality((Behind \ answered) \cup {Cur})
          /\ Cardinality(Behind' \ answered') \in Nat
      BY <2>2, <3>1, FS_Subset, FS_CardinalityType
    <3> QED
      BY <1>a, <2>2, <3>1, <3>2 DEF Lost
  <2> QED
    BY <2>1, <2>2
<1>1. CASE Start \/ GetUpdates \/ Advance \/ Reply \/ SubmitReturns \/ ReplyFails
  BY <1>1 DEF Start, GetUpdates, Advance, Reply, SubmitReturns, ReplyFails, Behind, Goto, offsetVars
<1>2. CASE WriteOffset
  <2>1. file' - 2 = file - 1 /\ pc = "write" /\ pc' = "handle"
    BY <1>2, <1>a DEF WriteOffset, Offsets, Goto, Cur, TypeOK
  <2> QED
    BY <1>2, <2>1 DEF WriteOffset, Behind
<1>3. CASE HandleOther \/ SubmitRefused \/ SubmitLinks
  <2>1. Cur = file - 1 /\ pc = "handle" /\ pc' # "handle" /\ answered' = answered \cup {Cur}
    BY <1>3 DEF HandleOther, SubmitRefused, SubmitLinks, Offsets, Goto, Cur
  <2>2. file' = file /\ crashes' = crashes
    BY <1>3 DEF HandleOther, SubmitRefused, SubmitLinks, offsetVars
  <2>3. 1..(file - 1) \subseteq 1..(file - 2) \cup {Cur}
    BY <1>a, <2>1
  <2>4. Behind = 1..(file - 2) /\ Behind' = 1..(file - 1)
    BY <2>1, <2>2 DEF Behind
  <2> QED
    BY <2>1, <2>2, <2>3, <2>4
<1>4. CASE Baseline \/ Snapshot \/ Defer \/ Notify \/ Note \/ EndRound \/ NotifyFails
  BY <1>4 DEF Baseline, Snapshot, Defer, Notify, Note, EndRound, NotifyFails, Behind, Goto,
             offsetVars
<1>5. CASE Crash
  <2>1. pc' = "down" /\ file' = file /\ answered' = answered /\ crashes' = crashes + 1
    BY <1>5 DEF Crash, Goto, offsetVars
  <2>2. CASE pc = "handle"
    <3>1. Cur = file - 1
      BY <2>2 DEF Offsets, Cur
    <3>2. 1..(file - 1) \subseteq 1..(file - 2) \cup {Cur}
      BY <1>a, <3>1
    <3>3. Behind = 1..(file - 2) /\ Behind' = 1..(file - 1)
      BY <2>1, <2>2 DEF Behind
    <3> QED
      BY <2>1, <3>2, <3>3
  <2>3. CASE pc # "handle"
    BY <2>1, <2>3 DEF Behind
  <2> QED
    BY <2>2, <2>3
<1>6. CASE SendMessage \/ UNCHANGED vars
  BY <1>6 DEF SendMessage, vars, Behind, offsetVars
<1>7. CASE \E m \in Updates : Pipeline(m) \/ WriteLog(m)
  BY <1>7 DEF Pipeline, WriteLog, Behind, offsetVars
<1> QED
  BY <1>1, <1>2, <1>3, <1>4, <1>5, <1>6, <1>7
     DEF Next, Bridge, Loop, Handle, Notifications, Faults, Others

-----------------------------------------------------------------------------
Notes ==
  /\ Completed /\ Evidence /\ FirstWriting /\ Replies
  /\ ToldPaid /\ ToldBeforeNote /\ NotedWasTold

\* A step that leaves the notes alone: it starts no round, and what it tells of a terminal
\* state, and a message that it does not write down, it pays for with an event.
Aside ==
  /\ UNCHANGED <<known, notified, silent, snap>> /\ Replies'
  /\ bermet \subseteq bermet' /\ logged \subseteq logged'
  /\ \A m \in Updates :
       told'[m]["completed"] # told[m]["completed"] => m \in bermet /\ m \in logged
  /\ pc' \in {"notify", "note"} => pc' = pc
  /\ \A m \in Updates : state[m] = "completed" => state'[m] = "completed"
  /\ \A m \in Updates, t \in Texts : told[m][t] <= told'[m][t]
  /\ \/ \A m \in Updates, t \in Terminal : told'[m][t] = told[m][t]
     \/ /\ pc # "note" /\ events' = events + 1
        /\ \A m \in Updates, t \in Terminal : told'[m][t] <= told[m][t] + 1
  /\ events <= events'
  /\ pc = "note" /\ pc' # "note" => events' = events + 1

\* Such a step keeps the account.
LEMMA NotesKept == TypeOK /\ TypeOK' /\ Notes /\ Aside => Notes'
<1> SUFFICES ASSUME TypeOK, TypeOK', Notes, Aside PROVE Notes'
  OBVIOUS
<1> USE DEF Aside, taskVars
<1>a. Terminal \subseteq Texts
  BY DEF Texts
<1>b. told \in [Updates -> [Texts -> Nat]] /\ told' \in [Updates -> [Texts -> Nat]] /\ events \in Nat /\ events' \in Nat
  BY MaxEventsAssumption DEF TypeOK
<1>c. Due' = Due /\ NextDue' = NextDue
  BY DEF NextDue, Due
<1>1. Completed' /\ Evidence' /\ FirstWriting' /\ Replies'
  <2>1. Completed' /\ FirstWriting'
    BY DEF Notes, Completed, FirstWriting
  <2>2. Evidence'
    BY DEF Notes, Evidence
  <2> QED
    BY <2>1, <2>2
<1>2. ToldBeforeNote'
  <2> SUFFICES ASSUME pc' = "note" PROVE told'[NextDue][snap[NextDue]] > 0
    BY <1>c DEF ToldBeforeNote
  <2>1. Due # {} /\ told[NextDue][snap[NextDue]] > 0
    BY DEF TypeOK, Notes, ToldBeforeNote
  <2> QED
    BY <1>b, <2>1, NextDueFacts
<1>3. NotedWasTold'
  <2> SUFFICES ASSUME NEW m \in Updates, notified[m] # "none"
               PROVE  <<m, notified[m]>> \in silent \/ told'[m][notified[m]] > 0
    BY DEF NotedWasTold
  <2>1. notified[m] \in Texts
    BY <1>a DEF TypeOK
  <2> QED
    BY <1>b, <2>1 DEF Notes, NotedWasTold
<1>4. ToldPaid'
  <2> SUFFICES ASSUME NEW m \in Updates, NEW q \in Terminal
               PROVE  (told[m][q] <= events + (IF Accounted(m, q) THEN 1 ELSE 0))'
    BY DEF ToldPaid
  <2>1. told[m][q] <= events + (IF Accounted(m, q) THEN 1 ELSE 0)
    BY DEF Notes, ToldPaid
  <2>2. told[m][q] \in Nat /\ told'[m][q] \in Nat
    BY <1>a, <1>b
  <2>3. Accounted(m, q) => Accounted(m, q)' \/ (pc = "note" /\ pc' # "note")
    BY <1>c DEF Accounted
  <2> QED
    BY <1>b, <2>1, <2>2, <2>3
<1> QED
  BY <1>1, <1>2, <1>3, <1>4 DEF Notes

\* The steps that write the file, start a round or tell of a task keep the account too.
LEMMA StepNotes ==
  TypeOK /\ TypeOK' /\ Uncreated /\ Offsets /\ Notes /\ [Next]_vars => Notes'
<1> SUFFICES ASSUME TypeOK, TypeOK', Uncreated, Offsets, Notes, [Next]_vars PROVE Notes'
  OBVIOUS
<1>a. Terminal \subseteq Texts
  BY DEF Texts
<1>b. told \in [Updates -> [Texts -> Nat]] /\ told' \in [Updates -> [Texts -> Nat]] /\ events \in Nat /\ events' \in Nat
  BY MaxEventsAssumption DEF TypeOK
<1>c. Replies
  BY DEF Notes
<1>d. say' = say => Replies'
  BY <1>c DEF Replies
<1>e. \A m \in Updates, t \in Texts : told[m][t] <= told[m][t]
  BY <1>b
<1>f. "completed" \in Terminal
  BY DEF Terminal
<1>1. CASE Start \/ GetUpdates \/ Advance \/ WriteOffset
  <2>1. /\ UNCHANGED <<known, notified, silent, snap>> /\ UNCHANGED <<taskVars, told, say, events>>
        /\ pc # "note" /\ pc' \notin {"notify", "note"}
    BY <1>1 DEF Start, GetUpdates, Advance, WriteOffset, Goto, noteVars, taskVars
  <2>2. Aside
    BY <1>b, <1>e, <1>d, <2>1 DEF Aside, taskVars
  <2> QED
    BY <2>2, NotesKept
<1>2. CASE HandleOther \/ SubmitRefused \/ SubmitReturns
  <2>1. events' \in {events, events + 1} /\ Replies'
    BY <1>2 DEF HandleOther, SubmitRefused, SubmitReturns, Event, Replies
  <2>2. /\ UNCHANGED <<known, notified, silent, snap>> /\ UNCHANGED <<taskVars, told>>
        /\ pc # "note" /\ pc' \notin {"notify", "note"}
    BY <1>2 DEF HandleOther, SubmitRefused, SubmitReturns, Goto, noteVars, taskVars
  <2>3. Aside
    BY <1>b, <1>e, <2>1, <2>2 DEF Aside, taskVars
  <2> QED
    BY <2>3, NotesKept
<1>3. CASE SubmitLinks
  <2>1. Cur \in Updates /\ state[Cur] = "none"
    BY <1>3, CurIsUpdate DEF SubmitLinks, Uncreated
  <2>2. \A m \in Updates : state[m] = "completed" => state'[m] = "completed"
    BY <1>3, <2>1 DEF SubmitLinks, TypeOK
  <2>3. /\ UNCHANGED <<known, notified, silent, snap>> /\ UNCHANGED <<told, say, events>>
        /\ bermet \subseteq bermet' /\ logged \subseteq logged'
        /\ pc # "note" /\ pc' \notin {"notify", "note"}
    BY <1>3 DEF SubmitLinks, Goto, noteVars, taskVars
  <2>4. Aside
    BY <1>b, <1>e, <1>d, <2>2, <2>3 DEF Aside, taskVars
  <2> QED
    BY <2>4, NotesKept
<1>4. CASE Reply
  <2>1. Cur \in Updates /\ say \in Texts \ Terminal
    BY <1>4, CurIsUpdate DEF Reply, Notes, Replies, Terminal, TypeOK
  <2>2. told' = [told EXCEPT ![Cur] = [told[Cur] EXCEPT ![say] = told[Cur][say] + 1]]
    BY <1>4 DEF Reply, Tell
  <2>3. \A m \in Updates, t \in Texts : told[m][t] <= told'[m][t]
    BY <1>b, <2>1, <2>2
  <2>4. \A m \in Updates, t \in Terminal : told'[m][t] = told[m][t]
    BY <1>b, <2>1, <2>2
  <2>5. /\ UNCHANGED <<known, notified, silent, snap>> /\ UNCHANGED <<taskVars, say, events>>
        /\ pc # "note" /\ pc' \notin {"notify", "note"}
    BY <1>4 DEF Reply, Goto, noteVars, taskVars
  <2>6. Aside
    BY <1>b, <1>d, <1>f, <2>3, <2>4, <2>5 DEF Aside, taskVars
  <2> QED
    BY <2>6, NotesKept
<1>5. CASE ReplyFails
  <2>1. Cur \in Updates /\ say \in Texts /\ Failed(Cur, say)
    BY <1>5, CurIsUpdate DEF ReplyFails, TypeOK
  <2>2. Replies' /\ pc = "reply" /\ pc' \in {"reply", "poll"}
    BY <1>5 DEF ReplyFails, Notes, Replies, Goto
  <2>3. events' = events + 1
        /\ \A k \in Updates, t \in Texts : told[k][t] <= told'[k][t] /\ told'[k][t] <= told[k][t] + 1
    BY <2>1, FailedFacts
  <2>4. UNCHANGED <<known, notified, silent, snap, taskVars>>
    BY <1>5 DEF ReplyFails, noteVars, taskVars
  <2>5. say # "completed"
    BY DEF Notes, Replies
  <2>6. \A m \in Updates : told'[m]["completed"] = told[m]["completed"]
    <3>1. "completed" \in Texts
      BY DEF Texts, Terminal
    <3>2. \A m \in Updates : <<m, "completed">> # <<Cur, say>>
      BY <2>5
    <3> QED
      BY <2>1, <3>1, <3>2, FailedFacts
  <2>7. Aside
    BY <1>a, <1>b, <2>2, <2>3, <2>4, <2>6 DEF Aside, taskVars
  <2> QED
    BY <2>7, NotesKept
<1>6. CASE NotifyFails
  <2>1. NextDue \in Updates /\ snap[NextDue] \in Texts /\ Failed(NextDue, snap[NextDue])
    BY <1>6, NextDueFacts DEF NotifyFails
  <2>2. events' = events + 1
        /\ \A k \in Updates, t \in Texts : told[k][t] <= told'[k][t] /\ told'[k][t] <= told[k][t] + 1
    BY <2>1, FailedFacts
  <2>3. /\ UNCHANGED <<known, notified, silent, snap>> /\ UNCHANGED <<taskVars, say>>
        /\ pc = "notify" /\ pc' = "poll"
    BY <1>6 DEF NotifyFails, Goto, noteVars, taskVars
  <2>4. \A m \in Updates :
          told'[m]["completed"] # told[m]["completed"] => m \in bermet /\ m \in logged
    <3> SUFFICES ASSUME NEW m \in Updates, told'[m]["completed"] # told[m]["completed"]
                 PROVE  m \in bermet /\ m \in logged
      OBVIOUS
    <3>1. "completed" \in Texts
      BY DEF Texts, Terminal
    <3>2. <<m, "completed">> = <<NextDue, snap[NextDue]>>
      BY <2>1, <3>1, FailedFacts
    <3> QED
      BY <1>6, <3>2 DEF NotifyFails, Reportable, Notes, Evidence
  <2>5. Aside
    BY <1>a, <1>b, <1>d, <2>2, <2>3, <2>4 DEF Aside, taskVars
  <2> QED
    BY <2>5, NotesKept
<1>7. CASE EndRound \/ SendMessage \/ UNCHANGED vars
  <2>1. /\ UNCHANGED <<known, notified, silent, snap>> /\ UNCHANGED <<taskVars, told, say, events>>
        /\ pc' = pc \/ (pc = "notify" /\ pc' = "poll")
    BY <1>7 DEF EndRound, SendMessage, vars, Goto, noteVars, taskVars
  <2>2. Aside
    BY <1>b, <1>e, <1>d, <2>1 DEF Aside, taskVars
  <2> QED
    BY <2>2, NotesKept
<1>8. CASE Crash
  <2>1. /\ UNCHANGED <<known, notified, silent, snap>> /\ UNCHANGED <<taskVars, told, say>>
        /\ pc' = "down" /\ events' = events + 1
    BY <1>8 DEF Crash, Event, Goto, noteVars, taskVars
  <2>2. Aside
    BY <1>b, <1>e, <1>d, <2>1 DEF Aside, taskVars
  <2> QED
    BY <2>2, NotesKept
<1>9. CASE \E m \in Updates : Pipeline(m) \/ WriteLog(m)
  <2> PICK m \in Updates : Pipeline(m) \/ WriteLog(m)
    BY <1>9
  <2>1. /\ \A k \in Updates : state[k] = "completed" => state'[k] = "completed"
        /\ events' \in {events, events + 1}
    BY DEF Pipeline, WriteLog, TypeOK, Event
  <2>2. /\ UNCHANGED <<known, notified, silent, snap>> /\ UNCHANGED <<told, say, pc>>
        /\ bermet \subseteq bermet' /\ logged \subseteq logged'
    BY DEF Pipeline, WriteLog, noteVars
  <2>3. Aside
    BY <1>b, <1>e, <1>d, <2>1, <2>2 DEF Aside, taskVars
  <2> QED
    BY <2>3, NotesKept
<1>10. CASE Baseline
  <2>1. /\ ~known /\ known' /\ notified' = Found /\ pc = "batch" /\ pc' = "poll"
        /\ UNCHANGED <<told, events, taskVars, snap, say>>
        /\ silent' = {<<m, Found[m]>> : m \in {u \in Updates : Found[u] # "none"}}
    BY <1>10 DEF Baseline, Goto
  <2>2. \A m \in Updates : notified[m] = "none"
    BY <2>1 DEF Notes, FirstWriting, Nothing
  <2>3. Completed' /\ FirstWriting' /\ Replies' /\ ToldBeforeNote' /\ Evidence'
    <3>1. Completed' /\ FirstWriting' /\ Replies' /\ ToldBeforeNote'
      BY <2>1 DEF Notes, Completed, FirstWriting, Replies, ToldBeforeNote, Found, taskVars
    <3>2. Evidence'
      BY <2>1 DEF Notes, Evidence, Found, taskVars
    <3> QED
      BY <3>1, <3>2
  <2>4. NotedWasTold'
    BY <2>1 DEF NotedWasTold
  <2>5. ToldPaid'
    <3> SUFFICES ASSUME NEW m \in Updates, NEW q \in Terminal
                 PROVE  (told[m][q] <= events + (IF Accounted(m, q) THEN 1 ELSE 0))'
      BY DEF ToldPaid
    <3>1. told[m][q] <= events + (IF Accounted(m, q) THEN 1 ELSE 0)
      BY DEF Notes, ToldPaid
    <3>2. ~Accounted(m, q)
      BY <2>1, <2>2 DEF Accounted, Terminal
    <3>3. told[m][q] \in Nat
      BY <1>a, <1>b
    <3> QED
      BY <1>b, <2>1, <3>1, <3>2, <3>3
  <2> QED
    BY <2>3, <2>4, <2>5 DEF Notes
<1>11. CASE Snapshot
  <2>1. /\ known /\ snap' = Found /\ pc = "batch" /\ pc' = "notify"
        /\ UNCHANGED <<told, events, taskVars, say, known, notified, silent>>
    BY <1>11 DEF Snapshot, Goto
  <2>2. \A m \in Updates :
          /\ Found[m] = "completed" => state[m] = "completed"
          /\ Found[m] # "none" => m \in bermet
          /\ m \in bermet /\ state[m] = "completed" => Found[m] = "completed"
    BY DEF Found, Terminal
  <2>3. /\ Completed' /\ FirstWriting' /\ Replies' /\ ToldBeforeNote' /\ NotedWasTold'
        /\ Evidence'
    <3>1. Evidence'
      BY <2>1, <2>2 DEF Notes, Evidence, taskVars
    <3>2. Completed'
      BY <2>1, <2>2 DEF Notes, Completed, Evidence, taskVars
    <3>3. FirstWriting' /\ Replies' /\ ToldBeforeNote' /\ NotedWasTold'
      BY <2>1 DEF Notes, FirstWriting, Replies, ToldBeforeNote, NotedWasTold
    <3> QED
      BY <3>1, <3>2, <3>3
  <2>4. ToldPaid'
    BY <2>1 DEF Notes, ToldPaid, Accounted
  <2> QED
    BY <2>3, <2>4 DEF Notes
<1>12. CASE Notify
  <2>1. /\ Due # {} /\ pc = "notify" /\ pc' = "note"
        /\ UNCHANGED <<events, taskVars, say, known, notified, silent, snap>>
        /\ told' = [told EXCEPT ![NextDue] =
                      [told[NextDue] EXCEPT ![snap[NextDue]] = told[NextDue][snap[NextDue]] + 1]]
    BY <1>12 DEF Notify, Goto, Tell, noteVars, taskVars
  <2>2. NextDue' = NextDue
    BY <2>1 DEF NextDue, Due
  <2>3. NextDue \in Updates /\ snap[NextDue] \in Texts /\ snap[NextDue] # notified[NextDue]
    BY <2>1, NextDueFacts
  <2>4. Completed' /\ FirstWriting' /\ Replies' /\ Evidence'
    <3>1. Completed' /\ FirstWriting' /\ Replies'
      BY <2>1 DEF Notes, Completed, FirstWriting, Replies, taskVars
    <3>2. \A m \in Updates : told'[m]["completed"] # told[m]["completed"] =>
                             m = NextDue /\ snap[m] = "completed"
      BY <1>b, <2>1, <2>3 DEF Texts, Terminal
    <3>3. Reportable(NextDue) /\ snap[NextDue] # "none"
      BY <1>12, NextIsDue, Zenon DEF Notify, Due
    <3>4. Evidence'
      BY <2>1, <2>3, <3>2, <3>3 DEF Notes, Evidence, Reportable, taskVars
    <3> QED
      BY <3>1, <3>4
  <2>5. ToldBeforeNote'
    BY <1>b, <2>1, <2>2, <2>3 DEF ToldBeforeNote
  <2>6. NotedWasTold'
    <3> SUFFICES ASSUME NEW m \in Updates, notified[m] # "none"
                 PROVE  <<m, notified[m]>> \in silent \/ told'[m][notified[m]] > 0
      BY <2>1 DEF NotedWasTold
    <3>1. notified[m] \in Texts
      BY <1>a DEF TypeOK
    <3>2. told[m][notified[m]] <= told'[m][notified[m]]
      BY <1>b, <2>1, <2>3, <3>1
    <3> QED
      BY <1>b, <3>1, <3>2 DEF Notes, NotedWasTold
  <2>7. ToldPaid'
    <3> SUFFICES ASSUME NEW m \in Updates, NEW q \in Terminal
                 PROVE  (told[m][q] <= events + (IF Accounted(m, q) THEN 1 ELSE 0))'
      BY DEF ToldPaid
    <3>1. told[m][q] <= events + (IF Accounted(m, q) THEN 1 ELSE 0) /\ told[m][q] \in Nat
      BY <1>a, <1>b DEF Notes, ToldPaid
    <3>2. CASE m = NextDue /\ q = snap[NextDue]
      <4>1. ~Accounted(m, q)
        BY <2>1, <2>3, <3>2 DEF Accounted, Notes, Completed
      <4>2. Accounted(m, q)'
        BY <2>1, <2>2, <3>2 DEF Accounted
      <4>3. told'[m][q] = told[m][q] + 1
        BY <1>b, <2>1, <2>3, <3>2
      <4> QED
        BY <1>b, <2>1, <3>1, <4>1, <4>2, <4>3
    <3>3. CASE ~(m = NextDue /\ q = snap[NextDue])
      <4>1. Accounted(m, q) => Accounted(m, q)'
        BY <2>1 DEF Accounted
      <4>2. told'[m][q] = told[m][q]
        BY <1>a, <1>b, <2>1, <2>3, <3>3
      <4> QED
        BY <1>b, <2>1, <3>1, <4>1, <4>2
    <3> QED
      BY <3>2, <3>3
  <2> QED
    BY <2>4, <2>5, <2>6, <2>7 DEF Notes
<1>13. CASE Note
  <2>1. /\ pc = "note" /\ pc' = "notify" /\ Due # {}
        /\ UNCHANGED <<told, events, taskVars, say, known, silent, snap>>
        /\ notified' = [notified EXCEPT ![NextDue] = snap[NextDue]]
    BY <1>13 DEF Note, Goto, TypeOK
  <2>2. NextDue \in Updates /\ snap[NextDue] \in Terminal
    BY <2>1, NextDueFacts
  <2>3. \A m \in Updates : notified'[m] = IF m = NextDue THEN snap[NextDue] ELSE notified[m]
    BY <2>1, <2>2 DEF TypeOK
  <2>4. Completed' /\ FirstWriting' /\ Replies' /\ ToldBeforeNote' /\ Evidence'
    <3>1. Completed' /\ FirstWriting' /\ Replies' /\ ToldBeforeNote'
      BY <2>1, <2>2, <2>3 DEF Notes, Completed, FirstWriting, Replies, ToldBeforeNote, taskVars
    <3>2. Evidence'
      BY <2>1, <2>2, <2>3 DEF Notes, Evidence, Terminal, taskVars
    <3> QED
      BY <3>1, <3>2
  <2>5. NotedWasTold'
    BY <2>1, <2>3 DEF Notes, NotedWasTold, ToldBeforeNote
  <2>6. ToldPaid'
    <3> SUFFICES ASSUME NEW m \in Updates, NEW q \in Terminal
                 PROVE  (told[m][q] <= events + (IF Accounted(m, q) THEN 1 ELSE 0))'
      BY DEF ToldPaid
    <3>1. told[m][q] <= events + (IF Accounted(m, q) THEN 1 ELSE 0) /\ told[m][q] \in Nat
      BY <1>a, <1>b DEF Notes, ToldPaid
    <3>2. Accounted(m, q) => Accounted(m, q)'
      BY <2>1, <2>2, <2>3 DEF Accounted, Notes, Completed, Terminal
    <3> QED
      BY <1>b, <2>1, <3>1, <3>2
  <2> QED
    BY <2>4, <2>5, <2>6 DEF Notes
<1>14. CASE Defer
  <2>1. /\ pc = "notify" /\ pc' = pc /\ Due # {} /\ snap[NextDue] = "completed"
        /\ UNCHANGED <<told, events, taskVars, say, known, notified, silent>>
        /\ snap' = [snap EXCEPT ![NextDue] = "none"]
    BY <1>14 DEF Defer, Reportable
  <2>2. NextDue \in Updates /\ notified[NextDue] # "completed"
    BY <2>1, NextDueFacts
  <2>3. \A m \in Updates : snap'[m] = IF m = NextDue THEN "none" ELSE snap[m]
    BY <2>1, <2>2 DEF TypeOK
  <2>4. Completed' /\ Evidence'
    BY <2>1, <2>2, <2>3 DEF Notes, Completed, Evidence, taskVars
  <2>5. FirstWriting' /\ Replies' /\ ToldBeforeNote' /\ NotedWasTold'
    BY <2>1 DEF Notes, FirstWriting, Replies, ToldBeforeNote, NotedWasTold
  <2>6. ToldPaid'
    BY <2>1 DEF Notes, ToldPaid, Accounted
  <2> QED
    BY <2>4, <2>5, <2>6 DEF Notes
<1> QED
  BY <1>1, <1>2, <1>3, <1>4, <1>5, <1>6, <1>7, <1>8, <1>9, <1>10, <1>11, <1>12, <1>13,
     <1>14
     DEF Next, Bridge, Loop, Handle, Notifications, Faults, Others

-----------------------------------------------------------------------------
LEMMA InvariantIInv == Spec => []IInv
<1>1. IInv /\ [Next]_vars => IInv'
  BY StepTypeOK, StepTasks, StepNotes, StepLost DEF IInv, Notes
<1> QED
  BY InitIInv, <1>1, PTL DEF Spec

\* The bridge keeps its types: its offset, its notes and what it may say at each step.
THEOREM TypeCorrect == Spec => []TypeOK
<1>1. IInv => TypeOK
  BY DEF IInv
<1> QED
  BY InvariantIInv, <1>1, PTL

\* A message creates one task at most, for any number of messages, crashes and lost calls
\* (the checkpoint before handle_update).
THEOREM MessagesActOnce == Spec => []OneTaskPerMessage
<1>1. IInv => OneTaskPerMessage
  BY DEF IInv, Uncreated, OneTaskPerMessage
<1> QED
  BY InvariantIInv, <1>1, PTL

\* Each crash loses one message at most, and nothing else does (run_v3, ReplyFails).
THEOREM CrashesLoseOne == Spec => []LostOnlyByCrash
<1>1. IInv => LostOnlyByCrash
  BY DEF IInv, Lost, Behind, Offsets, LostOnlyByCrash
<1> QED
  BY InvariantIInv, <1>1, PTL

\* A terminal state is told once, and once more for each event, a completion only with
\* the log of the publisher; the file of notified tasks never runs ahead of what the
\* owner was told (notify_terminal_changes).
THEOREM OwnerToldOnce == Spec => []ToldOnce
<1>1. IInv => ToldOnce
  <2> SUFFICES ASSUME IInv, NEW m \in Updates PROVE
                 /\ \A q \in Terminal : told[m][q] <= 1 + events
                 /\ told[m]["completed"] > 0 => m \in bermet \cap logged
                 /\ notified[m] # "none" =>
                      <<m, notified[m]>> \in silent \/ told[m][notified[m]] > 0
    BY DEF ToldOnce
  <2>1. ASSUME NEW q \in Terminal PROVE told[m][q] <= 1 + events
    <3>1. told[m][q] \in Nat /\ events \in Nat
      <4>1. q \in Texts /\ told \in [Updates -> [Texts -> Nat]]
        BY DEF IInv, TypeOK, Texts
      <4>2. events \in Nat
        BY MaxEventsAssumption DEF IInv, TypeOK
      <4> QED
        BY <4>1, <4>2
    <3> QED
      BY <3>1 DEF IInv, ToldPaid
  <2> QED
    BY <2>1 DEF IInv, NotedWasTold, Evidence
<1> QED
  BY InvariantIInv, <1>1, PTL

=============================================================================
