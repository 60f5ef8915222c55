--------------------------- MODULE LifecycleStore ---------------------------
(***************************************************************************)
(* universal_task_lifecycle_store.py: the in-memory store of the lifecycle *)
(* engine and its transactions.  A transaction takes the lock of the       *)
(* store, works on a copy of every table and publishes the copy when it is *)
(* left without an error.  The lock is re-entrant: the thread that holds   *)
(* it may enter a second transaction inside the first (MaxDepth).          *)
(*                                                                         *)
(* A worker is a thread with an owner name of its own.  It may do any      *)
(* sequence of operations, catch the errors they raise and go on, or leave *)
(* with an exception, as in the with block of the caller.                  *)
(***************************************************************************)
EXTENDS Integers, Sequences

CONSTANTS
  Workers,
  Keys,         \* task keys
  Revisions,    \* what tells the identities of one task apart
  EntryKeys,    \* keys of the append-only tables
  TableOf,      \* the table of an entry key: "ledger", "stage_evidence" or "outbox"
  Events,       \* (provider, event id) pairs
  ActionKeys,   \* action keys of inbox events, acknowledgement keys
  None,
  Ttls,         \* the ttl of leases
  MaxVersion, MaxClock, MaxLeases, MaxDepth,   \* bounds
  MaxTransactions, MaxOperations               \* bounds, the latter per transaction

ASSUME TableOfAssumption == TableOf \in [EntryKeys -> {"ledger", "stage_evidence", "outbox"}]
ASSUME TtlsAssumption == Ttls \subseteq Nat \ {0}
ASSUME NoneAssumption == None \notin Workers \cup ActionKeys
ASSUME BoundsAssumption ==
  {MaxVersion, MaxClock, MaxLeases, MaxDepth, MaxTransactions, MaxOperations} \subseteq Nat

VARIABLES
  store,     \* the tables of InMemoryLifecycleStore
  stack,     \* the open transactions, the innermost last
  holder,    \* the worker that holds the lock
  clock,     \* what the clock of the store returns
  held,      \* the leases each worker was given by transactions that succeeded
  effects,   \* history: how often the action of each event took effect
  begun      \* number of transactions begun

vars == <<store, stack, holder, clock, held, effects, begun>>

Contract == INSTANCE StoreContract WITH tables <- store

Absent == Contract!Absent

\* InMemoryLifecycleTransaction: its private tables and whether it is poisoned.
\* What it claimed of the inbox and the leases it was given are its caller's.
Transactions == [tables: Contract!Tables, aborted: BOOLEAN, claimed: SUBSET Events,
                 held: [Keys -> Contract!Leases \cup {Absent}], operations: Nat]

Top     == Len(stack)
Frame   == stack[Top]
Private == Frame.tables

-----------------------------------------------------------------------------
(* __enter__ and __exit__ *)

Lockable(w) == IF holder = None THEN TRUE ELSE holder = w /\ Len(stack) < MaxDepth

Enter(w) ==
  /\ Lockable(w) /\ begun < MaxTransactions
  /\ begun' = begun + 1
  /\ holder' = w
  /\ stack' = Append(stack, [tables |-> store, aborted |-> FALSE, claimed |-> {},
                             held |-> held[w], operations |-> 0])
  /\ UNCHANGED <<store, clock, held, effects>>

Leave ==
  /\ stack' = SubSeq(stack, 1, Top - 1)
  /\ holder' = IF Top = 1 THEN None ELSE holder
  /\ UNCHANGED <<clock, begun>>

\* The with block ends normally.
Publish ==
  /\ stack # <<>> /\ ~Frame.aborted
  /\ store' = Private
  /\ held' = [held EXCEPT ![holder] = Frame.held]
  /\ effects' = [e \in Events |-> IF e \in Frame.claimed THEN effects[e] + 1 ELSE effects[e]]
  /\ Leave

\* It ends with an exception, or an operation in it has failed.
Rollback ==
  /\ stack # <<>>
  /\ UNCHANGED <<store, held, effects>>
  /\ Leave

-----------------------------------------------------------------------------
(* The operations.  One that fails poisons its transaction and changes nothing *)
(* else; the caller may catch the error.                                      *)

Do(allowed, frame) ==
  /\ Frame.operations < MaxOperations
  /\ stack' = [stack EXCEPT ![Top] =
       [(IF allowed THEN frame ELSE [Frame EXCEPT !.aborted = TRUE])
        EXCEPT !.operations = Frame.operations + 1]]
  /\ UNCHANGED <<store, holder, clock, held, effects, begun>>

\* compare_and_swap: of a key that does not exist, None is expected.
Swappable(key, expected, identity) ==
  IF Private.life[key] = Absent
  THEN expected = None
  ELSE Private.life[key].identity = identity /\ expected = Private.life[key].version

NextVersion(key) == IF Private.life[key] = Absent THEN 0 ELSE Private.life[key].version + 1

CompareAndSwap(key, expected, identity) ==
  /\ NextVersion(key) <= MaxVersion
  /\ Do(Swappable(key, expected, identity),
        [Frame EXCEPT !.tables.life[key] =
           [version |-> NextVersion(key), identity |-> identity]])

Active(l) == l # Absent /\ l.expires > clock

\* acquire_lease: an active lease of the same owner is returned as it is.
AcquireLease(key, ttl) ==
  LET current == Private.leases[key]
      new     == [owner |-> holder, token |-> Private.sequence + 1, expires |-> clock + ttl]
  IN \/ /\ Active(current)
        /\ Do(current.owner = holder, [Frame EXCEPT !.held[key] = current])
     \/ /\ ~Active(current)
        /\ Private.sequence < MaxLeases
        /\ Do(TRUE, [Frame EXCEPT !.tables.leases[key] = new,
                                  !.tables.sequence = @ + 1,
                                  !.held[key] = new])

RenewLease(key, token, ttl) ==
  LET current == Private.leases[key]
      renewed == [owner |-> holder, token |-> token, expires |-> clock + ttl]
  IN Do(Active(current) /\ current.owner = holder /\ current.token = token,
        [Frame EXCEPT !.tables.leases[key] = renewed, !.held[key] = renewed])

\* Mutant: any owner may release.
Releasable_Anyone(current, token) == TRUE

Releasable(current, token) ==
  current = Absent \/ (current.owner = holder /\ current.token = token)

\* release_lease: also of one that has expired.
ReleaseLease(key, token) ==
  Do(Releasable(Private.leases[key], token),
     [Frame EXCEPT !.tables.leases[key] = Absent, !.held[key] = Absent])

\* Mutant: the claim is written to the store at once.
ClaimInboxEvent_AtOnce(event, action) ==
  /\ Frame.operations < MaxOperations
  /\ Private.inbox[event] = None
  /\ stack' = [stack EXCEPT ![Top].tables.inbox[event] = action,
                            ![Top].claimed = @ \cup {event}, ![Top].operations = @ + 1]
  /\ store' = [store EXCEPT !.inbox[event] = action]
  /\ UNCHANGED <<holder, clock, held, effects, begun>>

\* claim_inbox_event, and the first half of transact_inbox_event: the caller
\* runs the action of the event in this transaction only if the claim is new.
ClaimInboxEvent(event, action) ==
  Do(Private.inbox[event] \in {None, action},
     [Frame EXCEPT !.tables.inbox[event] = action,
                   !.claimed = IF Private.inbox[event] = None THEN @ \cup {event} ELSE @])

\* Mutant: an entry may be for any version.
PinnedTo_Any(key, version) == Private.life[key] # Absent

\* _require_current_version
PinnedTo(key, version) == Private.life[key] # Absent /\ Private.life[key].version = version

\* append_ledger_entry, append_stage_evidence and enqueue_projection: an entry
\* that is there must be the same, and then nothing changes.
Appendable(x, entry) ==
  IF Private.entries[x] # Absent
  THEN Private.entries[x] = entry
  ELSE /\ PinnedTo(entry.key, entry.version)
       /\ TableOf[x] = "stage_evidence" =>
            entry.content = Private.life[entry.key].identity /\ entry.content[1] = entry.key

AppendEntry(x, entry) ==
  Do(Appendable(x, entry), [Frame EXCEPT !.tables.entries[x] = entry])

\* acknowledge_projection
Acknowledge(x, key) ==
  /\ TableOf[x] = "outbox"
  /\ Do(Private.entries[x] # Absent /\ Private.acks[x] \in {None, key},
        [Frame EXCEPT !.tables.acks[x] = key])

-----------------------------------------------------------------------------
\* Assumed of the injected clock: it never goes back.  The store itself asks only for a
\* non-negative integer (_now).
Tick == clock < MaxClock /\ clock' = clock + 1
        /\ UNCHANGED <<store, stack, holder, held, effects, begun>>

Init ==
  /\ store = Contract!Empty
  /\ stack = <<>>
  /\ holder = None
  /\ clock = 0
  /\ held = [w \in Workers |-> [k \in Keys |-> Absent]]
  /\ effects = [e \in Events |-> 0]
  /\ begun = 0

Versions == 0..MaxVersion

Operation ==
  /\ stack # <<>>
  /\ \/ \E k \in Keys, v \in Versions \cup {None}, i \in Contract!Identities :
          CompareAndSwap(k, v, i)
     \/ \E k \in Keys, t \in Ttls : AcquireLease(k, t)
     \/ \E k \in Keys, token \in 1..MaxLeases, t \in Ttls : RenewLease(k, token, t)
     \/ \E k \in Keys, token \in 1..MaxLeases : ReleaseLease(k, token)
     \/ \E e \in Events, a \in ActionKeys : ClaimInboxEvent(e, a)
     \/ \E x \in EntryKeys, k \in Keys, v \in Versions, i \in Contract!Identities :
          AppendEntry(x, [key |-> k, version |-> v, content |-> i])
     \/ \E x \in EntryKeys, a \in ActionKeys : Acknowledge(x, a)

Next == (\E w \in Workers : Enter(w)) \/ Publish \/ Rollback \/ Operation \/ Tick

Spec == Init /\ [][Next]_vars

-----------------------------------------------------------------------------
(* Properties *)

TypeOK ==
  /\ store \in Contract!Tables
  /\ stack \in Seq(Transactions)
  /\ holder \in Workers \cup {None}
  /\ holder = None <=> stack = <<>>
  /\ clock \in Nat
  /\ held \in [Workers -> [Keys -> Contract!Leases \cup {Absent}]]
  /\ effects \in [Events -> Nat]
  /\ begun \in Nat

\* Whatever the transactions of all workers do, catch or abandon, what readers
\* of the store see is only extended: no version goes back, no identity and no
\* entry changes, no entry is for a version that was not current, no evidence
\* is about another task, nothing unknown is acknowledged (__exit__ publishes
\* whole copies, so this rests on the lock and on every operation).
ImplementsContract == Contract!Spec

\* The action of an inbox event takes effect exactly as often as the event is
\* recorded: once if it is, however often it is delivered and however many
\* attempts failed half way, and never without being recorded (transact_inbox_event).
ClaimedOnce == \A e \in Events : effects[e] = IF store.inbox[e] = None THEN 0 ELSE 1

\* Two workers never both have a lease of one task that has not expired: the
\* lease a worker was given is the one in the store until its time is over
\* (acquire_lease, renew_lease, release_lease).
LeaseExclusive ==
  \A k \in Keys, v, w \in Workers :
    v # w => ~(Active(held[v][k]) /\ Active(held[w][k]))

=============================================================================
