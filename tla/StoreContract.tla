---------------------------- MODULE StoreContract ----------------------------
(***************************************************************************)
(* What the lifecycle store promises to its readers, whoever writes to it  *)
(* and however transactions end: one variable, the published tables, and   *)
(* one kind of step, which only extends them.                              *)
(***************************************************************************)
EXTENDS Integers

CONSTANTS Keys, Revisions, EntryKeys, TableOf, Events, ActionKeys, None, Workers

VARIABLE tables

\* TaskIdentity: its task_id, and the rest of it.
Identities == Keys \X Revisions

\* LifecycleRecord
Lifecycles == [version: Nat, identity: Identities]

\* Lease.  The token is deterministic_key("lease", task, owner, sequence).
Leases == [owner: Workers, token: Nat, expires: Nat]

\* LedgerEntry, StageEvidenceRecord and ProjectionIntent.  The content is what
\* tells two entries of one key apart; of stage evidence, the identity it is bound to.
Entries == [key: Keys, version: Nat, content: Identities]

Absent == [none |-> None]

\* A table is a function from its keys to a record or Absent, a key or None.
Tables == [life:    [Keys -> Lifecycles \cup {Absent}],
           leases:  [Keys -> Leases \cup {Absent}],
           inbox:   [Events -> ActionKeys \cup {None}],
           entries: [EntryKeys -> Entries \cup {Absent}],
           acks:    [EntryKeys -> ActionKeys \cup {None}],
           sequence: Nat]

Empty == [life    |-> [k \in Keys |-> Absent],
          leases  |-> [k \in Keys |-> Absent],
          inbox   |-> [e \in Events |-> None],
          entries |-> [x \in EntryKeys |-> Absent],
          acks    |-> [x \in EntryKeys |-> None],
          sequence |-> 0]

-----------------------------------------------------------------------------
\* A lifecycle keeps its identity and its version never goes back.
LifeExtends(old, new) ==
  \A k \in Keys : old.life[k] # Absent =>
    /\ new.life[k] # Absent
    /\ new.life[k].identity = old.life[k].identity
    /\ new.life[k].version >= old.life[k].version

\* An entry keeps its content.  A new one is for a version that was current
\* between the two, and stage evidence is bound to the identity of its task.
EntriesExtend(old, new) ==
  \A x \in EntryKeys :
    LET entry == new.entries[x]
    IN \/ entry = old.entries[x]
       \/ /\ old.entries[x] = Absent
          /\ new.life[entry.key] # Absent
          /\ entry.version <= new.life[entry.key].version
          /\ old.life[entry.key] # Absent => entry.version >= old.life[entry.key].version
          /\ TableOf[x] = "stage_evidence" =>
               entry.content = new.life[entry.key].identity /\ entry.content[1] = entry.key

\* Claims and acknowledgements stay; what is acknowledged is in the outbox.
MarksExtend(old, new) ==
  /\ \A e \in Events : old.inbox[e] # None => new.inbox[e] = old.inbox[e]
  /\ \A x \in EntryKeys :
       \/ new.acks[x] = old.acks[x]
       \/ old.acks[x] = None /\ new.entries[x] # Absent

Extends(old, new) ==
  LifeExtends(old, new) /\ EntriesExtend(old, new) /\ MarksExtend(old, new)

Init == tables = Empty

Next == tables' \in Tables /\ Extends(tables, tables')

Spec == Init /\ [][Next]_tables

=============================================================================
