------------------------ MODULE LifecycleStoreProofs ------------------------
(***************************************************************************)
(* Proofs about LifecycleStore for any workers, tasks, tables and lengths  *)
(* of transactions, as long as no worker opens a transaction inside its    *)
(* own (MaxDepth <= 1): with nested ones the contract is broken, see the   *)
(* README.                                                                 *)
(***************************************************************************)
EXTENDS LifecycleStore, TLAPS

\* What a transaction may assume of its private tables at any point: they extend the
\* published ones, and its inbox claims and leases are those it has accounted for.
Consistent(f) ==
  /\ f \in Transactions
  /\ Contract!Extends(store, f.tables)
  /\ \A e \in Events : e \in f.claimed <=> store.inbox[e] = None /\ f.tables.inbox[e] # None
  /\ \A k \in Keys : Active(f.held[k]) =>
       f.tables.leases[k] = f.held[k] /\ f.held[k].owner = holder
  /\ \A k \in Keys, w \in Workers : w # holder /\ Active(held[w][k]) =>
       f.tables.leases[k] = held[w][k]

\* The only open transaction is consistent.
OpenConsistent == stack # <<>> => Len(stack) = 1 /\ Consistent(stack[1])

\* A worker's lease that has not expired is the one of the store.
LeasesKnown ==
  \A k \in Keys, w \in Workers : Active(held[w][k]) =>
    store.leases[k] = held[w][k] /\ held[w][k].owner = w

IInv == TypeOK /\ OpenConsistent /\ LeasesKnown /\ ClaimedOnce

-----------------------------------------------------------------------------
LEMMA LifecyclePresent == \A l \in Contract!Lifecycles : l # Absent
<1> SUFFICES ASSUME NEW l \in Contract!Lifecycles PROVE l # Absent
  OBVIOUS
<1>1. DOMAIN l = {"version", "identity"}
  BY DEF Contract!Lifecycles
<1>2. DOMAIN Absent = {"none"}
  BY DEF Absent, Contract!Absent
<1> QED BY <1>1, <1>2

LEMMA EntryPresent == \A e \in Contract!Entries : e # Absent
<1> SUFFICES ASSUME NEW e \in Contract!Entries PROVE e # Absent
  OBVIOUS
<1>1. DOMAIN e = {"key", "version", "content"}
  BY DEF Contract!Entries
<1>2. DOMAIN Absent = {"none"}
  BY DEF Absent, Contract!Absent
<1> QED BY <1>1, <1>2

\* Tables extend themselves.
LEMMA ExtendsItself == \A T \in Contract!Tables : Contract!Extends(T, T)
<1> SUFFICES ASSUME NEW T \in Contract!Tables PROVE Contract!Extends(T, T)
  OBVIOUS
<1>1. ASSUME NEW k \in Keys, T.life[k] # Contract!Absent PROVE T.life[k].version >= T.life[k].version
  BY <1>1 DEF Contract!Tables, Contract!Lifecycles
<1> QED
  BY <1>1 DEF Contract!Extends, Contract!LifeExtends, Contract!EntriesExtend, Contract!MarksExtend

LEMMA InitIInv == Init => IInv
<1> SUFFICES ASSUME Init PROVE IInv
  OBVIOUS
<1>1. store \in Contract!Tables
  BY DEF Init, Contract!Empty, Contract!Tables
<1>2. TypeOK
  BY <1>1, NoneAssumption DEF Init, TypeOK, Absent
<1>3. OpenConsistent /\ LeasesKnown /\ ClaimedOnce
  BY DEF Init, OpenConsistent, LeasesKnown, ClaimedOnce, Active, Contract!Empty
<1> QED BY <1>2, <1>3 DEF IInv

-----------------------------------------------------------------------------
(* The beginning and the end of a transaction *)

LEMMA EnterIInv ==
  ASSUME MaxDepth <= 1, IInv, NEW w \in Workers, Enter(w)
  PROVE  IInv'
<1> DEFINE f == [tables |-> store, aborted |-> FALSE, claimed |-> {},
                 held |-> held[w], operations |-> 0]
<1>1. stack = <<>> /\ holder = None
  BY BoundsAssumption DEF IInv, TypeOK, OpenConsistent, Enter, Lockable
<1>2. f \in Transactions
  BY DEF IInv, TypeOK, Transactions
<1>3. stack' = <<f>> /\ holder' = w /\ UNCHANGED <<store, clock, held, effects>>
  BY <1>1 DEF Enter
<1>4. TypeOK'
  BY <1>2, <1>3, NoneAssumption DEF IInv, TypeOK, Enter
<1>5. f.tables = store /\ f.claimed = {} /\ f.held = held[w]
  OBVIOUS
<1> HIDE DEF f
<1>6. Consistent(stack[1])'
  <2>1. stack'[1] = f
    BY <1>3
  <2>2. Contract!Extends(store', stack'[1].tables)
    BY <1>3, <1>5, <2>1, ExtendsItself DEF IInv, TypeOK
  <2>3. \A e \in Events : e \in stack'[1].claimed <=>
          store'.inbox[e] = None /\ stack'[1].tables.inbox[e] # None
    BY <1>3, <1>5, <2>1
  <2>4. \A k \in Keys : Active(stack[1].held[k])' =>
          stack'[1].tables.leases[k] = stack'[1].held[k] /\ stack'[1].held[k].owner = holder'
    BY <1>3, <1>5, <2>1 DEF IInv, LeasesKnown, Active
  <2>5. \A k \in Keys, v \in Workers : v # holder' /\ Active(held[v][k])' =>
          stack'[1].tables.leases[k] = held'[v][k]
    BY <1>3, <1>5, <2>1 DEF IInv, LeasesKnown, Active
  <2> QED BY <1>2, <2>1, <2>2, <2>3, <2>4, <2>5 DEF Consistent
<1>7. LeasesKnown' /\ ClaimedOnce'
  BY <1>3 DEF IInv, LeasesKnown, ClaimedOnce, Active
<1> QED BY <1>3, <1>4, <1>6, <1>7 DEF IInv, OpenConsistent

LEMMA LeaveEmpties == IInv /\ stack # <<>> /\ Leave => stack' = <<>> /\ holder' = None
  BY DEF IInv, OpenConsistent, TypeOK, Leave, Top

LEMMA PublishIInv == IInv /\ Publish => IInv'
<1> SUFFICES ASSUME IInv, Publish PROVE IInv'
  OBVIOUS
<1>1. stack' = <<>> /\ holder' = None /\ UNCHANGED <<clock, begun>>
  BY LeaveEmpties DEF Publish, Leave
<1>2. Consistent(Frame) /\ holder \in Workers
  BY DEF IInv, TypeOK, OpenConsistent, Publish, Frame, Top
<1>3. Frame.tables \in Contract!Tables /\ Frame.held \in [Keys -> Contract!Leases \cup {Absent}]
  BY <1>2 DEF Consistent, Transactions
<1>4. TypeOK'
  <2>1. effects' \in [Events -> Nat]
    BY DEF IInv, TypeOK, Publish
  <2>2. held' \in [Workers -> [Keys -> Contract!Leases \cup {Absent}]]
    BY <1>2, <1>3 DEF IInv, TypeOK, Publish
  <2> QED BY <1>1, <1>3, <2>1, <2>2 DEF IInv, TypeOK, Publish, Private
<1>5. LeasesKnown'
  BY <1>1, <1>2 DEF IInv, TypeOK, LeasesKnown, Consistent, Publish, Private, Active
<1>6. ClaimedOnce'
  <2> SUFFICES ASSUME NEW e \in Events
      PROVE  effects'[e] = IF store'.inbox[e] = None THEN 0 ELSE 1
    BY DEF ClaimedOnce
  <2>1. effects[e] = IF store.inbox[e] = None THEN 0 ELSE 1
    BY DEF IInv, ClaimedOnce
  <2>2. effects'[e] = IF e \in Frame.claimed THEN effects[e] + 1 ELSE effects[e]
    BY DEF Publish
  <2>3. e \in Frame.claimed <=> store.inbox[e] = None /\ Frame.tables.inbox[e] # None
    BY <1>2 DEF Consistent
  <2>4. store.inbox[e] # None => Frame.tables.inbox[e] = store.inbox[e]
    BY <1>2 DEF Consistent, Contract!Extends, Contract!MarksExtend
  <2> QED BY <2>1, <2>2, <2>3, <2>4 DEF Publish, Private
<1> QED BY <1>1, <1>4, <1>5, <1>6 DEF IInv, OpenConsistent

LEMMA RollbackIInv == IInv /\ Rollback => IInv'
<1> SUFFICES ASSUME IInv, Rollback PROVE IInv'
  OBVIOUS
<1>1. stack' = <<>> /\ holder' = None
  BY LeaveEmpties DEF Rollback
<1> QED
  BY <1>1 DEF IInv, TypeOK, OpenConsistent, LeasesKnown, ClaimedOnce, Rollback, Leave, Active

LEMMA TickIInv == IInv /\ Tick => IInv'
<1> SUFFICES ASSUME IInv, Tick PROVE IInv'
  OBVIOUS
<1>1. clock \in Nat /\ clock' = clock + 1 /\ UNCHANGED <<store, stack, holder, held, effects, begun>>
  BY DEF IInv, TypeOK, Tick
<1>2. TypeOK' /\ ClaimedOnce'
  BY <1>1 DEF IInv, TypeOK, ClaimedOnce
<1>3. \A l \in Contract!Leases \cup {Absent} : Active(l)' => Active(l)
  BY <1>1 DEF Active, Contract!Leases
<1>4. LeasesKnown'
  BY <1>1, <1>3 DEF IInv, TypeOK, LeasesKnown
<1>5. ASSUME stack # <<>> PROVE Consistent(stack[1])'
  BY <1>1, <1>3, <1>5 DEF IInv, TypeOK, OpenConsistent, Consistent, Transactions
<1> QED BY <1>1, <1>2, <1>4, <1>5 DEF IInv, OpenConsistent

-----------------------------------------------------------------------------
(* The operations: each leaves its transaction consistent *)

\* An operation that would leave a consistent frame keeps the invariant, also where it
\* fails: then only the flag and the count of its transaction change.
LEMMA DoIInv ==
  ASSUME IInv, stack # <<>>, NEW allowed, NEW g, allowed => Consistent(g), Do(allowed, g)
  PROVE  IInv'
<1>1. Len(stack) = 1 /\ Top = 1 /\ Frame = stack[1] /\ Consistent(Frame)
  BY DEF IInv, OpenConsistent, Frame, Top
<1>2. UNCHANGED <<store, holder, clock, held, effects, begun>>
  BY DEF Do
<1> DEFINE h == [(IF allowed THEN g ELSE [Frame EXCEPT !.aborted = TRUE])
                 EXCEPT !.operations = Frame.operations + 1]
<1>3. /\ h \in Transactions
      /\ IF allowed
         THEN h.tables = g.tables /\ h.claimed = g.claimed /\ h.held = g.held
         ELSE h.tables = Frame.tables /\ h.claimed = Frame.claimed /\ h.held = Frame.held
  <2>1. Frame.operations + 1 \in Nat
    BY <1>1 DEF Consistent, Transactions
  <2>2. CASE allowed
    <3>1. g \in Transactions
      BY <2>2 DEF Consistent
    <3>2. h = [g EXCEPT !.operations = Frame.operations + 1]
      BY <2>2
    <3> HIDE DEF h
    <3> QED BY <2>1, <2>2, <3>1, <3>2 DEF Transactions
  <2>3. CASE ~allowed
    <3>1. Frame \in Transactions
      BY <1>1 DEF Consistent
    <3>2. h = [[Frame EXCEPT !.aborted = TRUE] EXCEPT !.operations = Frame.operations + 1]
      BY <2>3
    <3> HIDE DEF h
    <3> QED BY <2>1, <2>3, <3>1, <3>2 DEF Transactions
  <2> QED BY <2>2, <2>3
<1>5. stack' = [stack EXCEPT ![1] = h]
  BY <1>1 DEF Do
<1> HIDE DEF h
<1>4. Consistent(h)
  BY <1>1, <1>3 DEF Consistent
<1>6. stack' \in Seq(Transactions) /\ Len(stack') = 1 /\ stack'[1] = h /\ stack' # <<>>
  BY <1>1, <1>3, <1>5 DEF IInv, TypeOK
<1>7. Consistent(stack[1])'
  <2>1. stack'[1] \in Transactions /\ Contract!Extends(store', stack'[1].tables)
    BY <1>2, <1>4, <1>6 DEF Consistent
  <2>2. \A e \in Events : e \in stack'[1].claimed <=>
          store'.inbox[e] = None /\ stack'[1].tables.inbox[e] # None
    BY <1>2, <1>4, <1>6 DEF Consistent
  <2>3. \A k \in Keys : Active(stack[1].held[k])' =>
          stack'[1].tables.leases[k] = stack'[1].held[k] /\ stack'[1].held[k].owner = holder'
    BY <1>2, <1>4, <1>6 DEF Consistent, Active
  <2>4. \A k \in Keys, w \in Workers : w # holder' /\ Active(held[w][k])' =>
          stack'[1].tables.leases[k] = held'[w][k]
    BY <1>2, <1>4, <1>6 DEF Consistent, Active
  <2> QED BY <2>1, <2>2, <2>3, <2>4 DEF Consistent
<1>8. TypeOK'
  BY <1>2, <1>6 DEF IInv, TypeOK
<1>9. LeasesKnown' /\ ClaimedOnce'
  BY <1>2 DEF IInv, LeasesKnown, ClaimedOnce, Active
<1> QED
  BY <1>6, <1>7, <1>8, <1>9 DEF IInv, OpenConsistent

\* What the operations start from.
LEMMA FrameFacts ==
  ASSUME IInv, stack # <<>>
  PROVE  /\ Consistent(Frame) /\ Frame \in Transactions /\ holder \in Workers
         /\ Private \in Contract!Tables /\ store \in Contract!Tables
         /\ clock \in Nat
  BY DEF IInv, TypeOK, OpenConsistent, Frame, Top, Consistent, Private, Transactions

\* The open transaction extends what the readers see, and so do tables that differ from
\* its own in none of what the contract is about.
LEMMA PrivateExtends ==
  ASSUME IInv, stack # <<>>
  PROVE  /\ Contract!Extends(store, Private)
         /\ Contract!LifeExtends(store, Private)
         /\ Contract!EntriesExtend(store, Private)
         /\ Contract!MarksExtend(store, Private)
<1>1. Contract!Extends(store, Private)
  BY FrameFacts DEF Consistent, Private
<1> QED
  BY <1>1 DEF Contract!Extends

LEMMA SameLifeExtends ==
  ASSUME IInv, stack # <<>>, NEW P, P.life = Private.life, P.entries = Private.entries
  PROVE  Contract!LifeExtends(store, P) /\ Contract!EntriesExtend(store, P)
<1>1. Contract!LifeExtends(store, P)
  BY PrivateExtends DEF Contract!LifeExtends
<1>2. Contract!EntriesExtend(store, P)
  BY PrivateExtends DEF Contract!EntriesExtend
<1> QED
  BY <1>1, <1>2

LEMMA SameMarksExtends ==
  ASSUME IInv, stack # <<>>, NEW P, P.life = Private.life, P.entries = Private.entries,
         P.inbox = Private.inbox, P.acks = Private.acks
  PROVE  Contract!Extends(store, P)
<1>1. Contract!MarksExtend(store, P)
  BY PrivateExtends DEF Contract!MarksExtend
<1> QED
  BY <1>1, SameLifeExtends DEF Contract!Extends

LEMMA CompareAndSwapIInv ==
  ASSUME IInv, stack # <<>>, NEW key \in Keys, NEW expected, NEW identity \in Contract!Identities,
         CompareAndSwap(key, expected, identity)
  PROVE  IInv'
<1> DEFINE r == [version |-> NextVersion(key), identity |-> identity]
           g == [Frame EXCEPT !.tables.life[key] = r]
<1>1. ASSUME Swappable(key, expected, identity) PROVE Consistent(g)
  <2>1. r \in Contract!Lifecycles /\ r # Absent
    <3>1. NextVersion(key) \in Nat
      BY FrameFacts DEF NextVersion, Contract!Tables, Contract!Lifecycles, Absent
    <3>2. r \in Contract!Lifecycles
      BY <3>1 DEF Contract!Lifecycles
    <3> QED BY <3>2, LifecyclePresent
  <2>2. /\ g \in Transactions
        /\ g.tables = [Private EXCEPT !.life[key] = r]
        /\ g.claimed = Frame.claimed /\ g.held = Frame.held
    <3>1. g.tables = [Private EXCEPT !.life[key] = r] /\ g.claimed = Frame.claimed /\ g.held = Frame.held
      BY FrameFacts DEF Transactions, Private
    <3>2. [Private EXCEPT !.life[key] = r] \in Contract!Tables
      BY <2>1, FrameFacts DEF Contract!Tables
    <3>3. g \in Transactions
      BY <3>1, <3>2, FrameFacts DEF Transactions, Private
    <3> QED BY <3>1, <3>3
  <2> DEFINE T == g.tables
  <2>3. /\ T.life = [Private.life EXCEPT ![key] = r]
        /\ T.inbox = Private.inbox /\ T.leases = Private.leases
        /\ T.entries = Private.entries /\ T.acks = Private.acks
    BY <2>2, FrameFacts DEF Contract!Tables
  <2>4. Private.life[key] # Absent =>
          r.identity = Private.life[key].identity /\ r.version >= Private.life[key].version
    BY <1>1, FrameFacts DEF Swappable, NextVersion, Contract!Tables, Contract!Lifecycles, Absent
  <2>5. Contract!Extends(store, Private)
    BY FrameFacts DEF Consistent, Private
  <2> HIDE DEF T, r
  <2>6. Contract!LifeExtends(store, T)
    BY <2>1, <2>3, <2>4, <2>5, FrameFacts
       DEF Contract!Extends, Contract!LifeExtends, Absent, Contract!Tables, Contract!Lifecycles
  <2>7. Contract!EntriesExtend(store, T)
    <3> SUFFICES ASSUME NEW x \in EntryKeys, T.entries[x] # store.entries[x]
        PROVE  LET entry == T.entries[x]
               IN /\ store.entries[x] = Contract!Absent
                  /\ T.life[entry.key] # Contract!Absent
                  /\ entry.version <= T.life[entry.key].version
                  /\ store.life[entry.key] # Contract!Absent => entry.version >= store.life[entry.key].version
                  /\ TableOf[x] = "stage_evidence" =>
                       entry.content = T.life[entry.key].identity /\ entry.content[1] = entry.key
      BY DEF Contract!EntriesExtend
    <3> DEFINE e == Private.entries[x]
    <3>1. /\ store.entries[x] = Contract!Absent
          /\ Private.life[e.key] # Contract!Absent
          /\ e.version <= Private.life[e.key].version
          /\ store.life[e.key] # Contract!Absent => e.version >= store.life[e.key].version
          /\ TableOf[x] = "stage_evidence" =>
               e.content = Private.life[e.key].identity /\ e.content[1] = e.key
      BY <2>3, <2>5 DEF Contract!Extends, Contract!EntriesExtend
    <3>2. e \in Contract!Entries
      BY <2>3, <3>1, FrameFacts DEF Contract!Tables
    <3>3. e.key \in Keys /\ e.version \in Nat
      BY <3>2 DEF Contract!Entries
    <3>4. T.entries[x] = e
      BY <2>3
    <3> HIDE DEF e
    <3>5. CASE e.key = key
      <4>1. T.life[e.key] = r
        BY <2>3, <3>5, FrameFacts DEF Contract!Tables
      <4>2. r.version \in Nat /\ Private.life[key].version \in Nat
        BY <2>1, <3>1, <3>5, FrameFacts DEF Contract!Tables, Contract!Lifecycles
      <4> QED BY <2>1, <2>4, <3>1, <3>3, <3>4, <3>5, <4>1, <4>2 DEF Absent
    <3>6. CASE e.key # key
      <4>1. T.life[e.key] = Private.life[e.key]
        BY <2>3, <3>3, <3>6, FrameFacts DEF Contract!Tables
      <4> QED BY <3>1, <3>4, <4>1
    <3> QED BY <3>5, <3>6
  <2>8. Contract!MarksExtend(store, T)
    BY <2>3, <2>5 DEF Contract!Extends, Contract!MarksExtend
  <2> QED BY <2>2, <2>3, <2>6, <2>7, <2>8, FrameFacts DEF Consistent, Contract!Extends, T, Private
<1> QED BY <1>1, DoIInv DEF CompareAndSwap

LEMMA AcquireLeaseIInv ==
  ASSUME IInv, stack # <<>>, NEW key \in Keys, NEW ttl \in Ttls, AcquireLease(key, ttl)
  PROVE  IInv'
<1> DEFINE current == Private.leases[key]
           new == [owner |-> holder, token |-> Private.sequence + 1, expires |-> clock + ttl]
           back == [Frame EXCEPT !.held[key] = current]
           g == [Frame EXCEPT !.tables.leases[key] = new, !.tables.sequence = @ + 1,
                              !.held[key] = new]
<1>1. ASSUME Active(current), current.owner = holder PROVE Consistent(back)
  <2>1. /\ back \in Transactions /\ back.tables = Frame.tables /\ back.claimed = Frame.claimed
        /\ back.held = [Frame.held EXCEPT ![key] = current]
    BY FrameFacts DEF Transactions, Contract!Tables, Private, Absent
  <2>2. Frame.held \in [Keys -> Contract!Leases \cup {Absent}]
    BY FrameFacts DEF Transactions
  <2> HIDE DEF back
  <2> QED BY <1>1, <2>1, <2>2, FrameFacts DEF Consistent, Private
<1>2. ASSUME ~Active(current) PROVE Consistent(g)
  <2>1. new \in Contract!Leases
    BY FrameFacts, TtlsAssumption DEF Contract!Leases, Contract!Tables
  <2>2. /\ g.tables = [[Private EXCEPT !.leases[key] = new] EXCEPT !.sequence = @ + 1]
        /\ g.claimed = Frame.claimed /\ g.held = [Frame.held EXCEPT ![key] = new]
        /\ g \in [tables: {g.tables}, aborted: BOOLEAN, claimed: SUBSET Events,
                  held: {g.held}, operations: Nat]
    BY FrameFacts DEF Transactions, Private
  <2> HIDE DEF g
  <2>3. /\ g.tables \in Contract!Tables
        /\ g.tables.leases = [Private.leases EXCEPT ![key] = new]
        /\ g.tables.life = Private.life /\ g.tables.inbox = Private.inbox
        /\ g.tables.entries = Private.entries /\ g.tables.acks = Private.acks
    <3> DEFINE P == [Private EXCEPT !.leases[key] = new]
    <3>1. /\ P \in Contract!Tables /\ P.leases = [Private.leases EXCEPT ![key] = new]
          /\ P.life = Private.life /\ P.inbox = Private.inbox /\ P.entries = Private.entries
          /\ P.acks = Private.acks
      BY <2>1, FrameFacts DEF Contract!Tables
    <3>2. g.tables = [P EXCEPT !.sequence = @ + 1]
      BY <2>2
    <3> HIDE DEF P
    <3> QED BY <3>1, <3>2 DEF Contract!Tables
  <2>4. Frame.held \in [Keys -> Contract!Leases \cup {Absent}]
    BY FrameFacts DEF Transactions
  <2>5. g \in Transactions
    BY <2>1, <2>2, <2>3, <2>4 DEF Transactions, Absent
  <2>6. Contract!Extends(store, g.tables)
    BY <2>3, SameMarksExtends
  <2>7. \A k \in Keys : Active(g.held[k]) => g.tables.leases[k] = g.held[k] /\ g.held[k].owner = holder
    BY <2>2, <2>3, <2>4, FrameFacts DEF Consistent, Private, Contract!Tables
  <2>8. \A k \in Keys, w \in Workers : w # holder /\ Active(held[w][k]) =>
          g.tables.leases[k] = held[w][k]
    BY <1>2, <2>3, FrameFacts DEF Consistent, Private, Contract!Tables
  <2> QED BY <2>2, <2>3, <2>5, <2>6, <2>7, <2>8, FrameFacts DEF Consistent, Private
<1>3. CASE Active(current) /\ Do(current.owner = holder, back)
  BY <1>1, <1>3, DoIInv
<1>4. CASE ~Active(current) /\ Do(TRUE, g)
  BY <1>2, <1>4, DoIInv
<1> QED BY <1>3, <1>4 DEF AcquireLease

\* renew_lease and release_lease put one lease in the place of another.
LEMMA LeaseReplaced ==
  ASSUME IInv, stack # <<>>, NEW key \in Keys, NEW l \in Contract!Leases \cup {Absent},
         Active(l) => l.owner = holder,
         \A w \in Workers : w # holder => ~Active(held[w][key])
  PROVE  Consistent([Frame EXCEPT !.tables.leases[key] = l, !.held[key] = l])
<1> DEFINE P == [Private EXCEPT !.leases[key] = l]
           g == [Frame EXCEPT !.tables.leases[key] = l, !.held[key] = l]
<1>1. /\ P \in Contract!Tables /\ P.leases = [Private.leases EXCEPT ![key] = l]
      /\ P.life = Private.life /\ P.inbox = Private.inbox /\ P.entries = Private.entries
      /\ P.acks = Private.acks
  BY FrameFacts DEF Contract!Tables, Absent
<1>2. /\ g.tables = P /\ g.claimed = Frame.claimed /\ g.held = [Frame.held EXCEPT ![key] = l]
      /\ g \in [tables: {g.tables}, aborted: BOOLEAN, claimed: SUBSET Events,
                held: {g.held}, operations: Nat]
  BY FrameFacts DEF Transactions, Private
<1> HIDE DEF P, g
<1>3. Frame.held \in [Keys -> Contract!Leases \cup {Absent}]
  BY FrameFacts DEF Transactions
<1>4. g \in Transactions
  BY <1>1, <1>2, <1>3 DEF Transactions, Absent
<1>5. Contract!Extends(store, g.tables)
  BY <1>1, <1>2, SameMarksExtends
<1>6. \A k \in Keys : Active(g.held[k]) => g.tables.leases[k] = g.held[k] /\ g.held[k].owner = holder
  BY <1>1, <1>2, <1>3, FrameFacts DEF Consistent, Private, Contract!Tables
<1>7. \A k \in Keys, w \in Workers : w # holder /\ Active(held[w][k]) =>
        g.tables.leases[k] = held[w][k]
  BY <1>1, <1>2, FrameFacts DEF Consistent, Private, Contract!Tables
<1>8. Consistent(g)
  BY <1>1, <1>2, <1>4, <1>5, <1>6, <1>7, FrameFacts DEF Consistent, Private
<1> QED BY <1>8 DEF g

\* A lease that is in the tables of the open transaction and is the holder's, or is not
\* there at all, is not held by another worker.
LEMMA NotHeldElsewhere ==
  ASSUME IInv, stack # <<>>, NEW key \in Keys,
         Private.leases[key] = Absent \/ Private.leases[key].owner = holder
  PROVE  \A w \in Workers : w # holder => ~Active(held[w][key])
<1> SUFFICES ASSUME NEW w \in Workers, w # holder, Active(held[w][key]) PROVE FALSE
  OBVIOUS
<1>1. Private.leases[key] = held[w][key]
  BY FrameFacts DEF Consistent, Private
<1>2. held[w][key].owner = w
  BY DEF IInv, LeasesKnown
<1> QED BY <1>1, <1>2 DEF Active

LEMMA RenewLeaseIInv ==
  ASSUME IInv, stack # <<>>, NEW key \in Keys, NEW token \in Nat, NEW ttl \in Ttls,
         RenewLease(key, token, ttl)
  PROVE  IInv'
<1> DEFINE renewed == [owner |-> holder, token |-> token, expires |-> clock + ttl]
<1>1. renewed \in Contract!Leases \cup {Absent} /\ renewed.owner = holder
  BY FrameFacts, TtlsAssumption DEF Contract!Leases
<1> HIDE DEF renewed
<1>2. Private.leases[key].owner = holder
        => Consistent([Frame EXCEPT !.tables.leases[key] = renewed, !.held[key] = renewed])
  BY <1>1, NotHeldElsewhere, LeaseReplaced
<1> QED BY <1>2, DoIInv DEF RenewLease, renewed

LEMMA ReleaseLeaseIInv ==
  ASSUME IInv, stack # <<>>, NEW key \in Keys, NEW token \in Nat, ReleaseLease(key, token)
  PROVE  IInv'
<1>1. Releasable(Private.leases[key], token)
        => Consistent([Frame EXCEPT !.tables.leases[key] = Absent, !.held[key] = Absent])
  BY NotHeldElsewhere, LeaseReplaced DEF Releasable, Active
<1> QED BY <1>1, DoIInv DEF ReleaseLease

LEMMA ClaimInboxEventIInv ==
  ASSUME IInv, stack # <<>>, NEW event \in Events, NEW action \in ActionKeys,
         ClaimInboxEvent(event, action)
  PROVE  IInv'
<1> DEFINE claimed == IF Private.inbox[event] = None THEN Frame.claimed \cup {event} ELSE Frame.claimed
           P == [Private EXCEPT !.inbox[event] = action]
           g == [Frame EXCEPT !.tables.inbox[event] = action,
                              !.claimed = IF Private.inbox[event] = None THEN @ \cup {event} ELSE @]
<1>1. /\ P \in Contract!Tables /\ P.inbox = [Private.inbox EXCEPT ![event] = action]
      /\ P.life = Private.life /\ P.leases = Private.leases /\ P.entries = Private.entries
      /\ P.acks = Private.acks
  BY FrameFacts DEF Contract!Tables
<1>2. /\ g.tables = P /\ g.claimed = claimed /\ g.held = Frame.held
      /\ g \in [tables: {g.tables}, aborted: BOOLEAN, claimed: {g.claimed},
                held: [Keys -> Contract!Leases \cup {Absent}], operations: Nat]
  BY FrameFacts DEF Transactions, Private
<1>3. Frame.claimed \in SUBSET Events /\ action # None
  BY FrameFacts, NoneAssumption DEF Transactions
<1> HIDE DEF P, g
<1>4. g \in Transactions
  BY <1>1, <1>2, <1>3 DEF Transactions
<1>5. ASSUME Private.inbox[event] \in {None, action} PROVE Consistent(g)
  <2>1. Contract!Extends(store, g.tables)
    <3>1. Contract!LifeExtends(store, P) /\ Contract!EntriesExtend(store, P)
      BY <1>1, SameLifeExtends
    <3>2. ASSUME NEW e \in Events, store.inbox[e] # None PROVE P.inbox[e] = store.inbox[e]
      <4>1. Private.inbox[e] = store.inbox[e]
        BY <3>2, FrameFacts DEF Consistent, Private, Contract!Extends, Contract!MarksExtend
      <4> QED BY <1>1, <1>5, <3>2, <4>1, FrameFacts DEF Contract!Tables
    <3>3. Contract!MarksExtend(store, P)
      BY <1>1, <3>2, FrameFacts
         DEF Consistent, Private, Contract!Extends, Contract!MarksExtend
    <3> QED BY <1>2, <3>1, <3>3 DEF Contract!Extends
  <2>2. \A e \in Events : e \in g.claimed <=> store.inbox[e] = None /\ g.tables.inbox[e] # None
    <3> SUFFICES ASSUME NEW e \in Events
        PROVE  e \in claimed <=> store.inbox[e] = None /\ P.inbox[e] # None
      BY <1>2
    <3>1. /\ e \in Frame.claimed <=> store.inbox[e] = None /\ Private.inbox[e] # None
          /\ store.inbox[e] # None => Private.inbox[e] = store.inbox[e]
      BY FrameFacts DEF Consistent, Private, Contract!Extends, Contract!MarksExtend
    <3>2. P.inbox[e] = IF e = event THEN action ELSE Private.inbox[e]
      BY <1>1, FrameFacts DEF Contract!Tables
    <3> QED BY <1>3, <1>5, <3>1, <3>2
  <2> QED BY <1>1, <1>2, <1>4, <2>1, <2>2, FrameFacts DEF Consistent, Private
<1> QED BY <1>5, DoIInv DEF ClaimInboxEvent, g

LEMMA AppendEntryIInv ==
  ASSUME IInv, stack # <<>>, NEW x \in EntryKeys, NEW entry \in Contract!Entries,
         AppendEntry(x, entry)
  PROVE  IInv'
<1> DEFINE P == [Private EXCEPT !.entries[x] = entry]
           g == [Frame EXCEPT !.tables.entries[x] = entry]
<1>1. /\ P \in Contract!Tables /\ P.entries = [Private.entries EXCEPT ![x] = entry]
      /\ P.life = Private.life /\ P.leases = Private.leases /\ P.inbox = Private.inbox
      /\ P.acks = Private.acks
  BY FrameFacts DEF Contract!Tables
<1>2. /\ g.tables = P /\ g.claimed = Frame.claimed /\ g.held = Frame.held
      /\ g \in [tables: {g.tables}, aborted: BOOLEAN, claimed: SUBSET Events,
                held: [Keys -> Contract!Leases \cup {Absent}], operations: Nat]
  BY FrameFacts DEF Transactions, Private
<1> HIDE DEF P, g
<1>3. g \in Transactions
  BY <1>1, <1>2 DEF Transactions
<1>4. ASSUME Appendable(x, entry) PROVE Consistent(g)
  <2>1. Contract!LifeExtends(store, Private) /\ Contract!EntriesExtend(store, Private)
        /\ Contract!MarksExtend(store, Private)
    BY PrivateExtends
  <2>2. Contract!LifeExtends(store, P)
    BY <1>1, <2>1 DEF Contract!LifeExtends
  <2>3. CASE Private.entries[x] # Absent
    <3>1. P.entries = Private.entries
      BY <1>1, <1>4, <2>3, FrameFacts DEF Appendable, Contract!Tables
    <3>2. Contract!Extends(store, P)
      BY <1>1, <3>1, SameMarksExtends
    <3> QED BY <1>1, <1>2, <1>3, <3>2, FrameFacts DEF Consistent, Private
  <2>4. CASE Private.entries[x] = Absent
    <3>1. /\ Private.life[entry.key] # Absent /\ Private.life[entry.key].version = entry.version
          /\ TableOf[x] = "stage_evidence" =>
               entry.content = Private.life[entry.key].identity /\ entry.content[1] = entry.key
      BY <1>4, <2>4 DEF Appendable, PinnedTo
    <3>2. entry.key \in Keys /\ entry.version \in Nat
      BY DEF Contract!Entries
    <3>3. store.entries[x] = Absent
      <4>1. CASE Private.entries[x] = store.entries[x]
        BY <2>4, <4>1
      <4>2. CASE Private.entries[x] # store.entries[x]
        BY <2>1, <4>2 DEF Contract!EntriesExtend, Absent
      <4> QED BY <4>1, <4>2
    <3>4. store.life[entry.key] # Absent => entry.version >= store.life[entry.key].version
      BY <2>1, <3>1, <3>2 DEF Contract!LifeExtends, Absent
    <3>5. Contract!EntriesExtend(store, P)
      <4> SUFFICES ASSUME NEW y \in EntryKeys, P.entries[y] # store.entries[y]
          PROVE  LET new == P.entries[y]
                 IN /\ store.entries[y] = Contract!Absent
                    /\ P.life[new.key] # Contract!Absent
                    /\ new.version <= P.life[new.key].version
                    /\ store.life[new.key] # Contract!Absent => new.version >= store.life[new.key].version
                    /\ TableOf[y] = "stage_evidence" =>
                         new.content = P.life[new.key].identity /\ new.content[1] = new.key
        BY DEF Contract!EntriesExtend
      <4>1. CASE y = x
        <5>1. P.entries[y] = entry
          BY <1>1, <4>1, FrameFacts DEF Contract!Tables
        <5> QED BY <1>1, <3>1, <3>2, <3>3, <3>4, <4>1, <5>1 DEF Absent
      <4>2. CASE y # x
        <5>1. P.entries[y] = Private.entries[y]
          BY <1>1, <4>2, FrameFacts DEF Contract!Tables
        <5> QED BY <1>1, <2>1, <5>1 DEF Contract!EntriesExtend
      <4> QED BY <4>1, <4>2
    <3>6. entry # Absent
      BY EntryPresent
    <3>7. Contract!MarksExtend(store, P)
      BY <1>1, <2>1, <3>6, FrameFacts DEF Contract!MarksExtend, Contract!Tables, Absent
    <3>8. Contract!Extends(store, P)
      BY <2>2, <3>5, <3>7 DEF Contract!Extends
    <3> QED BY <1>1, <1>2, <1>3, <3>8, FrameFacts DEF Consistent, Private
  <2> QED BY <2>3, <2>4
<1> QED BY <1>4, DoIInv DEF AppendEntry, g

LEMMA AcknowledgeIInv ==
  ASSUME IInv, stack # <<>>, NEW x \in EntryKeys, NEW key \in ActionKeys, Acknowledge(x, key)
  PROVE  IInv'
<1> DEFINE P == [Private EXCEPT !.acks[x] = key]
           g == [Frame EXCEPT !.tables.acks[x] = key]
<1>1. /\ P \in Contract!Tables /\ P.acks = [Private.acks EXCEPT ![x] = key]
      /\ P.life = Private.life /\ P.leases = Private.leases /\ P.inbox = Private.inbox
      /\ P.entries = Private.entries
  BY FrameFacts DEF Contract!Tables
<1>2. /\ g.tables = P /\ g.claimed = Frame.claimed /\ g.held = Frame.held
      /\ g \in [tables: {g.tables}, aborted: BOOLEAN, claimed: SUBSET Events,
                held: [Keys -> Contract!Leases \cup {Absent}], operations: Nat]
  BY FrameFacts DEF Transactions, Private
<1> HIDE DEF P, g
<1>3. g \in Transactions
  BY <1>1, <1>2 DEF Transactions
<1>4. ASSUME Private.entries[x] # Absent, Private.acks[x] \in {None, key} PROVE Consistent(g)
  <2>1. Contract!Extends(store, P)
    <3>1. Contract!LifeExtends(store, P) /\ Contract!EntriesExtend(store, P)
      BY <1>1, SameLifeExtends
    <3>2. ASSUME NEW y \in EntryKeys
          PROVE  \/ P.acks[y] = store.acks[y]
                 \/ store.acks[y] = None /\ P.entries[y] # Contract!Absent
      <4>1. \/ Private.acks[y] = store.acks[y]
            \/ store.acks[y] = None /\ Private.entries[y] # Contract!Absent
        BY PrivateExtends DEF Contract!MarksExtend
      <4>2. P.acks[y] = IF y = x THEN key ELSE Private.acks[y]
        BY <1>1, FrameFacts DEF Contract!Tables
      <4>3. Private.entries[x] # Contract!Absent
        BY <1>4 DEF Absent
      <4> QED
        BY <1>1, <1>4, <4>1, <4>2, <4>3
    <3>3. Contract!MarksExtend(store, P)
      BY <1>1, <3>2, PrivateExtends DEF Contract!MarksExtend
    <3> QED
      BY <3>1, <3>3 DEF Contract!Extends
  <2> QED BY <1>1, <1>2, <1>3, <2>1, FrameFacts DEF Consistent, Private
<1> QED BY <1>4, DoIInv DEF Acknowledge, g

-----------------------------------------------------------------------------
LEMMA OperationIInv == IInv /\ Operation => IInv'
<1> SUFFICES ASSUME IInv, Operation PROVE IInv'
  OBVIOUS
<1>1. stack # <<>>
  BY DEF Operation
<1>2. ASSUME NEW k \in Keys, NEW v \in Versions \cup {None}, NEW i \in Contract!Identities,
             CompareAndSwap(k, v, i)
      PROVE  IInv'
  BY <1>1, <1>2, CompareAndSwapIInv
<1>3. ASSUME NEW k \in Keys, NEW t \in Ttls, AcquireLease(k, t) PROVE IInv'
  BY <1>1, <1>3, AcquireLeaseIInv
<1>4. ASSUME NEW k \in Keys, NEW token \in 1..MaxLeases, NEW t \in Ttls, RenewLease(k, token, t)
      PROVE  IInv'
  BY <1>1, <1>4, RenewLeaseIInv
<1>5. ASSUME NEW k \in Keys, NEW token \in 1..MaxLeases, ReleaseLease(k, token) PROVE IInv'
  BY <1>1, <1>5, ReleaseLeaseIInv
<1>6. ASSUME NEW e \in Events, NEW a \in ActionKeys, ClaimInboxEvent(e, a) PROVE IInv'
  BY <1>1, <1>6, ClaimInboxEventIInv
<1>7. ASSUME NEW x \in EntryKeys, NEW k \in Keys, NEW v \in Versions, NEW i \in Contract!Identities,
             AppendEntry(x, [key |-> k, version |-> v, content |-> i])
      PROVE  IInv'
  <2>1. [key |-> k, version |-> v, content |-> i] \in Contract!Entries
    BY BoundsAssumption DEF Contract!Entries, Versions
  <2> QED BY <1>1, <1>7, <2>1, AppendEntryIInv
<1>8. ASSUME NEW x \in EntryKeys, NEW a \in ActionKeys, Acknowledge(x, a) PROVE IInv'
  BY <1>1, <1>8, AcknowledgeIInv
<1> QED BY <1>2, <1>3, <1>4, <1>5, <1>6, <1>7, <1>8 DEF Operation

LEMMA StepIInv == MaxDepth <= 1 /\ IInv /\ [Next]_vars => IInv'
<1> SUFFICES ASSUME MaxDepth <= 1, IInv, [Next]_vars PROVE IInv'
  OBVIOUS
<1>1. CASE UNCHANGED vars
  BY <1>1 DEF vars, IInv, TypeOK, OpenConsistent, Consistent, LeasesKnown, ClaimedOnce, Active
<1> QED
  BY <1>1, EnterIInv, PublishIInv, RollbackIInv, OperationIInv, TickIInv DEF Next

LEMMA InvariantIInv == MaxDepth <= 1 /\ Spec => []IInv
<1> SUFFICES ASSUME MaxDepth <= 1 PROVE Spec => []IInv
  OBVIOUS
<1>1. IInv /\ [Next]_vars => IInv'
  BY StepIInv
<1> QED BY <1>1, InitIInv, PTL DEF Spec

\* Every table, transaction and lease keeps its type, and the lock is held exactly
\* while a transaction is open (__enter__, __exit__).
THEOREM TypeCorrect == MaxDepth <= 1 /\ Spec => []TypeOK
<1>1. IInv => TypeOK
  BY DEF IInv
<1> QED BY <1>1, InvariantIInv, PTL

\* An inbox event acts exactly when it is recorded, and so once, however often it is
\* delivered and however its transactions fail (transact_inbox_event).
THEOREM EventsActOnce == MaxDepth <= 1 /\ Spec => []ClaimedOnce
<1>1. IInv => ClaimedOnce
  BY DEF IInv
<1> QED BY <1>1, InvariantIInv, PTL

\* Two workers never hold a lease of one task that has not expired (acquire_lease,
\* renew_lease, release_lease).
THEOREM LeasesExclusive == MaxDepth <= 1 /\ Spec => []LeaseExclusive
<1>1. IInv => LeaseExclusive
  BY DEF IInv, LeasesKnown, LeaseExclusive
<1> QED BY <1>1, InvariantIInv, PTL

\* The store implements its contract: what readers see is only extended, whatever the
\* operations of a transaction do and however it ends (__exit__).
THEOREM StoreImplementsContract == MaxDepth <= 1 /\ Spec => ImplementsContract
<1>1. Init => Contract!Init
  BY DEF Init, Contract!Init
<1>2. IInv /\ [Next]_vars => [Contract!Next]_store
  <2> SUFFICES ASSUME IInv, [Next]_vars, store' # store PROVE Contract!Next
    BY DEF Contract!Next
  <2>1. Publish
    BY DEF Next, Operation, Do, CompareAndSwap, AcquireLease, RenewLease, ReleaseLease,
           ClaimInboxEvent, AppendEntry, Acknowledge, Enter, Rollback, Tick, vars
  <2>2. store' = Private /\ stack # <<>>
    BY <2>1 DEF Publish
  <2> QED BY <2>2, FrameFacts DEF Consistent, Private, Contract!Next
<1> QED BY <1>1, <1>2, InvariantIInv, PTL DEF Spec, ImplementsContract, Contract!Spec

=============================================================================
