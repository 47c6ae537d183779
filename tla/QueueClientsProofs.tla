------------------------- MODULE QueueClientsProofs -------------------------
(***************************************************************************)
(* The steps all backing stores share: they preserve the inductive         *)
(* invariant IInv whatever the clock says, account for every operation,    *)
(* and implement those of the trait.  With a clock that strictly increases *)
(* they keep all stamps apart.                                             *)
(***************************************************************************)
EXTENDS QueueClients, TLAPS

(* The operations an enqueue or a replay can meet.                         *)
LEMMA KnownMembers ==
    \A op : op \in Known <=>
        \/ op \in queue
        \/ \E d \in Drainers : op \in batch[d].snap \/ op \in batch[d].current
  BY DEF Known

LEMMA KnownTyped ==
    ASSUME TypeOK PROVE Known \subseteq Op
  BY KnownMembers, SMT DEF TypeOK, Batch

(* Nothing is queued, held or replayed at the start.                       *)
LEMMA InitEstablishes ==
    ASSUME Init
    PROVE  /\ IInv /\ NothingLost /\ RetriesCountFailures
           /\ StampsFresh(Known) /\ StampsFollow
<1>1. Known = {}
  BY KnownMembers DEF Init, IdleBatch
<1>2. TypeOK
  BY QueueAssumption DEF Init, TypeOK, IdleBatch, Batch
<1>3. ArrivalsIdentify /\ StampsFresh(Known) /\ StampsFollow
  BY <1>1 DEF Init, ArrivalsIdentify, StampsFresh, StampsFollow
<1>4. BatchesAccount
  BY DEF Init, BatchesAccount, IdleBatch
<1>5. HistoryBounded /\ NothingLost /\ RetriesCountFailures
  BY DEF Init, HistoryBounded, NothingLost, RetriesCountFailures
<1>6. QED  BY <1>2, <1>3, <1>4, <1>5 DEF IInv

(* A task stamps an operation, with whatever the clock says.               *)
LEMMA StampPreserves ==
    ASSUME IInv, NEW t \in Tasks, NEW k \in Keys, Stamp(t, k) PROVE IInv'
<1> USE DEF IInv
<1>1. Known' = Known
  BY DEF Stamp, Known
<1>2. TypeOK'
  <2>1. clock' \in Nat /\ clock \in Nat /\ arrived \in Nat
    BY SMT DEF Stamp, TypeOK
  <2>2. [key |-> k, at |-> clock, after |-> arrived] \in Stamped
    BY <2>1 DEF Stamped
  <2>3. QED  BY <2>1, <2>2 DEF Stamp, TypeOK
<1>3. ArrivalsIdentify'
  <2>1. hand'[t].after = arrived /\ \A u \in Tasks : u # t => hand'[u] = hand[u]
    BY DEF Stamp, TypeOK
  <2>2. arrived' = arrived /\ arrived \in Nat
    BY DEF Stamp, TypeOK
  <2>3. QED  BY <1>1, <2>1, <2>2, SMT DEF ArrivalsIdentify
<1>4. BatchesAccount' /\ HistoryBounded'
  BY DEF Stamp, BatchesAccount, HistoryBounded
<1>5. QED  BY <1>2, <1>3, <1>4

(* A snapshot only copies operations the queue holds.                      *)
LEMMA SnapshotPreserves ==
    ASSUME IInv, NEW d \in Drainers, Snapshot(d) PROVE IInv'
<1> USE DEF IInv
<1> DEFINE b == [IdleBatch EXCEPT !.phase = "replaying", !.snap = queue, !.todo = queue]
<1>1. /\ batch'[d] = b
      /\ \A e \in Drainers : e # d => batch'[e] = batch[e]
  BY DEF Snapshot, TypeOK
<1>2. /\ b \in Batch
      /\ b.phase = "replaying" /\ b.snap = queue /\ b.todo = queue
      /\ b.failed = {} /\ b.current = {}
  BY DEF TypeOK, Batch, IdleBatch
<1>3. Known' \subseteq Known
  BY <1>1, <1>2, KnownMembers DEF Known, Snapshot
<1>4. TypeOK'
  <2>1. batch' \in [Drainers -> Batch]
    BY <1>2 DEF Snapshot, TypeOK
  <2>2. QED  BY <2>1 DEF Snapshot, TypeOK
<1>5. ArrivalsIdentify'
  BY <1>3 DEF Snapshot, ArrivalsIdentify
<1>6. BatchesAccount'
  BY <1>1, <1>2 DEF Snapshot, BatchesAccount
<1>7. HistoryBounded'
  BY DEF Snapshot, HistoryBounded
<1>8. QED  BY <1>4, <1>5, <1>6, <1>7

(* An outcome moves one operation of the snapshot out of todo.             *)
LEMMA OutcomePreserves ==
    ASSUME IInv, NEW d \in Drainers, NEW op \in batch[d].todo,
           ReplaySucceeds(d, op) \/ ReplayFails(d, op)
    PROVE  IInv'
<1> USE DEF IInv
<1>1. /\ batch[d] \in Batch
      /\ op \in batch[d].snap
      /\ op \in Op
  BY DEF TypeOK, Batch, BatchesAccount
<1>2. \A e \in Drainers : e # d => batch'[e] = batch[e]
  BY DEF ReplaySucceeds, ReplayFails, TypeOK
<1>3. /\ batch'[d].snap = batch[d].snap
      /\ batch'[d].current = batch[d].current
      /\ batch'[d].phase = batch[d].phase
      /\ batch'[d].todo = batch[d].todo \ {op}
      /\ batch'[d] \in Batch
      /\ \/ op \in batch'[d].failed /\ batch'[d].failed = batch[d].failed \cup {op}
            /\ delivered' = delivered
         \/ op.id \in delivered' /\ batch'[d].failed = batch[d].failed
            /\ delivered' = delivered \cup {op.id}
  BY <1>1 DEF ReplaySucceeds, ReplayFails, TypeOK, Batch
<1>4. Known' = Known
  <2>1. \A o : o \in Known' <=>
          \/ o \in queue'
          \/ \E e \in Drainers : o \in batch'[e].snap \/ o \in batch'[e].current
    BY DEF Known
  <2>2. queue' = queue
    BY DEF ReplaySucceeds, ReplayFails
  <2>3. \A e \in Drainers : /\ batch'[e].snap = batch[e].snap
                           /\ batch'[e].current = batch[e].current
    BY <1>2, <1>3
  <2>4. \A o : o \in Known' <=> o \in Known
    BY <2>1, <2>2, <2>3, KnownMembers
  <2>5. QED  BY <2>4
<1>5. op \in Known
  BY <1>1, KnownMembers
<1>6. op.id \in OpIds /\ op.id <= arrived
  BY <1>1, <1>5 DEF Op, ArrivalsIdentify
<1>7. TypeOK'
  <2>1. batch' \in [Drainers -> Batch]
    BY <1>2, <1>3 DEF ReplaySucceeds, ReplayFails, TypeOK
  <2>2. QED  BY <1>6, <2>1 DEF ReplaySucceeds, ReplayFails, TypeOK
<1>8. ArrivalsIdentify'
  BY <1>4 DEF ReplaySucceeds, ReplayFails, ArrivalsIdentify
<1>9. BatchesAccount'
  <2>1. delivered \subseteq delivered' /\ queue' = queue
    BY <1>3 DEF ReplaySucceeds, ReplayFails
  <2>2. QED  BY <1>2, <1>3, <2>1 DEF BatchesAccount
<1>10. HistoryBounded'
  BY <1>6 DEF ReplaySucceeds, ReplayFails, HistoryBounded
<1>11. QED  BY <1>7, <1>8, <1>9, <1>10

(* Together: no step of the coordinator's tasks or of the host breaks it.  *)
LEMMA HostPreserves == ASSUME IInv, HostNext PROVE IInv'
  BY StampPreserves, SnapshotPreserves, OutcomePreserves DEF HostNext

LEMMA HostAccounts ==
    ASSUME NothingLost, RetriesCountFailures, HostNext
    PROVE  NothingLost' /\ RetriesCountFailures'
<1>1. UNCHANGED <<queue, arrived, superseded, failures>> /\ delivered \subseteq delivered'
  BY DEF HostNext, Stamp, Snapshot, ReplaySucceeds, ReplayFails
<1>2. QED  BY <1>1 DEF NothingLost, RetriesCountFailures, IdsOf

-----------------------------------------------------------------------------

(* INSERT OR REPLACE, retain and push_back: both stores enqueue like this. *)
Replaces(t) ==
    queue' = {op \in queue : op.key # hand[t].key} \cup {Entering(t)}

LEMMA EnteringTyped ==
    ASSUME IInv, NEW t \in Tasks, AcceptFrom(t)
    PROVE  /\ Entering(t) \in Op
           /\ Entering(t).key = hand[t].key
           /\ Entering(t).at = hand[t].at
           /\ Entering(t).id = arrived + 1
           /\ Entering(t).after = hand[t].after
           /\ Entering(t).retries = 0
           /\ arrived \in Nat /\ arrived' = arrived + 1 /\ arrived + 1 \in OpIds
           /\ hand[t] \in Stamped
<1>1. hand[t] \in Stamped
  BY DEF IInv, TypeOK, AcceptFrom
<1>2. arrived \in Nat /\ arrived' = arrived + 1 /\ arrived + 1 \in OpIds
  BY QueueAssumption, SMT DEF IInv, TypeOK, AcceptFrom, OpIds
<1>3. QED  BY <1>1, <1>2 DEF Entering, Op, Stamped

LEMMA EnqueuePreserves ==
    ASSUME IInv, NEW t \in Tasks, AcceptFrom(t), Replaces(t)
    PROVE  IInv'
<1> USE DEF IInv
<1> DEFINE e == Entering(t)
<1>1. /\ e \in Op /\ e.key = hand[t].key /\ e.at = hand[t].at
      /\ e.id = arrived + 1 /\ e.after = hand[t].after /\ e.retries = 0
      /\ arrived \in Nat /\ arrived' = arrived + 1 /\ e.id \in OpIds
      /\ hand[t] \in Stamped /\ hand[t] # NoOp
  BY EnteringTyped DEF AcceptFrom
<1> HIDE DEF e
<1>2. queue' = {op \in queue : op.key # hand[t].key} \cup {e}
  BY DEF Replaces, e
<1>3. /\ clock' = clock /\ batch' = batch /\ delivered' = delivered
      /\ failures' = failures
      /\ hand' = [hand EXCEPT ![t] = NoOp]
      /\ superseded' = superseded \cup IdsOf({op \in queue : op.key = hand[t].key})
  BY DEF AcceptFrom
<1>4. /\ hand'[t] = NoOp
      /\ \A u \in Tasks : u # t => hand'[u] = hand[u]
  BY <1>3 DEF TypeOK
<1>5. Known' \subseteq Known \cup {e}
  BY <1>2, <1>3, KnownMembers DEF Known
<1>6. \A a \in Known : a.id \in Nat /\ a.id # e.id /\ a.id <= arrived'
  BY <1>1, KnownTyped, SMT DEF ArrivalsIdentify, Op, OpIds
<1>7. TypeOK'
  <2>1. queue' \in SUBSET Op
    BY <1>1, <1>2 DEF TypeOK
  <2>2. arrived' \in 0..MaxOps
    BY <1>1 DEF OpIds
  <2>3. hand' \in [Tasks -> Stamped \cup {NoOp}]
    BY <1>3 DEF TypeOK
  <2>4. superseded' \in SUBSET OpIds
    BY <1>3 DEF TypeOK, IdsOf, Op
  <2>5. \A a, b \in queue' : a.key = b.key => a = b
    BY <1>1, <1>2 DEF TypeOK
  <2>6. QED  BY <1>3, <2>1, <2>2, <2>3, <2>4, <2>5 DEF TypeOK
<1>8. ArrivalsIdentify'
  <2>1. e.id <= arrived' /\ e.after < e.id
    BY <1>1, SMT DEF ArrivalsIdentify, Stamped
  <2>2. \A a, b \in Known' : a.id = b.id => FullKey(a) = FullKey(b)
    BY <1>5, <1>6 DEF ArrivalsIdentify
  <2>3. \A a \in Known' : a.id <= arrived' /\ a.after < a.id
    BY <1>5, <1>6, <2>1 DEF ArrivalsIdentify
  <2>4. \A u \in Tasks : hand'[u] # NoOp => hand'[u].after <= arrived'
    <3>1. \A u \in Tasks : hand[u] # NoOp =>
            hand[u].after \in Nat /\ hand[u].after <= arrived
      BY DEF TypeOK, Stamped, ArrivalsIdentify
    <3>2. QED  BY <1>1, <1>4, <3>1, SMT
  <2>5. QED  BY <2>2, <2>3, <2>4 DEF ArrivalsIdentify
<1>9. BatchesAccount'
  <2>1. \A d \in Drainers : e.id \notin IdsOf(batch[d].snap)
    BY <1>6, KnownMembers DEF IdsOf
  <2>2. QED  BY <1>2, <1>3, <2>1 DEF BatchesAccount
<1>10. HistoryBounded'
  <2>1. \A i \in superseded' : i <= arrived
    <3>1. \A op \in queue : op.id <= arrived
      BY KnownMembers DEF ArrivalsIdentify
    <3>2. QED  BY <1>3, <3>1 DEF HistoryBounded, IdsOf
  <2>2. \A i \in delivered \cup superseded' : i \in Nat /\ i <= arrived
    BY <1>7, <2>1 DEF HistoryBounded, TypeOK, OpIds
  <2>3. \A i \in OpIds : i > arrived' => i > arrived
    BY <1>1, SMT DEF OpIds
  <2>4. delivered' = delivered /\ failures' = failures
    BY <1>3
  <2>5. \A i \in delivered' \cup superseded' : i <= arrived'
    BY <1>1, <2>2, <2>4, SMT
  <2>6. \A i \in OpIds : i > arrived' => failures'[i] = 0
    BY <2>3, <2>4 DEF HistoryBounded
  <2>7. QED  BY <2>5, <2>6 DEF HistoryBounded
<1>11. QED  BY <1>7, <1>8, <1>9, <1>10

LEMMA EnqueueAccounts ==
    ASSUME IInv, NothingLost, RetriesCountFailures,
           NEW t \in Tasks, AcceptFrom(t), Replaces(t)
    PROVE  NothingLost' /\ RetriesCountFailures'
<1> DEFINE e == Entering(t)
<1>1. /\ e.id = arrived + 1 /\ e.retries = 0 /\ arrived \in Nat
      /\ arrived' = arrived + 1 /\ e.id \in OpIds
  BY EnteringTyped
<1> HIDE DEF e
<1>2. queue' = {op \in queue : op.key # hand[t].key} \cup {e}
  BY DEF Replaces, e
<1>3. /\ delivered' = delivered /\ failures' = failures
      /\ superseded' = superseded \cup IdsOf({op \in queue : op.key = hand[t].key})
  BY DEF AcceptFrom
<1>4. NothingLost'
  <2>1. \A i \in 1..arrived' : i = e.id \/ i \in 1..arrived
    BY <1>1, SMT
  <2>2. IdsOf(queue) \subseteq IdsOf(queue') \cup superseded'
    BY <1>2, <1>3 DEF IdsOf
  <2>3. e.id \in IdsOf(queue')
    BY <1>2 DEF IdsOf
  <2>4. QED  BY <1>3, <2>1, <2>2, <2>3 DEF NothingLost
<1>5. RetriesCountFailures'
  <2>1. failures[e.id] = 0
    BY <1>1, SMT DEF IInv, HistoryBounded
  <2>2. QED  BY <1>1, <1>2, <1>3, <2>1 DEF RetriesCountFailures
<1>6. QED  BY <1>4, <1>5

-----------------------------------------------------------------------------
(* A clock that strictly increases.                                        *)

(* What an operation is told by does not change while it is known.         *)
SameStamps ==
    \A a \in Known' : \E o \in Known :
        a.key = o.key /\ a.at = o.at /\ a.id = o.id /\ a.after = o.after

(* A step that adds nothing to what is known, and no stamp to a hand.      *)
LEMMA FewerKnown ==
    ASSUME StampsFresh(Known), StampsFollow, SameStamps, clock' = clock,
           \A t \in Tasks : hand'[t] = hand[t] \/ hand'[t] = NoOp
    PROVE  StampsFresh(Known)' /\ StampsFollow'
<1>1. StampsFresh(Known)'
  BY DEF StampsFresh, SameStamps
<1>2. StampsFollow'
  BY DEF StampsFollow, SameStamps
<1>3. QED  BY <1>1, <1>2

(* A task reads a clock that is above every earlier reading.               *)
LEMMA StampKeepsFresh ==
    ASSUME Slip = 0, IInv, StampsFresh(Known), StampsFollow,
           NEW t \in Tasks, NEW k \in Keys, Stamp(t, k)
    PROVE  StampsFresh(Known)' /\ StampsFollow'
<1> USE DEF IInv
<1>1. Known' = Known
  BY DEF Stamp, Known
<1>2. clock' = clock + 1 /\ clock \in Nat
  BY SMT DEF Stamp, TypeOK
<1>3. \A a \in Known : a.at \in Nat /\ a.id \in Nat
  BY KnownTyped DEF Op, OpIds
<1>4. /\ hand[t] = NoOp
      /\ hand'[t].at = clock /\ hand'[t].after = arrived
      /\ \A u \in Tasks : u # t => hand'[u] = hand[u]
  BY DEF Stamp, TypeOK
<1>5. \A u \in Tasks : hand[u] # NoOp => hand[u].at \in Nat
  BY DEF TypeOK, Stamped
<1>6. StampsFresh(Known)'
  BY <1>1, <1>2, <1>3, <1>4, <1>5, SMT DEF StampsFresh
<1>7. StampsFollow'
  BY <1>1, <1>4 DEF StampsFollow, StampsFresh
<1>8. QED  BY <1>6, <1>7

(* The operation a task enqueues has the stamp that was in its hand.       *)
LEMMA EnqueueKeepsFresh ==
    ASSUME IInv, StampsFresh(Known), StampsFollow,
           NEW t \in Tasks, AcceptFrom(t), Replaces(t)
    PROVE  StampsFresh(Known)' /\ StampsFollow'
<1> USE DEF IInv
<1> DEFINE e == Entering(t)
<1>1. /\ e.at = hand[t].at /\ e.id = arrived + 1 /\ e.after = hand[t].after
      /\ arrived \in Nat /\ hand[t] \in Stamped /\ hand[t] # NoOp
  BY EnteringTyped DEF AcceptFrom
<1> HIDE DEF e
<1>2. queue' = {op \in queue : op.key # hand[t].key} \cup {e}
  BY DEF Replaces, e
<1>3. clock' = clock /\ batch' = batch /\ hand' = [hand EXCEPT ![t] = NoOp]
  BY DEF AcceptFrom
<1>4. hand'[t] = NoOp /\ \A u \in Tasks : u # t => hand'[u] = hand[u]
  BY <1>3 DEF TypeOK
<1>5. Known' \subseteq Known \cup {e}
  BY <1>2, <1>3, KnownMembers DEF Known
<1>6. \A a \in Known : /\ a.at # e.at /\ a.id # e.id /\ ~(e.id <= a.after)
                        /\ (a.id <= e.after => a.at < e.at)
  <2>1. \A a \in Known : a.id \in Nat /\ a.after \in Nat
    BY KnownTyped DEF Op, OpIds
  <2>2. \A a \in Known : a.id <= arrived /\ a.after < a.id
    BY DEF ArrivalsIdentify
  <2>3. \A a \in Known : a.id # e.id /\ ~(e.id <= a.after)
    BY <1>1, <2>1, <2>2, SMT
  <2>4. \A a \in Known : a.at # e.at /\ (a.id <= e.after => a.at < e.at)
    BY <1>1 DEF StampsFresh, StampsFollow
  <2>5. QED  BY <2>3, <2>4
<1>7. e.at < clock /\ ~(e.id <= e.after)
  BY <1>1, SMT DEF StampsFresh, ArrivalsIdentify, Stamped
<1>8. \A u \in Tasks : hand'[u] # NoOp =>
        hand'[u] = hand[u] /\ e.at # hand'[u].at /\ ~(e.id <= hand'[u].after)
  <2>1. \A u \in Tasks : hand[u] # NoOp => hand[u].after \in Nat /\ hand[u].after <= arrived
    BY DEF TypeOK, Stamped, ArrivalsIdentify
  <2>2. \A u \in Tasks : hand[u] # NoOp => ~(e.id <= hand[u].after)
    BY <1>1, <2>1, SMT
  <2>3. QED  BY <1>1, <1>4, <2>2 DEF StampsFresh
<1>9. StampsFresh(Known)'
  BY <1>3, <1>5, <1>6, <1>7, <1>8 DEF StampsFresh
<1>10. StampsFollow'
  BY <1>5, <1>6, <1>7, <1>8 DEF StampsFollow
<1>11. QED  BY <1>9, <1>10

LEMMA HostKeepsFresh ==
    ASSUME Slip = 0, IInv, StampsFresh(Known), StampsFollow, HostNext
    PROVE  StampsFresh(Known)' /\ StampsFollow'
<1>1. ASSUME NEW d \in Drainers,
             \/ Snapshot(d)
             \/ \E op \in batch[d].todo : ReplaySucceeds(d, op) \/ ReplayFails(d, op)
      PROVE  StampsFresh(Known)' /\ StampsFollow'
  <2>1. queue' = queue /\ clock' = clock /\ hand' = hand
    BY <1>1 DEF Snapshot, ReplaySucceeds, ReplayFails
  <2>2. \A e \in Drainers : batch'[e].snap \subseteq batch[e].snap \cup queue
                         /\ batch'[e].current \subseteq batch[e].current
    <3>1. batch \in [Drainers -> Batch]
      BY DEF IInv, TypeOK
    <3>2. CASE Snapshot(d)
      BY <3>1, <3>2 DEF Snapshot, IdleBatch
    <3>3. CASE \E op \in batch[d].todo : ReplaySucceeds(d, op) \/ ReplayFails(d, op)
      BY <3>1, <3>3 DEF ReplaySucceeds, ReplayFails, Batch
    <3>4. QED  BY <1>1, <3>2, <3>3
  <2>3. \A a \in Known' :
          a \in queue' \/ \E e \in Drainers : a \in batch'[e].snap \/ a \in batch'[e].current
    BY DEF Known
  <2>4. \A a \in Known' : a \in Known
    BY <2>1, <2>2, <2>3, KnownMembers
  <2>5. SameStamps
    BY <2>4 DEF SameStamps
  <2>6. QED  BY <2>1, <2>5, FewerKnown
<1>2. QED  BY <1>1, StampKeepsFresh DEF HostNext

(* Different stamps tell operations apart.                                 *)
LEMMA FreshDiffers == ASSUME StampsFresh(Known) PROVE StampsDiffer
  BY DEF StampsFresh, StampsDiffer, TellsApart, FullKey

-----------------------------------------------------------------------------
(* The steps of the trait that the shared steps implement.                 *)

(* The abstract operations of the refinement mapping.                      *)
Shown(op) == [key |-> op.key, id |-> op.id]

Pending == {[key |-> op.key, id |-> op.id] : op \in queue}

LEMMA PendingMembers ==
    \A p : p \in Pending <=> \E op \in queue : p = Shown(op)
  BY DEF Pending, Shown

LEMMA ShownFields == \A op : Shown(op).key = op.key /\ Shown(op).id = op.id
  BY DEF Shown

LEMMA AcceptedIds ==
    ASSUME IInv, NothingLost PROVE Promise!Accepted = 1..arrived
<1>1. Promise!Accepted = IdsOf(queue) \cup delivered \cup superseded
  <2>1. {p.id : p \in Pending} = IdsOf(queue)
    <3>1. \A i : i \in {p.id : p \in Pending} <=> \E op \in queue : i = op.id
      BY PendingMembers, ShownFields
    <3>2. \A i : i \in IdsOf(queue) <=> \E op \in queue : i = op.id
      BY DEF IdsOf
    <3>3. QED  BY <3>1, <3>2
  <2>2. QED  BY <2>1 DEF Promise!Accepted, Pending
<1>2. \A i \in Promise!Accepted : i \in OpIds /\ i <= arrived
  <2>1. \A op \in queue : op.id \in OpIds /\ op.id <= arrived
    BY KnownMembers DEF IInv, TypeOK, ArrivalsIdentify, Op
  <2>2. QED  BY <1>1, <2>1 DEF IInv, TypeOK, HistoryBounded, IdsOf
<1>3. Promise!Accepted \subseteq 1..arrived
  BY <1>2, SMT DEF IInv, TypeOK, OpIds
<1>4. 1..arrived \subseteq Promise!Accepted
  BY <1>1 DEF NothingLost
<1>5. QED  BY <1>3, <1>4

LEMMA InitImplements == ASSUME Init PROVE Promise!AInit
  BY DEF Init, Promise!AInit

LEMMA HostImplements ==
    ASSUME IInv, NothingLost, HostNext PROVE [Promise!ANext]_(Promise!avars)
<1>1. CASE \E t \in Tasks, k \in Keys : Stamp(t, k)
  BY <1>1 DEF Stamp, Promise!avars
<1>2. CASE \E d \in Drainers : Snapshot(d)
  BY <1>2 DEF Snapshot, Promise!avars
<1>3. CASE \E d \in Drainers : \E op \in batch[d].todo : ReplayFails(d, op)
  BY <1>3 DEF ReplayFails, Promise!avars
<1>4. ASSUME NEW d \in Drainers, NEW op \in batch[d].todo, ReplaySucceeds(d, op)
      PROVE  Promise!ANext
  <2>1. op \in Known /\ op \in Op
    BY KnownMembers, KnownTyped DEF IInv, BatchesAccount
  <2>2. op.id \in Promise!Accepted
    BY <2>1, AcceptedIds, SMT DEF IInv, TypeOK, ArrivalsIdentify, Op, OpIds
  <2>3. Promise!ADeliver(op.id)
    BY <1>4, <2>2 DEF ReplaySucceeds, Promise!ADeliver
  <2>4. QED  BY <2>2, <2>3 DEF Promise!ANext
<1>5. QED  BY <1>1, <1>2, <1>3, <1>4 DEF HostNext

LEMMA EnqueueImplements ==
    ASSUME IInv, NothingLost, NEW t \in Tasks, AcceptFrom(t), Replaces(t)
    PROVE  Promise!ANext
<1> DEFINE e == Entering(t)
<1>1. /\ e.key = hand[t].key /\ e.id = arrived + 1 /\ arrived \in Nat
      /\ e.id \in OpIds /\ hand[t] \in Stamped
  BY EnteringTyped
<1> HIDE DEF e
<1>2. queue' = {op \in queue : op.key # hand[t].key} \cup {e}
  BY DEF Replaces, e
<1>3. e.id \notin Promise!Accepted
  BY <1>1, AcceptedIds, SMT
<1>4. Pending' = {p \in Pending : p.key # e.key} \cup {Shown(e)}
  <2>1. \A p : p \in Pending' <=> \E op \in queue' : p = Shown(op)
    BY DEF Pending, Shown
  <2>2. \A p : p \in Pending' <=>
                p \in {q \in Pending : q.key # e.key} \cup {Shown(e)}
    BY <1>1, <1>2, <2>1, PendingMembers DEF Shown
  <2>3. QED  BY <2>2
<1>5. superseded' = superseded \cup {p.id : p \in {q \in Pending : q.key = e.key}}
  <2>1. \A i : i \in IdsOf({op \in queue : op.key = e.key}) <=>
                \E op \in queue : op.key = e.key /\ i = op.id
    BY DEF IdsOf
  <2>2. \A i : i \in {p.id : p \in {q \in Pending : q.key = e.key}} <=>
                \E op \in queue : op.key = e.key /\ i = op.id
    <3>1. \A i : i \in {p.id : p \in {q \in Pending : q.key = e.key}} <=>
                  \E q \in Pending : q.key = e.key /\ i = q.id
      OBVIOUS
    <3>2. QED  BY <3>1, PendingMembers, ShownFields
  <2>3. IdsOf({op \in queue : op.key = e.key}) =
          {p.id : p \in {q \in Pending : q.key = e.key}}
    BY <2>1, <2>2
  <2>4. QED  BY <1>1, <2>3 DEF AcceptFrom
<1>6. Promise!AEnqueue(e.key, e.id)
  BY <1>3, <1>4, <1>5 DEF Promise!AEnqueue, Shown, Pending, AcceptFrom
<1>7. e.key \in Keys /\ e.id \in OpIds
  BY <1>1 DEF Stamped
<1>8. \E k \in Keys, i \in OpIds : Promise!AEnqueue(k, i)
  BY <1>6, <1>7 DEF Promise!AEnqueue
<1>9. QED  BY <1>8 DEF Promise!ANext

(* An arrival number names one queued operation.                           *)
LEMMA QueuedOnce ==
    ASSUME IInv PROVE \A a, b \in queue : a.id = b.id => a = b
  BY KnownMembers DEF IInv, TypeOK, ArrivalsIdentify, FullKey

(* A finalize that only drops delivered operations, and changes no         *)
(* arrival number, drops what the trait may drop.                          *)
LEMMA FinalizeImplements ==
    ASSUME NEW kept \in SUBSET queue,
           \A op \in queue : op \in kept \/ op.id \in delivered,
           \A p : (\E op \in queue' : p = Shown(op)) <=> (\E op \in kept : p = Shown(op)),
           \A a, b \in queue : a.id = b.id => a = b,
           UNCHANGED <<delivered, superseded>>
    PROVE  Promise!ANext
<1> DEFINE ops == {p \in Pending : \E op \in queue \ kept : p = Shown(op)}
<1>1. ops \in SUBSET Pending
  OBVIOUS
<1>2. \A p \in ops : p.id \in delivered
  BY DEF Shown
<1>3. Pending' = Pending \ ops
  <2>1. \A p : p \in Pending' <=> \E op \in queue' : p = Shown(op)
    BY DEF Pending, Shown
  <2>2. \A a, b \in queue : Shown(a) = Shown(b) => a = b
    BY DEF Shown
  <2>3. \A p : p \in Pending' <=> p \in Pending \ ops
    BY <2>1, <2>2, PendingMembers
  <2>4. QED  BY <2>3
<1> HIDE DEF ops
<1>4. Promise!ADrop(ops)
  BY <1>2, <1>3 DEF Promise!ADrop, Pending
<1>5. \E o \in SUBSET Pending : Promise!ADrop(o)
  BY <1>1, <1>4 DEF Promise!ADrop
<1>6. QED  BY <1>5 DEF Promise!ANext, Pending
=============================================================================
