---------------------------- MODULE QueueClients ----------------------------
(***************************************************************************)
(* Everything around an offline queue, whatever its backing store: the     *)
(* coordinator's tasks that stamp and enqueue operations, and the drainers *)
(* of the host application, which replay a snapshot.  A backing store      *)
(* extends this module with its enqueue and finalize_after_processing.     *)
(*                                                                         *)
(* A task reads the wall clock (now_micros) while it builds the operation  *)
(* and takes the queue's lock later, so two tasks may enqueue in the       *)
(* opposite order of their stamps.                                         *)
(***************************************************************************)
EXTENDS Contract

CONSTANTS
    Keys,       \* the (table, entity id) pairs
    Tasks,      \* coordinator calls that enqueue
    Drainers,   \* replay loops of the host
    Slip,       \* how far one reading of the clock may fall behind the last
    MaxClock,   \* bound on the readings
    MaxOps,     \* bound on the operations accepted
    MaxRetries  \* bound on the failed attempts of one operation

ASSUME QueueAssumption ==
    /\ Slip \in Nat
    /\ MaxClock \in Nat
    /\ MaxOps \in Nat
    /\ MaxRetries \in Nat

VARIABLES
    queue,       \* operations in the store: at most one for a key
    clock,       \* what now_micros() returns next
    arrived,     \* number of operations accepted so far
    hand,        \* the operation a task has stamped and not yet enqueued
    batch,       \* the replay a drainer is in
    delivered,   \* history: arrival numbers the remote accepted
    superseded,  \* history: arrival numbers replaced by a newer operation
    failures     \* history: finalized failed attempts per arrival number

clientVars == <<clock, arrived, hand, batch, delivered, superseded, failures>>

vars == <<queue, clientVars>>

OpIds == 1..MaxOps

(* QueuedOperation: at is queued_at_micros, id the arrival number (the     *)
(* place in a VecDeque), after the number of operations that had been      *)
(* accepted when this one was stamped (history), retries the retry_count.  *)
Op == [key : Keys, at : Nat, id : OpIds, after : Nat, retries : Nat]

Stamped == [key : Keys, at : Nat, after : Nat]

NoOp == [key |-> "none"]

Batch == [phase : {"idle", "replaying", "finalizing"},
          snap : SUBSET Op, todo : SUBSET Op, failed : SUBSET Op,
          current : SUBSET Op]

IdleBatch == [phase |-> "idle", snap |-> {}, todo |-> {}, failed |-> {},
              current |-> {}]

IdsOf(ops) == {op.id : op \in ops}

Init ==
    /\ queue = {}
    /\ clock = 0
    /\ arrived = 0
    /\ hand = [t \in Tasks |-> NoOp]
    /\ batch = [d \in Drainers |-> IdleBatch]
    /\ delivered = {}
    /\ superseded = {}
    /\ failures = [i \in OpIds |-> 0]

-----------------------------------------------------------------------------
(* The coordinator.                                                        *)

(* The push failed in a transient way: build the operation, reading the    *)
(* clock.  With Slip = 0 readings strictly increase; otherwise the wall    *)
(* clock may repeat a value or be stepped back.                            *)
Stamp(t, k) ==
    /\ hand[t] = NoOp
    /\ clock < MaxClock
    /\ hand' = [hand EXCEPT ![t] = [key |-> k, at |-> clock, after |-> arrived]]
    /\ clock' \in {c \in 0..(clock + 1) : clock + 1 - Slip <= c}
    /\ UNCHANGED <<queue, arrived, batch, delivered, superseded, failures>>

(* The bookkeeping of an enqueue, shared by the stores: the operation      *)
(* that enters with retry_count 0, and what it replaces.                   *)
Entering(t) ==
    [key |-> hand[t].key, at |-> hand[t].at, id |-> arrived + 1,
     after |-> hand[t].after, retries |-> 0]

AcceptFrom(t) ==
    /\ hand[t] # NoOp
    /\ arrived < MaxOps
    /\ arrived' = arrived + 1
    /\ hand' = [hand EXCEPT ![t] = NoOp]
    /\ superseded' = superseded \cup IdsOf({op \in queue : op.key = hand[t].key})
    /\ UNCHANGED <<clock, batch, delivered, failures>>

-----------------------------------------------------------------------------
(* The host's replay loop.                                                 *)

Snapshot(d) ==
    /\ batch[d].phase = "idle"
    /\ queue # {}
    /\ batch' = [batch EXCEPT ![d] = [IdleBatch EXCEPT
                    !.phase = "replaying", !.snap = queue, !.todo = queue]]
    /\ UNCHANGED <<queue, clock, arrived, hand, delivered, superseded, failures>>

ReplaySucceeds(d, op) ==
    /\ op \in batch[d].todo
    /\ batch' = [batch EXCEPT ![d].todo = @ \ {op}]
    /\ delivered' = delivered \cup {op.id}
    /\ UNCHANGED <<queue, clock, arrived, hand, superseded, failures>>

ReplayFails(d, op) ==
    /\ op \in batch[d].todo
    /\ failures[op.id] < MaxRetries
    /\ batch' = [batch EXCEPT ![d].todo = @ \ {op}, ![d].failed = @ \cup {op}]
    /\ UNCHANGED <<queue, clock, arrived, hand, delivered, superseded, failures>>

(* Every operation of the snapshot has its outcome.                        *)
Replayed(d) ==
    /\ batch[d].phase = "replaying"
    /\ batch[d].todo = {}

(* The bookkeeping of a finalize: the drainer is free, and each failure    *)
(* has been reported once.                                                 *)
FinishBatch(d) ==
    /\ batch' = [batch EXCEPT ![d] = IdleBatch]
    /\ failures' = [i \in OpIds |->
            failures[i] + (IF i \in IdsOf(batch[d].failed) THEN 1 ELSE 0)]
    /\ UNCHANGED <<clock, arrived, hand, delivered, superseded>>

HostNext ==
    \/ \E t \in Tasks, k \in Keys : Stamp(t, k)
    \/ \E d \in Drainers :
          \/ Snapshot(d)
          \/ \E op \in batch[d].todo : ReplaySucceeds(d, op)
          \/ \E op \in batch[d].todo : ReplayFails(d, op)

-----------------------------------------------------------------------------
(* What is stated of every backing store.                                  *)

(* The variables hold values of their types and the queue holds at most    *)
(* one operation for a (table, entity id).                                 *)
TypeOK ==
    /\ queue \in SUBSET Op
    /\ clock \in Nat
    /\ arrived \in 0..MaxOps
    /\ hand \in [Tasks -> Stamped \cup {NoOp}]
    /\ batch \in [Drainers -> Batch]
    /\ delivered \in SUBSET OpIds
    /\ superseded \in SUBSET OpIds
    /\ failures \in [OpIds -> Nat]
    /\ \A a, b \in queue : a.key = b.key => a = b

(* The trait's guarantee: finalize drops only what a replay delivered.     *)
Promise == INSTANCE OfflineQueue WITH
    Ids <- OpIds,
    pending <- {[key |-> op.key, id |-> op.id] : op \in queue}

Promised == Promise!ASpec

(* No operation the queue accepted disappears: it is still queued, was     *)
(* delivered, or was replaced by a newer one.                              *)
NothingLost ==
    \A i \in 1..arrived : i \in IdsOf(queue) \cup delivered \cup superseded

(* retry_count of a queued operation is the number of replays that have    *)
(* reported a failure of that operation, no matter how many replays and    *)
(* enqueues for the same key ran at the same time.                         *)
RetriesCountFailures ==
    \A op \in queue : op.retries = failures[op.id]

-----------------------------------------------------------------------------
(* Why the promise is kept.  IInv is inductive whatever the clock says.  A *)
(* finalize compares keys and stamps, so that the promise is kept as long  *)
(* as these tell the operations at hand apart (StampsDiffer); a clock that *)
(* strictly increases (Slip = 0) sees to it (StampsFresh).                 *)

(* Every operation the store or a replay still holds.                      *)
Known == queue \cup UNION {batch[d].snap \cup batch[d].current : d \in Drainers}

(* An arrival number belongs to one operation, and to one that was         *)
(* accepted after it was stamped.                                          *)
ArrivalsIdentify ==
    /\ \A a, b \in Known : a.id = b.id => FullKey(a) = FullKey(b)
    /\ \A a \in Known : a.id <= arrived /\ a.after < a.id
    /\ \A t \in Tasks : hand[t] # NoOp => hand[t].after <= arrived

(* Each operation of a replay is still to do, failed or delivered; the     *)
(* rows a finalize has read include every queued row of its snapshot.      *)
BatchesAccount ==
    \A d \in Drainers :
        LET b == batch[d]
        IN  /\ b.todo \subseteq b.snap
            /\ b.failed \subseteq b.snap
            /\ \A op \in b.snap : op \in b.todo \cup b.failed \/ op.id \in delivered
            /\ \A a, c \in b.current : a.key = c.key => a = c
            /\ b.phase = "finalizing" =>
                  /\ b.todo = {}
                  /\ \A op \in queue : op.id \in IdsOf(b.snap) =>
                        FullKey(op) \in FullKeys(b.current)

HistoryBounded ==
    /\ \A i \in delivered \cup superseded : i <= arrived
    /\ \A i \in OpIds : i > arrived => failures[i] = 0

IInv ==
    /\ TypeOK
    /\ ArrivalsIdentify
    /\ BatchesAccount
    /\ HistoryBounded

(* What finalize takes for granted of a set of operations: a key and a     *)
(* stamp name one of them.                                                 *)
TellsApart(ops) == \A a, b \in ops : FullKey(a) = FullKey(b) => a.id = b.id

StampsDiffer == TellsApart(Known)

(* No two operations have read the same clock.                             *)
StampsFresh(ops) ==
    /\ \A a, b \in ops : a.at = b.at => a.id = b.id
    /\ \A a \in ops : a.at < clock
    /\ \A t \in Tasks : hand[t] # NoOp =>
          /\ hand[t].at < clock
          /\ \A a \in ops : a.at # hand[t].at
    /\ \A t, u \in Tasks :
          hand[t] # NoOp /\ hand[u] # NoOp /\ hand[t].at = hand[u].at => t = u

(* What was accepted before another operation was stamped has the smaller  *)
(* stamp.                                                                  *)
StampsFollow ==
    /\ \A a, b \in Known : a.id <= b.after => a.at < b.at
    /\ \A t \in Tasks : hand[t] # NoOp =>
          \A a \in Known : a.id <= hand[t].after => a.at < hand[t].at

(* Whatever the clock says, an operation leaves the queue only when a      *)
(* newer one of its key replaces it or when a replay has delivered an      *)
(* operation with its key and its stamp: finalize never drops what no      *)
(* replay could be taken to have sent.                                     *)
LeavesForAReason ==
    [][\A op \in queue :
          \/ op.id \in IdsOf(queue') \cup superseded'
          \/ \E d \in Drainers : \E s \in batch[d].snap :
                FullKey(s) = FullKey(op) /\ s.id \in delivered]_vars
=============================================================================
