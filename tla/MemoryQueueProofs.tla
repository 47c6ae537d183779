------------------------- MODULE MemoryQueueProofs --------------------------
(***************************************************************************)
(* MemoryQueue keeps the promise of the trait for any keys, tasks and      *)
(* drainers, as long as key and stamp tell apart the operations that the   *)
(* queue and the replays hold at the same time.                            *)
(***************************************************************************)
EXTENDS MemoryQueue, QueueClientsProofs

(* What finalize leaves in place of an operation that it keeps.            *)
KeptBy(d) ==
    {op \in queue : FullKey(op) \in FullKeys(FinalizeQueueAfterProcessing(
                        queue, batch[d].snap, batch[d].failed))}

(* For an operation that finalize drops a replay delivered one of the same *)
(* key and stamp: a failed one that retain would drop is taken back.       *)
LEMMA KeptOrReplayed ==
    ASSUME IInv, NEW d \in Drainers, Replayed(d), NEW op \in queue
    PROVE  \/ op \in KeptBy(d)
           \/ \E s \in batch[d].snap : FullKey(s) = FullKey(op) /\ s.id \in delivered
<1> USE DEF IInv
<1> DEFINE b == batch[d]
           retained == Retained(queue, b.snap)
<1>1. CASE FullKey(op) \notin FullKeys(b.snap)
  BY <1>1 DEF KeptBy, FinalizeQueueAfterProcessing, Retained, FullKeys
<1>2. ASSUME NEW s \in b.snap, FullKey(s) = FullKey(op)
      PROVE  op \in KeptBy(d) \/ s.id \in delivered
  <2>1. CASE s \in b.failed
    <3>1. op \notin retained
      BY <1>2 DEF Retained, FullKeys
    <3>2. \A r \in retained : r.key # op.key
      BY <3>1 DEF Retained, TypeOK
    <3>3. s.key \notin KeysOf(retained)
      BY <1>2, <3>2 DEF KeysOf, FullKey
    <3>4. s \in FinalizeQueueAfterProcessing(queue, b.snap, b.failed)
      BY <2>1, <3>3 DEF FinalizeQueueAfterProcessing
    <3>5. QED  BY <1>2, <3>4 DEF KeptBy, FullKeys
  <2>2. CASE s \notin b.failed
    BY <1>2, <2>2 DEF BatchesAccount, Replayed
  <2>3. QED  BY <2>1, <2>2
<1>3. QED  BY <1>1, <1>2 DEF FullKeys

(* If stamps tell operations apart, it is the very operation that was      *)
(* delivered, and the one bumped is the one that failed.                   *)
LEMMA KeptOrDelivered ==
    ASSUME IInv, StampsDiffer, NEW d \in Drainers, Replayed(d), NEW op \in queue
    PROVE  /\ op \in KeptBy(d) \/ op.id \in delivered
           /\ FullKey(op) \in FullKeys(batch[d].failed)
                <=> op.id \in IdsOf(batch[d].failed)
<1>1. \A s \in batch[d].snap : s \in Known /\ op \in Known
  BY KnownMembers
<1>2. \A s \in batch[d].snap : FullKey(s) = FullKey(op) <=> s.id = op.id
  BY <1>1 DEF IInv, ArrivalsIdentify, StampsDiffer, TellsApart
<1>3. op \in KeptBy(d) \/ op.id \in delivered
  BY <1>2, KeptOrReplayed
<1>4. batch[d].failed \subseteq batch[d].snap
  BY DEF IInv, BatchesAccount
<1>5. FullKey(op) \in FullKeys(batch[d].failed) <=> op.id \in IdsOf(batch[d].failed)
  BY <1>2, <1>4 DEF FullKeys, IdsOf
<1>6. QED  BY <1>3, <1>5

(* The new queue: the kept operations, some with one more attempt.         *)
LEMMA FinalizeQueue ==
    ASSUME IInv, NEW d \in Drainers, Finalize(d)
    PROVE  /\ queue' = {BumpFailed(op, batch[d].failed) : op \in KeptBy(d)}
           /\ \A op \in queue :
                LET new == BumpFailed(op, batch[d].failed)
                IN  /\ new \in Op
                    /\ new.key = op.key /\ new.at = op.at /\ new.id = op.id
                    /\ new.after = op.after
                    /\ new.retries = IF FullKey(op) \in FullKeys(batch[d].failed)
                                     THEN op.retries + 1 ELSE op.retries
           /\ batch'[d] = IdleBatch
           /\ \A e \in Drainers : e # d => batch'[e] = batch[e]
<1> USE DEF IInv
<1>1. queue' = {BumpFailed(op, batch[d].failed) : op \in KeptBy(d)}
  BY DEF Finalize, KeptBy
<1>2. ASSUME NEW op \in queue
      PROVE  LET new == BumpFailed(op, batch[d].failed)
             IN  /\ new \in Op
                 /\ new.key = op.key /\ new.at = op.at /\ new.id = op.id
                 /\ new.after = op.after
                 /\ new.retries = IF FullKey(op) \in FullKeys(batch[d].failed)
                                  THEN op.retries + 1 ELSE op.retries
  <2>1. op \in Op
    BY DEF TypeOK
  <2>2. QED  BY <2>1 DEF BumpFailed, Op
<1>3. /\ batch'[d] = IdleBatch
      /\ \A e \in Drainers : e # d => batch'[e] = batch[e]
  BY DEF Finalize, FinishBatch, TypeOK
<1>4. QED  BY <1>1, <1>2, <1>3

(* Finalize changes nothing an operation is told by.                       *)
LEMMA FinalizeSameStamps ==
    ASSUME IInv, NEW d \in Drainers, Finalize(d) PROVE SameStamps
<1>1. \A new \in queue' : \E op \in queue :
        new.key = op.key /\ new.at = op.at /\ new.id = op.id /\ new.after = op.after
  BY FinalizeQueue DEF KeptBy
<1>2. \A a \in Known' :
        \/ a \in queue'
        \/ \E e \in Drainers : a \in batch'[e].snap \/ a \in batch'[e].current
  BY DEF Known
<1>3. \A e \in Drainers : batch'[e].snap \subseteq batch[e].snap
                       /\ batch'[e].current \subseteq batch[e].current
  BY FinalizeQueue DEF IdleBatch
<1>4. QED  BY <1>1, <1>2, <1>3, KnownMembers DEF SameStamps

LEMMA FinalizePreserves ==
    ASSUME IInv, NEW d \in Drainers, Finalize(d) PROVE IInv'
<1> USE DEF IInv
<1>1. /\ clock' = clock /\ arrived' = arrived /\ hand' = hand
      /\ delivered' = delivered /\ superseded' = superseded
      /\ failures' = [i \in OpIds |->
            failures[i] + (IF i \in IdsOf(batch[d].failed) THEN 1 ELSE 0)]
  BY DEF Finalize, FinishBatch
<1>2. \A new \in queue' : \E op \in queue :
        new \in Op /\ new.key = op.key /\ new.at = op.at /\ new.id = op.id
        /\ new = BumpFailed(op, batch[d].failed)
  BY FinalizeQueue DEF KeptBy
<1>3. /\ batch'[d] = IdleBatch
      /\ \A e \in Drainers : e # d => batch'[e] = batch[e]
  BY FinalizeQueue
<1>4. TypeOK'
  <2>1. queue' \in SUBSET Op
    BY <1>2
  <2>2. batch' \in [Drainers -> Batch]
    BY DEF Finalize, FinishBatch, TypeOK, Batch, IdleBatch
  <2>3. failures' \in [OpIds -> Nat]
    BY <1>1, SMT DEF TypeOK
  <2>4. \A a, b \in queue' : a.key = b.key => a = b
    BY <1>2 DEF TypeOK
  <2>5. QED  BY <1>1, <2>1, <2>2, <2>3, <2>4 DEF TypeOK
<1>5. ArrivalsIdentify'
  BY <1>1, FinalizeSameStamps DEF SameStamps, ArrivalsIdentify, FullKey
<1>6. BatchesAccount'
  <2>1. \A e \in Drainers : e # d /\ batch[e].phase = "finalizing" =>
          \A new \in queue' : new.id \in IdsOf(batch[e].snap) =>
              FullKey(new) \in FullKeys(batch[e].current)
    BY <1>2 DEF BatchesAccount, FullKey
  <2>2. QED  BY <1>1, <1>3, <2>1 DEF BatchesAccount, IdleBatch
<1>7. HistoryBounded'
  <2>1. \A i \in IdsOf(batch[d].failed) : i <= arrived /\ i \in OpIds
    BY KnownMembers, KnownTyped DEF BatchesAccount, ArrivalsIdentify, IdsOf, Op
  <2>2. \A i \in OpIds : i > arrived => i \notin IdsOf(batch[d].failed)
    BY <2>1, SMT DEF OpIds, TypeOK
  <2>3. QED  BY <1>1, <2>2, SMT DEF HistoryBounded
<1>8. QED  BY <1>4, <1>5, <1>6, <1>7

LEMMA FinalizeAccounts ==
    ASSUME IInv, StampsDiffer, NothingLost, RetriesCountFailures,
           NEW d \in Drainers, Finalize(d)
    PROVE  NothingLost' /\ RetriesCountFailures'
<1>1. /\ arrived' = arrived /\ delivered' = delivered /\ superseded' = superseded
      /\ failures' = [i \in OpIds |->
            failures[i] + (IF i \in IdsOf(batch[d].failed) THEN 1 ELSE 0)]
      /\ Replayed(d)
  BY DEF Finalize, FinishBatch
<1>2. NothingLost'
  <2>1. \A op \in KeptBy(d) : BumpFailed(op, batch[d].failed) \in queue'
                           /\ op \in queue
    BY FinalizeQueue DEF KeptBy
  <2>2. \A op \in KeptBy(d) : op.id \in IdsOf(queue')
    BY <2>1, FinalizeQueue DEF IdsOf
  <2>3. \A op \in queue : op.id \in IdsOf(queue') \cup delivered
    BY <1>1, <2>2, KeptOrDelivered
  <2>4. QED  BY <1>1, <2>3 DEF NothingLost, IdsOf
<1>3. RetriesCountFailures'
  <2>1. \A op \in queue : op.id \in OpIds /\ failures[op.id] \in Nat
    BY DEF IInv, TypeOK, Op
  <2>2. \A new \in queue' : \E op \in queue :
          /\ new.id = op.id
          /\ new.retries = IF op.id \in IdsOf(batch[d].failed)
                           THEN op.retries + 1 ELSE op.retries
    BY <1>1, FinalizeQueue, KeptOrDelivered DEF KeptBy
  <2>3. QED  BY <1>1, <2>1, <2>2, SMT DEF RetriesCountFailures
<1>4. QED  BY <1>2, <1>3

-----------------------------------------------------------------------------

LEMMA StepPreserves == ASSUME IInv, [Next]_vars PROVE IInv'
<1>1. CASE UNCHANGED vars
  BY <1>1 DEF vars, clientVars, IInv, TypeOK, ArrivalsIdentify, Known, BatchesAccount,
     HistoryBounded, IdsOf, FullKeys, FullKey
<1>2. CASE HostNext
  BY <1>2, HostPreserves
<1>3. ASSUME NEW t \in Tasks, Enqueue(t) PROVE IInv'
  BY <1>3, EnqueuePreserves DEF Enqueue, Replaces
<1>4. ASSUME NEW d \in Drainers, Finalize(d) PROVE IInv'
  BY <1>4, FinalizePreserves
<1>5. QED  BY <1>1, <1>2, <1>3, <1>4 DEF Next

LEMMA StepAccounts ==
    ASSUME IInv, StampsDiffer, NothingLost, RetriesCountFailures, [Next]_vars
    PROVE  NothingLost' /\ RetriesCountFailures'
<1>1. CASE UNCHANGED vars
  BY <1>1 DEF vars, clientVars, NothingLost, RetriesCountFailures, IdsOf
<1>2. CASE HostNext
  BY <1>2, HostAccounts
<1>3. ASSUME NEW t \in Tasks, Enqueue(t) PROVE NothingLost' /\ RetriesCountFailures'
  BY <1>3, EnqueueAccounts DEF Enqueue, Replaces
<1>4. ASSUME NEW d \in Drainers, Finalize(d) PROVE NothingLost' /\ RetriesCountFailures'
  BY <1>4, FinalizeAccounts
<1>5. QED  BY <1>1, <1>2, <1>3, <1>4 DEF Next

LEMMA StepKeepsFresh ==
    ASSUME Slip = 0, IInv, StampsFresh(Known), StampsFollow, [Next]_vars
    PROVE  StampsFresh(Known)' /\ StampsFollow'
<1>1. CASE UNCHANGED vars
  BY <1>1 DEF vars, clientVars, StampsFresh, StampsFollow, Known
<1>2. CASE HostNext
  BY <1>2, HostKeepsFresh
<1>3. ASSUME NEW t \in Tasks, Enqueue(t) PROVE StampsFresh(Known)' /\ StampsFollow'
  BY <1>3, EnqueueKeepsFresh DEF Enqueue, Replaces
<1>4. ASSUME NEW d \in Drainers, Finalize(d) PROVE StampsFresh(Known)' /\ StampsFollow'
  BY <1>4, FinalizeSameStamps, FewerKnown DEF Finalize, FinishBatch
<1>5. QED  BY <1>1, <1>2, <1>3, <1>4 DEF Next

(* The inductive invariant holds throughout, whatever the clock says.      *)
THEOREM Invariance == Spec => []IInv
<1>1. Init => IInv
  BY InitEstablishes
<1>2. IInv /\ [Next]_vars => IInv'
  BY StepPreserves
<1>3. QED  BY <1>1, <1>2, PTL DEF Spec

(* Every variable of the in-memory queue keeps its type, and no two queued *)
(* operations are ever for the same (table, entity id).                    *)
THEOREM TypeCorrect == Spec => []TypeOK
<1>1. IInv => TypeOK
  BY DEF IInv
<1>2. QED  BY <1>1, Invariance, PTL

(* A clock that strictly increases gives every operation at hand a stamp   *)
(* of its own, which is all that finalize takes for granted.               *)
THEOREM ClockTellsApart == ASSUME Slip = 0 PROVE Spec => []StampsDiffer
<1>1. Init => StampsFresh(Known) /\ StampsFollow
  BY InitEstablishes
<1>2. IInv /\ StampsFresh(Known) /\ StampsFollow /\ [Next]_vars
        => StampsFresh(Known)' /\ StampsFollow'
  BY StepKeepsFresh
<1>3. StampsFresh(Known) => StampsDiffer
  BY FreshDiffers
<1>4. QED  BY <1>1, <1>2, <1>3, Invariance, PTL DEF Spec

(* While stamps differ, every accepted operation is queued, delivered or   *)
(* replaced, and retry_count is the number of replays that reported the    *)
(* operation failed, however enqueues and finalizes interleave.            *)
LEMMA Accounted ==
    Spec /\ []StampsDiffer => [](NothingLost /\ RetriesCountFailures)
<1>1. Init => NothingLost /\ RetriesCountFailures
  BY InitEstablishes
<1>2. IInv /\ StampsDiffer /\ (NothingLost /\ RetriesCountFailures) /\ [Next]_vars
        => (NothingLost /\ RetriesCountFailures)'
  BY StepAccounts
<1>3. QED  BY <1>1, <1>2, Invariance, PTL DEF Spec

(* retry_count is the number of replays that reported the operation        *)
(* failed, as long as stamps tell the operations at hand apart.            *)
THEOREM RetriesCorrect == Spec /\ []StampsDiffer => []RetriesCountFailures
  BY Accounted, PTL

(* Whatever the clock says, only what a newer operation replaces or a      *)
(* replay seems to have delivered leaves the queue.                        *)
THEOREM OnlyReplayedLeave == Spec => LeavesForAReason
<1> DEFINE Gone(op) ==
        \/ op.id \in IdsOf(queue') \cup superseded'
        \/ \E d \in Drainers : \E s \in batch[d].snap :
              FullKey(s) = FullKey(op) /\ s.id \in delivered
<1>1. ASSUME IInv, [Next]_vars, NEW op \in queue PROVE Gone(op)
  <2>1. CASE queue' = queue
    BY <2>1 DEF IdsOf
  <2>2. ASSUME NEW t \in Tasks, Enqueue(t) PROVE Gone(op)
    BY <2>2 DEF Enqueue, AcceptFrom, IdsOf
  <2>3. ASSUME NEW d \in Drainers, Finalize(d) PROVE Gone(op)
    <3>1. CASE op \in KeptBy(d)
      <4>1. BumpFailed(op, batch[d].failed) \in queue'
        BY <1>1, <2>3, <3>1, FinalizeQueue
      <4>2. QED  BY <1>1, <2>3, <4>1, FinalizeQueue DEF IdsOf
    <3>2. QED  BY <1>1, <2>3, <3>1, KeptOrReplayed DEF Finalize
  <2>4. QED
    BY <1>1, <2>1, <2>2, <2>3
       DEF Next, HostNext, Stamp, Snapshot, ReplaySucceeds, ReplayFails, vars
<1>2. IInv /\ [Next]_vars => [\A op \in queue : Gone(op)]_vars
  BY <1>1
<1>3. QED  BY <1>2, Invariance, PTL DEF Spec, LeavesForAReason

(* Every step is one the trait allows: an operation leaves the queue only  *)
(* when a newer one replaces it or a replay has delivered it.              *)
LEMMA StepImplements ==
    ASSUME IInv, StampsDiffer, NothingLost, [Next]_vars
    PROVE  [Promise!ANext]_(Promise!avars)
<1>1. CASE UNCHANGED vars
  BY <1>1 DEF vars, clientVars, Promise!avars
<1>2. CASE HostNext
  BY <1>2, HostImplements
<1>3. ASSUME NEW t \in Tasks, Enqueue(t) PROVE Promise!ANext
  BY <1>3, EnqueueImplements DEF Enqueue, Replaces
<1>4. ASSUME NEW d \in Drainers, Finalize(d) PROVE Promise!ANext
  <2> DEFINE new(op) == BumpFailed(op, batch[d].failed)
  <2>1. \A op \in queue : op \in KeptBy(d) \/ op.id \in delivered
    BY <1>4, KeptOrDelivered DEF Finalize
  <2>2. queue' = {new(op) : op \in KeptBy(d)}
    BY <1>4, FinalizeQueue
  <2>3. \A op \in KeptBy(d) : new(op).key = op.key /\ new(op).id = op.id
    BY <1>4, FinalizeQueue DEF KeptBy
  <2> HIDE DEF new
  <2>4. \A p : (\E op \in queue' : p = Shown(op))
                <=> (\E op \in KeptBy(d) : p = Shown(op))
    BY <2>2, <2>3 DEF Shown
  <2>5. \A a, b \in queue : a.id = b.id => a = b
    BY QueuedOnce
  <2>6. KeptBy(d) \in SUBSET queue
    BY DEF KeptBy
  <2>7. UNCHANGED <<delivered, superseded>>
    BY <1>4 DEF Finalize, FinishBatch
  <2>8. QED  BY <2>1, <2>4, <2>5, <2>6, <2>7, FinalizeImplements
<1>5. QED  BY <1>1, <1>2, <1>3, <1>4 DEF Next

(* The in-memory queue implements the OfflineQueue trait as long as stamps *)
(* tell the operations at hand apart.                                      *)
THEOREM Refinement == Spec /\ []StampsDiffer => Promised
<1>1. Init => Promise!AInit
  BY InitImplements
<1>2. IInv /\ StampsDiffer /\ (NothingLost /\ RetriesCountFailures) /\ [Next]_vars
        => [Promise!ANext]_(Promise!avars)
  BY StepImplements
<1>3. QED  BY <1>1, <1>2, Invariance, Accounted, PTL DEF Spec, Promised, Promise!ASpec

(* It does with a clock that strictly increases.                           *)
COROLLARY RefinementInOrder == ASSUME Slip = 0 PROVE Spec => Promised
  BY ClockTellsApart, Refinement, PTL
=============================================================================
