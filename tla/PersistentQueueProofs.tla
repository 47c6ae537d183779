----------------------- MODULE PersistentQueueProofs ------------------------
(***************************************************************************)
(* The two queues that survive a restart, as long as key and stamp tell    *)
(* apart the operations they and the replays hold at the same time.        *)
(* SqliteOfflineQueue keeps the promise of the trait although finalize     *)
(* reads the rows before its transaction begins.  What FileBackedQueue     *)
(* acknowledged is in the file, the cache or done, through overlapping     *)
(* replays, failing writes and crashes.                                    *)
(***************************************************************************)
EXTENDS SqliteQueue, FileQueue, QueueClientsProofs

-----------------------------------------------------------------------------
(* SqliteOfflineQueue.                                                     *)

(* The rows a transaction leaves.                                          *)
KeptBy(d) == {op \in queue : ~Names(ToDelete(batch[d]), op)}

Bumped(d, op) ==
    [op EXCEPT !.retries = IF Names(ToBump(batch[d]), op) THEN @ + 1 ELSE @]

(* For a row the transaction deletes a replay delivered an operation of    *)
(* the same key and stamp: the row that was read is in the snapshot, and   *)
(* not among the failed ones.                                              *)
LEMMA KeptOrReplayed ==
    ASSUME IInv, NEW d \in Drainers, batch[d].phase = "finalizing",
           NEW op \in queue
    PROVE  \/ op \in KeptBy(d)
           \/ \E s \in batch[d].snap : FullKey(s) = FullKey(op) /\ s.id \in delivered
<1> USE DEF IInv
<1> DEFINE b == batch[d]
           retained == Retained(b.current, b.snap)
           final == FinalizeQueueAfterProcessing(b.current, b.snap, b.failed)
<1>1. SUFFICES ASSUME NEW c \in b.current, FullKey(c) = FullKey(op),
                      FullKey(c) \notin FullKeys(final)
               PROVE  \E s \in b.snap : FullKey(s) = FullKey(op) /\ s.id \in delivered
  BY DEF KeptBy, Names, ToDelete, FullKeys
<1>2. c \notin retained
  BY <1>1 DEF FinalizeQueueAfterProcessing, FullKeys
<1>3. PICK s \in b.snap : FullKey(s) = FullKey(c)
  BY <1>1, <1>2 DEF Retained, FullKeys
<1>4. s \notin b.failed
  <2>1. SUFFICES ASSUME s \in b.failed PROVE FALSE
    OBVIOUS
  <2>2. \A r \in retained : r.key # c.key
    BY <1>2 DEF Retained, BatchesAccount
  <2>3. s \in final
    BY <1>3, <2>1, <2>2 DEF FinalizeQueueAfterProcessing, KeysOf, FullKey
  <2>4. QED  BY <1>1, <1>3, <2>3 DEF FullKeys
<1>5. QED  BY <1>1, <1>3, <1>4 DEF BatchesAccount

(* If stamps tell operations apart, it is the very operation that was      *)
(* delivered.                                                              *)
LEMMA KeptOrDelivered ==
    ASSUME IInv, StampsDiffer, NEW d \in Drainers, batch[d].phase = "finalizing",
           NEW op \in queue
    PROVE  op \in KeptBy(d) \/ op.id \in delivered
<1>1. \A s \in batch[d].snap : s \in Known /\ op \in Known
  BY KnownMembers
<1>2. QED  BY <1>1, KeptOrReplayed DEF StampsDiffer, TellsApart

(* A kept row is updated exactly when the replay reports that it failed.   *)
LEMMA BumpedWhenFailed ==
    ASSUME IInv, StampsDiffer, NEW d \in Drainers, batch[d].phase = "finalizing",
           NEW op \in KeptBy(d)
    PROVE  Names(ToBump(batch[d]), op) <=> op.id \in IdsOf(batch[d].failed)
<1> USE DEF IInv
<1> DEFINE b == batch[d]
<1>1. op \in queue /\ op \in Known
  BY KnownMembers DEF KeptBy
<1>2. \A s \in b.snap : s \in Known
  BY KnownMembers
<1>3. \A s \in b.snap : FullKey(s) = FullKey(op) <=> s.id = op.id
  BY <1>1, <1>2 DEF ArrivalsIdentify, StampsDiffer, TellsApart
<1>4. b.failed \subseteq b.snap
  BY DEF BatchesAccount
<1>5. FullKey(op) \in FullKeys(b.failed) <=> op.id \in IdsOf(b.failed)
  BY <1>3, <1>4 DEF FullKeys, IdsOf
<1>6. op.id \in IdsOf(b.failed) => FullKey(op) \in FullKeys(b.current)
  BY <1>1, <1>4 DEF BatchesAccount, IdsOf
<1>7. FullKey(op) \notin ToDelete(b)
  BY DEF KeptBy, Names
<1>8. QED  BY <1>5, <1>6, <1>7 DEF Names, ToBump

LEMMA CommitQueue ==
    ASSUME IInv, NEW d \in Drainers, CommitFinalize(d)
    PROVE  /\ queue' = {Bumped(d, op) : op \in KeptBy(d)}
           /\ \A op \in KeptBy(d) :
                /\ op \in queue
                /\ Bumped(d, op) \in Op
                /\ Bumped(d, op).key = op.key
                /\ Bumped(d, op).at = op.at
                /\ Bumped(d, op).id = op.id
                /\ Bumped(d, op).after = op.after
                /\ Bumped(d, op).retries = IF Names(ToBump(batch[d]), op)
                                           THEN op.retries + 1 ELSE op.retries
           /\ batch'[d] = IdleBatch
           /\ \A e \in Drainers : e # d => batch'[e] = batch[e]
<1> USE DEF IInv
<1>1. queue' = {Bumped(d, op) : op \in KeptBy(d)}
  BY DEF CommitFinalize, Bumped, KeptBy
<1>2. ASSUME NEW op \in KeptBy(d)
      PROVE  /\ op \in queue
             /\ Bumped(d, op) \in Op
             /\ Bumped(d, op).key = op.key
             /\ Bumped(d, op).at = op.at
             /\ Bumped(d, op).id = op.id
             /\ Bumped(d, op).after = op.after
             /\ Bumped(d, op).retries = IF Names(ToBump(batch[d]), op)
                                        THEN op.retries + 1 ELSE op.retries
  <2>1. op \in queue /\ op \in Op
    BY DEF KeptBy, TypeOK
  <2>2. QED  BY <2>1 DEF Bumped, Op
<1>3. /\ batch'[d] = IdleBatch
      /\ \A e \in Drainers : e # d => batch'[e] = batch[e]
  BY DEF CommitFinalize, FinishBatch, TypeOK
<1>4. QED  BY <1>1, <1>2, <1>3

(* A transaction changes nothing an operation is told by.                  *)
LEMMA CommitSameStamps ==
    ASSUME IInv, NEW d \in Drainers, CommitFinalize(d) PROVE SameStamps
<1>1. \A new \in queue' : \E op \in queue :
        new.key = op.key /\ new.at = op.at /\ new.id = op.id /\ new.after = op.after
  BY CommitQueue
<1>2. \A a \in Known' :
        \/ a \in queue'
        \/ \E e \in Drainers : a \in batch'[e].snap \/ a \in batch'[e].current
  BY DEF Known
<1>3. \A e \in Drainers : batch'[e].snap \subseteq batch[e].snap
                       /\ batch'[e].current \subseteq batch[e].current
  BY CommitQueue DEF IdleBatch
<1>4. QED  BY <1>1, <1>2, <1>3, KnownMembers DEF SameStamps

LEMMA CommitPreserves ==
    ASSUME IInv, NEW d \in Drainers, CommitFinalize(d) PROVE IInv'
<1> USE DEF IInv
<1>1. /\ clock' = clock /\ arrived' = arrived /\ hand' = hand
      /\ delivered' = delivered /\ superseded' = superseded
      /\ failures' = [i \in OpIds |->
            failures[i] + (IF i \in IdsOf(batch[d].failed) THEN 1 ELSE 0)]
  BY DEF CommitFinalize, FinishBatch
<1>2. \A new \in queue' : \E op \in queue :
        new \in Op /\ new.key = op.key /\ new.at = op.at /\ new.id = op.id
        /\ new = Bumped(d, op)
  BY CommitQueue
<1>3. /\ batch'[d] = IdleBatch
      /\ \A e \in Drainers : e # d => batch'[e] = batch[e]
  BY CommitQueue
<1>4. TypeOK'
  <2>1. queue' \in SUBSET Op
    BY <1>2
  <2>2. batch' \in [Drainers -> Batch]
    BY DEF CommitFinalize, FinishBatch, TypeOK, Batch, IdleBatch
  <2>3. failures' \in [OpIds -> Nat]
    BY <1>1, SMT DEF TypeOK
  <2>4. \A a, b \in queue' : a.key = b.key => a = b
    BY <1>2 DEF TypeOK
  <2>5. QED  BY <1>1, <2>1, <2>2, <2>3, <2>4 DEF TypeOK
<1>5. ArrivalsIdentify'
  BY <1>1, CommitSameStamps DEF SameStamps, ArrivalsIdentify, FullKey
<1>6. BatchesAccount'
  <2>1. \A e \in Drainers : e # d /\ batch[e].phase = "finalizing" =>
          \A new \in queue' : new.id \in IdsOf(batch[e].snap) =>
              FullKey(new) \in FullKeys(batch[e].current)
    BY <1>2 DEF BatchesAccount, FullKey
  <2>2. QED  BY <1>1, <1>3, <2>1 DEF BatchesAccount, IdleBatch
<1>7. HistoryBounded'
  <2>1. \A i \in IdsOf(batch[d].failed) : i <= arrived /\ i \in OpIds
    BY KnownMembers, KnownTyped DEF BatchesAccount, ArrivalsIdentify, IdsOf, Op
  <2>2. \A i \in OpIds : i > arrived => i \notin IdsOf(batch[d].failed)
    BY <2>1, SMT DEF OpIds, TypeOK
  <2>3. QED  BY <1>1, <2>2, SMT DEF HistoryBounded
<1>8. QED  BY <1>4, <1>5, <1>6, <1>7

LEMMA CommitAccounts ==
    ASSUME IInv, StampsDiffer, NothingLost, RetriesCountFailures,
           NEW d \in Drainers, CommitFinalize(d)
    PROVE  NothingLost' /\ RetriesCountFailures'
<1>1. /\ arrived' = arrived /\ delivered' = delivered /\ superseded' = superseded
      /\ failures' = [i \in OpIds |->
            failures[i] + (IF i \in IdsOf(batch[d].failed) THEN 1 ELSE 0)]
      /\ batch[d].phase = "finalizing"
  BY DEF CommitFinalize, FinishBatch
<1>2. NothingLost'
  <2>1. \A op \in KeptBy(d) : op.id \in IdsOf(queue')
    BY CommitQueue DEF IdsOf
  <2>2. \A op \in queue : op.id \in IdsOf(queue') \cup delivered
    BY <1>1, <2>1, KeptOrDelivered
  <2>3. QED  BY <1>1, <2>2 DEF NothingLost, IdsOf
<1>3. RetriesCountFailures'
  <2>1. \A op \in queue : op.id \in OpIds /\ failures[op.id] \in Nat
    BY DEF IInv, TypeOK, Op
  <2>2. \A new \in queue' : \E op \in queue :
          /\ new.id = op.id
          /\ new.retries = IF op.id \in IdsOf(batch[d].failed)
                           THEN op.retries + 1 ELSE op.retries
    BY <1>1, CommitQueue, BumpedWhenFailed
  <2>3. QED  BY <1>1, <2>1, <2>2, SMT DEF RetriesCountFailures
<1>4. QED  BY <1>2, <1>3

(* Reading the rows: they are the queue, so every queued row of the        *)
(* snapshot is among them.                                                 *)
LEMMA ReadPreserves ==
    ASSUME IInv, NEW d \in Drainers, ReadCurrent(d) PROVE IInv'
<1> USE DEF IInv
<1>1. /\ batch[d] \in Batch /\ batch[d].todo = {}
      /\ batch'[d] = [batch[d] EXCEPT !.phase = "finalizing", !.current = queue]
      /\ \A e \in Drainers : e # d => batch'[e] = batch[e]
  BY DEF ReadCurrent, Replayed, TypeOK
<1>2. /\ batch'[d] \in Batch
      /\ batch'[d].phase = "finalizing" /\ batch'[d].current = queue
      /\ batch'[d].snap = batch[d].snap /\ batch'[d].todo = {}
      /\ batch'[d].failed = batch[d].failed
  BY <1>1 DEF TypeOK, Batch
<1>3. Known' \subseteq Known
  <2>1. \A a \in Known' :
          \/ a \in queue'
          \/ \E e \in Drainers : a \in batch'[e].snap \/ a \in batch'[e].current
    BY DEF Known
  <2>2. queue' = queue
    BY DEF ReadCurrent
  <2>3. \A e \in Drainers : /\ batch'[e].snap = batch[e].snap
                           /\ batch'[e].current \in {batch[e].current, queue}
    BY <1>1, <1>2
  <2>4. QED  BY <2>1, <2>2, <2>3, KnownMembers
<1>4. TypeOK'
  <2>1. batch' \in [Drainers -> Batch]
    BY <1>1, <1>2 DEF ReadCurrent, TypeOK
  <2>2. QED  BY <2>1 DEF ReadCurrent, TypeOK
<1>5. ArrivalsIdentify'
  BY <1>3 DEF ReadCurrent, ArrivalsIdentify
<1>6. BatchesAccount'
  <2>1. queue' = queue /\ delivered' = delivered
    BY DEF ReadCurrent
  <2>2. \A a, c \in queue : a.key = c.key => a = c
    BY DEF TypeOK
  <2>3. QED
    BY <1>1, <1>2, <2>1, <2>2 DEF BatchesAccount, FullKeys
<1>7. HistoryBounded'
  BY DEF ReadCurrent, HistoryBounded
<1>8. QED  BY <1>4, <1>5, <1>6, <1>7

(* A restart keeps the rows and forgets the rest.                          *)
LEMMA RestartPreserves == ASSUME IInv, Restart PROVE IInv'
<1> USE DEF IInv
<1>1. Known' \subseteq Known
  BY KnownMembers DEF Known, Restart, IdleBatch
<1>2. TypeOK'
  BY DEF Restart, TypeOK, Batch, IdleBatch
<1>3. ArrivalsIdentify'
  BY <1>1 DEF Restart, ArrivalsIdentify
<1>4. BatchesAccount'
  BY DEF Restart, BatchesAccount, IdleBatch
<1>5. HistoryBounded'
  BY DEF Restart, HistoryBounded
<1>6. QED  BY <1>2, <1>3, <1>4, <1>5

LEMMA StepPreserves == ASSUME IInv, [Next]_vars PROVE IInv'
<1>1. CASE UNCHANGED vars
  BY <1>1 DEF vars, clientVars, IInv, TypeOK, ArrivalsIdentify, Known, BatchesAccount,
     HistoryBounded, IdsOf, FullKeys, FullKey
<1>2. CASE HostNext
  BY <1>2, HostPreserves
<1>3. ASSUME NEW t \in Tasks, Enqueue(t) PROVE IInv'
  BY <1>3, EnqueuePreserves DEF Enqueue, Replaces
<1>4. ASSUME NEW d \in Drainers, ReadCurrent(d) \/ CommitFinalize(d) PROVE IInv'
  BY <1>4, ReadPreserves, CommitPreserves
<1>5. CASE Restart
  BY <1>5, RestartPreserves
<1>6. QED  BY <1>1, <1>2, <1>3, <1>4, <1>5 DEF Next

LEMMA StepAccounts ==
    ASSUME IInv, StampsDiffer, NothingLost, RetriesCountFailures, [Next]_vars
    PROVE  NothingLost' /\ RetriesCountFailures'
<1>1. CASE UNCHANGED vars
  BY <1>1 DEF vars, clientVars, NothingLost, RetriesCountFailures, IdsOf
<1>2. CASE HostNext
  BY <1>2, HostAccounts
<1>3. ASSUME NEW t \in Tasks, Enqueue(t) PROVE NothingLost' /\ RetriesCountFailures'
  BY <1>3, EnqueueAccounts DEF Enqueue, Replaces
<1>4. ASSUME NEW d \in Drainers, CommitFinalize(d)
      PROVE  NothingLost' /\ RetriesCountFailures'
  BY <1>4, CommitAccounts
<1>5. CASE Restart \/ \E d \in Drainers : ReadCurrent(d)
  BY <1>5 DEF Restart, ReadCurrent, NothingLost, RetriesCountFailures
<1>6. QED  BY <1>1, <1>2, <1>3, <1>4, <1>5 DEF Next

LEMMA StepKeepsFresh ==
    ASSUME Slip = 0, IInv, StampsFresh(Known), StampsFollow, [Next]_vars
    PROVE  StampsFresh(Known)' /\ StampsFollow'
<1>1. CASE UNCHANGED vars
  BY <1>1 DEF vars, clientVars, StampsFresh, StampsFollow, Known
<1>2. CASE HostNext
  BY <1>2, HostKeepsFresh
<1>3. ASSUME NEW t \in Tasks, Enqueue(t) PROVE StampsFresh(Known)' /\ StampsFollow'
  BY <1>3, EnqueueKeepsFresh DEF Enqueue, Replaces
<1>4. ASSUME NEW d \in Drainers, CommitFinalize(d)
      PROVE  StampsFresh(Known)' /\ StampsFollow'
  BY <1>4, CommitSameStamps, FewerKnown DEF CommitFinalize, FinishBatch
<1>5. CASE Restart \/ \E d \in Drainers : ReadCurrent(d)
  <2>1. /\ queue' = queue /\ clock' = clock
        /\ \A t \in Tasks : hand'[t] = hand[t] \/ hand'[t] = NoOp
    BY <1>5 DEF Restart, ReadCurrent
  <2>2. \A e \in Drainers : /\ batch'[e].snap \subseteq batch[e].snap
                           /\ batch'[e].current \subseteq batch[e].current \cup queue
    <3>1. batch \in [Drainers -> Batch]
      BY DEF IInv, TypeOK
    <3>2. CASE Restart
      BY <3>1, <3>2 DEF Restart, IdleBatch
    <3>3. ASSUME NEW d \in Drainers, ReadCurrent(d), NEW e \in Drainers
          PROVE  batch'[e].snap = batch[e].snap /\ batch'[e].current \in {batch[e].current, queue}
      BY <3>1, <3>3 DEF ReadCurrent, Batch
    <3>4. QED  BY <1>5, <3>2, <3>3
  <2>3. \A a \in Known' :
          a \in queue' \/ \E e \in Drainers : a \in batch'[e].snap \/ a \in batch'[e].current
    BY DEF Known
  <2>4. \A a \in Known' : a \in Known
    BY <2>1, <2>2, <2>3, KnownMembers
  <2>5. SameStamps
    BY <2>4 DEF SameStamps
  <2>6. QED  BY <2>1, <2>5, FewerKnown
<1>6. QED  BY <1>1, <1>2, <1>3, <1>4, <1>5 DEF Next

(* The inductive invariant holds throughout, restarts included, whatever   *)
(* the clock says.                                                         *)
THEOREM Invariance == Spec => []IInv
<1>1. Init => IInv
  BY InitEstablishes
<1>2. IInv /\ [Next]_vars => IInv'
  BY StepPreserves
<1>3. QED  BY <1>1, <1>2, PTL DEF Spec

(* The rows keep their types, and the (table, entity id) stays a key.      *)
THEOREM TypeCorrect == Spec => []TypeOK
<1>1. IInv => TypeOK
  BY DEF IInv
<1>2. QED  BY <1>1, Invariance, PTL

LEMMA ClockKeeps == ASSUME Slip = 0 PROVE Spec => [](StampsFresh(Known) /\ StampsFollow)
<1>1. Init => StampsFresh(Known) /\ StampsFollow
  BY InitEstablishes
<1>2. IInv /\ (StampsFresh(Known) /\ StampsFollow) /\ [Next]_vars
        => (StampsFresh(Known) /\ StampsFollow)'
  BY StepKeepsFresh
<1>3. QED  BY <1>1, <1>2, Invariance, PTL DEF Spec

(* A clock that strictly increases gives every operation at hand a stamp   *)
(* of its own, also across restarts.                                       *)
THEOREM ClockTellsApart == ASSUME Slip = 0 PROVE Spec => []StampsDiffer
<1>1. StampsFresh(Known) /\ StampsFollow => StampsDiffer
  BY FreshDiffers
<1>2. QED  BY <1>1, ClockKeeps, PTL

(* ORDER BY queued_at_micros replays whatever was queued when an operation *)
(* was stamped before that operation, if the clock strictly increases.     *)
THEOREM ReplayCausal == ASSUME Slip = 0 PROVE Spec => []ReplayOrderIsCausal
<1>1. StampsFresh(Known) /\ StampsFollow => ReplayOrderIsCausal
  BY KnownMembers DEF StampsFollow, ReplayOrderIsCausal, ReplayedBefore
<1>2. QED  BY <1>1, ClockKeeps, PTL

(* While stamps differ, every accepted operation is queued, delivered or   *)
(* replaced, and retry_count counts the failures of the row it is in.      *)
LEMMA Accounted ==
    Spec /\ []StampsDiffer => [](NothingLost /\ RetriesCountFailures)
<1>1. Init => NothingLost /\ RetriesCountFailures
  BY InitEstablishes
<1>2. IInv /\ StampsDiffer /\ (NothingLost /\ RetriesCountFailures) /\ [Next]_vars
        => (NothingLost /\ RetriesCountFailures)'
  BY StepAccounts
<1>3. QED  BY <1>1, <1>2, Invariance, PTL DEF Spec

(* retry_count counts the failures reported of the row it is in, although  *)
(* the rows to update are chosen before the transaction begins.            *)
THEOREM RetriesCorrect == Spec /\ []StampsDiffer => []RetriesCountFailures
  BY Accounted, PTL

(* Whatever the clock says, only what a newer operation replaces or a      *)
(* replay seems to have delivered leaves the table, although the rows to   *)
(* delete are chosen before the transaction begins.                        *)
THEOREM OnlyReplayedLeave == Spec => LeavesForAReason
<1> DEFINE Gone(op) ==
        \/ op.id \in IdsOf(queue') \cup superseded'
        \/ \E d \in Drainers : \E s \in batch[d].snap :
              FullKey(s) = FullKey(op) /\ s.id \in delivered
<1>1. ASSUME IInv, [Next]_vars, NEW op \in queue PROVE Gone(op)
  <2>1. CASE queue' = queue
    BY <2>1 DEF IdsOf
  <2>2. ASSUME NEW t \in Tasks, Enqueue(t) PROVE Gone(op)
    BY <2>2 DEF Enqueue, AcceptFrom, IdsOf
  <2>3. ASSUME NEW d \in Drainers, CommitFinalize(d) PROVE Gone(op)
    <3>1. CASE op \in KeptBy(d)
      BY <1>1, <2>3, <3>1, CommitQueue DEF IdsOf
    <3>2. QED  BY <1>1, <2>3, <3>1, KeptOrReplayed DEF CommitFinalize
  <2>4. QED
    BY <1>1, <2>1, <2>2, <2>3
       DEF Next, HostNext, Stamp, Snapshot, ReplaySucceeds, ReplayFails, ReadCurrent,
           Restart, vars
<1>2. IInv /\ [Next]_vars => [\A op \in queue : Gone(op)]_vars
  BY <1>1
<1>3. QED  BY <1>2, Invariance, PTL DEF Spec, LeavesForAReason

(* Every step is one the trait allows.                                     *)
LEMMA StepImplements ==
    ASSUME IInv, StampsDiffer, NothingLost, [Next]_vars
    PROVE  [Promise!ANext]_(Promise!avars)
<1>1. CASE UNCHANGED vars
  BY <1>1 DEF vars, clientVars, Promise!avars
<1>2. CASE HostNext
  BY <1>2, HostImplements
<1>3. ASSUME NEW t \in Tasks, Enqueue(t) PROVE Promise!ANext
  BY <1>3, EnqueueImplements DEF Enqueue, Replaces
<1>4. ASSUME NEW d \in Drainers, CommitFinalize(d) PROVE Promise!ANext
  <2>1. \A op \in queue : op \in KeptBy(d) \/ op.id \in delivered
    BY <1>4, KeptOrDelivered DEF CommitFinalize
  <2>2. /\ queue' = {Bumped(d, op) : op \in KeptBy(d)}
        /\ \A op \in KeptBy(d) : Bumped(d, op).key = op.key
                                /\ Bumped(d, op).id = op.id
    BY <1>4, CommitQueue
  <2>3. \A p : (\E op \in queue' : p = Shown(op))
                <=> (\E op \in KeptBy(d) : p = Shown(op))
    BY <2>2 DEF Shown
  <2>4. \A a, b \in queue : a.id = b.id => a = b
    BY QueuedOnce
  <2>5. KeptBy(d) \in SUBSET queue
    BY DEF KeptBy
  <2>6. UNCHANGED <<delivered, superseded>>
    BY <1>4 DEF CommitFinalize, FinishBatch
  <2>7. QED  BY <2>1, <2>3, <2>4, <2>5, <2>6, FinalizeImplements
<1>5. CASE Restart \/ \E d \in Drainers : ReadCurrent(d)
  BY <1>5 DEF Restart, ReadCurrent, Promise!avars
<1>6. QED  BY <1>1, <1>2, <1>3, <1>4, <1>5 DEF Next

(* The SQLite queue implements the OfflineQueue trait as long as stamps    *)
(* tell the operations at hand apart.                                      *)
THEOREM Refinement == Spec /\ []StampsDiffer => Promised
<1>1. Init => Promise!AInit
  BY InitImplements
<1>2. IInv /\ StampsDiffer /\ (NothingLost /\ RetriesCountFailures) /\ [Next]_vars
        => [Promise!ANext]_(Promise!avars)
  BY StepImplements
<1>3. QED  BY <1>1, <1>2, Invariance, Accounted, PTL DEF Spec, Promised, Promise!ASpec

(* It does with a clock that strictly increases.                           *)
COROLLARY RefinementInOrder == ASSUME Slip = 0 PROVE Spec => Promised
  BY ClockTellsApart, Refinement, PTL

-----------------------------------------------------------------------------
(* FileBackedQueue.                                                        *)

(* The operations the cache, the file or a replay holds.                   *)
LEMMA HeldMembers ==
    \A op : op \in Held <=>
        \/ op \in queue
        \/ op \in disk
        \/ \E d \in Drainers : op \in batch[d].snap
  BY DEF Held

LEMMA HeldTyped ==
    ASSUME FileTypeOK PROVE Held \subseteq Op
  BY HeldMembers, SMT DEF FileTypeOK, TypeOK, Batch

LEMMA IdsMembers ==
    ASSUME NEW ops PROVE \A i : i \in IdsOf(ops) <=> \E op \in ops : i = op.id
  BY DEF IdsOf

(* A step that adds nothing to what is held.                               *)
LEMMA FewerHeld ==
    ASSUME ArrivalsTell, Held' \subseteq Held, arrived' = arrived
    PROVE  ArrivalsTell'
  BY DEF ArrivalsTell

(* Everything is empty at the start.                                       *)
LEMMA FileInitEstablishes == ASSUME FileInit PROVE FileInv
<1> USE DEF FileInit, Init
<1>1. Held = {}
  BY HeldMembers DEF IdleBatch
<1>2. FileTypeOK
  <2>1. TypeOK
    BY QueueAssumption DEF TypeOK, IdleBatch, Batch
  <2>2. flush \in [phase : {"idle", "opening", "writing"}, id : 0..MaxOps,
                   removed : SUBSET OpIds]
    BY QueueAssumption, SMT DEF NoFlush
  <2>3. QED  BY <2>1, <2>2 DEF FileTypeOK
<1>3. ArrivalsTell
  BY <1>1 DEF ArrivalsTell
<1>4. ReplaysAccount
  BY DEF ReplaysAccount, IdleBatch
<1>5. FlushAccounts /\ CacheAccounts /\ DiskAccounts /\ AckedHeld /\ GoneStays
  BY DEF FlushAccounts, CacheAccounts, DiskAccounts, AckedHeld, GoneStays, NoFlush, IdsOf
<1>6. QED  BY <1>2, <1>3, <1>4, <1>5 DEF FileInv, FileShape, FileAccounts

(* A task stamps an operation, with whatever the clock says.               *)
LEMMA FileStampPreserves ==
    ASSUME FileShape, NEW t \in Tasks, NEW k \in Keys, Stamp(t, k),
           UNCHANGED fileVars
    PROVE  FileShape' /\ (FileAccounts => FileAccounts')
<1> USE DEF FileShape, FileAccounts, fileVars, historyVars
<1>1. Held' = Held /\ arrived' = arrived
  BY DEF Stamp, Held
<1>2. /\ hand[t] = NoOp
      /\ hand' = [hand EXCEPT ![t] = [key |-> k, at |-> clock, after |-> arrived]]
      /\ [key |-> k, at |-> clock, after |-> arrived] \in Stamped
      /\ clock' \in Nat
  BY SMT DEF Stamp, FileTypeOK, TypeOK, Stamped
<1>3. FileTypeOK'
  <2>1. TypeOK'
    BY <1>2 DEF Stamp, FileTypeOK, TypeOK
  <2>2. loaded' \in SUBSET {u \in Tasks : hand'[u] # NoOp}
    BY <1>2 DEF FileTypeOK, TypeOK
  <2>3. QED  BY <2>1, <2>2 DEF FileTypeOK
<1>4. ArrivalsTell'
  BY <1>1, FewerHeld
<1>5. ReplaysAccount' /\ FlushAccounts' /\ GoneStays'
  BY DEF Stamp, ReplaysAccount, FlushAccounts, GoneStays
<1>6. (DiskAccounts => DiskAccounts') /\ (AckedHeld => AckedHeld')
  BY DEF Stamp, DiskAccounts, AckedHeld, MutexFree
<1>7. CacheAccounts => CacheAccounts'
  BY DEF Stamp, CacheAccounts, CacheInUse, Replaced
<1>8. QED  BY <1>3, <1>4, <1>5, <1>6, <1>7

-----------------------------------------------------------------------------
(* Loading the cache.                                                      *)

(* load_into_cache brings in only what was held, and the cache it leaves   *)
(* accounts for all that was acknowledged.                                 *)
LEMMA LoadPreserves ==
    ASSUME FileShape, MutexFree, queue' = LoadedCache,
           \A d \in Drainers : batch'[d].snap \subseteq batch[d].snap \cup LoadedCache,
           UNCHANGED <<clock, arrived, hand, delivered, superseded, disk, flush,
                       acked, gone, harm>>
    PROVE  /\ queue' \in SUBSET Op
           /\ \A a, b \in queue' : a.key = b.key => a = b
           /\ ArrivalsTell' /\ FlushAccounts' /\ GoneStays'
           /\ (FileAccounts => FileAccounts')
<1> USE DEF FileShape, FileAccounts
<1>1. queue' \subseteq queue \cup disk /\ (queue = {} => queue' = disk)
      /\ (queue # {} => queue' = queue)
  BY DEF LoadedCache
<1>2. /\ queue' \in SUBSET Op
      /\ \A a, b \in queue' : a.key = b.key => a = b
  BY <1>1 DEF FileTypeOK, TypeOK, FlushAccounts
<1>3. Held' \subseteq Held
  <2>1. \A op : op \in Held' <=>
          op \in queue' \/ op \in disk' \/ \E d \in Drainers : op \in batch'[d].snap
    BY DEF Held
  <2>2. QED  BY <1>1, <2>1, HeldMembers
<1>4. ArrivalsTell'
  BY <1>3, FewerHeld
<1>5. FlushAccounts'
  BY DEF FlushAccounts, MutexFree, NoFlush
<1>6. FileAccounts => CacheAccounts'
  <2>1. SUFFICES ASSUME FileAccounts, harm # "lost"
                 PROVE  acked \subseteq IdsOf(queue') \cup delivered \cup superseded
    BY DEF CacheAccounts, Replaced
  <2>2. CASE queue = {}
    <3>1. disk \cup queue = queue'
      BY <1>1, <2>2
    <3>2. QED  BY <2>1, <3>1 DEF AckedHeld
  <2>3. CASE queue # {}
    BY <1>1, <2>1, <2>3 DEF CacheAccounts, CacheInUse, Replaced, MutexFree, NoFlush
  <2>4. QED  BY <2>2, <2>3
<1>7. DiskAccounts => DiskAccounts'
  BY DEF DiskAccounts
<1>8. (AckedHeld => AckedHeld') /\ GoneStays'
  <2>1. disk' \cup queue' = disk \cup queue \/ queue = {}
    BY <1>1
  <2>2. disk \cup queue = disk' \cup queue'
    BY <1>1
  <2>3. QED  BY <2>2 DEF AckedHeld, GoneStays, MutexFree
<1>9. QED  BY <1>2, <1>4, <1>5, <1>6, <1>7, <1>8

LEMMA EnqueueLoadPreserves ==
    ASSUME FileShape, NEW t \in Tasks, EnqueueLoad(t)
    PROVE  FileShape' /\ (FileAccounts => FileAccounts')
<1> USE DEF FileShape, FileAccounts
<1>1. /\ MutexFree /\ queue' = LoadedCache /\ loaded' = loaded \cup {t}
      /\ UNCHANGED <<clock, arrived, hand, batch, delivered, superseded, failures,
                     disk, torn, flush, acked, gone, harm>>
      /\ hand[t] # NoOp
  BY DEF EnqueueLoad, clientVars, historyVars
<1>2. /\ queue' \in SUBSET Op
      /\ \A a, b \in queue' : a.key = b.key => a = b
      /\ ArrivalsTell' /\ FlushAccounts' /\ GoneStays'
      /\ (FileAccounts => FileAccounts')
  BY <1>1, LoadPreserves
<1>3. FileTypeOK'
  BY <1>1, <1>2 DEF FileTypeOK, TypeOK
<1>4. ReplaysAccount'
  BY <1>1 DEF ReplaysAccount
<1>5. QED  BY <1>2, <1>3, <1>4

LEMMA LoadAndSnapshotPreserves ==
    ASSUME FileShape, NEW d \in Drainers, LoadAndSnapshot(d)
    PROVE  FileShape' /\ (FileAccounts => FileAccounts')
<1> USE DEF FileShape, FileAccounts
<1> DEFINE b == [IdleBatch EXCEPT !.phase = "replaying", !.snap = LoadedCache,
                                 !.todo = LoadedCache]
<1>1. /\ MutexFree /\ queue' = LoadedCache
      /\ UNCHANGED <<clock, arrived, hand, delivered, superseded, failures,
                     disk, torn, loaded, flush, acked, gone, harm>>
      /\ batch' = [batch EXCEPT ![d] = b]
  BY DEF LoadAndSnapshot, fileVars, historyVars
<1>2. /\ batch'[d] = b
      /\ \A e \in Drainers : e # d => batch'[e] = batch[e]
  BY <1>1 DEF FileTypeOK, TypeOK
<1>3. b.phase = "replaying" /\ b.snap = LoadedCache /\ b.todo = LoadedCache
      /\ b.failed = {} /\ b.current = {} /\ b \in [phase : {"replaying"},
          snap : {LoadedCache}, todo : {LoadedCache}, failed : {{}}, current : {{}}]
  BY DEF IdleBatch
<1>4. /\ queue' \in SUBSET Op
      /\ \A x, y \in queue' : x.key = y.key => x = y
      /\ ArrivalsTell' /\ FlushAccounts' /\ GoneStays'
      /\ (FileAccounts => FileAccounts')
  <2>1. \A e \in Drainers : batch'[e].snap \subseteq batch[e].snap \cup LoadedCache
    BY <1>2, <1>3
  <2>2. QED  BY <1>1, <2>1, LoadPreserves
<1>5. FileTypeOK'
  <2>1. b \in Batch
    BY <1>1, <1>3, <1>4 DEF Batch
  <2>2. batch' \in [Drainers -> Batch]
    BY <1>1, <2>1 DEF FileTypeOK, TypeOK
  <2>3. QED  BY <1>1, <1>4, <2>2 DEF FileTypeOK, TypeOK
<1>6. ReplaysAccount'
  BY <1>1, <1>2, <1>3 DEF ReplaysAccount
<1>7. QED  BY <1>4, <1>5, <1>6

LEMMA FinalizeLoadPreserves ==
    ASSUME FileShape, NEW d \in Drainers, FinalizeLoad(d)
    PROVE  FileShape' /\ (FileAccounts => FileAccounts')
<1> USE DEF FileShape, FileAccounts
<1>1. /\ MutexFree /\ queue' = LoadedCache
      /\ UNCHANGED <<clock, arrived, hand, delivered, superseded, failures,
                     disk, torn, loaded, flush, acked, gone, harm>>
      /\ batch' = [batch EXCEPT ![d].phase = "finalizing"]
      /\ batch[d].todo = {}
  BY DEF FinalizeLoad, Replayed, fileVars, historyVars
<1>2. /\ batch' \in [Drainers -> Batch]
      /\ \A e \in Drainers : /\ batch'[e].snap = batch[e].snap
                            /\ batch'[e].todo = batch[e].todo
                            /\ batch'[e].failed = batch[e].failed
                            /\ e # d => batch'[e] = batch[e]
  BY <1>1 DEF FileTypeOK, TypeOK, Batch
<1>3. /\ queue' \in SUBSET Op
      /\ \A x, y \in queue' : x.key = y.key => x = y
      /\ ArrivalsTell' /\ FlushAccounts' /\ GoneStays'
      /\ (FileAccounts => FileAccounts')
  BY <1>1, <1>2, LoadPreserves
<1>4. FileTypeOK'
  BY <1>1, <1>2, <1>3 DEF FileTypeOK, TypeOK
<1>5. ReplaysAccount'
  BY <1>1, <1>2 DEF ReplaysAccount
<1>6. QED  BY <1>3, <1>4, <1>5

(* A load that fails leaves the cache and the file as they were.           *)
LEMMA EnqueueRejectedPreserves ==
    ASSUME FileShape, NEW t \in Tasks, EnqueueRejected(t)
    PROVE  FileShape' /\ (FileAccounts => FileAccounts')
<1> USE DEF FileShape, FileAccounts, fileVars, historyVars
<1>1. /\ UNCHANGED <<queue, clock, arrived, batch, delivered, superseded, failures,
                     disk, torn, loaded, flush, acked, gone, harm>>
      /\ t \notin loaded
      /\ hand'[t] = NoOp
      /\ \A u \in Tasks : u # t => hand'[u] = hand[u]
      /\ hand' \in [Tasks -> Stamped \cup {NoOp}]
  BY DEF EnqueueRejected, FileTypeOK, TypeOK
<1>2. FileTypeOK'
  BY <1>1 DEF FileTypeOK, TypeOK
<1>3. ArrivalsTell'
  <2>1. Held' = Held
    BY <1>1 DEF Held
  <2>2. QED  BY <1>1, <2>1, FewerHeld
<1>4. /\ ReplaysAccount' /\ FlushAccounts' /\ GoneStays'
      /\ (DiskAccounts => DiskAccounts') /\ (AckedHeld => AckedHeld')
  BY <1>1 DEF ReplaysAccount, FlushAccounts, DiskAccounts, AckedHeld, GoneStays,
     MutexFree
<1>5. CacheAccounts => CacheAccounts'
  BY <1>1 DEF CacheAccounts, CacheInUse, Replaced
<1>6. QED  BY <1>2, <1>3, <1>4, <1>5

LEMMA FinalizeRejectedPreserves ==
    ASSUME FileShape, NEW d \in Drainers, FinalizeRejected(d)
    PROVE  FileShape' /\ (FileAccounts => FileAccounts')
<1> USE DEF FileShape, FileAccounts, fileVars, historyVars
<1>1. /\ UNCHANGED <<queue, clock, arrived, hand, delivered, superseded, failures,
                     disk, torn, loaded, flush, acked, gone, harm>>
      /\ batch' = [batch EXCEPT ![d] = IdleBatch]
  BY DEF FinalizeRejected
<1>2. /\ batch'[d] = IdleBatch
      /\ \A e \in Drainers : e # d => batch'[e] = batch[e]
      /\ batch' \in [Drainers -> Batch]
  BY <1>1 DEF FileTypeOK, TypeOK, IdleBatch, Batch
<1>3. FileTypeOK'
  BY <1>1, <1>2 DEF FileTypeOK, TypeOK
<1>4. ArrivalsTell'
  <2>1. Held' \subseteq Held
    BY <1>1, <1>2 DEF Held, IdleBatch
  <2>2. QED  BY <1>1, <2>1, FewerHeld
<1>5. ReplaysAccount'
  BY <1>1, <1>2 DEF ReplaysAccount, IdleBatch
<1>6. /\ FlushAccounts' /\ GoneStays'
      /\ (DiskAccounts => DiskAccounts') /\ (AckedHeld => AckedHeld')
  BY <1>1 DEF FlushAccounts, DiskAccounts, AckedHeld, GoneStays, MutexFree
<1>7. CacheAccounts => CacheAccounts'
  <2>1. CacheInUse' => CacheInUse
    BY <1>1, <1>2 DEF CacheInUse, IdleBatch
  <2>2. QED  BY <1>1, <2>1 DEF CacheAccounts, Replaced
<1>8. QED  BY <1>3, <1>4, <1>5, <1>6, <1>7

-----------------------------------------------------------------------------
(* Changing the deque.                                                     *)

(* enqueue replaces the operation of the same key, which the flush reports *)
(* once it is over; nothing else leaves.                                   *)
LEMMA EnqueueApplyPreserves ==
    ASSUME FileShape, NEW t \in Tasks, EnqueueApply(t)
    PROVE  FileShape' /\ (FileAccounts => FileAccounts')
<1> USE DEF FileShape, FileAccounts
<1> DEFINE e == Entering(t)
           out == {op \in queue : op.key = hand[t].key}
           f == [phase |-> "opening", id |-> arrived + 1, removed |-> IdsOf(out)]
<1>1. /\ queue' = {op \in queue : op.key # hand[t].key} \cup {e}
      /\ arrived' = arrived + 1 /\ arrived < MaxOps /\ MutexFree
      /\ loaded' = loaded \ {t} /\ flush' = f
      /\ hand' = [hand EXCEPT ![t] = NoOp]
      /\ UNCHANGED <<clock, batch, delivered, superseded, failures, disk, torn,
                     acked, gone, harm>>
  BY DEF EnqueueApply, historyVars
<1>2. hand[t] \in Stamped /\ hand[t] # NoOp /\ t \in loaded
  BY DEF EnqueueApply, FileTypeOK, TypeOK
<1>3. arrived \in Nat /\ arrived + 1 \in OpIds /\ arrived + 1 \in 0..MaxOps
      /\ arrived + 1 # 0
  BY <1>1, QueueAssumption, SMT DEF FileTypeOK, TypeOK, OpIds
<1>4. e \in Op /\ e.key = hand[t].key /\ e.at = hand[t].at /\ e.id = arrived + 1
  BY <1>2, <1>3 DEF Entering, Op, Stamped
<1>5. f.phase = "opening" /\ f.id = arrived + 1 /\ f.removed = IdsOf(out) /\ f # NoFlush
  BY DEF NoFlush
<1> HIDE DEF e
<1>6. \A a \in Held : a.id \in Nat /\ a.id <= arrived /\ a.id \in OpIds /\ a.id # e.id
  BY <1>3, <1>4, HeldTyped, SMT DEF ArrivalsTell, Op, OpIds
<1>7. Held' \subseteq Held \cup {e}
  BY <1>1, HeldMembers DEF Held
<1>8. /\ hand'[t] = NoOp
      /\ \A u \in Tasks : u # t => hand'[u] = hand[u]
      /\ hand' \in [Tasks -> Stamped \cup {NoOp}]
  BY <1>1 DEF FileTypeOK, TypeOK
<1>9. \A op \in queue : op \in Held
  BY HeldMembers
<1>10. FileTypeOK'
  <2>1. queue' \in SUBSET Op /\ \A a, b \in queue' : a.key = b.key => a = b
    BY <1>1, <1>4 DEF FileTypeOK, TypeOK
  <2>2. TypeOK'
    BY <1>1, <1>3, <1>8, <2>1 DEF FileTypeOK, TypeOK
  <2>3. f.removed \subseteq OpIds
    BY <1>5, <1>6, <1>9, IdsMembers
  <2>4. flush' \in [phase : {"idle", "opening", "writing"}, id : 0..MaxOps,
                    removed : SUBSET OpIds]
    BY <1>1, <1>3, <2>3
  <2>5. loaded' \in SUBSET {u \in Tasks : hand'[u] # NoOp}
    BY <1>1, <1>8 DEF FileTypeOK
  <2>6. QED  BY <1>1, <2>2, <2>4, <2>5 DEF FileTypeOK
<1>11. ArrivalsTell'
  <2>1. \A a, b \in Held' : a.id = b.id => a = b
    BY <1>6, <1>7 DEF ArrivalsTell
  <2>2. e.id <= arrived' /\ \A a \in Held : a.id <= arrived'
    BY <1>1, <1>3, <1>4, <1>6, SMT
  <2>3. QED  BY <1>7, <2>1, <2>2 DEF ArrivalsTell
<1>12. ReplaysAccount'
  BY <1>1 DEF ReplaysAccount
<1>13. FlushAccounts'
  <2>1. \A i \in IdsOf(out) : \E op \in queue : op.key = hand[t].key /\ i = op.id
    BY IdsMembers
  <2>2. \A i \in IdsOf(queue') : \E op \in queue' : i = op.id
    BY IdsMembers
  <2>3. IdsOf(out) \cap IdsOf(queue') = {}
    BY <1>1, <1>6, <1>9, <2>1, <2>2 DEF ArrivalsTell
  <2>4. e.id \in IdsOf(queue')
    BY <1>1, IdsMembers
  <2>5. \A i \in IdsOf(out) : i <= arrived'
    BY <1>1, <1>3, <1>6, <1>9, <2>1, SMT
  <2>6. QED  BY <1>1, <1>4, <1>5, <2>3, <2>4, <2>5 DEF FlushAccounts
<1>14. FileAccounts => CacheAccounts'
  <2>1. SUFFICES ASSUME FileAccounts, harm # "lost"
        PROVE acked \subseteq IdsOf(queue') \cup delivered \cup superseded \cup IdsOf(out)
    BY <1>1, <1>3, <1>5 DEF CacheAccounts, Replaced
  <2>2. IdsOf(queue) \subseteq IdsOf(queue') \cup IdsOf(out)
    BY <1>1 DEF IdsOf
  <2>3. Replaced = {}
    BY <1>1 DEF Replaced, MutexFree, NoFlush
  <2>4. CacheInUse
    BY <1>2 DEF CacheInUse
  <2>5. QED  BY <2>1, <2>2, <2>3, <2>4 DEF CacheAccounts
<1>15. DiskAccounts => DiskAccounts'
  BY <1>1 DEF DiskAccounts, MutexFree, NoFlush
<1>16. AckedHeld'
  BY <1>1, <1>5 DEF AckedHeld, MutexFree
<1>17. GoneStays'
  <2>1. IdsOf(disk' \cup queue') \subseteq IdsOf(disk \cup queue) \cup {e.id}
    BY <1>1 DEF IdsOf
  <2>2. \A i \in gone : i \in Nat /\ i <= arrived
    BY DEF GoneStays, FileTypeOK, OpIds
  <2>3. \A i \in gone : i <= arrived' /\ i # e.id
    BY <1>1, <1>3, <1>4, <2>2, SMT
  <2>4. QED  BY <1>1, <2>1, <2>3 DEF GoneStays
<1>18. QED  BY <1>10, <1>11, <1>12, <1>13, <1>14, <1>15, <1>16, <1>17

(* An outcome moves one operation of the snapshot out of todo.             *)
LEMMA FileOutcomePreserves ==
    ASSUME FileShape, NEW d \in Drainers, NEW op \in batch[d].todo,
           ReplaySucceeds(d, op) \/ ReplayFails(d, op), UNCHANGED fileVars
    PROVE  FileShape' /\ (FileAccounts => FileAccounts')
<1> USE DEF FileShape, FileAccounts, fileVars, historyVars
<1>1. /\ batch[d] \in Batch
      /\ op \in batch[d].snap
      /\ op \in Op
  BY DEF FileTypeOK, TypeOK, Batch, ReplaysAccount
<1>2. \A e \in Drainers : e # d => batch'[e] = batch[e]
  BY DEF ReplaySucceeds, ReplayFails, FileTypeOK, TypeOK
<1>3. /\ batch'[d].snap = batch[d].snap
      /\ batch'[d].phase = batch[d].phase
      /\ batch'[d].todo = batch[d].todo \ {op}
      /\ batch'[d] \in Batch
      /\ \/ op \in batch'[d].failed /\ batch'[d].failed = batch[d].failed \cup {op}
            /\ delivered' = delivered
         \/ op.id \in delivered' /\ batch'[d].failed = batch[d].failed
            /\ delivered' = delivered \cup {op.id}
  BY <1>1 DEF ReplaySucceeds, ReplayFails, FileTypeOK, TypeOK, Batch
<1>4. UNCHANGED <<queue, clock, arrived, hand, superseded, failures>>
  BY DEF ReplaySucceeds, ReplayFails
<1>5. delivered \subseteq delivered' /\ delivered' \in SUBSET OpIds
  BY <1>1, <1>3 DEF FileTypeOK, TypeOK, Op
<1>6. FileTypeOK'
  <2>1. batch' \in [Drainers -> Batch]
    BY <1>2, <1>3 DEF ReplaySucceeds, ReplayFails, FileTypeOK, TypeOK
  <2>2. QED  BY <1>4, <1>5, <2>1 DEF FileTypeOK, TypeOK
<1>7. ArrivalsTell'
  <2>1. \A o : o \in Held' <=>
          o \in queue' \/ o \in disk' \/ \E e \in Drainers : o \in batch'[e].snap
    BY DEF Held
  <2>2. \A e \in Drainers : batch'[e].snap = batch[e].snap
    BY <1>2, <1>3
  <2>3. Held' \subseteq Held
    BY <1>4, <2>1, <2>2, HeldMembers
  <2>4. QED  BY <1>4, <2>3, FewerHeld
<1>8. ReplaysAccount'
  BY <1>2, <1>3, <1>5 DEF ReplaysAccount
<1>9. FlushAccounts' /\ GoneStays'
  BY <1>4 DEF FlushAccounts, GoneStays
<1>10. (DiskAccounts => DiskAccounts') /\ (AckedHeld => AckedHeld')
  BY <1>4, <1>5 DEF DiskAccounts, AckedHeld, MutexFree
<1>11. CacheAccounts => CacheAccounts'
  <2>1. CacheInUse' => CacheInUse
    BY <1>2, <1>3, <1>4 DEF CacheInUse
  <2>2. QED  BY <1>4, <1>5, <2>1 DEF CacheAccounts, Replaced
<1>12. QED  BY <1>6, <1>7, <1>8, <1>9, <1>10, <1>11

(* What retain keeps of the deque.                                         *)
KeptOf(d) ==
    {op \in queue : FullKey(op) \in FullKeys(
        FinalizeQueueAfterProcessing(queue, batch[d].snap, batch[d].failed))}

(* If stamps tell operations apart, retain drops only what was delivered:  *)
(* what it drops is in the snapshot, and a failed one is taken back by the *)
(* contract because the deque has no other of its key.                     *)
LEMMA FileKeptOrDelivered ==
    ASSUME FileShape, FileStampsDiffer, NEW d \in Drainers,
           batch[d].phase = "finalizing", NEW op \in queue
    PROVE  op \in KeptOf(d) \/ op.id \in delivered
<1> USE DEF FileShape
<1> DEFINE b == batch[d]
           retained == Retained(queue, b.snap)
           final == FinalizeQueueAfterProcessing(queue, b.snap, b.failed)
<1>1. SUFFICES ASSUME FullKey(op) \notin FullKeys(final)
               PROVE  op.id \in delivered
  BY DEF KeptOf
<1>2. op \notin retained
  BY <1>1 DEF FinalizeQueueAfterProcessing, FullKeys
<1>3. op \in b.snap
  <2>1. PICK s \in b.snap : FullKey(s) = FullKey(op)
    BY <1>2 DEF Retained, FullKeys
  <2>2. s \in Held /\ op \in Held
    BY HeldMembers
  <2>3. s = op
    BY <2>1, <2>2 DEF ArrivalsTell, FileStampsDiffer, TellsApart
  <2>4. QED  BY <2>3
<1>4. op \notin b.failed
  <2>1. SUFFICES ASSUME op \in b.failed PROVE FALSE
    OBVIOUS
  <2>2. \A r \in retained : r.key # op.key
    BY <1>2 DEF Retained, FileTypeOK, TypeOK
  <2>3. op \in final
    BY <2>1, <2>2 DEF FinalizeQueueAfterProcessing, KeysOf
  <2>4. QED  BY <1>1, <2>3 DEF FullKeys
<1>5. QED  BY <1>3, <1>4 DEF ReplaysAccount

LEMMA FinalizeApplyPreserves ==
    ASSUME FileShape, NEW d \in Drainers, FinalizeApply(d)
    PROVE  FileShape' /\ (FileStampsDiffer /\ FileAccounts => FileAccounts')
<1> USE DEF FileShape, FileAccounts
<1> DEFINE kept == KeptOf(d)
           f == [NoFlush EXCEPT !.phase = "opening", !.removed = IdsOf(queue \ kept)]
<1>1. /\ queue' = kept /\ kept \subseteq queue
      /\ batch[d].phase = "finalizing" /\ MutexFree
      /\ batch' = [batch EXCEPT ![d] = IdleBatch]
      /\ failures' = [i \in OpIds |->
            failures[i] + (IF i \in IdsOf(batch[d].failed) THEN 1 ELSE 0)]
      /\ flush' = f
      /\ UNCHANGED <<clock, arrived, hand, delivered, superseded, disk, torn, loaded,
                     acked, gone, harm>>
  BY DEF FinalizeApply, FinishBatch, KeptOf, historyVars
<1>2. /\ batch'[d] = IdleBatch
      /\ \A e \in Drainers : e # d => batch'[e] = batch[e]
      /\ batch' \in [Drainers -> Batch]
  BY <1>1 DEF FileTypeOK, TypeOK, IdleBatch, Batch
<1>3. f.phase = "opening" /\ f.id = 0 /\ f.removed = IdsOf(queue \ kept) /\ f # NoFlush
      /\ f \in [phase : {"opening"}, id : {0}, removed : {IdsOf(queue \ kept)}]
  BY DEF NoFlush
<1> HIDE DEF f
<1>4. FileStampsDiffer => \A op \in queue : op \in kept \/ op.id \in delivered
  BY <1>1, FileKeptOrDelivered
<1> HIDE DEF kept
<1>5. \A op \in queue : op \in Held /\ op.id \in OpIds /\ op.id <= arrived
  BY HeldMembers, HeldTyped DEF ArrivalsTell, Op
<1>6. FileTypeOK'
  <2>1. failures' \in [OpIds -> Nat]
    BY <1>1, SMT DEF FileTypeOK, TypeOK
  <2>2. queue' \in SUBSET Op /\ \A a, b \in queue' : a.key = b.key => a = b
    BY <1>1 DEF FileTypeOK, TypeOK
  <2>3. TypeOK'
    BY <1>1, <1>2, <2>1, <2>2 DEF FileTypeOK, TypeOK
  <2>4. f.removed \subseteq OpIds
    BY <1>3, <1>5, IdsMembers
  <2>5. f \in [phase : {"idle", "opening", "writing"}, id : 0..MaxOps,
               removed : SUBSET OpIds]
    BY <1>3, <2>4, QueueAssumption, SMT
  <2>6. QED  BY <1>1, <2>3, <2>5 DEF FileTypeOK
<1>7. ArrivalsTell'
  <2>1. Held' \subseteq Held
    BY <1>1, <1>2 DEF Held, IdleBatch
  <2>2. QED  BY <1>1, <2>1, FewerHeld
<1>8. ReplaysAccount'
  BY <1>1, <1>2 DEF ReplaysAccount, IdleBatch
<1>9. FlushAccounts'
  <2>1. \A i \in IdsOf(queue \ kept) : \E op \in queue : op \notin kept /\ i = op.id
    BY IdsMembers
  <2>2. \A i \in IdsOf(queue') : \E op \in kept : i = op.id
    BY <1>1, IdsMembers
  <2>3. IdsOf(queue \ kept) \cap IdsOf(queue') = {}
    <3>1. \A a \in kept, c \in queue : c \notin kept => a.id # c.id
      BY <1>1, <1>5 DEF ArrivalsTell
    <3>2. QED  BY <2>1, <2>2, <3>1
  <2>4. \A i \in IdsOf(queue \ kept) : i <= arrived'
    BY <1>1, <1>5, <2>1
  <2>5. QED  BY <1>1, <1>3, <2>3, <2>4 DEF FlushAccounts
<1>10. FileStampsDiffer /\ FileAccounts => CacheAccounts'
  <2>1. CacheInUse
    BY <1>1 DEF CacheInUse
  <2>2. FileStampsDiffer => IdsOf(queue) \subseteq IdsOf(queue') \cup delivered
    BY <1>1, <1>4 DEF IdsOf
  <2>3. Replaced = {}
    BY <1>1 DEF Replaced, MutexFree, NoFlush
  <2>4. QED  BY <1>1, <2>1, <2>2, <2>3 DEF CacheAccounts
<1>11. DiskAccounts => DiskAccounts'
  BY <1>1 DEF DiskAccounts, MutexFree, NoFlush
<1>12. AckedHeld'
  BY <1>1, <1>3 DEF AckedHeld, MutexFree
<1>13. GoneStays'
  <2>1. IdsOf(disk' \cup queue') \subseteq IdsOf(disk \cup queue)
    BY <1>1 DEF IdsOf
  <2>2. QED  BY <1>1, <2>1 DEF GoneStays
<1>14. QED  BY <1>6, <1>7, <1>8, <1>9, <1>10, <1>11, <1>12, <1>13

-----------------------------------------------------------------------------
(* The flush, and the crash.                                               *)

LEMMA FlushTruncatePreserves ==
    ASSUME FileShape, FlushTruncate PROVE FileShape' /\ (FileAccounts => FileAccounts')
<1> USE DEF FileShape, FileAccounts
<1>1. /\ UNCHANGED <<queue, clock, arrived, hand, batch, delivered, superseded,
                     failures, loaded, acked, gone, harm>>
      /\ disk' = {} /\ torn' = FALSE
      /\ flush.phase = "opening" /\ flush # NoFlush
      /\ flush' = [flush EXCEPT !.phase = "writing"]
  BY DEF FlushTruncate, vars, clientVars, historyVars, NoFlush
<1>2. /\ flush' \in [phase : {"idle", "opening", "writing"}, id : 0..MaxOps,
                     removed : SUBSET OpIds]
      /\ flush'.id = flush.id /\ flush'.removed = flush.removed
      /\ flush'.phase = "writing" /\ flush' # NoFlush
  BY <1>1 DEF FileTypeOK, NoFlush
<1>3. FileTypeOK'
  BY <1>1, <1>2 DEF FileTypeOK, TypeOK
<1>4. ArrivalsTell'
  <2>1. Held' \subseteq Held
    BY <1>1 DEF Held
  <2>2. QED  BY <1>1, <2>1, FewerHeld
<1>5. ReplaysAccount'
  BY <1>1 DEF ReplaysAccount
<1>6. FlushAccounts'
  BY <1>1, <1>2 DEF FlushAccounts
<1>7. CacheAccounts => CacheAccounts'
  BY <1>1, <1>2 DEF CacheAccounts, CacheInUse, Replaced
<1>8. DiskAccounts' /\ AckedHeld'
  BY <1>2 DEF DiskAccounts, AckedHeld, MutexFree
<1>9. GoneStays'
  BY <1>1 DEF GoneStays, IdsOf
<1>10. QED  BY <1>3, <1>4, <1>5, <1>6, <1>7, <1>8, <1>9

(* The file becomes the deque: what it acknowledges is in it, and what it  *)
(* reports as taken out is not.                                            *)
LEMMA FlushWritePreserves ==
    ASSUME FileShape, FlushWrite PROVE FileShape' /\ (FileAccounts => FileAccounts')
<1> USE DEF FileShape, FileAccounts
<1>1. /\ UNCHANGED <<queue, clock, arrived, hand, batch, delivered, failures, loaded>>
      /\ flush.phase = "writing" /\ flush # NoFlush
      /\ disk' = queue /\ torn' = FALSE /\ flush' = NoFlush
      /\ acked' = IF flush.id = 0 THEN acked ELSE acked \cup {flush.id}
      /\ superseded' = superseded \cup Replaced
      /\ gone' = gone \cup flush.removed
      /\ harm' = IF harm = "lost" THEN "lost" ELSE "none"
  BY DEF FlushWrite, NoFlush
<1>2. /\ NoFlush \in [phase : {"idle", "opening", "writing"}, id : 0..MaxOps,
                      removed : SUBSET OpIds]
      /\ NoFlush.id = 0 /\ NoFlush.removed = {} /\ NoFlush.phase = "idle"
  BY QueueAssumption, SMT DEF NoFlush
<1>3. flush.id \in 0..MaxOps /\ flush.removed \subseteq OpIds
      /\ (flush.id # 0 => flush.id \in OpIds)
  BY QueueAssumption, SMT DEF FileTypeOK, OpIds
<1>4. FileTypeOK'
  <2>1. superseded' \in SUBSET OpIds /\ gone' \in SUBSET OpIds /\ acked' \in SUBSET OpIds
    BY <1>1, <1>3 DEF FileTypeOK, TypeOK, Replaced
  <2>2. TypeOK'
    BY <1>1, <2>1 DEF FileTypeOK, TypeOK
  <2>3. QED  BY <1>1, <1>2, <2>1, <2>2 DEF FileTypeOK, TypeOK
<1>5. ArrivalsTell'
  <2>1. Held' \subseteq Held
    BY <1>1 DEF Held
  <2>2. QED  BY <1>1, <2>1, FewerHeld
<1>6. ReplaysAccount'
  BY <1>1 DEF ReplaysAccount
<1>7. FlushAccounts'
  BY <1>1, <1>2 DEF FlushAccounts, FileTypeOK, TypeOK
<1>8. FileAccounts /\ harm # "lost" =>
        acked' \subseteq IdsOf(queue) \cup delivered \cup superseded'
  BY <1>1 DEF CacheAccounts, CacheInUse, FlushAccounts
<1>9. FileAccounts => CacheAccounts' /\ DiskAccounts'
  BY <1>1, <1>8 DEF CacheAccounts, DiskAccounts
<1>10. FileAccounts => AckedHeld'
  <2>1. disk' \cup queue' = queue
    BY <1>1
  <2>2. QED  BY <1>1, <1>8, <2>1 DEF AckedHeld
<1>11. GoneStays'
  <2>1. disk' \cup queue' = queue
    BY <1>1
  <2>2. IdsOf(queue) \subseteq IdsOf(disk \cup queue)
    BY DEF IdsOf
  <2>3. IdsOf(queue) \cap gone' = {}
    BY <1>1, <2>2 DEF GoneStays, FlushAccounts
  <2>4. QED  BY <1>1, <2>1, <2>3 DEF GoneStays, FlushAccounts
<1>12. QED  BY <1>4, <1>5, <1>6, <1>7, <1>9, <1>10, <1>11

LEMMA FlushFailsPreserves ==
    ASSUME FileShape, FlushFails PROVE FileShape' /\ (FileAccounts => FileAccounts')
<1> USE DEF FileShape, FileAccounts
<1>1. /\ UNCHANGED <<queue, clock, arrived, hand, batch, delivered, failures, disk,
                     loaded, acked, gone>>
      /\ flush # NoFlush /\ flush' = NoFlush
      /\ superseded' = superseded \cup Replaced
      /\ \/ flush.phase = "writing" /\ torn' \in BOOLEAN
            /\ harm' = (IF harm = "lost" THEN "lost" ELSE "unsaved")
         \/ flush.phase # "writing" /\ torn' = torn /\ harm' = harm
  BY DEF FlushFails
<1>2. /\ NoFlush \in [phase : {"idle", "opening", "writing"}, id : 0..MaxOps,
                      removed : SUBSET OpIds]
      /\ NoFlush.id = 0 /\ NoFlush.removed = {} /\ NoFlush.phase = "idle"
  BY QueueAssumption, SMT DEF NoFlush
<1>3. FileTypeOK'
  <2>1. superseded' \in SUBSET OpIds
    BY <1>1 DEF FileTypeOK, TypeOK, Replaced
  <2>2. TypeOK'
    BY <1>1, <2>1 DEF FileTypeOK, TypeOK
  <2>3. torn' \in BOOLEAN /\ (torn' => disk' = {})
    BY <1>1 DEF FileTypeOK, FlushAccounts
  <2>4. harm' \in {"none", "unsaved", "lost"}
    BY <1>1 DEF FileTypeOK
  <2>5. QED  BY <1>1, <1>2, <2>2, <2>3, <2>4 DEF FileTypeOK
<1>4. ArrivalsTell'
  <2>1. Held' \subseteq Held
    BY <1>1 DEF Held
  <2>2. QED  BY <1>1, <2>1, FewerHeld
<1>5. ReplaysAccount'
  BY <1>1 DEF ReplaysAccount
<1>6. FlushAccounts'
  BY <1>1, <1>2 DEF FlushAccounts
<1>7. FileAccounts /\ harm' # "lost" =>
        acked \subseteq IdsOf(queue) \cup delivered \cup superseded'
  BY <1>1 DEF CacheAccounts, CacheInUse
<1>8. FileAccounts => CacheAccounts'
  BY <1>1, <1>7 DEF CacheAccounts
<1>9. DiskAccounts => DiskAccounts'
  BY <1>1 DEF DiskAccounts
<1>10. FileAccounts => AckedHeld'
  <2>1. IdsOf(queue) \subseteq IdsOf(disk \cup queue)
    BY DEF IdsOf
  <2>2. QED  BY <1>1, <1>7, <2>1 DEF AckedHeld
<1>11. GoneStays'
  BY <1>1 DEF GoneStays
<1>12. QED  BY <1>3, <1>4, <1>5, <1>6, <1>8, <1>9, <1>10, <1>11

(* Memory is gone; unless the file was being written, it accounts for all  *)
(* that was acknowledged.                                                  *)
LEMMA CrashPreserves ==
    ASSUME FileShape, Crash PROVE FileShape' /\ (FileAccounts => FileAccounts')
<1> USE DEF FileShape, FileAccounts
<1>1. /\ UNCHANGED <<clock, arrived, delivered, superseded, failures, disk, acked, gone>>
      /\ queue' = {} /\ loaded' = {} /\ flush' = NoFlush
      /\ hand' = [t \in Tasks |-> NoOp]
      /\ batch' = [d \in Drainers |-> IdleBatch]
      /\ torn' = torn \/ (flush.phase = "writing" /\ torn' \in BOOLEAN)
      /\ harm' = IF flush.phase = "writing" \/ harm = "unsaved" THEN "lost" ELSE harm
  BY DEF Crash
<1>2. /\ NoFlush \in [phase : {"idle", "opening", "writing"}, id : 0..MaxOps,
                      removed : SUBSET OpIds]
      /\ NoFlush.id = 0 /\ NoFlush.removed = {} /\ NoFlush.phase = "idle"
  BY QueueAssumption, SMT DEF NoFlush
<1>3. FileTypeOK'
  <2>1. IdleBatch \in Batch
    BY DEF IdleBatch, Batch
  <2>2. TypeOK'
    BY <1>1, <2>1 DEF FileTypeOK, TypeOK
  <2>3. torn' \in BOOLEAN /\ (torn' => disk' = {})
    BY <1>1 DEF FileTypeOK, FlushAccounts
  <2>4. harm' \in {"none", "unsaved", "lost"}
    BY <1>1 DEF FileTypeOK
  <2>5. QED  BY <1>1, <1>2, <2>2, <2>3, <2>4 DEF FileTypeOK
<1>4. ArrivalsTell'
  <2>1. Held' \subseteq Held
    BY <1>1 DEF Held, IdleBatch
  <2>2. QED  BY <1>1, <2>1, FewerHeld
<1>5. ReplaysAccount'
  BY <1>1 DEF ReplaysAccount, IdleBatch
<1>6. FlushAccounts'
  BY <1>1, <1>2 DEF FlushAccounts
<1>7. CacheAccounts'
  BY <1>1 DEF CacheAccounts, CacheInUse, IdleBatch
<1>8. FileAccounts /\ harm' # "lost" =>
        acked \subseteq IdsOf(disk) \cup delivered \cup superseded
  BY <1>1 DEF DiskAccounts, FileTypeOK
<1>9. FileAccounts => DiskAccounts'
  BY <1>1, <1>8 DEF DiskAccounts
<1>10. FileAccounts => AckedHeld'
  <2>1. disk' \cup queue' = disk
    BY <1>1
  <2>2. QED  BY <1>1, <1>8, <2>1 DEF AckedHeld
<1>11. GoneStays'
  <2>1. disk' \cup queue' \subseteq disk \cup queue
    BY <1>1
  <2>2. IdsOf(disk' \cup queue') \subseteq IdsOf(disk \cup queue)
    BY <2>1 DEF IdsOf
  <2>3. QED  BY <1>1, <2>2 DEF GoneStays
<1>12. QED  BY <1>3, <1>4, <1>5, <1>6, <1>7, <1>9, <1>10, <1>11

-----------------------------------------------------------------------------

LEMMA FileInductive ==
    ASSUME FileShape, [FileNext]_allVars
    PROVE  FileShape' /\ (FileStampsDiffer /\ FileAccounts => FileAccounts')
<1>1. CASE UNCHANGED allVars
  <2>1. Held' = Held
    BY <1>1 DEF Held, allVars, vars, fileVars, clientVars
  <2>2. FileShape'
    BY <1>1, <2>1 DEF FileShape, FileTypeOK, TypeOK, ArrivalsTell, ReplaysAccount,
       FlushAccounts, GoneStays, allVars, vars, fileVars, clientVars, historyVars
  <2>3. FileAccounts => FileAccounts'
    BY <1>1 DEF FileAccounts, CacheAccounts, CacheInUse, DiskAccounts, AckedHeld,
       MutexFree, Replaced, allVars, vars, fileVars, clientVars, historyVars
  <2>4. QED  BY <2>2, <2>3
<1>2. ASSUME NEW t \in Tasks,
             \/ EnqueueLoad(t) \/ EnqueueRejected(t) \/ EnqueueApply(t)
             \/ \E k \in Keys : Stamp(t, k) /\ UNCHANGED fileVars
      PROVE  FileShape' /\ (FileAccounts => FileAccounts')
  BY <1>2, EnqueueLoadPreserves, EnqueueRejectedPreserves, EnqueueApplyPreserves,
     FileStampPreserves
<1>3. ASSUME NEW d \in Drainers,
             \/ LoadAndSnapshot(d)
             \/ \E op \in batch[d].todo :
                   (ReplaySucceeds(d, op) \/ ReplayFails(d, op)) /\ UNCHANGED fileVars
             \/ FinalizeLoad(d) \/ FinalizeRejected(d) \/ FinalizeApply(d)
      PROVE  FileShape' /\ (FileStampsDiffer /\ FileAccounts => FileAccounts')
  BY <1>3, LoadAndSnapshotPreserves, FileOutcomePreserves, FinalizeLoadPreserves,
     FinalizeRejectedPreserves, FinalizeApplyPreserves
<1>4. CASE FlushTruncate \/ FlushWrite \/ FlushFails \/ Crash
  BY <1>4, FlushTruncatePreserves, FlushWritePreserves, FlushFailsPreserves,
     CrashPreserves
<1>5. QED  BY <1>1, <1>2, <1>3, <1>4 DEF FileNext, Calls

-----------------------------------------------------------------------------
(* A clock that strictly increases.                                        *)

(* All steps but a stamp and an enqueue add nothing to what is held.       *)
LEMMA HeldShrinks ==
    ASSUME FileShape,
           \/ \E t \in Tasks : EnqueueLoad(t) \/ EnqueueRejected(t)
           \/ \E d \in Drainers :
                 \/ LoadAndSnapshot(d) \/ FinalizeLoad(d) \/ FinalizeRejected(d)
                 \/ FinalizeApply(d)
                 \/ \E op \in batch[d].todo :
                       (ReplaySucceeds(d, op) \/ ReplayFails(d, op)) /\ UNCHANGED fileVars
           \/ FlushTruncate \/ FlushWrite \/ FlushFails \/ Crash
    PROVE  /\ Held' \subseteq Held
           /\ clock' = clock
           /\ \A t \in Tasks : hand'[t] = hand[t] \/ hand'[t] = NoOp
<1>0. batch \in [Drainers -> Batch] /\ hand \in [Tasks -> Stamped \cup {NoOp}]
  BY DEF FileShape, FileTypeOK, TypeOK
<1> DEFINE Shrinks ==
        /\ queue' \subseteq queue \cup disk
        /\ disk' \subseteq queue \cup disk
        /\ \A e \in Drainers : batch'[e].snap \subseteq batch[e].snap \cup queue \cup disk
        /\ clock' = clock
        /\ \A t \in Tasks : hand'[t] = hand[t] \/ hand'[t] = NoOp
<1>1. Shrinks
  <2>1. ASSUME NEW t \in Tasks, EnqueueLoad(t) \/ EnqueueRejected(t) PROVE Shrinks
    BY <1>0, <2>1 DEF EnqueueLoad, EnqueueRejected, LoadedCache, clientVars, fileVars
  <2>2. ASSUME NEW d \in Drainers,
               LoadAndSnapshot(d) \/ FinalizeLoad(d) \/ FinalizeRejected(d)
        PROVE  Shrinks
    <3>1. queue' \subseteq queue \cup disk /\ disk' = disk /\ clock' = clock /\ hand' = hand
      BY <2>2 DEF LoadAndSnapshot, FinalizeLoad, FinalizeRejected, LoadedCache, fileVars
    <3>2. \A e \in Drainers : batch'[e].snap \subseteq batch[e].snap \cup queue \cup disk
      <4>1. CASE LoadAndSnapshot(d)
        BY <1>0, <4>1 DEF LoadAndSnapshot, LoadedCache, IdleBatch
      <4>2. CASE FinalizeLoad(d)
        BY <1>0, <4>2 DEF FinalizeLoad, Batch
      <4>3. CASE FinalizeRejected(d)
        BY <1>0, <4>3 DEF FinalizeRejected, IdleBatch
      <4>4. QED  BY <2>2, <4>1, <4>2, <4>3
    <3>3. QED  BY <3>1, <3>2
  <2>3. ASSUME NEW d \in Drainers, FinalizeApply(d) PROVE Shrinks
    <3>1. queue' \subseteq queue /\ disk' = disk /\ clock' = clock /\ hand' = hand
          /\ batch' = [batch EXCEPT ![d] = IdleBatch]
      BY <2>3 DEF FinalizeApply, FinishBatch
    <3>2. QED  BY <1>0, <3>1 DEF IdleBatch
  <2>4. ASSUME NEW d \in Drainers, NEW op \in batch[d].todo,
               ReplaySucceeds(d, op) \/ ReplayFails(d, op), UNCHANGED fileVars
        PROVE  Shrinks
    <3>1. queue' = queue /\ disk' = disk /\ clock' = clock /\ hand' = hand
      BY <2>4 DEF ReplaySucceeds, ReplayFails, fileVars
    <3>2. \A e \in Drainers : batch'[e].snap = batch[e].snap
      BY <1>0, <2>4 DEF ReplaySucceeds, ReplayFails, Batch
    <3>3. QED  BY <3>1, <3>2
  <2>5. CASE FlushTruncate \/ FlushWrite \/ FlushFails
    BY <2>5 DEF FlushTruncate, FlushWrite, FlushFails, vars, clientVars
  <2>6. CASE Crash
    BY <1>0, <2>6 DEF Crash, IdleBatch
  <2>7. QED  BY <2>1, <2>2, <2>3, <2>4, <2>5, <2>6
<1>2. \A op \in Held' :
        op \in queue' \/ op \in disk' \/ \E d \in Drainers : op \in batch'[d].snap
  BY DEF Held
<1>3. \A op \in Held' : op \in Held
  BY <1>1, <1>2, HeldMembers
<1>4. QED  BY <1>1, <1>3

LEMMA FileKeepsFresh ==
    ASSUME Slip = 0, FileShape, StampsFresh(Held), [FileNext]_allVars
    PROVE  StampsFresh(Held)'
<1> USE DEF FileShape
<1>1. CASE UNCHANGED allVars
  <2>1. Held' = Held /\ clock' = clock /\ hand' = hand
    BY <1>1 DEF Held, allVars, vars, fileVars, clientVars
  <2>2. QED  BY <2>1 DEF StampsFresh
<1>2. ASSUME NEW t \in Tasks, NEW k \in Keys, Stamp(t, k), UNCHANGED fileVars
      PROVE  StampsFresh(Held)'
  <2>1. Held' = Held
    BY <1>2 DEF Stamp, Held, fileVars
  <2>2. clock' = clock + 1 /\ clock \in Nat
    BY <1>2, SMT DEF Stamp, FileTypeOK, TypeOK
  <2>3. \A a \in Held : a.at \in Nat
    BY HeldTyped DEF Op
  <2>4. hand'[t].at = clock /\ \A u \in Tasks : u # t => hand'[u] = hand[u]
    BY <1>2 DEF Stamp, FileTypeOK, TypeOK
  <2>5. \A u \in Tasks : hand[u] # NoOp => hand[u].at \in Nat
    BY DEF FileTypeOK, TypeOK, Stamped
  <2>6. QED  BY <2>1, <2>2, <2>3, <2>4, <2>5, SMT DEF StampsFresh
<1>3. ASSUME NEW t \in Tasks, EnqueueApply(t) PROVE StampsFresh(Held)'
  <2> DEFINE e == Entering(t)
  <2>1. e.at = hand[t].at /\ e.id = arrived + 1 /\ hand[t] # NoOp
    BY <1>3 DEF Entering, EnqueueApply, FileTypeOK
  <2> HIDE DEF e
  <2>2. /\ queue' = {op \in queue : op.key # hand[t].key} \cup {e}
        /\ disk' = disk /\ batch' = batch /\ clock' = clock
        /\ hand' = [hand EXCEPT ![t] = NoOp]
    BY <1>3 DEF EnqueueApply, e
  <2>3. hand'[t] = NoOp /\ \A u \in Tasks : u # t => hand'[u] = hand[u]
    BY <2>2 DEF FileTypeOK, TypeOK
  <2>4. Held' \subseteq Held \cup {e}
    BY <2>2, HeldMembers DEF Held
  <2>5. QED  BY <2>1, <2>2, <2>3, <2>4 DEF StampsFresh
<1>4. ASSUME Held' \subseteq Held, clock' = clock,
             \A t \in Tasks : hand'[t] = hand[t] \/ hand'[t] = NoOp
      PROVE  StampsFresh(Held)'
  BY <1>4 DEF StampsFresh
<1>5. QED  BY <1>1, <1>2, <1>3, <1>4, HeldShrinks DEF FileNext, Calls

-----------------------------------------------------------------------------

(* The shape of the file queue is kept by every call, every failing write  *)
(* and every crash, whatever the clock says: types, one operation for a    *)
(* key in cache and file, and nothing in either of them that a call took   *)
(* out.                                                                    *)
THEOREM FileShapeKept == FileSpec => []FileShape
<1>1. FileInit => FileShape
  BY FileInitEstablishes DEF FileInv
<1>2. FileShape /\ [FileNext]_allVars => FileShape'
  BY FileInductive
<1>3. QED  BY <1>1, <1>2, PTL DEF FileSpec

(* The inductive invariant of the file-backed queue, which also accounts   *)
(* for what was acknowledged, as long as stamps tell apart the operations  *)
(* that cache, file and replays hold.                                      *)
THEOREM FileInvariant == FileSpec /\ []FileStampsDiffer => []FileInv
<1>1. FileInit => FileInv
  BY FileInitEstablishes
<1>2. FileInv /\ FileStampsDiffer /\ [FileNext]_allVars => FileInv'
  BY FileInductive DEF FileInv
<1>3. QED  BY <1>1, <1>2, PTL DEF FileSpec

(* A clock that strictly increases gives every operation that cache, file  *)
(* and replays hold a stamp of its own.                                    *)
THEOREM FileClockTellsApart == ASSUME Slip = 0 PROVE FileSpec => []FileStampsDiffer
<1>1. FileInit => StampsFresh(Held)
  BY HeldMembers DEF FileInit, Init, StampsFresh, IdleBatch
<1>2. FileShape /\ StampsFresh(Held) /\ [FileNext]_allVars => StampsFresh(Held)'
  BY FileKeepsFresh
<1>3. StampsFresh(Held) => FileStampsDiffer
  BY DEF StampsFresh, FileStampsDiffer, TellsApart, FullKey
<1>4. QED  BY <1>1, <1>2, <1>3, FileShapeKept, PTL DEF FileSpec

(* What enqueue acknowledged is in the file until it is delivered or       *)
(* replaced, unless a write of the file failed half-way.                   *)
THEOREM AckedStaysOnDisk == FileSpec /\ []FileStampsDiffer => []AckedOnDisk
<1>1. FileInv => AckedOnDisk
  BY DEF FileInv, FileAccounts, DiskAccounts, AckedOnDisk, MutexFree, NoFlush
<1>2. QED  BY <1>1, FileInvariant, PTL

(* A failed write alone loses nothing that was acknowledged: the cache or  *)
(* the file still has it.                                                  *)
THEOREM AckedStaysHeld == FileSpec /\ []FileStampsDiffer => []AckedHeld
<1>1. FileInv => AckedHeld
  BY DEF FileInv, FileAccounts
<1>2. QED  BY <1>1, FileInvariant, PTL

(* What a finished call took out of the queue is never queued again, even  *)
(* across crashes and reloads, and whatever the clock says.                *)
THEOREM FinishedStaysOut == FileSpec => []NoneComesBack
<1>1. FileShape => NoneComesBack
  BY DEF FileShape, GoneStays, NoneComesBack, IdsOf
<1>2. QED  BY <1>1, FileShapeKept, PTL
-----------------------------------------------------------------------------
(* Without misfortune the file is a queue as the trait promises it.        *)

(* The abstract queue and its history, as the refinement mapping has them. *)
OnFile == {[key |-> op.key, id |-> op.id] : op \in Committed}

Out == superseded \cup (IF flush.phase = "writing" THEN Replaced ELSE {})

LEMMA CommittedMembers ==
    /\ \A p : p \in OnFile <=> \E op \in Committed : p = Shown(op)
    /\ \A i : i \in OnDisk!Accepted <=>
          (\E op \in Committed : i = op.id) \/ i \in delivered \/ i \in Out
<1>1. \A p : p \in OnFile <=> \E op \in Committed : p = Shown(op)
  BY DEF OnFile, Shown
<1>2. OnDisk!Accepted = {p.id : p \in OnFile} \cup delivered \cup Out
  BY DEF OnDisk!Accepted, OnFile, Out
<1>3. \A i : i \in {p.id : p \in OnFile} <=> \E op \in Committed : i = op.id
  BY <1>1, ShownFields
<1>4. QED  BY <1>1, <1>2, <1>3

LEMMA CommittedMembersNext ==
    /\ \A p : p \in OnFile' <=> \E op \in Committed' : p = Shown(op)
    /\ \A i : i \in OnDisk!Accepted' <=>
          (\E op \in Committed' : i = op.id) \/ i \in delivered' \/ i \in Out'
<1>1. \A p : p \in OnFile' <=> \E op \in Committed' : p = Shown(op)
  BY DEF OnFile, Shown
<1>2. OnDisk!Accepted' = {p.id : p \in OnFile'} \cup delivered' \cup Out'
  BY DEF OnDisk!Accepted, OnFile, Out
<1>3. \A i : i \in {p.id : p \in OnFile'} <=> \E op \in Committed' : i = op.id
  BY <1>1, ShownFields
<1>4. QED  BY <1>1, <1>2, <1>3

LEMMA CommittedTyped == ASSUME FileShape PROVE OnDisk!Accepted \subseteq OpIds
<1>1. Committed \subseteq Op /\ delivered \subseteq OpIds
  BY DEF Committed, FileShape, FileTypeOK, TypeOK
<1>2. Out \subseteq OpIds
  BY DEF Out, Replaced, FileShape, FileTypeOK, TypeOK
<1>3. QED  BY <1>1, <1>2, CommittedMembers DEF Op

(* A step that commits nothing.                                            *)
Quiet ==
    /\ Committed' = Committed
    /\ Out' = Out
    /\ delivered' = delivered

LEMMA QuietStutters ==
    ASSUME Quiet
    PROVE  UNCHANGED OnDisk!avars /\ OnDisk!Accepted' = OnDisk!Accepted
<1>1. OnFile' = OnFile
  BY DEF Quiet, OnFile
<1>2. OnDisk!Accepted' = OnDisk!Accepted
  BY CommittedMembers, CommittedMembersNext DEF Quiet
<1>3. OnDisk!avars' = OnDisk!avars
  BY <1>1 DEF Quiet, OnDisk!avars, OnFile, Out
<1>4. QED  BY <1>2, <1>3

(* Whoever holds the lock and uses the cache finds the file in it, and a   *)
(* load puts it there.                                                     *)
LEMMA LoadsTheFile ==
    ASSUME CacheMirrorsDisk, MutexFree PROVE LoadedCache = disk
  BY DEF CacheMirrorsDisk, LoadedCache, CacheInUse

(* The calls that commit nothing, by what they do to cache and flush.      *)
LEMMA QuietCalls ==
    ASSUME FileShape, CacheMirrorsDisk,
           \/ \E t \in Tasks : \/ EnqueueLoad(t) \/ EnqueueRejected(t)
                               \/ \E k \in Keys : Stamp(t, k) /\ UNCHANGED fileVars
           \/ \E d \in Drainers :
                 \/ LoadAndSnapshot(d) \/ FinalizeLoad(d) \/ FinalizeRejected(d)
                 \/ \E op \in batch[d].todo : ReplayFails(d, op) /\ UNCHANGED fileVars
    PROVE  /\ Quiet /\ CacheMirrorsDisk'
           /\ flush' = flush /\ arrived' = arrived
           /\ \A d \in Drainers : batch'[d].snap \in {batch[d].snap, {}, Committed}
<1>0. batch \in [Drainers -> Batch] /\ flush \in [phase : {"idle", "opening", "writing"},
          id : 0..MaxOps, removed : SUBSET OpIds]
  BY DEF FileShape, FileTypeOK, TypeOK
<1>1. ASSUME NEW t \in Tasks, EnqueueLoad(t)
      PROVE  /\ Quiet /\ CacheMirrorsDisk'
             /\ flush' = flush /\ arrived' = arrived /\ batch' = batch
  <2>1. /\ MutexFree /\ queue' = disk
        /\ UNCHANGED <<disk, flush, superseded, delivered, arrived, batch>>
    BY <1>1, LoadsTheFile DEF EnqueueLoad, clientVars
  <2>2. QED
    BY <2>1 DEF Quiet, Committed, Out, CacheMirrorsDisk, MutexFree, NoFlush, Replaced
<1>2. ASSUME NEW d \in Drainers, LoadAndSnapshot(d) \/ FinalizeLoad(d)
      PROVE  /\ Quiet /\ CacheMirrorsDisk'
             /\ flush' = flush /\ arrived' = arrived
             /\ \A e \in Drainers : batch'[e].snap \in {batch[e].snap, Committed}
  <2>1. /\ MutexFree /\ queue' = disk /\ LoadedCache = disk /\ Committed = disk
        /\ UNCHANGED <<disk, flush, superseded, delivered, arrived>>
    BY <1>2, LoadsTheFile DEF LoadAndSnapshot, FinalizeLoad, fileVars, Committed,
       MutexFree, NoFlush
  <2>2. Quiet /\ CacheMirrorsDisk'
    BY <2>1 DEF Quiet, Committed, Out, CacheMirrorsDisk, MutexFree, NoFlush, Replaced
  <2>3. CASE LoadAndSnapshot(d)
    BY <1>0, <2>1, <2>2, <2>3 DEF LoadAndSnapshot, IdleBatch
  <2>4. CASE FinalizeLoad(d)
    BY <1>0, <2>1, <2>2, <2>4 DEF FinalizeLoad, Batch
  <2>5. QED  BY <1>2, <2>3, <2>4
<1>3. ASSUME UNCHANGED <<queue, disk, flush, loaded, superseded, delivered, arrived>>,
             \A d \in Drainers : batch'[d].phase \in {batch[d].phase, "idle"}
      PROVE  Quiet /\ CacheMirrorsDisk'
  <2>1. CacheInUse' => CacheInUse
    BY <1>3 DEF CacheInUse
  <2>2. CacheMirrorsDisk'
    BY <1>3, <2>1 DEF CacheMirrorsDisk, MutexFree
  <2>3. Quiet
    BY <1>3 DEF Quiet, Committed, Out, Replaced
  <2>4. QED  BY <2>2, <2>3
<1>4. ASSUME NEW t \in Tasks,
             EnqueueRejected(t) \/ \E k \in Keys : Stamp(t, k) /\ UNCHANGED fileVars
      PROVE  /\ UNCHANGED <<queue, disk, flush, loaded, superseded, delivered, arrived>>
             /\ batch' = batch
  BY <1>4 DEF EnqueueRejected, Stamp, fileVars
<1>5. ASSUME NEW d \in Drainers,
             \/ FinalizeRejected(d)
             \/ \E op \in batch[d].todo : ReplayFails(d, op) /\ UNCHANGED fileVars
      PROVE  /\ UNCHANGED <<queue, disk, flush, loaded, superseded, delivered, arrived>>
             /\ \A e \in Drainers : /\ batch'[e].phase \in {batch[e].phase, "idle"}
                                   /\ batch'[e].snap \in {batch[e].snap, {}}
  <2>1. UNCHANGED <<queue, disk, flush, loaded, superseded, delivered, arrived>>
    BY <1>5 DEF FinalizeRejected, ReplayFails, fileVars
  <2>2. CASE FinalizeRejected(d)
    BY <1>0, <2>1, <2>2 DEF FinalizeRejected, IdleBatch
  <2>3. ASSUME NEW op \in batch[d].todo, ReplayFails(d, op)
        PROVE  \A e \in Drainers : /\ batch'[e].phase = batch[e].phase
                                  /\ batch'[e].snap = batch[e].snap
    BY <1>0, <2>3 DEF ReplayFails, Batch
  <2>4. QED  BY <1>5, <2>1, <2>2, <2>3
<1>6. ASSUME NEW t \in Tasks, \/ EnqueueLoad(t) \/ EnqueueRejected(t)
                              \/ \E k \in Keys : Stamp(t, k) /\ UNCHANGED fileVars
      PROVE  /\ Quiet /\ CacheMirrorsDisk'
             /\ flush' = flush /\ arrived' = arrived
             /\ batch' = batch
  <2>1. CASE EnqueueLoad(t)
    BY <1>1, <2>1
  <2>2. CASE ~EnqueueLoad(t)
    BY <1>3, <1>4, <1>6, <2>2
  <2>3. QED  BY <2>1, <2>2
<1>7. ASSUME NEW d \in Drainers,
             \/ LoadAndSnapshot(d) \/ FinalizeLoad(d) \/ FinalizeRejected(d)
             \/ \E op \in batch[d].todo : ReplayFails(d, op) /\ UNCHANGED fileVars
      PROVE  /\ Quiet /\ CacheMirrorsDisk'
             /\ flush' = flush /\ arrived' = arrived
             /\ \A e \in Drainers : batch'[e].snap \in {batch[e].snap, {}, Committed}
  <2>1. CASE LoadAndSnapshot(d) \/ FinalizeLoad(d)
    BY <1>2, <2>1
  <2>2. CASE ~(LoadAndSnapshot(d) \/ FinalizeLoad(d))
    BY <1>3, <1>5, <1>7, <2>2
  <2>3. QED  BY <2>1, <2>2
<1>8. QED  BY <1>6, <1>7

(* So they keep what replays may know.                                     *)
LEMMA QuietKeepsFirst ==
    ASSUME CommittedFirst, Quiet, arrived' = arrived,
           flush' = flush,
           \A d \in Drainers : batch'[d].snap \in {batch[d].snap, {}, Committed}
    PROVE  CommittedFirst'
<1>1. OnDisk!Accepted' = OnDisk!Accepted
  BY QuietStutters
<1>2. IdsOf(Committed) \subseteq OnDisk!Accepted /\ IdsOf({}) = {}
  BY CommittedMembers, IdsMembers DEF IdsOf
<1>3. QED  BY <1>1, <1>2 DEF CommittedFirst

(* The change an enqueue is about to commit.                               *)
LEMMA EnqueueApplyAhead ==
    ASSUME FileShape, DurableInv, NEW t \in Tasks, EnqueueApply(t)
    PROVE  Quiet /\ DurableInv'
<1> DEFINE new == Entering(t)
<1>1. /\ queue = disk /\ MutexFree /\ arrived \in Nat /\ arrived' = arrived + 1
      /\ flush' = [phase |-> "opening", id |-> arrived + 1,
                   removed |-> IdsOf({op \in disk : op.key = hand[t].key})]
      /\ queue' = {op \in disk : op.key # hand[t].key} \cup {new}
      /\ UNCHANGED <<disk, superseded, delivered, batch>>
  <2>1. queue = disk /\ MutexFree
    BY DEF EnqueueApply, DurableInv, CacheMirrorsDisk, CacheInUse
  <2>2. arrived \in Nat
    BY DEF FileShape, FileTypeOK, TypeOK
  <2>3. QED  BY <2>1, <2>2 DEF EnqueueApply
<1>2. /\ flush'.phase = "opening" /\ flush'.id = arrived + 1 /\ flush' # NoFlush
      /\ flush'.removed = IdsOf({op \in disk : op.key = hand[t].key})
      /\ flush.phase = "idle"
  BY <1>1 DEF MutexFree, NoFlush
<1>3. new.id = arrived + 1 /\ new.key = hand[t].key
  BY DEF Entering
<1>4. Quiet
  BY <1>1, <1>2 DEF Quiet, Committed, Out
<1>5. CacheMirrorsDisk'
  <2>1. flush'.id # 0 /\ new \in queue'
    BY <1>1, <1>2
  <2>2. /\ queue' = {op \in disk' : op.key # new.key} \cup {new}
        /\ flush'.removed = IdsOf({op \in disk' : op.key = new.key})
    BY <1>1, <1>2, <1>3
  <2> HIDE DEF new
  <2>3. QED  BY <1>2, <1>3, <2>1, <2>2 DEF CacheMirrorsDisk, MutexFree
<1>6. CommittedFirst'
  <2>1. OnDisk!Accepted' = OnDisk!Accepted
    BY <1>4, QuietStutters
  <2>2. \A i \in OnDisk!Accepted : i \in Nat /\ i <= arrived
    BY CommittedTyped DEF DurableInv, CommittedFirst, OpIds
  <2>3. QED
    BY <1>1, <1>2, <2>1, <2>2 DEF DurableInv, CommittedFirst
<1>7. QED  BY <1>4, <1>5, <1>6 DEF DurableInv

(* The change a finalize is about to commit.                               *)
LEMMA FinalizeApplyAhead ==
    ASSUME FileShape, FileStampsDiffer, DurableInv, NEW d \in Drainers, FinalizeApply(d)
    PROVE  Quiet /\ DurableInv'
<1>1. /\ queue = disk /\ MutexFree /\ batch[d].phase = "finalizing"
      /\ flush' = [NoFlush EXCEPT !.phase = "opening", !.removed = IdsOf(queue \ KeptOf(d))]
      /\ queue' = KeptOf(d)
      /\ batch' = [batch EXCEPT ![d] = IdleBatch]
      /\ UNCHANGED <<arrived, disk, superseded, delivered>>
  BY DEF FinalizeApply, FinishBatch, DurableInv, CacheMirrorsDisk, CacheInUse, KeptOf
<1>2. /\ flush'.phase = "opening" /\ flush'.id = 0 /\ flush' # NoFlush
      /\ flush.phase = "idle"
  BY <1>1 DEF MutexFree, NoFlush
<1>3. Quiet
  BY <1>1, <1>2 DEF Quiet, Committed, Out
<1>4. /\ KeptOf(d) \subseteq disk
      /\ \A op \in disk \ KeptOf(d) : op.id \in delivered
  BY <1>1, FileKeptOrDelivered DEF KeptOf
<1>5. CacheMirrorsDisk'
  BY <1>1, <1>2, <1>4 DEF CacheMirrorsDisk, MutexFree
<1>6. CommittedFirst'
  <2>1. OnDisk!Accepted' = OnDisk!Accepted
    BY <1>3, QuietStutters
  <2>2. 0 \notin OnDisk!Accepted
    BY CommittedTyped DEF OpIds
  <2>3. \A e \in Drainers : batch'[e].snap \in {batch[e].snap, {}}
    BY <1>1 DEF IdleBatch, FileShape, FileTypeOK, TypeOK
  <2>4. IdsOf({}) = {}
    BY DEF IdsOf
  <2>5. QED
    BY <1>1, <1>2, <2>1, <2>2, <2>3, <2>4 DEF DurableInv, CommittedFirst
<1>7. QED  BY <1>3, <1>5, <1>6 DEF DurableInv

(* What a replay delivers was committed before.                            *)
LEMMA ReplayDelivers ==
    ASSUME FileShape, DurableInv, NEW d \in Drainers, NEW op \in batch[d].todo,
           ReplaySucceeds(d, op), UNCHANGED fileVars
    PROVE  OnDisk!ANext /\ DurableInv'
<1>1. /\ UNCHANGED <<queue, arrived, superseded, disk, flush, loaded>>
      /\ batch' = [batch EXCEPT ![d].todo = @ \ {op}]
      /\ delivered' = delivered \cup {op.id}
  BY DEF ReplaySucceeds, fileVars
<1>2. \A e \in Drainers : /\ batch'[e].snap = batch[e].snap
                          /\ batch'[e].phase = batch[e].phase
  BY <1>1 DEF FileShape, FileTypeOK, TypeOK, Batch
<1>3. op.id \in OnDisk!Accepted
  <2>1. op \in batch[d].snap
    BY DEF FileShape, ReplaysAccount
  <2>2. QED  BY <2>1, IdsMembers DEF DurableInv, CommittedFirst
<1>4. Committed' = Committed /\ Out' = Out
  BY <1>1 DEF Committed, Out, Replaced
<1>5. OnDisk!ANext
  <2>1. OnFile' = OnFile
    BY <1>4 DEF OnFile
  <2>2. OnDisk!ADeliver(op.id)
    BY <1>1, <1>3, <1>4, <2>1 DEF OnDisk!ADeliver, OnFile, Out
  <2>3. QED  BY <1>3, <2>2 DEF OnDisk!ANext
<1>6. OnDisk!Accepted' = OnDisk!Accepted
  BY <1>1, <1>3, <1>4, CommittedMembers, CommittedMembersNext
<1>7. CommittedFirst'
  BY <1>1, <1>2, <1>6 DEF DurableInv, CommittedFirst
<1>8. CacheMirrorsDisk'
  <2>1. CacheInUse' => CacheInUse
    BY <1>1, <1>2 DEF CacheInUse
  <2>2. QED  BY <1>1, <2>1 DEF DurableInv, CacheMirrorsDisk, MutexFree
<1>9. QED  BY <1>5, <1>7, <1>8 DEF DurableInv

(* The commit point.                                                       *)
LEMMA TruncateCommits ==
    ASSUME FileShape, DurableInv, FlushTruncate
    PROVE  OnDisk!ANext /\ DurableInv'
<1>1. /\ flush.phase = "opening" /\ flush'.phase = "writing" /\ flush' # NoFlush
      /\ flush'.id = flush.id /\ flush'.removed = flush.removed
      /\ UNCHANGED <<queue, arrived, superseded, delivered, batch>>
  BY DEF FlushTruncate, FileShape, FileTypeOK, vars, clientVars, NoFlush
<1>2. Committed = disk /\ Committed' = queue
  BY <1>1 DEF Committed
<1>3. Out = superseded /\ Out' = superseded \cup Replaced
  BY <1>1 DEF Out, Replaced
<1>4. \A a \in queue, b \in disk : a.id = b.id => a = b
  BY HeldMembers DEF FileShape, ArrivalsTell
<1>5. CacheMirrorsDisk'
  BY <1>1 DEF CacheMirrorsDisk, MutexFree
<1>6. \A i \in OnDisk!Accepted' : i <= arrived
  <2>1. \A i : i \in Out' => i \in OnDisk!Accepted \/ i \in flush.removed
    BY <1>3, CommittedMembers DEF Replaced
  <2>2. \A op \in queue : op.id <= arrived
    BY HeldMembers DEF FileShape, ArrivalsTell
  <2>3. \A i \in flush.removed : i <= arrived
    BY DEF FileShape, FlushAccounts
  <2>4. \A i \in delivered : i \in OnDisk!Accepted
    BY CommittedMembers
  <2>5. QED
    BY <1>1, <1>2, <2>1, <2>2, <2>3, <2>4, CommittedMembersNext
       DEF DurableInv, CommittedFirst
<1>7. CASE flush.id = 0
  <2> DEFINE dropped == {p \in OnFile : \E op \in disk \ queue : p = Shown(op)}
  <2>1. /\ queue \subseteq disk
        /\ \A op \in disk \ queue : op.id \in delivered
    BY <1>1, <1>7 DEF DurableInv, CacheMirrorsDisk
  <2>2. Out' = Out
    BY <1>3, <1>7 DEF Replaced
  <2>3. \A a, b \in disk : Shown(a) = Shown(b) => a = b
    BY ShownFields, HeldMembers DEF FileShape, ArrivalsTell
  <2>4. OnFile' = OnFile \ dropped
    BY <1>2, <2>1, <2>3, CommittedMembers, CommittedMembersNext
  <2>5. \A p \in dropped : p.id \in delivered
    BY <2>1, ShownFields
  <2>6. dropped \in SUBSET OnFile
    OBVIOUS
  <2> HIDE DEF dropped
  <2>7. OnDisk!ADrop(dropped)
    BY <1>1, <2>2, <2>4, <2>5 DEF OnDisk!ADrop, OnFile, Out
  <2>8. OnDisk!ANext
    <3>1. \E o \in SUBSET OnFile : OnDisk!ADrop(o)
      BY <2>6, <2>7 DEF OnDisk!ADrop
    <3>2. QED  BY <3>1 DEF OnDisk!ANext, OnFile
  <2>9. \A i \in OnDisk!Accepted : i \in OnDisk!Accepted'
    BY <1>1, <1>2, <2>1, <2>2, CommittedMembers, CommittedMembersNext
  <2>10. CommittedFirst'
    BY <1>1, <1>6, <2>9 DEF DurableInv, CommittedFirst
  <2>11. QED  BY <1>5, <2>8, <2>10 DEF DurableInv
<1>8. CASE flush.id # 0
  <2>1. PICK new \in queue :
           /\ new.id = flush.id
           /\ queue = {op \in disk : op.key # new.key} \cup {new}
           /\ flush.removed = IdsOf({op \in disk : op.key = new.key})
    BY <1>1, <1>8 DEF DurableInv, CacheMirrorsDisk
  <2>2. new.key \in Keys /\ new.id \in OpIds
    BY DEF FileShape, FileTypeOK, TypeOK, Op
  <2>3. new.id \notin OnDisk!Accepted
    BY <1>1, <2>1 DEF DurableInv, CommittedFirst
  <2>4. OnFile' = {p \in OnFile : p.key # new.key} \cup {Shown(new)}
    <3>1. \A p : p \in OnFile' <=> \E op \in queue : p = Shown(op)
      BY <1>2, CommittedMembersNext
    <3>2. \A p : p \in OnFile <=> \E op \in disk : p = Shown(op)
      BY <1>2, CommittedMembers
    <3>3. QED  BY <2>1, <3>1, <3>2, ShownFields
  <2>5. Out' = Out \cup {p.id : p \in {q \in OnFile : q.key = new.key}}
    <3>1. \A i : i \in flush.removed <=> \E op \in disk : op.key = new.key /\ i = op.id
      BY <2>1, IdsMembers
    <3>2. \A i : i \in flush.removed <=> \E p \in OnFile : p.key = new.key /\ i = p.id
      BY <1>2, <3>1, CommittedMembers, ShownFields
    <3>3. Out' = Out \cup flush.removed
      BY <1>3, <1>8 DEF Replaced
    <3>4. flush.removed = {p.id : p \in {q \in OnFile : q.key = new.key}}
      BY <3>2
    <3>5. QED  BY <3>3, <3>4
  <2>6. OnDisk!AEnqueue(new.key, new.id)
    BY <1>1, <2>3, <2>4, <2>5 DEF OnDisk!AEnqueue, OnFile, Out, Shown
  <2>7. OnDisk!ANext
    BY <2>2, <2>6 DEF OnDisk!ANext
  <2>8. \A i \in OnDisk!Accepted : i \in OnDisk!Accepted'
    <3>1. \A op \in disk : op \in queue \/ op.id \in flush.removed
      BY <2>1, IdsMembers
    <3>2. \A i : i \in flush.removed \/ i \in Out => i \in Out'
      BY <1>3, <1>8 DEF Replaced
    <3>3. QED
      BY <1>1, <1>2, <3>1, <3>2, CommittedMembers, CommittedMembersNext
  <2>9. CommittedFirst'
    BY <1>1, <1>6, <2>8 DEF DurableInv, CommittedFirst
  <2>10. QED  BY <1>5, <2>7, <2>9 DEF DurableInv
<1>9. QED  BY <1>7, <1>8

(* The end of a flush, and a crash that spares it.                         *)
LEMMA WriteOrSparedCrash ==
    ASSUME FileShape, DurableInv, FlushWrite \/ (flush.phase # "writing" /\ Crash)
    PROVE  Quiet /\ DurableInv'
<1>1. /\ UNCHANGED <<delivered, arrived>>
      /\ flush' = NoFlush /\ flush'.phase = "idle"
      /\ disk' = Committed /\ Out' = Out
      /\ MutexFree' /\ CacheInUse' => queue' = disk'
      /\ \A d \in Drainers : batch'[d].snap \in {batch[d].snap, {}}
  <2>1. CASE FlushWrite
    BY <2>1 DEF FlushWrite, NoFlush, Committed, Out
  <2>2. CASE flush.phase # "writing" /\ Crash
    BY <2>2 DEF Crash, NoFlush, Committed, Out, CacheInUse, IdleBatch
  <2>3. QED  BY <2>1, <2>2
<1>2. Quiet
  BY <1>1 DEF Quiet, Committed
<1>3. OnDisk!Accepted' = OnDisk!Accepted
  BY <1>2, QuietStutters
<1>4. IdsOf({}) = {}
  BY DEF IdsOf
<1>5. CommittedFirst'
  BY <1>1, <1>3, <1>4 DEF DurableInv, CommittedFirst
<1>6. CacheMirrorsDisk'
  BY <1>1 DEF CacheMirrorsDisk
<1>7. QED  BY <1>2, <1>5, <1>6 DEF DurableInv

LEMMA DurableInit ==
    ASSUME FileInit PROVE DurableInv /\ OnDisk!AInit
<1>1. /\ queue = {} /\ disk = {} /\ delivered = {} /\ superseded = {}
      /\ flush = NoFlush /\ flush.phase = "idle" /\ loaded = {}
      /\ \A d \in Drainers : batch[d].snap = {} /\ batch[d].phase = "idle"
  BY DEF FileInit, Init, NoFlush, IdleBatch
<1>2. Committed = {} /\ Out = {}
  BY <1>1 DEF Committed, Out
<1>3. IdsOf({}) = {}
  BY DEF IdsOf
<1>4. OnDisk!Accepted = {}
  BY <1>1, <1>2, CommittedMembers
<1>5. DurableInv
  BY <1>1, <1>3, <1>4 DEF DurableInv, CacheMirrorsDisk, CommittedFirst
<1>6. OnFile = {}
  BY <1>2 DEF OnFile
<1>7. QED  BY <1>1, <1>2, <1>5, <1>6 DEF OnDisk!AInit, OnFile, Out

(* Every step that is spared keeps the correspondence of cache and file,   *)
(* and is a step of the trait or commits nothing.                          *)
LEMMA DurableStep ==
    ASSUME FileShape, FileStampsDiffer, DurableInv, DurableNext \/ UNCHANGED allVars
    PROVE  DurableInv' /\ [OnDisk!ANext]_(OnDisk!avars)
<1>1. CASE UNCHANGED allVars
  <2>1. UNCHANGED <<queue, disk, flush, loaded, batch, arrived, delivered, superseded>>
    BY <1>1 DEF allVars, vars, clientVars, fileVars
  <2>2. Quiet
    BY <2>1 DEF Quiet, Committed, Out, Replaced
  <2>3. OnDisk!Accepted' = OnDisk!Accepted
    BY <2>2, QuietStutters
  <2>4. CommittedFirst'
    BY <2>1, <2>3 DEF DurableInv, CommittedFirst
  <2>5. CacheMirrorsDisk'
    BY <2>1 DEF DurableInv, CacheMirrorsDisk, MutexFree, CacheInUse
  <2>6. QED  BY <2>2, <2>4, <2>5, QuietStutters DEF DurableInv
<1>2. ASSUME NEW t \in Tasks,
             \/ EnqueueLoad(t) \/ EnqueueRejected(t)
             \/ \E k \in Keys : Stamp(t, k) /\ UNCHANGED fileVars
      PROVE  Quiet /\ DurableInv'
  BY <1>2, QuietCalls, QuietKeepsFirst DEF DurableInv
<1>3. ASSUME NEW d \in Drainers,
             \/ LoadAndSnapshot(d) \/ FinalizeLoad(d) \/ FinalizeRejected(d)
             \/ \E op \in batch[d].todo : ReplayFails(d, op) /\ UNCHANGED fileVars
      PROVE  Quiet /\ DurableInv'
  BY <1>3, QuietCalls, QuietKeepsFirst DEF DurableInv
<1>4. ASSUME NEW t \in Tasks, EnqueueApply(t) PROVE Quiet /\ DurableInv'
  BY <1>4, EnqueueApplyAhead
<1>5. ASSUME NEW d \in Drainers, FinalizeApply(d) PROVE Quiet /\ DurableInv'
  BY <1>5, FinalizeApplyAhead
<1>6. ASSUME NEW d \in Drainers, NEW op \in batch[d].todo,
             ReplaySucceeds(d, op), UNCHANGED fileVars
      PROVE  OnDisk!ANext /\ DurableInv'
  BY <1>6, ReplayDelivers
<1>7. CASE Calls
  <2>1. (Quiet \/ OnDisk!ANext) /\ DurableInv'
    BY <1>2, <1>3, <1>4, <1>5, <1>6, <1>7 DEF Calls
  <2>2. QED  BY <2>1, QuietStutters
<1>8. CASE FlushTruncate
  BY <1>8, TruncateCommits
<1>9. CASE FlushWrite \/ (flush.phase # "writing" /\ Crash)
  BY <1>9, WriteOrSparedCrash, QuietStutters
<1>10. QED  BY <1>1, <1>7, <1>8, <1>9 DEF DurableNext

(* What replays hold stays accounted for, whatever writes and crashes do.  *)
LEMMA ReplaysStayKnown ==
    ASSUME FileShape, FileStampsDiffer, ReplaysKnown, [FileNext]_allVars
    PROVE  ReplaysKnown'
<1> DEFINE Kept(i) == i \in IdsOf(queue) \/ i \in delivered \/ i \in superseded
                          \/ i \in Replaced
<1>0. /\ batch \in [Drainers -> Batch] /\ arrived \in Nat
      /\ MutexFree => Replaced = {}
  BY DEF FileShape, FileTypeOK, TypeOK, MutexFree, NoFlush, Replaced
<1>1. ASSUME \A i : Kept(i) => Kept(i)',
             \A d \in Drainers : batch'[d].snap \in {batch[d].snap, {}, queue'},
             \A i \in delivered' \cup superseded' : i <= arrived'
      PROVE  ReplaysKnown'
  <2>1. \A d \in Drainers : \A i \in IdsOf(batch[d].snap) : Kept(i)
    BY DEF ReplaysKnown
  <2>2. \A i \in IdsOf(queue') : Kept(i)'
    OBVIOUS
  <2>3. IdsOf({}) = {}
    BY DEF IdsOf
  <2>4. \A d \in Drainers : \A i \in IdsOf(batch'[d].snap) : Kept(i)'
    BY <1>1, <2>1, <2>2, <2>3
  <2>5. QED  BY <1>1, <2>4 DEF ReplaysKnown
<1> HIDE DEF Kept
<1>2. ASSUME queue \subseteq queue',
             UNCHANGED <<delivered, superseded, arrived, flush>>
      PROVE  /\ \A i : Kept(i) => Kept(i)'
             /\ \A i \in delivered' \cup superseded' : i <= arrived'
  BY <1>2 DEF Kept, IdsOf, Replaced, ReplaysKnown
<1>3. ASSUME NEW t \in Tasks, EnqueueLoad(t) PROVE ReplaysKnown'
  <2>1. /\ queue \subseteq queue' /\ batch' = batch
        /\ UNCHANGED <<delivered, superseded, arrived, flush>>
    BY <1>3 DEF EnqueueLoad, LoadedCache, clientVars
  <2>2. QED  BY <1>1, <1>2, <2>1
<1>4. ASSUME NEW t \in Tasks,
             EnqueueRejected(t) \/ \E k \in Keys : Stamp(t, k) /\ UNCHANGED fileVars
      PROVE  ReplaysKnown'
  <2>1. UNCHANGED <<queue, batch, delivered, superseded, arrived, flush>>
    BY <1>4 DEF EnqueueRejected, Stamp, fileVars
  <2>2. QED  BY <1>1, <1>2, <2>1
<1>5. ASSUME NEW t \in Tasks, EnqueueApply(t) PROVE ReplaysKnown'
  <2> DEFINE old == {op \in queue : op.key = hand[t].key}
  <2>1. /\ MutexFree /\ queue' = (queue \ old) \cup {Entering(t)}
        /\ flush' = [phase |-> "opening", id |-> arrived + 1, removed |-> IdsOf(old)]
        /\ arrived' = arrived + 1
        /\ UNCHANGED <<batch, delivered, superseded>>
    BY <1>5 DEF EnqueueApply
  <2> HIDE DEF old
  <2>2. Replaced' = IdsOf(old)
    BY <1>0, <2>1 DEF Replaced
  <2>3. \A i : i \in IdsOf(queue) => i \in IdsOf(queue') \/ i \in IdsOf(old)
    BY <2>1, IdsMembers
  <2>4. \A i : Kept(i) => Kept(i)'
    BY <1>0, <2>1, <2>2, <2>3 DEF Kept
  <2>5. \A i \in delivered \cup superseded : i \in Nat /\ i <= arrived
    <3>1. delivered \subseteq Nat /\ superseded \subseteq Nat
      BY DEF FileShape, FileTypeOK, TypeOK, OpIds
    <3>2. QED  BY <3>1 DEF ReplaysKnown
  <2>6. \A i \in delivered' \cup superseded' : i <= arrived'
    BY <1>0, <2>1, <2>5
  <2>7. QED  BY <1>1, <2>1, <2>4, <2>6
<1>6. ASSUME NEW d \in Drainers, LoadAndSnapshot(d) \/ FinalizeLoad(d)
      PROVE  ReplaysKnown'
  <2>1. /\ queue' = LoadedCache
        /\ UNCHANGED <<delivered, superseded, arrived, flush>>
    BY <1>6 DEF LoadAndSnapshot, FinalizeLoad, fileVars
  <2>2. queue \subseteq queue'
    BY <2>1 DEF LoadedCache
  <2>3. CASE LoadAndSnapshot(d)
    BY <1>0, <1>1, <1>2, <2>1, <2>2, <2>3 DEF LoadAndSnapshot, IdleBatch
  <2>4. CASE FinalizeLoad(d)
    BY <1>0, <1>1, <1>2, <2>1, <2>2, <2>4 DEF FinalizeLoad, Batch
  <2>5. QED  BY <1>6, <2>3, <2>4
<1>7. ASSUME NEW d \in Drainers, NEW op \in batch[d].todo,
             ReplaySucceeds(d, op) \/ ReplayFails(d, op), UNCHANGED fileVars
      PROVE  ReplaysKnown'
  <2>1. /\ UNCHANGED <<queue, superseded, arrived, flush>>
        /\ delivered' \in {delivered, delivered \cup {op.id}}
    BY <1>7 DEF ReplaySucceeds, ReplayFails, fileVars
  <2>2. \A e \in Drainers : batch'[e].snap = batch[e].snap
    BY <1>0, <1>7 DEF ReplaySucceeds, ReplayFails, Batch
  <2>3. op.id <= arrived
    BY <1>7, HeldMembers DEF FileShape, ReplaysAccount, ArrivalsTell
  <2>4. \A i : Kept(i) => Kept(i)'
    BY <2>1 DEF Kept, Replaced
  <2>5. \A i \in delivered' \cup superseded' : i <= arrived'
    BY <2>1, <2>3 DEF ReplaysKnown
  <2>6. QED  BY <1>1, <2>2, <2>4, <2>5
<1>8. ASSUME NEW d \in Drainers, FinalizeRejected(d) PROVE ReplaysKnown'
  <2>1. UNCHANGED <<queue, delivered, superseded, arrived, flush>>
    BY <1>8 DEF FinalizeRejected, fileVars
  <2>2. \A e \in Drainers : batch'[e].snap \in {batch[e].snap, {}}
    BY <1>0, <1>8 DEF FinalizeRejected, IdleBatch
  <2>3. QED  BY <1>1, <1>2, <2>1, <2>2
<1>9. ASSUME NEW d \in Drainers, FinalizeApply(d) PROVE ReplaysKnown'
  <2>1. /\ MutexFree /\ batch[d].phase = "finalizing" /\ queue' = KeptOf(d)
        /\ batch' = [batch EXCEPT ![d] = IdleBatch]
        /\ UNCHANGED <<arrived, superseded, delivered>>
    BY <1>9 DEF FinalizeApply, FinishBatch, KeptOf
  <2>2. \A op \in queue : op \in queue' \/ op.id \in delivered
    BY <2>1, FileKeptOrDelivered
  <2>3. \A i : Kept(i) => Kept(i)'
    BY <1>0, <2>1, <2>2, IdsMembers DEF Kept
  <2>4. \A e \in Drainers : batch'[e].snap \in {batch[e].snap, {}}
    BY <1>0, <2>1 DEF IdleBatch
  <2>5. QED  BY <1>1, <2>1, <2>3, <2>4 DEF ReplaysKnown
<1>10. CASE FlushTruncate
  <2>1. /\ UNCHANGED <<queue, batch, delivered, superseded, arrived>>
        /\ Replaced' = Replaced
    BY <1>0, <1>10 DEF FlushTruncate, vars, clientVars, Replaced, FileShape, FileTypeOK
  <2>2. QED  BY <1>1, <2>1 DEF Kept, ReplaysKnown
<1>11. CASE FlushWrite \/ FlushFails
  <2>1. /\ UNCHANGED <<queue, batch, delivered, arrived>>
        /\ superseded' = superseded \cup Replaced
    BY <1>11 DEF FlushWrite, FlushFails
  <2>2. \A i \in Replaced : i <= arrived
    BY DEF Replaced, FileShape, FlushAccounts
  <2>3. QED  BY <1>1, <2>1, <2>2 DEF Kept, ReplaysKnown
<1>12. CASE Crash
  <2>1. /\ UNCHANGED <<delivered, superseded, arrived>>
        /\ \A d \in Drainers : batch'[d].snap = {}
    BY <1>12 DEF Crash, IdleBatch
  <2>2. QED  BY <2>1 DEF ReplaysKnown, IdsOf
<1>13. CASE UNCHANGED allVars
  <2>1. UNCHANGED <<queue, batch, delivered, superseded, arrived, flush>>
    BY <1>13 DEF allVars, vars, clientVars, fileVars
  <2>2. QED  BY <1>1, <1>2, <2>1
<1>14. CASE Calls
  BY <1>3, <1>4, <1>5, <1>6, <1>7, <1>8, <1>9, <1>14 DEF Calls
<1>15. QED  BY <1>10, <1>11, <1>12, <1>13, <1>14 DEF FileNext

(* So a write that succeeds puts the file right.                           *)
LEMMA WriteRestores ==
    ASSUME FileShape, ReplaysKnown, FlushWrite PROVE DurableInv'
<1>1. /\ queue' = queue /\ disk' = queue /\ batch' = batch
      /\ delivered' = delivered /\ arrived' = arrived
      /\ superseded' = superseded \cup Replaced
      /\ flush' = NoFlush /\ flush'.phase = "idle"
  BY DEF FlushWrite, NoFlush
<1>2. Committed' = queue /\ Out' = superseded \cup Replaced
  BY <1>1 DEF Committed, Out
<1>3. CacheMirrorsDisk'
  BY <1>1 DEF CacheMirrorsDisk
<1>4. \A d \in Drainers : IdsOf(batch'[d].snap) \subseteq OnDisk!Accepted'
  BY <1>1, <1>2, CommittedMembersNext, IdsMembers DEF ReplaysKnown
<1>5. \A i \in OnDisk!Accepted' : i <= arrived'
  <2>1. \A op \in queue : op.id <= arrived
    BY HeldMembers DEF FileShape, ArrivalsTell
  <2>2. \A i \in Replaced : i <= arrived
    BY DEF Replaced, FileShape, FlushAccounts
  <2>3. QED
    BY <1>1, <1>2, <2>1, <2>2, CommittedMembersNext DEF ReplaysKnown
<1>6. QED  BY <1>1, <1>3, <1>4, <1>5 DEF DurableInv, CommittedFirst

(* Wherever cache and file agree, every step that is spared a failed write *)
(* goes on keeping the promise, and after a failure they agree again from  *)
(* the next write that succeeds, as long as stamps tell operations apart.  *)
THEOREM CommitsKept == FileSpec /\ []FileStampsDiffer => CommitsKeepPromise
<1>1. FileInit => ReplaysKnown
  BY DEF FileInit, Init, ReplaysKnown, IdleBatch, IdsOf
<1>2. FileShape /\ FileStampsDiffer /\ ReplaysKnown /\ [FileNext]_allVars
        => ReplaysKnown'
  BY ReplaysStayKnown
<1>3. FileShape /\ FileStampsDiffer /\ ReplaysKnown
        => [/\ DurableInv /\ DurableNext =>
                  DurableInv' /\ [OnDisk!ANext]_(OnDisk!avars)
            /\ FlushWrite => DurableInv']_allVars
  BY DurableStep, WriteRestores
<1>4. QED
  BY <1>1, <1>2, <1>3, FileShapeKept, PTL DEF FileSpec, CommitsKeepPromise

(* The file-backed queue implements the OfflineQueue trait when no write   *)
(* fails and the process does not die in one: an enqueue or a finalize     *)
(* takes effect when its flush opens the file.                             *)
THEOREM FileRefinement == DurableSpec /\ []FileStampsDiffer => PromisedOnDisk
<1>1. FileInit => DurableInv /\ OnDisk!AInit
  BY DurableInit
<1>2. [DurableNext]_allVars => [FileNext]_allVars
  BY DEF DurableNext, FileNext
<1>3. DurableSpec => []FileShape
  <2>1. DurableSpec => FileSpec
    BY <1>2, PTL DEF DurableSpec, FileSpec
  <2>2. QED  BY <2>1, FileShapeKept, PTL
<1>4. FileShape /\ FileStampsDiffer /\ DurableInv /\ [DurableNext]_allVars
        => DurableInv' /\ [OnDisk!ANext]_(OnDisk!avars)
  BY DurableStep
<1>5. QED
  BY <1>1, <1>3, <1>4, PTL DEF DurableSpec, PromisedOnDisk, OnDisk!ASpec
=============================================================================
