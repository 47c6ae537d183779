---------------------------- MODULE SqliteQueue -----------------------------
(***************************************************************************)
(* SqliteOfflineQueue of crates/polybase-sqlite/src/queue.rs: one row for  *)
(* a (table, entity id), enforced by the primary key.  Enqueue and         *)
(* snapshot are one statement each; finalize reads the current rows first  *)
(* and deletes or updates them in a transaction opened afterwards, so that *)
(* anything may happen between the two.  The rows outlive the process.     *)
(***************************************************************************)
EXTENDS QueueClients

(* INSERT OR REPLACE on the primary key.                                   *)
Enqueue(t) ==
    /\ AcceptFrom(t)
    /\ queue' = {op \in queue : op.key # hand[t].key} \cup {Entering(t)}

(* let current = self.snapshot() -- before pool.begin().                   *)
ReadCurrent(d) ==
    /\ Replayed(d)
    /\ batch' = [batch EXCEPT ![d].phase = "finalizing", ![d].current = queue]
    /\ UNCHANGED <<queue, clock, arrived, hand, delivered, superseded, failures>>

(* The rows read that the contract does not retain, and those it retains   *)
(* and that failed.                                                        *)
ToDelete(b) ==
    FullKeys(b.current) \
        FullKeys(FinalizeQueueAfterProcessing(b.current, b.snap, b.failed))

ToBump(b) == (FullKeys(b.current) \ ToDelete(b)) \cap FullKeys(b.failed)

(* Mutant: a WHERE clause that leaves the stamp out.                       *)
NamesWithoutStamp(fullKeys, op) == \E fk \in fullKeys : fk[1] = op.key

(* WHERE table_name = ? AND entity_id = ? AND queued_at_micros = ?         *)
Names(fullKeys, op) == FullKey(op) \in fullKeys

(* The transaction: every DELETE and UPDATE names table, id and stamp, so  *)
(* a row replaced since it was read is left alone.                         *)
CommitFinalize(d) ==
    LET b == batch[d]
    IN  /\ b.phase = "finalizing"
        /\ queue' = {[op EXCEPT !.retries =
                          IF Names(ToBump(b), op) THEN @ + 1 ELSE @] :
                     op \in {o \in queue : ~Names(ToDelete(b), o)}}
        /\ FinishBatch(d)

(* The process dies and starts again: the rows stay, the tasks and replays *)
(* that were running are gone, and what they had not finalized is replayed *)
(* again.                                                                  *)
Restart ==
    /\ hand' = [t \in Tasks |-> NoOp]
    /\ batch' = [d \in Drainers |-> IdleBatch]
    /\ UNCHANGED <<queue, clock, arrived, delivered, superseded, failures>>

Next ==
    \/ HostNext
    \/ \E t \in Tasks : Enqueue(t)
    \/ \E d \in Drainers : ReadCurrent(d) \/ CommitFinalize(d)
    \/ Restart

Spec == Init /\ [][Next]_vars

-----------------------------------------------------------------------------

(* Mutant: ORDER BY queued_at_micros DESC.                                 *)
ReplayedAfter(a, b) == a.at > b.at

(* ORDER BY queued_at_micros: the order in which a snapshot is replayed.   *)
(* Ties are broken by table and id, which say nothing of the order of the  *)
(* enqueues.                                                               *)
ReplayedBefore(a, b) == a.at < b.at

(* Whatever was in the queue when an operation was stamped is replayed     *)
(* before it: the row of a parent saved first reaches the remote before    *)
(* the row of its child.  "Snapshot all queued operations in priority      *)
(* order (oldest first) for replay."                                       *)
ReplayOrderIsCausal ==
    \A d \in Drainers : \A a, b \in batch[d].snap :
        a.id <= b.after => ReplayedBefore(a, b)
=============================================================================
