---------------------------- MODULE MemoryQueue -----------------------------
(***************************************************************************)
(* MemoryQueue of crates/polybase/src/offline_queue/mod.rs: a VecDeque     *)
(* behind one mutex, so that enqueue, snapshot and finalize are each one   *)
(* atomic step.  The place in the deque is the arrival number: push_back   *)
(* appends and retain keeps the order.                                     *)
(***************************************************************************)
EXTENDS QueueClients

(* Drop the entry of the same key, push the new one at the back.           *)
Enqueue(t) ==
    /\ AcceptFrom(t)
    /\ queue' = {op \in queue : op.key # hand[t].key} \cup {Entering(t)}

(* Mutant: a failure is looked up by table and id alone.                   *)
BumpFailedKey(op, failed) ==
    IF op.key \in KeysOf(failed) THEN [op EXCEPT !.retries = @ + 1] ELSE op

(* Keep the current operations the contract retains; the failed ones among *)
(* them, matched by key and stamp, count one more attempt.                 *)
BumpFailed(op, failed) ==
    IF FullKey(op) \in FullKeys(failed)
    THEN [op EXCEPT !.retries = @ + 1]
    ELSE op

Finalize(d) ==
    LET retained == FinalizeQueueAfterProcessing(
                        queue, batch[d].snap, batch[d].failed)
        kept     == {op \in queue : FullKey(op) \in FullKeys(retained)}
    IN  /\ Replayed(d)
        /\ queue' = {BumpFailed(op, batch[d].failed) : op \in kept}
        /\ FinishBatch(d)

Next ==
    \/ HostNext
    \/ \E t \in Tasks : Enqueue(t)
    \/ \E d \in Drainers : Finalize(d)

Spec == Init /\ [][Next]_vars
=============================================================================
