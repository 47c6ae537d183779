---------------------------- MODULE OfflineQueue ----------------------------
(***************************************************************************)
(* What the OfflineQueue trait promises its callers, whatever the backing  *)
(* store (crates/polybase/src/offline_queue/mod.rs).  At most one          *)
(* operation is pending for a key, a newer one replaces an older one, and  *)
(* finalizing a replay drops nothing but operations that were replayed:    *)
(* an operation accepted while the replay was running stays.               *)
(*                                                                         *)
(* An operation is its key and its arrival number.  delivered and          *)
(* superseded record why an operation may be missing from the queue.       *)
(***************************************************************************)
EXTENDS Integers

CONSTANTS
    Keys,   \* what operations are deduplicated by
    Ids     \* arrival numbers

VARIABLES
    pending,     \* the operations in the queue
    delivered,   \* arrival numbers of operations the remote accepted
    superseded   \* arrival numbers of operations a newer one replaced

avars == <<pending, delivered, superseded>>

Accepted == {op.id : op \in pending} \cup delivered \cup superseded

AInit ==
    /\ pending = {}
    /\ delivered = {}
    /\ superseded = {}

(* enqueue: "newer operation replaces older".                              *)
AEnqueue(k, i) ==
    /\ i \notin Accepted
    /\ pending' = {op \in pending : op.key # k} \cup {[key |-> k, id |-> i]}
    /\ superseded' = superseded \cup {op.id : op \in {p \in pending : p.key = k}}
    /\ UNCHANGED delivered

(* The host replayed an accepted operation and the remote took it.         *)
ADeliver(i) ==
    /\ i \in Accepted
    /\ delivered' = delivered \cup {i}
    /\ UNCHANGED <<pending, superseded>>

(* finalize_after_processing: only what was delivered leaves the queue.    *)
ADrop(ops) ==
    /\ \A op \in ops : op.id \in delivered
    /\ pending' = pending \ ops
    /\ UNCHANGED <<delivered, superseded>>

ANext ==
    \/ \E k \in Keys, i \in Ids : AEnqueue(k, i)
    \/ \E i \in Accepted : ADeliver(i)
    \/ \E ops \in SUBSET pending : ADrop(ops)

ASpec == AInit /\ [][ANext]_avars
=============================================================================
