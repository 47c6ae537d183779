------------------------------ MODULE Contract ------------------------------
(***************************************************************************)
(* The pure rules of the sync contract, crates/polybase/src/contract.rs:   *)
(* which way a row moves when two replicas differ, which queued operations *)
(* survive the replay of a snapshot, and the reconnect ladder.  Every      *)
(* other module takes these rules from here.                               *)
(*                                                                         *)
(* Amounts keep their value: the undelete delta is 1000, a standard step 1. *)
(***************************************************************************)
EXTENDS Integers, FiniteSets

StandardStep == 1

UndeleteDelta == 1000

-----------------------------------------------------------------------------
(* Versions.                                                               *)

UndeleteMinimumVersion(remote) == remote + UndeleteDelta

LocalWinnerMergedVersion(local, remote) ==
    (IF local >= remote THEN local ELSE remote) + StandardStep

-----------------------------------------------------------------------------
(* Reconciliation of one row.  A row is [version, deleted].                *)

Actions == {"AdoptTombstone", "Pull", "Push", "Skip"}

DetermineReconcileAction(local, remote) ==
    CASE remote.deleted /\ ~local.deleted ->
            IF local.version >= UndeleteMinimumVersion(remote.version)
            THEN "Push" ELSE "AdoptTombstone"
      [] local.deleted /\ ~remote.deleted  -> "Push"
      [] local.deleted = remote.deleted /\ remote.version > local.version -> "Pull"
      [] local.deleted = remote.deleted /\ local.version > remote.version -> "Push"
      [] local.deleted = remote.deleted /\ local.version = remote.version -> "Skip"

-----------------------------------------------------------------------------
(* The queue.  An operation carries at least a key (the code's pair of     *)
(* table and entity id) and the microsecond at which it was stamped;       *)
(* together they are the identity the code compares.                       *)

FullKey(op) == <<op.key, op.at>>

FullKeys(ops) == {FullKey(op) : op \in ops}

KeysOf(ops) == {op.key : op \in ops}

(* Drop every operation of the snapshot, then take back each failed one    *)
(* whose key no retained operation has.  All three arguments hold at most  *)
(* one operation for a key, as a queue and its snapshots do.               *)
Retained(current, snapshot) ==
    {op \in current : FullKey(op) \notin FullKeys(snapshot)}

FinalizeQueueAfterProcessing(current, snapshot, failed) ==
    LET retained == Retained(current, snapshot)
    IN  retained \cup {op \in failed : op.key \notin KeysOf(retained)}

-----------------------------------------------------------------------------
(* Reconnect ladder, in seconds, clamped to its last rung.                 *)

BackoffLadder == <<2, 5, 10, 30, 60, 120>>

ReconnectBackoffSeconds(failures) ==
    LET index == IF failures = 0 THEN 0 ELSE failures - 1
    IN  BackoffLadder[IF index >= 6 THEN 6 ELSE index + 1]
=============================================================================
