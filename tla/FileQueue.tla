----------------------------- MODULE FileQueue ------------------------------
(***************************************************************************)
(* FileBackedQueue of crates/tauri-plugin-polybase/src/queue_store.rs: the *)
(* deque is a cache (queue, here) of one JSON file that every enqueue and  *)
(* finalize rewrites as a whole.  tokio::fs::write truncates the file and  *)
(* then writes it, so the process may die, or the write fail, in between.  *)
(* The cache is read from the file whenever it is found empty.             *)
(*                                                                         *)
(* The cache's mutex is held from the change of the deque to the end of    *)
(* the flush, but not between load_into_cache and that change.             *)
(***************************************************************************)
EXTENDS QueueClients

VARIABLES
    disk,    \* operations the file holds; none when absent or zero-length
    torn,    \* the file is cut short and does not parse
    loaded,  \* tasks whose enqueue has loaded the cache
    flush,   \* the flush under way, by the holder of the mutex
    acked,   \* history: arrival numbers whose enqueue returned Ok
    gone,    \* history: arrival numbers a call that returned Ok took out
    harm     \* history: what failed writes and crashes have done

historyVars == <<acked, gone, harm>>

fileVars == <<disk, torn, loaded, flush, historyVars>>

allVars == <<vars, fileVars>>

(* id is the operation an enqueue adds (0 for a finalize), removed what    *)
(* the call takes out of the deque.                                        *)
NoFlush == [phase |-> "idle", id |-> 0, removed |-> {}]

Replaced == IF flush.id = 0 THEN {} ELSE flush.removed

FileInit ==
    /\ Init
    /\ disk = {}
    /\ torn = FALSE
    /\ loaded = {}
    /\ flush = NoFlush
    /\ acked = {}
    /\ gone = {}
    /\ harm = "none"

MutexFree == flush = NoFlush

(* load_into_cache: an empty cache is filled from the file, which must     *)
(* parse.                                                                  *)
Loads == queue # {} \/ ~torn

(* Mutant: the file is never read back.                                    *)
CacheAlone == queue

(* Mutant: the file is read back even when the cache holds operations.     *)
FileAlone == disk

LoadedCache == IF queue = {} THEN disk ELSE queue

-----------------------------------------------------------------------------
(* enqueue                                                                 *)

EnqueueLoad(t) ==
    /\ hand[t] # NoOp
    /\ t \notin loaded
    /\ MutexFree
    /\ Loads
    /\ queue' = LoadedCache
    /\ loaded' = loaded \cup {t}
    /\ UNCHANGED <<clientVars, disk, torn, flush, historyVars>>

(* The file does not parse: Err(Decode), and the operation is not queued.  *)
EnqueueRejected(t) ==
    /\ hand[t] # NoOp
    /\ t \notin loaded
    /\ MutexFree
    /\ ~Loads
    /\ hand' = [hand EXCEPT ![t] = NoOp]
    /\ UNCHANGED <<queue, clock, arrived, batch, delivered, superseded, failures,
                   fileVars>>

(* Mutant: push_back without the retain.                                   *)
EnqueueAppending(t) ==
    /\ t \in loaded
    /\ MutexFree
    /\ arrived < MaxOps
    /\ queue' = queue \cup {Entering(t)}
    /\ arrived' = arrived + 1
    /\ hand' = [hand EXCEPT ![t] = NoOp]
    /\ loaded' = loaded \ {t}
    /\ flush' = [phase |-> "opening", id |-> arrived + 1, removed |-> {}]
    /\ UNCHANGED <<clock, batch, delivered, superseded, failures, disk, torn, historyVars>>

(* Drop the entry of the same key, push the new one, start the flush.      *)
EnqueueApply(t) ==
    /\ t \in loaded
    /\ MutexFree
    /\ arrived < MaxOps
    /\ queue' = {op \in queue : op.key # hand[t].key} \cup {Entering(t)}
    /\ arrived' = arrived + 1
    /\ hand' = [hand EXCEPT ![t] = NoOp]
    /\ loaded' = loaded \ {t}
    /\ flush' = [phase |-> "opening", id |-> arrived + 1,
                 removed |-> IdsOf({op \in queue : op.key = hand[t].key})]
    /\ UNCHANGED <<clock, batch, delivered, superseded, failures, disk, torn, historyVars>>

-----------------------------------------------------------------------------
(* snapshot and finalize_after_processing                                  *)

LoadAndSnapshot(d) ==
    /\ batch[d].phase = "idle"
    /\ MutexFree
    /\ Loads
    /\ LoadedCache # {}
    /\ queue' = LoadedCache
    /\ batch' = [batch EXCEPT ![d] = [IdleBatch EXCEPT !.phase = "replaying",
                    !.snap = LoadedCache, !.todo = LoadedCache]]
    /\ UNCHANGED <<clock, arrived, hand, delivered, superseded, failures, fileVars>>

FinalizeLoad(d) ==
    /\ Replayed(d)
    /\ MutexFree
    /\ Loads
    /\ queue' = LoadedCache
    /\ batch' = [batch EXCEPT ![d].phase = "finalizing"]
    /\ UNCHANGED <<clock, arrived, hand, delivered, superseded, failures, fileVars>>

(* The cache does not load: Err, and nothing was finalized.                *)
FinalizeRejected(d) ==
    /\ Replayed(d)
    /\ MutexFree
    /\ ~Loads
    /\ batch' = [batch EXCEPT ![d] = IdleBatch]
    /\ UNCHANGED <<queue, clock, arrived, hand, delivered, superseded, failures,
                   fileVars>>

(* Mutant: the contract's result becomes the deque, so that a failed       *)
(* operation that has left it in the meantime is put back.                 *)
FinalizeReinserting(d) ==
    LET final == FinalizeQueueAfterProcessing(
                     queue, batch[d].snap, batch[d].failed)
    IN  /\ batch[d].phase = "finalizing"
        /\ MutexFree
        /\ queue' = final
        /\ FinishBatch(d)
        /\ flush' = [NoFlush EXCEPT !.phase = "opening",
                                   !.removed = IdsOf(queue \ final)]
        /\ UNCHANGED <<disk, torn, loaded, historyVars>>

(* Only retain: unlike the other stores, a failed operation keeps its      *)
(* retry_count and last_error.                                             *)
FinalizeApply(d) ==
    LET retained == FinalizeQueueAfterProcessing(
                        queue, batch[d].snap, batch[d].failed)
        kept     == {op \in queue : FullKey(op) \in FullKeys(retained)}
    IN  /\ batch[d].phase = "finalizing"
        /\ MutexFree
        /\ queue' = kept
        /\ FinishBatch(d)
        /\ flush' = [NoFlush EXCEPT !.phase = "opening",
                                   !.removed = IdsOf(queue \ kept)]
        /\ UNCHANGED <<disk, torn, loaded, historyVars>>

-----------------------------------------------------------------------------
(* flush_locked                                                            *)

(* Opening for writing cuts the file to length zero.                       *)
FlushTruncate ==
    /\ flush.phase = "opening"
    /\ disk' = {}
    /\ torn' = FALSE
    /\ flush' = [flush EXCEPT !.phase = "writing"]
    /\ UNCHANGED <<vars, loaded, historyVars>>

(* The whole deque is written; the caller gets Ok.                         *)
FlushWrite ==
    /\ flush.phase = "writing"
    /\ disk' = queue
    /\ torn' = FALSE
    /\ flush' = NoFlush
    /\ acked' = IF flush.id = 0 THEN acked ELSE acked \cup {flush.id}
    /\ superseded' = superseded \cup Replaced
    /\ gone' = gone \cup flush.removed
    /\ harm' = IF harm = "lost" THEN "lost" ELSE "none"
    /\ UNCHANGED <<queue, clock, arrived, hand, batch, delivered, failures, loaded>>

(* The directory, the open or the write fails: the caller gets an error    *)
(* while the cache keeps the change.                                       *)
FlushFails ==
    /\ flush # NoFlush
    /\ IF flush.phase = "writing"
       THEN torn' \in BOOLEAN /\ harm' = (IF harm = "lost" THEN "lost" ELSE "unsaved")
       ELSE UNCHANGED <<torn, harm>>
    /\ flush' = NoFlush
    /\ superseded' = superseded \cup Replaced
    /\ UNCHANGED <<queue, clock, arrived, hand, batch, delivered, failures, disk,
                   loaded, acked, gone>>

(* The process dies.  A file that was being written is empty or cut short. *)
Crash ==
    /\ IF flush.phase = "writing" THEN torn' \in BOOLEAN ELSE UNCHANGED torn
    /\ harm' = IF flush.phase = "writing" \/ harm = "unsaved" THEN "lost" ELSE harm
    /\ queue' = {}
    /\ hand' = [t \in Tasks |-> NoOp]
    /\ batch' = [d \in Drainers |-> IdleBatch]
    /\ loaded' = {}
    /\ flush' = NoFlush
    /\ UNCHANGED <<clock, arrived, delivered, superseded, failures, disk, acked, gone>>

(* What the callers and the host do.                                       *)
Calls ==
    \/ \E t \in Tasks :
          \/ EnqueueLoad(t)
          \/ EnqueueRejected(t)
          \/ EnqueueApply(t)
          \/ \E k \in Keys : Stamp(t, k) /\ UNCHANGED fileVars
    \/ \E d \in Drainers :
          \/ LoadAndSnapshot(d)
          \/ \E op \in batch[d].todo :
                (ReplaySucceeds(d, op) \/ ReplayFails(d, op)) /\ UNCHANGED fileVars
          \/ FinalizeLoad(d)
          \/ FinalizeRejected(d)
          \/ FinalizeApply(d)

FileNext ==
    \/ Calls
    \/ FlushTruncate
    \/ FlushWrite
    \/ FlushFails
    \/ Crash

FileSpec == FileInit /\ [][FileNext]_allVars

-----------------------------------------------------------------------------

(* Types; and a flush that is not under way leaves no trace.               *)
FileTypeOK ==
    /\ TypeOK
    /\ disk \in SUBSET Op
    /\ torn \in BOOLEAN
    /\ (torn => disk = {})
    /\ loaded \in SUBSET {t \in Tasks : hand[t] # NoOp}
    /\ flush \in [phase : {"idle", "opening", "writing"}, id : 0..MaxOps,
                  removed : SUBSET OpIds]
    /\ acked \in SUBSET OpIds
    /\ gone \in SUBSET OpIds
    /\ harm \in {"none", "unsaved", "lost"}

(* "A FileBackedQueue -- production-ready persistent OfflineQueue": when   *)
(* enqueue has returned Ok, the operation is in the file until it has been *)
(* delivered or replaced, so that it outlives a restart.  The code keeps   *)
(* this until a write of the file fails half-way, and again from the next  *)
(* write that succeeds, unless the process died in the meantime.           *)
AckedOnDisk ==
    MutexFree /\ harm = "none" =>
        acked \subseteq IdsOf(disk) \cup delivered \cup superseded

(* A write that fails half-way loses nothing that was accepted while the   *)
(* process lives: the operation is still in the cache or in the file, and  *)
(* no later load of the cache forgets it.                                  *)
AckedHeld ==
    MutexFree /\ harm # "lost" =>
        acked \subseteq IdsOf(disk \cup queue) \cup delivered \cup superseded

(* What a call that returned Ok has taken out of the queue, because it was *)
(* replayed or replaced, is never handed to a replay again, even when      *)
(* replays overlap, writes fail and the process dies at the worst moment.  *)
NoneComesBack == IdsOf(queue) \cap gone = {}

-----------------------------------------------------------------------------
(* Why these hold.  FileShape is inductive whatever the clock says.  What  *)
(* is owed to an acknowledged operation (FileAccounts) also takes that     *)
(* finalize can tell operations apart (FileStampsDiffer).                  *)

(* Every operation the cache, the file or a replay still holds.            *)
Held == queue \cup disk \cup UNION {batch[d].snap : d \in Drainers}

FileStampsDiffer == TellsApart(Held)

(* An operation is never changed, so its arrival number alone tells it     *)
(* from every other.                                                       *)
ArrivalsTell ==
    /\ \A a, b \in Held : a.id = b.id => a = b
    /\ \A a \in Held : a.id <= arrived

(* Each operation of a replay is still to do, failed or delivered.         *)
ReplaysAccount ==
    \A d \in Drainers :
        LET b == batch[d]
        IN  /\ b.todo \subseteq b.snap
            /\ b.failed \subseteq b.snap
            /\ \A op \in b.snap : op \in b.todo \cup b.failed \/ op.id \in delivered
            /\ b.phase = "finalizing" => b.todo = {}

(* What a flush adds is in the deque, what it takes out is not; the file   *)
(* it has opened is empty; and a file is always a former deque.            *)
FlushAccounts ==
    /\ flush # NoFlush => flush.removed \cap IdsOf(queue) = {}
    /\ flush.id # 0 => flush.id \in IdsOf(queue)
    /\ \A i \in flush.removed : i <= arrived
    /\ flush.phase = "writing" => disk = {}
    /\ \A a, b \in disk : a.key = b.key => a = b

(* Somebody relies on the cache as it is: no load will replace it before   *)
(* it is written.                                                          *)
CacheInUse ==
    \/ flush # NoFlush
    \/ queue # {}
    \/ loaded # {}
    \/ \E d \in Drainers : batch[d].phase = "finalizing"

CacheAccounts ==
    CacheInUse /\ harm # "lost" =>
        acked \subseteq IdsOf(queue) \cup delivered \cup superseded \cup Replaced

(* Until the flush truncates the file, the file alone accounts for all.    *)
DiskAccounts ==
    flush.phase # "writing" /\ harm = "none" =>
        acked \subseteq IdsOf(disk) \cup delivered \cup superseded

GoneStays ==
    /\ IdsOf(disk \cup queue) \cap gone = {}
    /\ \A i \in gone : i <= arrived

FileShape ==
    /\ FileTypeOK
    /\ ArrivalsTell
    /\ ReplaysAccount
    /\ FlushAccounts
    /\ GoneStays

FileAccounts ==
    /\ CacheAccounts
    /\ DiskAccounts
    /\ AckedHeld

FileInv == FileShape /\ FileAccounts

-----------------------------------------------------------------------------
(* Without misfortune the file alone is a queue as the trait promises it:  *)
(* no write fails, and if the process dies, then not while it writes.  An  *)
(* enqueue or a finalize takes effect when the flush truncates the file,   *)
(* from which point on the flush will be completed.                        *)
DurableNext ==
    \/ Calls
    \/ FlushTruncate
    \/ FlushWrite
    \/ flush.phase # "writing" /\ Crash

DurableSpec == FileInit /\ [][DurableNext]_allVars

Committed == IF flush.phase = "writing" THEN queue ELSE disk

OnDisk == INSTANCE OfflineQueue WITH
    Ids <- OpIds,
    pending <- {[key |-> op.key, id |-> op.id] : op \in Committed},
    superseded <- superseded \cup (IF flush.phase = "writing" THEN Replaced ELSE {})

PromisedOnDisk == OnDisk!ASpec

(* What the cache is to the file: a copy that somebody uses, or, ahead of  *)
(* the flush, the file with the one change the flush will commit.          *)
CacheMirrorsDisk ==
    /\ MutexFree /\ CacheInUse => queue = disk
    /\ flush.phase = "opening" =>
          IF flush.id = 0
          THEN /\ queue \subseteq disk
               /\ \A op \in disk \ queue : op.id \in delivered
          ELSE \E new \in queue :
                 /\ new.id = flush.id
                 /\ queue = {op \in disk : op.key # new.key} \cup {new}
                 /\ flush.removed = IdsOf({op \in disk : op.key = new.key})

(* Replays know only what was committed, and the number of the operation   *)
(* that a flush will commit is new.                                        *)
CommittedFirst ==
    /\ \A d \in Drainers : IdsOf(batch[d].snap) \subseteq OnDisk!Accepted
    /\ \A i \in OnDisk!Accepted : i <= arrived
    /\ flush.phase = "opening" => flush.id \notin OnDisk!Accepted

DurableInv == CacheMirrorsDisk /\ CommittedFirst

(* Whatever has failed before: what a replay holds is still in the cache,  *)
(* or was delivered or replaced.                                           *)
ReplaysKnown ==
    /\ \A d \in Drainers :
          IdsOf(batch[d].snap)
              \subseteq IdsOf(queue) \cup delivered \cup superseded \cup Replaced
    /\ \A i \in delivered \cup superseded : i <= arrived

(* From wherever the file keeps the promise, every call and every flush    *)
(* that is spared goes on keeping it: it is a step of the trait or changes *)
(* nothing that was committed.  And whatever writes and crashes have done  *)
(* to the file, it is there again after the next write that succeeds.      *)
CommitsKeepPromise ==
    [][/\ DurableInv /\ DurableNext =>
             DurableInv' /\ [OnDisk!ANext]_(OnDisk!avars)
       /\ FlushWrite => DurableInv']_allVars
=============================================================================
