------------------------------ MODULE RowSync -------------------------------
(***************************************************************************)
(* How one row travels between the local mirrors of several devices and    *)
(* the server: Coordinator of crates/polybase/src/sync/coordinator.rs with *)
(* its pusher, echo tracker and reconcile planner, driven by the key-value *)
(* store (kvs.rs), by the host's replay of the offline queue, its realtime *)
(* subscription and its reconcile rounds.  Rows of different keys never    *)
(* meet in this code, so one row is enough; the queue is seen here only as *)
(* the operation it holds for the row.                                     *)
(*                                                                         *)
(* A step ends where the code awaits: the version is read in one, the      *)
(* mirror written in the next, the server hears of it in a third.          *)
(***************************************************************************)
EXTENDS Contract, Sequences

CONSTANTS
    Devices,
    Writers,    \* callers of Kvs::set and Kvs::delete: <<name, device>>
    Guarded,    \* the table has the trigger guard_version_regression
    LateEcho,   \* an event may take longer than the echo window
    MaxWrites,  \* bound on the calls of the key-value store
    MaxFaults   \* bound on lost requests, answers and subscriptions

ASSUME RowSyncAssumption ==
    /\ \A w \in Writers : w[1] \notin {"replay", "reconcile"} /\ w[2] \in Devices
    /\ Guarded \in BOOLEAN
    /\ LateEcho \in BOOLEAN
    /\ MaxWrites \in Nat
    /\ MaxFaults \in Nat

VARIABLES
    local,   \* each device's mirror of the row
    remote,  \* the server's row
    queue,   \* the operation each device's queue holds for the row
    call,    \* where each process is, and the row it carries
    feed,    \* realtime events a device has not processed yet
    echo,    \* devices whose tracker says the row was recently pushed
    due,     \* devices told of a version regression
    taken,   \* history: the versions given to the writes, in their order
    faults   \* faults so far

vars == <<local, remote, queue, call, feed, echo, due, taken, faults>>

(* A process is what it does and where.                                    *)
Procs == Writers \cup ({"replay", "reconcile"} \X Devices)

At(p) == p[2]

Absent == [version |-> 0, deleted |-> FALSE, body |-> 0]

(* Bodies are told apart by the write they come from; versions start at 1. *)
Row == {Absent} \cup
       [version : Nat \ {0}, deleted : BOOLEAN, body : 0..MaxWrites]

Gone(row) == row = Absent \/ row.deleted

NoOp == [kind |-> "none", row |-> Absent]

QueuedOp == [kind : {"write", "tombstone"}, row : Row]

Idle == [phase |-> "idle", kind |-> "none", row |-> Absent]

Init ==
    /\ local = [d \in Devices |-> Absent]
    /\ remote = Absent
    /\ queue = [d \in Devices |-> NoOp]
    /\ call = [p \in Procs |-> Idle]
    /\ feed = [d \in Devices |-> <<>>]
    /\ echo = {}
    /\ due = {}
    /\ taken = <<>>
    /\ faults = 0

Becomes(p, phase) == call' = [call EXCEPT ![p].phase = phase]

Carries(p, phase, kind, row) ==
    call' = [call EXCEPT ![p] = [phase |-> phase, kind |-> kind, row |-> row]]

Return(p) == call' = [call EXCEPT ![p] = Idle]

(* UPDATE ... WHERE id = ?                                                 *)
Tombstoned(row, version) ==
    IF row = Absent THEN Absent ELSE [row EXCEPT !.deleted = TRUE, !.version = version]

-----------------------------------------------------------------------------
(* Kvs::set and Kvs::delete, then persist_change and delete.               *)

(* Mutant: the version of the mirror is taken over as it is.               *)
StandingVersionFor(d) == local[d].version

NextVersionFor(d) == local[d].version + 1

Set(p) ==
    /\ call[p] = Idle
    /\ Len(taken) < MaxWrites
    /\ LET version == NextVersionFor(At(p))
       IN  /\ Carries(p, "versioned", "write",
                      [version |-> version, deleted |-> FALSE, body |-> Len(taken) + 1])
           /\ taken' = Append(taken, version)
    /\ UNCHANGED <<local, remote, queue, feed, echo, due, faults>>

Delete(p) ==
    /\ call[p] = Idle
    /\ Len(taken) < MaxWrites
    /\ LET version == NextVersionFor(At(p))
       IN  /\ Carries(p, "versioned", "tombstone",
                      [version |-> version, deleted |-> TRUE, body |-> 0])
           /\ taken' = Append(taken, version)
    /\ UNCHANGED <<local, remote, queue, feed, echo, due, faults>>

(* upsert_record or mark_deleted: the mirror comes first.                  *)
SaveLocal(p) ==
    /\ call[p].phase = "versioned"
    /\ LET row == call[p].row
       IN  local' = [local EXCEPT ![At(p)] =
                IF call[p].kind = "write" THEN row ELSE Tombstoned(@, row.version)]
    /\ Becomes(p, "saved")
    /\ UNCHANGED <<remote, queue, feed, echo, due, taken, faults>>

(* Mutant: the tracker is not marked.                                      *)
PushUnmarked(p) ==
    /\ call[p].phase = "saved"
    /\ Becomes(p, "sent")
    /\ UNCHANGED <<local, remote, queue, feed, echo, due, taken, faults>>

(* Mark the tracker, then send.  Every pusher does it in this order.       *)
Push(p) ==
    /\ call[p].phase = "saved"
    /\ echo' = echo \cup {At(p)}
    /\ Becomes(p, "sent")
    /\ UNCHANGED <<local, remote, queue, feed, due, taken, faults>>

-----------------------------------------------------------------------------
(* The server.                                                             *)

(* PATCH ... WHERE id on a missing row changes nothing and succeeds.       *)
Stored(kind, row) ==
    IF kind = "write" THEN row ELSE Tombstoned(remote, row.version)

Verdict(row) ==
    CASE ~Guarded \/ remote = Absent \/ row.version > remote.version ->
            IF Guarded /\ remote.deleted /\ ~row.deleted
                /\ row.version < UndeleteMinimumVersion(remote.version)
            THEN "rejected" ELSE "ok"
      [] Guarded /\ remote # Absent /\ row.version = remote.version -> "same version"
      [] Guarded /\ remote # Absent /\ row.version < remote.version -> "regression"

(* The request arrives, and its answer unless that is lost.  A change is   *)
(* published to every subscription, the sender's included.                 *)
Serve(p) ==
    LET verdict == Verdict(call[p].row)
        stored  == Stored(call[p].kind, call[p].row)
    IN  /\ call[p].phase = "sent"
        /\ IF verdict = "ok" /\ stored # remote
           THEN /\ remote' = stored
                /\ feed' = [d \in Devices |->
                        Append(feed[d], [row |-> stored, by |-> At(p)])]
           ELSE UNCHANGED <<remote, feed>>
        /\ \/ Becomes(p, verdict) /\ UNCHANGED faults
           \/ faults < MaxFaults /\ faults' = faults + 1 /\ Becomes(p, "failed")
        /\ UNCHANGED <<local, queue, echo, due, taken>>

LoseRequest(p) ==
    /\ call[p].phase = "sent"
    /\ faults < MaxFaults
    /\ faults' = faults + 1
    /\ Becomes(p, "failed")
    /\ UNCHANGED <<local, remote, queue, feed, echo, due, taken>>

-----------------------------------------------------------------------------
(* The answer, in the coordinator.                                         *)

(* Ok, or an error that is returned and leaves nothing to do.  The same    *)
(* version is benign for a write; a tombstone has it classified permanent. *)
Answered(p) ==
    /\ p \in Writers
    /\ call[p].phase \in {"ok", "same version", "rejected"}
    /\ Return(p)
    /\ UNCHANGED <<local, remote, queue, feed, echo, due, taken, faults>>

(* Mutant: the failed operation is not queued.                             *)
NotEnqueued(p) == queue

(* enqueue drops whatever the queue held for the row.                      *)
Enqueued(p) ==
    [queue EXCEPT ![At(p)] = [kind |-> call[p].kind, row |-> call[p].row]]

FailedTransiently(p) ==
    /\ p \in Writers
    /\ call[p].phase = "failed"
    /\ queue' = Enqueued(p)
    /\ Return(p)
    /\ UNCHANGED <<local, remote, feed, echo, due, taken, faults>>

(* VersionRegressionDetected: "trigger a pull to converge".  The host's    *)
(* own pushes tell it as well.                                             *)
Regressed(p) ==
    /\ call[p].phase = "regression"
    /\ due' = due \cup {At(p)}
    /\ queue' = [queue EXCEPT ![At(p)] =
            IF p[1] = "replay" /\ @.row = call[p].row /\ @.kind = call[p].kind
            THEN NoOp ELSE @]
    /\ Return(p)
    /\ UNCHANGED <<local, remote, feed, echo, taken, faults>>

-----------------------------------------------------------------------------
(* The host's replay of the queue.                                         *)

BeginReplay(p) ==
    /\ p[1] = "replay"
    /\ call[p] = Idle
    /\ queue[At(p)] # NoOp
    /\ Carries(p, "saved", queue[At(p)].kind, queue[At(p)].row)
    /\ UNCHANGED <<local, remote, queue, feed, echo, due, taken, faults>>

(* finalize_after_processing: gone, unless a newer one has replaced it.    *)
Replayed(p) ==
    /\ p[1] = "replay"
    /\ call[p].phase \in {"ok", "same version", "rejected"}
    /\ queue' = [queue EXCEPT ![At(p)] =
            IF @.row = call[p].row /\ @.kind = call[p].kind THEN NoOp ELSE @]
    /\ Return(p)
    /\ UNCHANGED <<local, remote, feed, echo, due, taken, faults>>

ReplayFailed(p) ==
    /\ p[1] = "replay"
    /\ call[p].phase = "failed"
    /\ Return(p)
    /\ UNCHANGED <<local, remote, queue, feed, echo, due, taken, faults>>

-----------------------------------------------------------------------------
(* The host's reconcile round, and its pull after a regression.            *)

(* Read the mirror's versions; what they are compared with comes later.    *)
ListLocal(p) ==
    /\ p[1] = "reconcile"
    /\ call[p] = Idle
    /\ At(p) \notin due
    /\ Carries(p, "listed", "none", [local[At(p)] EXCEPT !.body = 0])
    /\ UNCHANGED <<local, remote, queue, feed, echo, due, taken, faults>>

(* Mutant: a row the mirror does not have is left alone.                   *)
PlanKnown(l, r) ==
    CASE l = Absent -> "Skip"
      [] l # Absent /\ r = Absent -> "CreateRemote"
      [] l # Absent /\ r # Absent -> DetermineReconcileAction(l, r)

(* make_plan                                                               *)
Plan(l, r) ==
    CASE l = Absent /\ r = Absent -> "Skip"
      [] l = Absent /\ r # Absent -> "CreateLocal"
      [] l # Absent /\ r = Absent -> "CreateRemote"
      [] l # Absent /\ r # Absent -> DetermineReconcileAction(l, r)

(* reconcile_plan_for: probe the server's versions and plan.  For a push   *)
(* the host reads the row there is now.                                    *)
ReconcilePlanFor(p) ==
    LET d      == At(p)
        action == Plan(call[p].row, remote)
    IN  /\ call[p].phase = "listed"
        /\ \/ /\ action = "Skip"
              /\ Return(p)
           \/ /\ action \in {"Pull", "CreateLocal", "AdoptTombstone"}
              /\ Carries(p, "pulling", "none", Absent)
           \/ /\ action \in {"Push", "CreateRemote"}
              /\ Carries(p, "saved",
                    IF local[d].deleted /\ action = "Push" THEN "tombstone" ELSE "write",
                    local[d])
        /\ UNCHANGED <<local, remote, queue, feed, echo, due, taken, faults>>

PullDue(p) ==
    /\ p[1] = "reconcile"
    /\ call[p] = Idle
    /\ At(p) \in due
    /\ due' = due \ {At(p)}
    /\ Carries(p, "pulling", "none", Absent)
    /\ UNCHANGED <<local, remote, queue, feed, echo, taken, faults>>

(* read_by_ids                                                             *)
Fetch(p) ==
    /\ call[p].phase = "pulling"
    /\ Carries(p, "fetched", "none", remote)
    /\ UNCHANGED <<local, remote, queue, feed, echo, due, taken, faults>>

(* apply_remote_record: over whatever the mirror holds.                    *)
ApplyRemoteRecord(p) ==
    /\ call[p].phase = "fetched"
    /\ local' = [local EXCEPT ![At(p)] = call[p].row]
    /\ Return(p)
    /\ UNCHANGED <<remote, queue, feed, echo, due, taken, faults>>

(* A push that failed is left to the next round.                           *)
ReconcilePushed(p) ==
    /\ p[1] = "reconcile"
    /\ call[p].phase \in {"ok", "same version", "rejected", "failed"}
    /\ Return(p)
    /\ UNCHANGED <<local, remote, queue, feed, echo, due, taken, faults>>

-----------------------------------------------------------------------------
(* Realtime.                                                               *)

OwnEvents(d) == \E i \in DOMAIN feed[d] : feed[d][i].by = d

Sending(d) == \E p \in Procs : At(p) = d /\ call[p].phase = "sent"

(* Five seconds may have passed since the last mark: always, or only when  *)
(* the device expects no event of its own.                                 *)
Expired(d) == LateEcho \/ ~(OwnEvents(d) \/ Sending(d))

(* was_recently_pushed suppresses the event, whoever caused it, or finds   *)
(* no mark, or removes one that has expired; the event is then applied     *)
(* over the mirror.                                                        *)
Deliver(d) ==
    /\ feed[d] # <<>>
    /\ feed' = [feed EXCEPT ![d] = Tail(@)]
    /\ \/ d \in echo /\ UNCHANGED <<local, echo>>
       \/ /\ d \in echo => Expired(d)
          /\ local' = [local EXCEPT ![d] = Head(feed[d]).row]
          /\ echo' = echo \ {d}
    /\ UNCHANGED <<remote, queue, call, due, taken, faults>>

(* The socket is replaced; what was published meanwhile is not resent.     *)
LoseFeed(d) ==
    /\ feed[d] # <<>>
    /\ faults < MaxFaults
    /\ faults' = faults + 1
    /\ feed' = [feed EXCEPT ![d] = <<>>]
    /\ UNCHANGED <<local, remote, queue, call, echo, due, taken>>

-----------------------------------------------------------------------------

Begins(p) == p \in Writers /\ (Set(p) \/ Delete(p))

Sync(p) ==
    \/ SaveLocal(p) \/ Push(p) \/ Serve(p)
    \/ Answered(p) \/ FailedTransiently(p) \/ Regressed(p)
    \/ BeginReplay(p) \/ Replayed(p) \/ ReplayFailed(p)
    \/ ListLocal(p) \/ ReconcilePlanFor(p) \/ PullDue(p) \/ Fetch(p)
    \/ ApplyRemoteRecord(p) \/ ReconcilePushed(p)

Next ==
    \/ \E p \in Procs : Begins(p) \/ Sync(p) \/ LoseRequest(p)
    \/ \E d \in Devices : Deliver(d) \/ LoseFeed(d)

Spec == Init /\ [][Next]_vars

(* Calls that have begun go on, the host replays what is queued and        *)
(* reconciles again and again, events are delivered.                       *)
Fairness ==
    /\ \A p \in Procs : WF_vars(Sync(p))
    /\ \A d \in Devices : WF_vars(Deliver(d))

FairSpec == Spec /\ Fairness

-----------------------------------------------------------------------------

Phases == {"idle", "versioned", "saved", "sent", "ok", "same version", "regression",
           "rejected", "failed", "listed", "pulling", "fetched"}

(* The variables hold values of their types.                               *)
TypeOK ==
    /\ local \in [Devices -> Row]
    /\ remote \in Row
    /\ queue \in [Devices -> QueuedOp \cup {NoOp}]
    /\ call \in [Procs -> [phase : Phases, kind : {"none", "write", "tombstone"},
                           row : Row]]
    /\ feed \in [Devices -> Seq([row : Row, by : Devices])]
    /\ echo \subseteq Devices
    /\ due \subseteq Devices
    /\ taken \in Seq(Nat)
    /\ faults \in 0..MaxFaults

(* Two writes were given one version: two devices, or two tasks, read the  *)
(* version before either wrote.                                            *)
Tied ==
    \E i, j \in DOMAIN taken : i # j /\ taken[i] = taken[j]

InSync(d) == local[d] = remote \/ (Gone(local[d]) /\ Gone(remote))

(* "Marked BEFORE the network call so realtime can never re-deliver our    *)
(* own write into the merge pipeline", while events arrive in the window.  *)
NoOwnEcho ==
    [][\A d \in Devices :
          feed[d] # <<>> /\ feed'[d] = Tail(feed[d]) /\ Head(feed[d]).by = d
              => local'[d] = local[d]]_vars

(* "On transient failure the operation is enqueued and Ok(()) is returned" *)
(* -- whatever was lost on the way, a write that is acknowledged is on the *)
(* server, or something newer is, or it is queued.                         *)
OkIsKept ==
    [][\A p \in Writers :
          call[p].kind = "write" /\ call'[p] = Idle
          /\ call[p].phase \in {"ok", "same version", "failed"} =>
              \/ remote.version >= call[p].row.version
              \/ queue'[At(p)].row = call[p].row]_vars

(* Once the writes end, all mirrors and the server end up with the same    *)
(* row, whatever was lost -- unless two writes were given one version.     *)
Converges ==
    <>[](Tied \/ \A d \in Devices : InSync(d))

(* "Both sides agree -- no work": when everything is at rest and the       *)
(* planner has nothing to do, the mirror holds the server's row.           *)
AtRest ==
    /\ \A p \in Procs : call[p] = Idle
    /\ \A d \in Devices : queue[d] = NoOp /\ feed[d] = <<>>
    /\ due = {}

SkipMeansAgreement ==
    AtRest =>
        \A d \in Devices : Plan(local[d], remote) = "Skip" => InSync(d)

-----------------------------------------------------------------------------
(* Why NoOwnEcho and OkIsKept hold: an inductive invariant, for a guarded  *)
(* table as for an unguarded one.                                          *)

Carrying == {"versioned", "saved", "sent", "ok", "same version", "regression",
             "rejected", "failed"}

(* Nobody sends, queues, fetches or announces a row that is not there.     *)
RowsExist ==
    /\ \A p \in Procs :
          /\ call[p].phase \in Carrying =>
                call[p].kind # "none" /\ call[p].row # Absent
          /\ call[p].phase = "listed" /\ call[p].row # Absent =>
                local[At(p)] # Absent
          /\ call[p].phase \in {"pulling", "regression"} => remote # Absent
          /\ call[p].phase = "fetched" => call[p].row # Absent
    /\ due # {} => remote # Absent
    /\ \A d \in Devices :
          /\ queue[d] # NoOp => queue[d].row # Absent
          /\ \A i \in DOMAIN feed[d] : feed[d][i].row # Absent

(* While a device sends, or an event of its own is under way, its tracker  *)
(* is marked.                                                              *)
EchoCovers ==
    ~LateEcho =>
        \A d \in Devices : OwnEvents(d) \/ Sending(d) => d \in echo

(* A write that the guarded server has answered is on it, or newer is.     *)
AnswersStand ==
    Guarded =>
        \A p \in Procs :
            call[p].kind = "write" /\ call[p].phase \in {"ok", "same version"} =>
                remote.version >= call[p].row.version

RowInv ==
    /\ TypeOK
    /\ RowsExist
    /\ EchoCovers
    /\ AnswersStand
=============================================================================
