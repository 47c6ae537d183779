--------------------------- MODULE RowSyncProofs ----------------------------
(***************************************************************************)
(* One row between mirrors and server, for any devices, writers, numbers   *)
(* of writes and faults: a device never takes its own write for news, and  *)
(* what a guarded server acknowledged stays there or in a queue.           *)
(***************************************************************************)
EXTENDS RowSync, TLAPS

Call == [phase : Phases, kind : {"none", "write", "tombstone"}, row : Row]

LEMMA ProcFacts ==
    /\ \A p \in Procs : At(p) \in Devices
    /\ \A p \in Writers : p \in Procs /\ p[1] \notin {"replay", "reconcile"}
  BY RowSyncAssumption DEF Procs, At

LEMMA RowFacts ==
    /\ Absent \in Row /\ Absent.version = 0
    /\ \A r \in Row : r.version \in Nat /\ (r # Absent => r.version \in Nat \ {0})
  BY SMT DEF Row, Absent

LEMMA IdleFacts ==
    /\ Idle \in Call /\ Idle.phase = "idle"
    /\ NoOp.kind = "none" /\ NoOp.row = Absent
  BY RowFacts DEF Idle, Call, Phases, NoOp

(* UPDATE on a row that is there keeps it there, with the new version.     *)
LEMMA TombstonedRow ==
    ASSUME NEW r \in Row, NEW v \in Nat \ {0}
    PROVE  /\ Tombstoned(r, v) \in Row
           /\ r = Absent => Tombstoned(r, v) = Absent
           /\ r # Absent => Tombstoned(r, v) # Absent /\ Tombstoned(r, v).version = v
<1>1. CASE r = Absent
  BY <1>1 DEF Tombstoned
<1>2. CASE r # Absent
  <2>1. r \in [version : Nat \ {0}, deleted : BOOLEAN, body : 0..MaxWrites]
    BY <1>2 DEF Row
  <2>2. Tombstoned(r, v) = [version |-> v, deleted |-> TRUE, body |-> r.body]
    BY <1>2, <2>1 DEF Tombstoned
  <2>3. Tombstoned(r, v) \in Row /\ Tombstoned(r, v).version = v
    BY <2>1, <2>2 DEF Row
  <2>4. QED  BY <1>2, <2>3, RowFacts
<1>3. QED  BY <1>1, <1>2

(* A tombstone or a write with a positive version: what the server stores. *)
LEMMA StoredRow ==
    ASSUME remote \in Row, NEW kind, NEW r \in Row, r # Absent
    PROVE  /\ Stored(kind, r) \in Row
           /\ remote # Absent => Stored(kind, r) # Absent
           /\ Stored(kind, r) # Absent => Stored(kind, r).version = r.version
           /\ kind = "write" => Stored(kind, r) = r
<1>1. r.version \in Nat \ {0}
  BY RowFacts
<1>2. QED  BY <1>1, TombstonedRow DEF Stored

LEMMA QueueHead ==
    ASSUME NEW S, NEW s \in Seq(S), s # <<>>
    PROVE  /\ Head(s) \in S /\ 1 \in DOMAIN s /\ s[1] = Head(s)
           /\ Tail(s) \in Seq(S) /\ Tail(s) # s
           /\ \A i \in DOMAIN Tail(s) : i + 1 \in DOMAIN s /\ Tail(s)[i] = s[i + 1]
<1>1. Len(s) \in Nat /\ Len(s) # 0 /\ DOMAIN s = 1..Len(s) /\ Head(s) = s[1]
  OBVIOUS
<1>2. /\ Tail(s) \in Seq(S) /\ Len(Tail(s)) = Len(s) - 1
      /\ DOMAIN Tail(s) = 1..(Len(s) - 1)
      /\ \A i \in 1..(Len(s) - 1) : Tail(s)[i] = s[i + 1]
  BY <1>1
<1>3. 1 \in DOMAIN s /\ Head(s) \in S
  BY <1>1
<1>4. ASSUME Tail(s) = s PROVE FALSE
  BY <1>1, <1>2, <1>4
<1>5. \A i \in 1..(Len(s) - 1) : i + 1 \in 1..Len(s)
  BY <1>1, SMT
<1>6. QED  BY <1>1, <1>2, <1>3, <1>4, <1>5

(* The helpers by which a step moves one process.                          *)
LEMMA CallSteps ==
    ASSUME TypeOK, NEW p \in Procs
    PROVE  /\ \A phase : Becomes(p, phase) =>
                call' = [call EXCEPT ![p] = [phase |-> phase, kind |-> call[p].kind,
                                             row |-> call[p].row]]
           /\ \A phase, kind, row : Carries(p, phase, kind, row) =>
                call' = [call EXCEPT ![p] = [phase |-> phase, kind |-> kind,
                                             row |-> row]]
           /\ Return(p) => call' = [call EXCEPT ![p] = Idle]
           /\ call[p] \in Call
<1>1. call[p] \in Call
  BY DEF TypeOK, Call
<1>2. ASSUME NEW phase, Becomes(p, phase)
      PROVE  call' = [call EXCEPT ![p] = [phase |-> phase, kind |-> call[p].kind,
                                          row |-> call[p].row]]
  <2>1. [call[p] EXCEPT !.phase = phase] =
          [phase |-> phase, kind |-> call[p].kind, row |-> call[p].row]
    BY <1>1 DEF Call
  <2>2. QED  BY <1>2, <2>1 DEF Becomes
<1>3. QED  BY <1>1, <1>2 DEF Carries, Return

(* What process p may be left with while mirror, server and feeds stay as  *)
(* they are.                                                               *)
Fits(p, c) ==
    /\ c \in Call
    /\ c.phase \notin {"sent", "ok", "same version"}
    /\ c.phase \in Carrying => c.kind # "none" /\ c.row # Absent
    /\ c.phase = "listed" /\ c.row # Absent => local[At(p)] # Absent
    /\ c.phase \in {"pulling", "regression"} => remote # Absent
    /\ c.phase = "fetched" => c.row # Absent

(* A step of one process that changes neither mirror, server, feed nor     *)
(* tracker.                                                                *)
LEMMA CallOnlyPreserves ==
    ASSUME RowInv, NEW p \in Procs, NEW c, Fits(p, c),
           call' = [call EXCEPT ![p] = c],
           UNCHANGED <<local, remote, feed, echo>>,
           queue' \in [Devices -> QueuedOp \cup {NoOp}],
           \A d \in Devices : queue'[d] # NoOp => queue'[d].row # Absent,
           due' \subseteq Devices,
           due' # {} => remote # Absent,
           taken' \in Seq(Nat),
           faults' \in 0..MaxFaults
    PROVE  RowInv'
<1> USE DEF RowInv
<1>1. /\ call'[p] = c
      /\ \A q \in Procs : q # p => call'[q] = call[q]
      /\ call' \in [Procs -> Call]
  BY DEF TypeOK, Call, Fits
<1>2. TypeOK'
  BY <1>1 DEF TypeOK, Call
<1>3. RowsExist'
  BY <1>1 DEF RowsExist, Fits
<1>4. EchoCovers'
  BY <1>1 DEF EchoCovers, OwnEvents, Sending, Fits
<1>5. AnswersStand'
  BY <1>1 DEF AnswersStand, Fits
<1>6. QED  BY <1>2, <1>3, <1>4, <1>5

-----------------------------------------------------------------------------
(* The steps of one process that only concern its call.                    *)

LEMMA BeginsPreserves ==
    ASSUME RowInv, NEW p \in Procs, Set(p) \/ Delete(p) PROVE RowInv'
<1> USE DEF RowInv
<1> DEFINE version == NextVersionFor(At(p))
<1>1. version \in Nat \ {0}
  BY ProcFacts, RowFacts, SMT DEF NextVersionFor, TypeOK
<1>2. Append(taken, version) \in Seq(Nat) /\ Len(taken) \in Nat
  BY <1>1 DEF TypeOK
<1> DEFINE written == [version |-> version, deleted |-> FALSE, body |-> Len(taken) + 1]
           erased == [version |-> version, deleted |-> TRUE, body |-> 0]
<1>3. CASE Set(p)
  <2>1. written \in Row /\ written # Absent
    <3>1. Len(taken) + 1 \in 0..MaxWrites
      BY <1>2, <1>3, RowSyncAssumption, SMT DEF Set
    <3>2. written \in Row /\ written.version # 0
      BY <1>1, <3>1 DEF Row
    <3>3. QED  BY <3>2, RowFacts
  <2> DEFINE c == [phase |-> "versioned", kind |-> "write", row |-> written]
  <2>2. Fits(p, c)
    BY <2>1 DEF Fits, Call, Phases
  <2>3. call' = [call EXCEPT ![p] = c]
    BY <1>3, CallSteps DEF Set
  <2>4. /\ UNCHANGED <<local, remote, queue, feed, echo, due, faults>>
        /\ taken' = Append(taken, version)
    BY <1>3 DEF Set
  <2>5. QED
    BY <1>2, <2>2, <2>3, <2>4, CallOnlyPreserves DEF TypeOK, RowsExist
<1>4. CASE Delete(p)
  <2>1. erased \in Row /\ erased # Absent
    <3>1. erased \in Row /\ erased.version # 0
      BY <1>1, RowSyncAssumption, SMT DEF Row
    <3>2. QED  BY <3>1, RowFacts
  <2> DEFINE c == [phase |-> "versioned", kind |-> "tombstone", row |-> erased]
  <2>2. Fits(p, c)
    BY <2>1 DEF Fits, Call, Phases
  <2>3. call' = [call EXCEPT ![p] = c]
    BY <1>4, CallSteps DEF Delete
  <2>4. /\ UNCHANGED <<local, remote, queue, feed, echo, due, faults>>
        /\ taken' = Append(taken, version)
    BY <1>4 DEF Delete
  <2>5. QED
    BY <1>2, <2>2, <2>3, <2>4, CallOnlyPreserves DEF TypeOK, RowsExist
<1>5. QED  BY <1>3, <1>4

LEMMA LoseRequestPreserves ==
    ASSUME RowInv, NEW p \in Procs, LoseRequest(p) PROVE RowInv'
<1> USE DEF RowInv
<1> DEFINE c == [phase |-> "failed", kind |-> call[p].kind, row |-> call[p].row]
<1>1. Fits(p, c)
  BY CallSteps DEF LoseRequest, Fits, Call, Phases, RowsExist, Carrying
<1>2. call' = [call EXCEPT ![p] = c]
  BY CallSteps DEF LoseRequest
<1>3. faults' \in 0..MaxFaults
  BY RowSyncAssumption, SMT DEF LoseRequest, TypeOK
<1>4. QED
  BY <1>1, <1>2, <1>3, CallOnlyPreserves DEF LoseRequest, TypeOK, RowsExist

(* The answer of the server ends the call.                                 *)
LEMMA ReturnsPreserve ==
    ASSUME RowInv, NEW p \in Procs,
           \/ Answered(p) \/ FailedTransiently(p) \/ Regressed(p)
           \/ Replayed(p) \/ ReplayFailed(p) \/ ReconcilePushed(p)
    PROVE  RowInv'
<1> USE DEF RowInv
<1>1. Fits(p, Idle)
  BY IdleFacts DEF Fits, Carrying
<1>2. /\ call' = [call EXCEPT ![p] = Idle]
      /\ UNCHANGED <<local, remote, feed, echo, taken, faults>>
  BY CallSteps DEF Answered, FailedTransiently, Regressed, Replayed, ReplayFailed,
     ReconcilePushed
<1>3. queue' \in [Devices -> QueuedOp \cup {NoOp}]
      /\ \A d \in Devices : queue'[d] # NoOp => queue'[d].row # Absent
  <2>1. CASE queue' = queue
    BY <2>1 DEF TypeOK, RowsExist
  <2>2. CASE FailedTransiently(p)
    <3> DEFINE op == [kind |-> call[p].kind, row |-> call[p].row]
    <3>1. op \in QueuedOp /\ op.row # Absent
      BY <2>2, CallSteps DEF FailedTransiently, QueuedOp, Call, RowsExist, Carrying
    <3>2. queue' = [queue EXCEPT ![At(p)] = op]
      BY <2>2 DEF FailedTransiently, Enqueued
    <3> HIDE DEF op
    <3>3. QED  BY <3>1, <3>2 DEF TypeOK, RowsExist
  <2>3. CASE \E o \in {queue[At(p)], NoOp} : queue' = [queue EXCEPT ![At(p)] = o]
    BY <2>3, ProcFacts DEF TypeOK, RowsExist
  <2>4. Regressed(p) \/ Replayed(p) =>
          \E o \in {queue[At(p)], NoOp} : queue' = [queue EXCEPT ![At(p)] = o]
    BY DEF Regressed, Replayed
  <2>5. QED  BY <2>1, <2>2, <2>3, <2>4 DEF Answered, ReplayFailed, ReconcilePushed
<1>4. due' \subseteq Devices /\ (due' # {} => remote # Absent)
  BY ProcFacts DEF Answered, FailedTransiently, Regressed, Replayed, ReplayFailed,
     ReconcilePushed, TypeOK, RowsExist
<1>5. QED  BY <1>1, <1>2, <1>3, <1>4, CallOnlyPreserves DEF TypeOK

(* A replay takes the queued operation, a round lists the mirror's version *)
(* or pulls; none of them takes up a row that is not there.                *)
LEMMA TakesUpPreserve ==
    ASSUME RowInv, NEW p \in Procs,
           BeginReplay(p) \/ ListLocal(p) \/ PullDue(p) \/ Fetch(p)
    PROVE  RowInv'
<1> USE DEF RowInv
<1>1. CASE BeginReplay(p)
  <2> DEFINE c == [phase |-> "saved", kind |-> queue[At(p)].kind,
                   row |-> queue[At(p)].row]
  <2>1. queue[At(p)] \in QueuedOp /\ queue[At(p)].row # Absent
    BY <1>1, ProcFacts DEF BeginReplay, TypeOK, RowsExist
  <2>2. Fits(p, c)
    BY <2>1 DEF Fits, Call, Phases, QueuedOp
  <2>3. call' = [call EXCEPT ![p] = c]
    BY <1>1, CallSteps DEF BeginReplay
  <2>4. QED
    BY <1>1, <2>2, <2>3, CallOnlyPreserves DEF BeginReplay, TypeOK, RowsExist
<1>2. CASE ListLocal(p)
  <2> DEFINE r == [local[At(p)] EXCEPT !.body = 0]
             c == [phase |-> "listed", kind |-> "none", row |-> r]
  <2>1. r \in Row /\ (local[At(p)] = Absent => r = Absent)
    <3>1. local[At(p)] \in Row
      BY ProcFacts DEF TypeOK
    <3>2. CASE local[At(p)] = Absent
      BY <3>2, RowFacts DEF Absent
    <3>3. CASE local[At(p)] # Absent
      BY <3>1, <3>3, RowSyncAssumption, SMT DEF Row
    <3>4. QED  BY <3>2, <3>3
  <2> HIDE DEF r
  <2>2. Fits(p, c)
    BY <2>1 DEF Fits, Call, Phases, Carrying
  <2>3. call' = [call EXCEPT ![p] = c]
    BY <1>2, CallSteps DEF ListLocal, r
  <2>4. QED
    BY <1>2, <2>2, <2>3, CallOnlyPreserves DEF ListLocal, TypeOK, RowsExist
<1>3. CASE PullDue(p)
  <2> DEFINE c == [phase |-> "pulling", kind |-> "none", row |-> Absent]
  <2>1. Fits(p, c)
    BY <1>3, RowFacts DEF PullDue, Fits, Call, Phases, Carrying, RowsExist
  <2>2. call' = [call EXCEPT ![p] = c]
    BY <1>3, CallSteps DEF PullDue
  <2>3. due' \subseteq due
    BY <1>3 DEF PullDue
  <2>4. QED
    BY <1>3, <2>1, <2>2, <2>3, CallOnlyPreserves DEF PullDue, TypeOK, RowsExist
<1>4. CASE Fetch(p)
  <2> DEFINE c == [phase |-> "fetched", kind |-> "none", row |-> remote]
  <2>1. Fits(p, c)
    BY <1>4 DEF Fetch, Fits, Call, Phases, Carrying, RowsExist, TypeOK
  <2>2. call' = [call EXCEPT ![p] = c]
    BY <1>4, CallSteps DEF Fetch
  <2>3. QED
    BY <1>4, <2>1, <2>2, CallOnlyPreserves DEF Fetch, TypeOK, RowsExist
<1>5. QED  BY <1>1, <1>2, <1>3, <1>4

(* The planner pulls only what the server has, and pushes only what the    *)
(* mirror had when it was listed.                                          *)
LEMMA PlanSides ==
    ASSUME NEW l, NEW r
    PROVE  /\ Plan(l, r) \in {"Pull", "CreateLocal", "AdoptTombstone"} => r # Absent
           /\ Plan(l, r) \in {"Push", "CreateRemote"} => l # Absent
<1>1. CASE l = Absent /\ r = Absent
  BY <1>1 DEF Plan
<1>2. CASE l = Absent /\ r # Absent
  BY <1>2 DEF Plan
<1>3. CASE l # Absent /\ r = Absent
  BY <1>3 DEF Plan
<1>4. QED  BY <1>1, <1>2, <1>3

LEMMA ReconcilePlanForPreserves ==
    ASSUME RowInv, NEW p \in Procs, ReconcilePlanFor(p) PROVE RowInv'
<1> USE DEF RowInv
<1> DEFINE action == Plan(call[p].row, remote)
           pull == [phase |-> "pulling", kind |-> "none", row |-> Absent]
           push(kind) == [phase |-> "saved", kind |-> kind, row |-> local[At(p)]]
<1>1. \/ action = "Skip" /\ Return(p)
      \/ /\ action \in {"Pull", "CreateLocal", "AdoptTombstone"}
         /\ Carries(p, "pulling", "none", Absent)
      \/ /\ action \in {"Push", "CreateRemote"}
         /\ \E kind \in {"write", "tombstone"} :
               Carries(p, "saved", kind, local[At(p)])
  BY DEF ReconcilePlanFor
<1>2. \E c : Fits(p, c) /\ call' = [call EXCEPT ![p] = c]
  <2>1. CASE action = "Skip" /\ Return(p)
    <3>1. Fits(p, Idle)
      BY IdleFacts DEF Fits, Carrying
    <3>2. QED  BY <2>1, <3>1, CallSteps
  <2>2. CASE /\ action \in {"Pull", "CreateLocal", "AdoptTombstone"}
             /\ Carries(p, "pulling", "none", Absent)
    <3>1. remote # Absent
      BY <2>2, PlanSides
    <3>2. Fits(p, pull)
      BY <3>1, RowFacts DEF Fits, Call, Phases, Carrying
    <3>3. QED  BY <2>2, <3>2, CallSteps
  <2>3. ASSUME action \in {"Push", "CreateRemote"}, NEW kind \in {"write", "tombstone"},
               Carries(p, "saved", kind, local[At(p)])
        PROVE  \E c : Fits(p, c) /\ call' = [call EXCEPT ![p] = c]
    <3>1. call[p].row # Absent
      BY <2>3, PlanSides
    <3>2. local[At(p)] # Absent /\ local[At(p)] \in Row
      BY <3>1, ProcFacts DEF ReconcilePlanFor, RowsExist, TypeOK
    <3>3. Fits(p, push(kind))
      BY <3>2 DEF Fits, Call, Phases
    <3>4. QED  BY <2>3, <3>3, CallSteps
  <2>4. QED  BY <1>1, <2>1, <2>2, <2>3
<1>3. UNCHANGED <<local, remote, queue, feed, echo, due, taken, faults>>
  BY DEF ReconcilePlanFor
<1>4. QED  BY <1>2, <1>3, CallOnlyPreserves DEF TypeOK, RowsExist

-----------------------------------------------------------------------------
(* The steps that write a mirror, the tracker, the server or a feed.       *)

(* A mirror that has the row keeps having one.                             *)
LEMMA MirrorPreserves ==
    ASSUME RowInv, NEW p \in Procs, SaveLocal(p) \/ ApplyRemoteRecord(p)
    PROVE  RowInv'
<1> USE DEF RowInv
<1> DEFINE saved == [phase |-> "saved", kind |-> call[p].kind, row |-> call[p].row]
<1>1. At(p) \in Devices /\ call[p] \in Call /\ call[p].row \in Row
  BY ProcFacts, CallSteps DEF Call
<1>2. /\ call[p].row # Absent
      /\ UNCHANGED <<remote, queue, feed, echo, due, taken, faults>>
  BY DEF SaveLocal, ApplyRemoteRecord, RowsExist, Carrying
<1>3. PICK c \in Call : /\ call' = [call EXCEPT ![p] = c]
                        /\ c.phase \in {"saved", "idle"}
                        /\ c.phase = "saved" => c.kind # "none" /\ c.row # Absent
  <2>1. CASE SaveLocal(p)
    <3>1. call' = [call EXCEPT ![p] = saved] /\ call[p].phase \in Carrying
      BY <2>1, CallSteps DEF SaveLocal, Carrying
    <3>2. saved \in Call /\ saved.kind # "none" /\ saved.row # Absent
      BY <1>1, <1>2, <3>1 DEF Call, Phases, RowsExist
    <3>3. saved.phase = "saved"
      OBVIOUS
    <3> HIDE DEF saved
    <3>4. QED  BY <3>1, <3>2, <3>3
  <2>2. CASE ApplyRemoteRecord(p)
    <3>1. call' = [call EXCEPT ![p] = Idle]
      BY <2>2, CallSteps DEF ApplyRemoteRecord
    <3>2. QED  BY <3>1, IdleFacts
  <2>3. QED  BY <2>1, <2>2
<1>4. c \in Call
  BY <1>3
<1>5. /\ call'[p] = c
      /\ \A q \in Procs : q # p => call'[q] = call[q]
      /\ call' \in [Procs -> Call]
  BY <1>3, <1>4 DEF TypeOK, Call
<1>6. PICK r \in Row : /\ local' = [local EXCEPT ![At(p)] = r]
                       /\ local[At(p)] # Absent => r # Absent
  <2>1. CASE SaveLocal(p)
    <3>1. call[p].row.version \in Nat \ {0} /\ local[At(p)] \in Row
      BY <1>1, <1>2, RowFacts DEF TypeOK
    <3>2. QED  BY <1>1, <1>2, <2>1, <3>1, TombstonedRow DEF SaveLocal
  <2>2. CASE ApplyRemoteRecord(p)
    BY <1>1, <1>2, <2>2 DEF ApplyRemoteRecord
  <2>3. QED  BY <2>1, <2>2
<1>7. /\ local' \in [Devices -> Row]
      /\ \A d \in Devices : local[d] # Absent => local'[d] # Absent
  BY <1>1, <1>6 DEF TypeOK
<1>8. TypeOK'
  BY <1>2, <1>5, <1>7 DEF TypeOK, Call
<1>9. RowsExist'
  BY <1>2, <1>3, <1>5, <1>7, ProcFacts DEF RowsExist, Carrying
<1>10. EchoCovers'
  BY <1>2, <1>3, <1>5 DEF EchoCovers, OwnEvents, Sending
<1>11. AnswersStand'
  BY <1>2, <1>3, <1>5 DEF AnswersStand
<1>12. QED  BY <1>8, <1>9, <1>10, <1>11

(* The tracker is marked in the step in which the request goes out.        *)
LEMMA PushPreserves ==
    ASSUME RowInv, NEW p \in Procs, Push(p) PROVE RowInv'
<1> USE DEF RowInv
<1> DEFINE c == [phase |-> "sent", kind |-> call[p].kind, row |-> call[p].row]
<1>1. /\ call[p].phase = "saved"
      /\ call' = [call EXCEPT ![p] = c]
      /\ echo' = echo \cup {At(p)} /\ At(p) \in Devices
      /\ UNCHANGED <<local, remote, queue, feed, due, taken, faults>>
  BY CallSteps, ProcFacts DEF Push
<1>2. c \in Call
  BY CallSteps DEF Call, Phases
<1>3. /\ call'[p] = c
      /\ \A q \in Procs : q # p => call'[q] = call[q]
      /\ call' \in [Procs -> Call]
  BY <1>1, <1>2 DEF TypeOK, Call
<1>4. TypeOK'
  BY <1>1, <1>3 DEF TypeOK, Call
<1>5. RowsExist'
  BY <1>1, <1>3 DEF RowsExist, Carrying
<1>6. EchoCovers'
  BY <1>1, <1>3 DEF EchoCovers, OwnEvents, Sending
<1>7. AnswersStand'
  BY <1>1, <1>3 DEF AnswersStand
<1>8. QED  BY <1>4, <1>5, <1>6, <1>7

(* The trigger's three answers.                                            *)
LEMMA VerdictCases ==
    ASSUME NEW r, r.version \in Nat, remote.version \in Nat
    PROVE  /\ ~Guarded \/ remote = Absent \/ r.version > remote.version =>
                Verdict(r) \in {"ok", "rejected"}
           /\ Guarded /\ remote # Absent /\ r.version = remote.version =>
                Verdict(r) = "same version"
           /\ Guarded /\ remote # Absent /\ r.version < remote.version =>
                Verdict(r) = "regression"
<1>1. /\ r.version = remote.version =>
            ~(r.version > remote.version) /\ ~(r.version < remote.version)
      /\ r.version < remote.version =>
            ~(r.version > remote.version) /\ ~(r.version = remote.version)
      /\ r.version > remote.version =>
            ~(r.version = remote.version) /\ ~(r.version < remote.version)
  BY SMT
<1>2. CASE ~Guarded \/ remote = Absent \/ r.version > remote.version
  BY <1>1, <1>2, Zenon DEF Verdict
<1>3. CASE Guarded /\ remote # Absent /\ r.version = remote.version
  BY <1>1, <1>3, Zenon DEF Verdict
<1>4. CASE Guarded /\ remote # Absent /\ r.version < remote.version
  BY <1>1, <1>4, Zenon DEF Verdict
<1>5. QED  BY <1>1, <1>2, <1>3, <1>4

(* What the server may do with a row: unless its guard is off, it takes    *)
(* only a newer one, and says so only of one it has.                       *)
LEMMA VerdictSafe ==
    ASSUME RowInv, NEW p \in Procs, call[p].phase = "sent", Guarded
    PROVE  /\ Verdict(call[p].row) = "ok" =>
                remote = Absent \/ call[p].row.version > remote.version
           /\ Verdict(call[p].row) = "same version" =>
                remote.version = call[p].row.version
<1> DEFINE r == call[p].row
<1>1. r.version \in Nat /\ remote.version \in Nat
  BY CallSteps, RowFacts DEF RowInv, Call, TypeOK
<1> HIDE DEF r
<1>2. CASE remote = Absent \/ r.version > remote.version
  <2>1. Verdict(r) \in {"ok", "rejected"}
    BY <1>1, <1>2, VerdictCases
  <2>2. QED  BY <1>2, <2>1 DEF r
<1>3. CASE remote # Absent /\ r.version = remote.version
  <2>1. Verdict(r) = "same version"
    BY <1>1, <1>3, VerdictCases
  <2>2. QED  BY <1>3, <2>1 DEF r
<1>4. CASE remote # Absent /\ r.version < remote.version
  <2>1. Verdict(r) = "regression"
    BY <1>1, <1>4, VerdictCases
  <2>2. QED  BY <2>1 DEF r
<1>5. QED
  <2>1. \/ remote = Absent \/ r.version > remote.version
        \/ remote # Absent /\ r.version = remote.version
        \/ remote # Absent /\ r.version < remote.version
    BY <1>1, SMT
  <2>2. QED  BY <1>2, <1>3, <1>4, <2>1 DEF r

LEMMA VerdictKinds ==
    ASSUME RowInv, NEW p \in Procs
    PROVE  /\ Verdict(call[p].row) \in {"ok", "rejected", "same version", "regression"}
           /\ Verdict(call[p].row) = "regression" => remote # Absent
<1> DEFINE r == call[p].row
<1>1. r.version \in Nat /\ remote.version \in Nat
  BY CallSteps, RowFacts DEF RowInv, Call, TypeOK
<1>2. \/ ~Guarded \/ remote = Absent \/ r.version > remote.version
      \/ Guarded /\ remote # Absent /\ r.version = remote.version
      \/ Guarded /\ remote # Absent /\ r.version < remote.version
  BY <1>1, SMT
<1>3. \/ Verdict(r) \in {"ok", "rejected"}
      \/ Verdict(r) = "same version"
      \/ Verdict(r) = "regression" /\ remote # Absent
  BY <1>1, <1>2, VerdictCases
<1>4. QED  BY <1>3

(* The server stores, publishes and answers; the sender of what it         *)
(* publishes is marked, and what others were told stays true.              *)
LEMMA ServePreserves ==
    ASSUME RowInv, NEW p \in Procs, Serve(p) PROVE RowInv'
<1> USE DEF RowInv
<1> DEFINE r == call[p].row
           k == call[p].kind
           verdict == Verdict(r)
           stored == Stored(k, r)
           stores == verdict = "ok" /\ stored # remote
           event == [row |-> stored, by |-> At(p)]
<1>1. /\ call[p].phase = "sent" /\ r \in Row /\ r # Absent /\ At(p) \in Devices
      /\ k \in {"write", "tombstone"} /\ call[p] \in Call
  BY CallSteps, ProcFacts DEF Serve, RowsExist, Carrying, Call
<1>2. /\ UNCHANGED <<local, queue, echo, due, taken>>
      /\ IF stores
         THEN remote' = stored /\ feed' = [d \in Devices |-> Append(feed[d], event)]
         ELSE UNCHANGED <<remote, feed>>
  BY DEF Serve
<1>3. PICK ph \in {verdict, "failed"} :
          call' = [call EXCEPT ![p] = [phase |-> ph, kind |-> k, row |-> r]]
  BY CallSteps DEF Serve
<1> DEFINE c == [phase |-> ph, kind |-> k, row |-> r]
<1>4. /\ c \in Call /\ c.phase = ph /\ c.kind = k /\ c.row = r
      /\ ph \in {"ok", "rejected", "same version", "regression", "failed"}
  BY <1>1, VerdictKinds DEF Call, Phases
<1>5. /\ call'[p] = c
      /\ \A q \in Procs : q # p => call'[q] = call[q]
      /\ call' \in [Procs -> Call]
  BY <1>3, <1>4 DEF TypeOK, Call
<1>6. /\ stored \in Row
      /\ remote # Absent => stored # Absent
      /\ stored # Absent => stored.version = r.version
      /\ k = "write" => stored = r
  BY <1>1, StoredRow DEF TypeOK
<1>7. stores => stored # Absent
  BY <1>6
<1> HIDE DEF stored, verdict, r, k, c
<1>8. faults' \in 0..MaxFaults
  BY RowSyncAssumption, SMT DEF Serve, TypeOK
<1>9. \A d \in Devices :
        /\ feed'[d] \in Seq([row : Row, by : Devices])
        /\ \A i \in DOMAIN feed'[d] :
              \/ i \in DOMAIN feed[d] /\ feed'[d][i] = feed[d][i]
              \/ stores /\ feed'[d][i] = event
  <2>1. event \in [row : Row, by : Devices]
    BY <1>1, <1>6
  <2>2. ASSUME NEW d \in Devices
        PROVE  /\ feed'[d] \in Seq([row : Row, by : Devices])
               /\ \A i \in DOMAIN feed'[d] :
                     \/ i \in DOMAIN feed[d] /\ feed'[d][i] = feed[d][i]
                     \/ stores /\ feed'[d][i] = event
    <3>1. feed[d] \in Seq([row : Row, by : Devices])
      BY DEF TypeOK
    <3>2. CASE ~stores
      BY <1>2, <3>1, <3>2
    <3>3. CASE stores
      <4>1. feed'[d] = Append(feed[d], event)
        BY <1>2, <3>3
      <4> HIDE DEF event
      <4>2. QED  BY <2>1, <3>1, <3>3, <4>1
    <3>4. QED  BY <3>2, <3>3
  <2>3. QED  BY <2>2
<1>10. TypeOK'
  <2>1. feed' \in [Devices -> Seq([row : Row, by : Devices])]
    BY <1>2, <1>9 DEF TypeOK
  <2>2. remote' \in Row
    BY <1>2, <1>6 DEF TypeOK
  <2>3. QED  BY <1>2, <1>5, <1>8, <2>1, <2>2 DEF TypeOK, Call
<1>11. remote # Absent => remote' # Absent
  BY <1>2, <1>6
<1>12. RowsExist'
  <2>1. \A d \in Devices : \A i \in DOMAIN feed'[d] : feed'[d][i].row # Absent
    BY <1>7, <1>9 DEF RowsExist
  <2>2. c.phase = "regression" => remote # Absent
    BY <1>3, <1>4, VerdictKinds DEF verdict, r
  <2>3. c.kind # "none" /\ c.row # Absent
    BY <1>1, <1>4
  <2>4. QED
    BY <1>2, <1>4, <1>5, <1>11, <2>1, <2>2, <2>3 DEF RowsExist
<1>13. EchoCovers'
  <2>1. \A d \in Devices : Sending(d)' => Sending(d)
    BY <1>4, <1>5 DEF Sending
  <2>2. Sending(At(p))
    BY <1>1 DEF Sending
  <2>3. \A d \in Devices : OwnEvents(d)' => OwnEvents(d) \/ d = At(p)
    BY <1>9 DEF OwnEvents
  <2>4. QED  BY <1>1, <1>2, <2>1, <2>2, <2>3 DEF EchoCovers
<1>14. AnswersStand'
  <2>1. SUFFICES ASSUME Guarded
        PROVE \A q \in Procs :
            call'[q].kind = "write" /\ call'[q].phase \in {"ok", "same version"} =>
                remote'.version >= call'[q].row.version
    BY DEF AnswersStand
  <2>2. /\ remote.version \in Nat /\ remote'.version \in Nat /\ r.version \in Nat
        /\ \A q \in Procs : call[q].row.version \in Nat
    BY <1>1, <1>10, RowFacts DEF TypeOK, r
  <2>3. /\ verdict = "ok" => remote = Absent \/ r.version > remote.version
        /\ verdict = "same version" => remote.version = r.version
    BY <1>1, <2>1, VerdictSafe DEF verdict, r
  <2>4. \/ ~stores /\ remote'.version = remote.version
        \/ /\ stores /\ remote'.version = r.version
           /\ remote.version = 0 \/ r.version > remote.version
    BY <1>2, <1>6, <1>7, <2>3, RowFacts
  <2>5. remote'.version >= remote.version
    BY <2>2, <2>4, SMT
  <2>6. k = "write" /\ verdict \in {"ok", "same version"} => remote'.version >= r.version
    <3>1. k = "write" /\ verdict = "ok" => remote'.version = r.version
      BY <1>2, <1>6
    <3>2. verdict = "same version" => remote.version = r.version
      BY <2>3
    <3>3. verdict = "same version" => remote'.version >= r.version
      <4>1. remote.version = r.version => remote'.version >= r.version
        BY <2>5
      <4>2. QED  BY <3>2, <4>1
    <3>4. remote'.version = r.version => remote'.version >= r.version
      BY <2>2
    <3>5. QED  BY <3>1, <3>3, <3>4
  <2>7. ASSUME NEW q \in Procs, q # p, call'[q].kind = "write",
               call'[q].phase \in {"ok", "same version"}
        PROVE  remote'.version >= call'[q].row.version
    <3>1. call'[q] = call[q]
      BY <1>5, <2>7
    <3>2. remote.version >= call[q].row.version
      BY <2>1, <2>7, <3>1 DEF AnswersStand
    <3>3. remote'.version >= call[q].row.version
      BY <2>2, <2>5, <3>2, SMT
    <3>4. QED  BY <3>1, <3>3
  <2>8. c.kind = "write" /\ c.phase \in {"ok", "same version"} =>
            remote'.version >= c.row.version
    BY <1>3, <1>4, <2>6
  <2>9. QED  BY <1>5, <2>7, <2>8
<1>15. QED  BY <1>10, <1>12, <1>13, <1>14

(* The mark goes only when no event of the device's own can come any more. *)
LEMMA DeliverPreserves ==
    ASSUME RowInv, NEW d \in Devices, Deliver(d) PROVE RowInv'
<1> USE DEF RowInv
<1>1. feed[d] \in Seq([row : Row, by : Devices]) /\ feed[d] # <<>>
  BY DEF Deliver, TypeOK
<1>2. /\ Head(feed[d]) \in [row : Row, by : Devices]
      /\ Head(feed[d]).row # Absent
      /\ Tail(feed[d]) \in Seq([row : Row, by : Devices])
      /\ \A i \in DOMAIN Tail(feed[d]) :
            i + 1 \in DOMAIN feed[d] /\ Tail(feed[d])[i] = feed[d][i + 1]
  BY <1>1, QueueHead DEF RowsExist
<1>3. /\ feed' = [feed EXCEPT ![d] = Tail(feed[d])]
      /\ UNCHANGED <<remote, queue, call, due, taken, faults>>
      /\ \/ d \in echo /\ local' = local /\ echo' = echo
         \/ /\ d \in echo => Expired(d)
            /\ local' = [local EXCEPT ![d] = Head(feed[d]).row]
            /\ echo' = echo \ {d}
  BY DEF Deliver
<1>4. /\ feed'[d] = Tail(feed[d])
      /\ \A e \in Devices : e # d => feed'[e] = feed[e]
      /\ feed' \in [Devices -> Seq([row : Row, by : Devices])]
  BY <1>2, <1>3 DEF TypeOK
<1>5. /\ local' \in [Devices -> Row]
      /\ \A e \in Devices : local[e] # Absent => local'[e] # Absent
  BY <1>2, <1>3 DEF TypeOK
<1>6. TypeOK'
  BY <1>3, <1>4, <1>5 DEF TypeOK
<1>7. RowsExist'
  <2>1. \A i \in DOMAIN feed'[d] : feed'[d][i].row # Absent
    BY <1>2, <1>4 DEF RowsExist
  <2>2. \A e \in Devices : \A i \in DOMAIN feed'[e] : feed'[e][i].row # Absent
    BY <1>4, <2>1 DEF RowsExist
  <2>3. QED  BY <1>3, <1>5, <2>2, ProcFacts DEF RowsExist
<1>8. EchoCovers'
  <2>1. \A e \in Devices : OwnEvents(e)' => OwnEvents(e)
    <3>1. OwnEvents(d)' => OwnEvents(d)
      BY <1>2, <1>4 DEF OwnEvents
    <3>2. QED  BY <1>4, <3>1 DEF OwnEvents
  <2>2. \A e \in Devices : Sending(e)' = Sending(e)
    BY <1>3 DEF Sending
  <2>3. ~LateEcho /\ d \in echo /\ d \notin echo' => ~OwnEvents(d) /\ ~Sending(d)
    BY <1>3 DEF Expired
  <2>4. \A e \in Devices : e # d /\ e \in echo => e \in echo'
    BY <1>3
  <2>5. QED  BY <2>1, <2>2, <2>3, <2>4 DEF EchoCovers
<1>9. AnswersStand'
  BY <1>3 DEF AnswersStand
<1>10. QED  BY <1>6, <1>7, <1>8, <1>9

LEMMA LoseFeedPreserves ==
    ASSUME RowInv, NEW d \in Devices, LoseFeed(d) PROVE RowInv'
<1> USE DEF RowInv
<1>1. /\ feed' = [feed EXCEPT ![d] = <<>>]
      /\ UNCHANGED <<local, remote, queue, call, echo, due, taken>>
      /\ faults' \in 0..MaxFaults
  BY RowSyncAssumption, SMT DEF LoseFeed, TypeOK
<1>2. /\ feed'[d] = <<>>
      /\ \A e \in Devices : e # d => feed'[e] = feed[e]
      /\ feed' \in [Devices -> Seq([row : Row, by : Devices])]
  <2>1. <<>> \in Seq([row : Row, by : Devices])
    OBVIOUS
  <2>2. QED  BY <1>1, <2>1 DEF TypeOK
<1>3. TypeOK'
  BY <1>1, <1>2 DEF TypeOK
<1>4. RowsExist'
  BY <1>1, <1>2 DEF RowsExist
<1>5. EchoCovers'
  BY <1>1, <1>2 DEF EchoCovers, OwnEvents, Sending
<1>6. AnswersStand'
  BY <1>1 DEF AnswersStand
<1>7. QED  BY <1>3, <1>4, <1>5, <1>6

LEMMA RowInitEstablishes == ASSUME Init PROVE RowInv
<1>1. TypeOK
  BY RowFacts, IdleFacts, RowSyncAssumption DEF Init, TypeOK, Call
<1>2. \A d \in Devices : DOMAIN feed[d] = {}
  BY DEF Init
<1>3. RowsExist
  BY <1>2, IdleFacts DEF Init, RowsExist, Carrying
<1>4. EchoCovers
  BY <1>2, IdleFacts DEF Init, EchoCovers, OwnEvents, Sending
<1>5. AnswersStand
  BY IdleFacts DEF Init, AnswersStand
<1>6. QED  BY <1>1, <1>3, <1>4, <1>5 DEF RowInv

LEMMA RowInductive == ASSUME RowInv, [Next]_vars PROVE RowInv'
<1>1. CASE UNCHANGED vars
  BY <1>1 DEF vars, RowInv, TypeOK, RowsExist, EchoCovers, OwnEvents, Sending, AnswersStand
<1>2. ASSUME NEW p \in Procs, Begins(p) \/ Sync(p) \/ LoseRequest(p) PROVE RowInv'
  BY <1>2, BeginsPreserves, MirrorPreserves, PushPreserves, ServePreserves,
     ReturnsPreserve, TakesUpPreserve, ReconcilePlanForPreserves, LoseRequestPreserves
     DEF Begins, Sync
<1>3. ASSUME NEW d \in Devices, Deliver(d) \/ LoseFeed(d) PROVE RowInv'
  BY <1>3, DeliverPreserves, LoseFeedPreserves
<1>4. QED  BY <1>1, <1>2, <1>3 DEF Next

-----------------------------------------------------------------------------

(* Only a delivery takes one event off a feed and writes the mirror, and   *)
(* it does not when the event is the device's own: the mark is still there.*)
LEMMA StepHasNoOwnEcho ==
    ASSUME ~LateEcho, RowInv, Next, NEW d \in Devices, feed[d] # <<>>,
           feed'[d] = Tail(feed[d]), Head(feed[d]).by = d
    PROVE  local'[d] = local[d]
<1> USE DEF RowInv
<1>1. /\ 1 \in DOMAIN feed[d] /\ feed[d][1] = Head(feed[d])
      /\ Tail(feed[d]) # feed[d]
  BY QueueHead DEF TypeOK
<1>2. d \in echo
  BY <1>1 DEF EchoCovers, OwnEvents
<1>3. CASE feed' = feed
  BY <1>1, <1>3
<1>4. CASE local' = local
  BY <1>4
<1>5. ASSUME NEW e \in Devices, Deliver(e) PROVE local'[d] = local[d]
  <2>1. CASE e = d
    <3>1. ~Expired(d)
      BY <1>1 DEF Expired, OwnEvents
    <3>2. QED  BY <1>2, <1>5, <2>1, <3>1 DEF Deliver
  <2>2. CASE e # d
    BY <1>5, <2>2 DEF Deliver, TypeOK
  <2>3. QED  BY <2>1, <2>2
<1>6. \/ feed' = feed \/ local' = local \/ \E e \in Devices : Deliver(e)
  BY DEF Next, Begins, Sync, Set, Delete, SaveLocal, Push, Serve, Answered,
     FailedTransiently, Regressed, BeginReplay, Replayed, ReplayFailed, ListLocal,
     ReconcilePlanFor, PullDue, Fetch, ApplyRemoteRecord, ReconcilePushed,
     LoseRequest, LoseFeed
<1>7. QED  BY <1>3, <1>4, <1>5, <1>6

(* A write returns Ok in two steps only: after an answer, which the server *)
(* still stands by, and after a transient failure, which queues it.        *)
LEMMA StepKeepsOk ==
    ASSUME Guarded, RowInv, Next, NEW p \in Writers, call[p].kind = "write",
           call'[p] = Idle, call[p].phase \in {"ok", "same version", "failed"}
    PROVE  \/ remote.version >= call[p].row.version
           \/ queue'[At(p)].row = call[p].row
<1> USE DEF RowInv
<1>1. p \in Procs /\ p[1] \notin {"replay", "reconcile"} /\ At(p) \in Devices
  BY ProcFacts
<1>2. call'[p] # call[p]
  BY IdleFacts
<1>3. CASE call[p].phase \in {"ok", "same version"}
  BY <1>1, <1>3 DEF AnswersStand
<1>4. CASE call[p].phase = "failed"
  <2>1. call' # call
    BY <1>2
  <2>2. PICK q \in Procs : Begins(q) \/ Sync(q) \/ LoseRequest(q)
    BY <2>1 DEF Next, Deliver, LoseFeed
  <2>3. \E c : call' = [call EXCEPT ![q] = c]
    <3>1. \/ \E ph : Becomes(q, ph)
          \/ \E ph, k, r : Carries(q, ph, k, r)
          \/ Return(q)
      BY <2>2 DEF Begins, Sync, Set, Delete, SaveLocal, Push, Serve, Answered,
         FailedTransiently, Regressed, BeginReplay, Replayed, ReplayFailed, ListLocal,
         ReconcilePlanFor, PullDue, Fetch, ApplyRemoteRecord, ReconcilePushed, LoseRequest
    <3>2. QED  BY <3>1, CallSteps
  <2>4. q = p
    BY <1>1, <1>2, <2>3 DEF TypeOK
  <2>5. FailedTransiently(p)
    BY <1>1, <1>4, <2>2, <2>4, IdleFacts DEF Begins, Sync, Set, Delete, SaveLocal, Push, Serve,
       Answered, Regressed, BeginReplay, Replayed, ReplayFailed, ListLocal,
       ReconcilePlanFor, PullDue, Fetch, ApplyRemoteRecord, ReconcilePushed, LoseRequest
  <2>6. QED  BY <1>1, <2>5 DEF FailedTransiently, Enqueued, TypeOK
<1>5. QED  BY <1>3, <1>4

(* The inductive invariant of row synchronisation: rows exist where they   *)
(* are carried, marks cover what is under way, answers stand.              *)
THEOREM RowInvariant == Spec => []RowInv
<1>1. Init => RowInv
  BY RowInitEstablishes
<1>2. RowInv /\ [Next]_vars => RowInv'
  BY RowInductive
<1>3. QED  BY <1>1, <1>2, PTL DEF Spec

(* Every variable keeps its type: in particular no row of version 0, the   *)
(* row that is not there, ever gets a body or a tombstone.                 *)
THEOREM RowTypeCorrect == Spec => []TypeOK
<1>1. RowInv => TypeOK
  BY DEF RowInv
<1>2. QED  BY <1>1, RowInvariant, PTL

(* While events arrive within the echo window, no device ever applies its  *)
(* own push as somebody else's change, whoever else pushes meanwhile.      *)
THEOREM OwnEchoSuppressed == ASSUME ~LateEcho PROVE Spec => NoOwnEcho
<1>1. RowInv /\ [Next]_vars =>
        [\A d \in Devices :
            feed[d] # <<>> /\ feed'[d] = Tail(feed[d]) /\ Head(feed[d]).by = d
                => local'[d] = local[d]]_vars
  BY StepHasNoOwnEcho
<1>2. QED  BY <1>1, RowInvariant, PTL DEF Spec, NoOwnEcho

(* On a guarded table a write that returned Ok is on the server, or newer  *)
(* is, or it is queued -- for any number of devices, writers and faults.   *)
THEOREM OkKept == ASSUME Guarded PROVE Spec => OkIsKept
<1>1. RowInv /\ [Next]_vars =>
        [\A p \in Writers :
            call[p].kind = "write" /\ call'[p] = Idle
            /\ call[p].phase \in {"ok", "same version", "failed"} =>
                \/ remote.version >= call[p].row.version
                \/ queue'[At(p)].row = call[p].row]_vars
  BY StepKeepsOk
<1>2. QED  BY <1>1, RowInvariant, PTL DEF Spec, OkIsKept
=============================================================================
