------------------------------- MODULE Writes -------------------------------
(***************************************************************************)
(* What becomes of one write that has reached the local mirror: the two    *)
(* write paths of the coordinator, PostgREST and Edge Functions, what each *)
(* makes of the server's answer, and the replay of a queued operation.     *)
(* crates/polybase/src: edge.rs, errors.rs, sync/push.rs, sync/remote.rs,  *)
(* sync/coordinator.rs.                                                    *)
(*                                                                         *)
(* External: the server, whose trigger guard_version_regression looks at   *)
(* versions, whose troubles come and go, and whose functions choose the    *)
(* status that carries a rejection; and the host's replay.                 *)
(***************************************************************************)
EXTENDS Naturals

CONSTANTS Ours,    \* the version our write has
          MaxHeld  \* bound: the row's last version, a newer one than ours

ASSUME WritesBounds == Ours \in Nat \ {0} /\ MaxHeld \in Nat /\ MaxHeld > Ours

VARIABLES path,    \* "rest" or "edge"
          op,      \* "set" or "delete"
          held,    \* the row's version at the server, or 0: it has no such row
          trouble, \* what the server has against any write of it, or "none"
          stage,   \* "calling" or "replaying": an answer is awaited;
                   \* "queued"; and the ends "done", "failed", "dropped"
          verdict, \* why the server last rejected it, "decode" and "no row"
                   \* as in DoneBut, or "none"
          heard,   \* the caller or the replay learned of that
          told,    \* VersionRegressionDetected was published
          announced  \* so was KvsChanged, the table being that of the store

writeVars == <<path, op, held, trouble, stage, verdict, heard, told, announced>>

(* The listed patterns that stand for themselves, the foreign key that is  *)
(* left out of the list on purpose, and what no list names.                *)
Lasting == {"constraint"}
Passing == {"no parent row", "no access", "rate limited", "down"}
Troubles == {"none"} \cup Lasting \cup Passing

WriteInit ==
    /\ path \in {"rest", "edge"}
    /\ op \in {"set", "delete"}
    /\ held \in 0..MaxHeld
    /\ trouble \in Troubles
    /\ stage = "calling"
    /\ verdict = "none" /\ heard = TRUE /\ told = FALSE /\ announced = FALSE

-----------------------------------------------------------------------------
(* The answers as the client types them.                                   *)

(* PERMANENT_PUSH_ERROR_PATTERNS                                           *)
IsPermanentPushErrorMessage(why) ==
    why \in {"version regression", "same version"} \cup Lasting

(* classify_push_error_message; the PATCH of a tombstone lacks the test    *)
(* for the same version that the upserts have before it.                   *)
ClassifyPush(why) ==
    IF why = "same version" /\ op = "set" THEN "ignored"
    ELSE IF IsPermanentPushErrorMessage(why) THEN "permanent"
    ELSE "transient"

(* classify_error: 401 also stands for 403, 400 for 429 and for a 200      *)
(* whose envelope says no, "conflict" for the codes that contain it,       *)
(* "version" or "idempotency".                                             *)
ClassifyEdge(status, code) ==
    CASE status = 401 -> "forbidden"
      [] status = 500 -> IF code = "permanent" THEN "permanent" ELSE "transient"
      [] status = 400 -> IF code = "conflict" THEN "conflict" ELSE "validation"

(* How a function may dress a rejection.                                   *)
Dress(why) ==
    CASE why = "no access"    -> {<<401, "other">>}
      [] why = "rate limited" -> {<<400, "other">>}
      [] why = "down"         -> {<<500, "other">>}
      [] OTHER -> {400, 500} \X {"conflict", "permanent", "other"}

Classes(why) ==
    IF path = "edge" THEN {ClassifyEdge(d[1], d[2]) : d \in Dress(why)}
    ELSE {ClassifyPush(why)}

(* is_transient; an HTTP error is transient on either path.                *)
IsTransient(class) == class \in {"transient", "forbidden"}

-----------------------------------------------------------------------------
(* What coordinator and replay make of them.                               *)

(* EdgeError::is_version_regression reads the message of every class.      *)
EdgeRegression(why) == why = "version regression"

(* PushError::is_version_regression *)
PushRegression(class, why) == class = "permanent" /\ why = "version regression"

IsVersionRegression(class, why) ==
    IF path = "edge" THEN EdgeRegression(why) ELSE PushRegression(class, why)

(* Mutant: an operation that can be tried again is given up.               *)
OutcomeAnyway(class) ==
    IF class \in {"ok", "ignored"} THEN "done"
    ELSE IF stage = "calling" THEN "failed"
    ELSE "dropped"

(* Done, queued, or an error for the caller.  A replay is the host's: it   *)
(* keeps what is transient and drops the rest.                             *)
Outcome(class) ==
    IF class \in {"ok", "ignored"} THEN "done"
    ELSE IF IsTransient(class) THEN "queued"
    ELSE IF stage = "calling" THEN "failed"
    ELSE "dropped"

(* persist_change, after the answer: whatever is not an error for the      *)
(* caller is announced.                                                    *)
SettleChange(class, why) ==
    /\ stage' = Outcome(class)
    /\ told' = (stage' = "failed" /\ IsVersionRegression(class, why))
    /\ announced' = (announced \/ (stage = "calling" /\ stage' # "failed"))

(* delete, after the answer: only what the server has done is announced,   *)
(* though the mirror has lost the row either way.                          *)
SettleDelete(class, why) ==
    /\ stage' = Outcome(class)
    /\ told' = (stage' = "failed" /\ IsVersionRegression(class, why))
    /\ announced' = (announced \/ (stage = "calling" /\ class = "ok"))

Settle(class, why) ==
    \/ op = "set" /\ SettleChange(class, why)
    \/ op = "delete" /\ SettleDelete(class, why)

Awaited == stage \in {"calling", "replaying"}

Rejection ==
    IF trouble # "none" THEN trouble
    ELSE CASE held = Ours -> "same version"
           [] held > Ours -> "version regression"
           [] held < Ours -> "none"

(* What the server then holds.  The PATCH of a tombstone whose row the     *)
(* server lacks matches no row and succeeds all the same; a function may   *)
(* keep such a tombstone or not.                                           *)
Stored ==
    (IF op = "delete" /\ held = 0 THEN {0} ELSE {Ours})
    \cup (IF path = "edge" THEN {Ours} ELSE {})

DoneBut(reading) ==
    /\ Awaited /\ Rejection = "none"
    /\ held' \in Stored
    /\ verdict' = IF held' = Ours THEN reading ELSE "no row"
    /\ heard' = TRUE
    /\ UNCHANGED <<path, op, trouble>>

Applied == DoneBut("none") /\ Settle("ok", "none")

(* The function has done its work and its answer lacks the data.           *)
Garbled == path = "edge" /\ DoneBut("decode") /\ Settle("decode", "none")

Rejected ==
    /\ Awaited /\ Rejection # "none"
    /\ verdict' = Rejection /\ heard' = TRUE
    /\ \E class \in Classes(Rejection) : Settle(class, Rejection)
    /\ UNCHANGED <<path, op, held, trouble>>

(* The request is lost, or its answer is.                                  *)
Unheard ==
    /\ Awaited
    /\ held' \in {held} \cup (IF Rejection = "none" THEN Stored ELSE {})
    /\ heard' = FALSE
    /\ Settle("transient", "none")
    /\ UNCHANGED <<path, op, trouble, verdict>>

Replay ==
    /\ stage = "queued"
    /\ stage' = "replaying"
    /\ UNCHANGED <<path, op, held, trouble, verdict, heard, told, announced>>

(* Another device writes; the trouble changes.                             *)
ServerMoves ==
    /\ \/ held < MaxHeld /\ held' = held + 1 /\ UNCHANGED trouble
       \/ trouble' \in Troubles \ {trouble} /\ UNCHANGED held
    /\ UNCHANGED <<path, op, stage, verdict, heard, told, announced>>

WriteNext ==
    \/ Applied \/ Garbled \/ Rejected \/ Unheard \/ Replay \/ ServerMoves

WriteSpec == WriteInit /\ [][WriteNext]_writeVars

-----------------------------------------------------------------------------
(* On either path and through any number of replays with their answers     *)
(* heard or lost: what ended well is at the server, under this version or  *)
(* a newer one, or was the deletion of a row the server did not have;      *)
NoRowToDelete == op = "delete" /\ verdict = "no row"

NoFalseDone == stage = "done" => held >= Ours \/ NoRowToDelete

(* what was given up was rejected, and heard to be, for a cause that       *)
(* waiting does not cure (or by a function that calls a passing trouble    *)
(* permanent or invalid), or was done, as above, by a function whose       *)
(* answer could not be read;                                               *)
NoneLost ==
    stage \in {"failed", "dropped"} =>
        /\ heard /\ verdict # "none"
        /\ verdict \in {"decode", "no row"} =>
              path = "edge" /\ (held >= Ours \/ NoRowToDelete)
        /\ verdict \in Passing => path = "edge" /\ verdict \notin {"no access", "down"}

(* and a caller is told to pull exactly if the row at the server is newer. *)
RegressionTold ==
    /\ told => held > Ours
    /\ (stage = "failed" /\ verdict = "version regression") => told

(* Those who show the value hear of a set unless its caller got an error,  *)
(* and of a delete once the server has it or lacked the row.               *)
Announced ==
    /\ op = "set" => (announced <=> stage \notin {"calling", "failed"})
    /\ op = "delete" /\ announced =>
          stage = "done" /\ (held >= Ours \/ NoRowToDelete)

WritesSettle == NoFalseDone /\ NoneLost /\ RegressionTold /\ Announced

WriteInv ==
    /\ path \in {"rest", "edge"} /\ op \in {"set", "delete"}
    /\ held \in 0..MaxHeld /\ trouble \in Troubles
    /\ stage \in {"calling", "replaying", "queued", "done", "failed", "dropped"}
    /\ heard \in BOOLEAN /\ told \in BOOLEAN /\ announced \in BOOLEAN
    /\ WritesSettle
=============================================================================
