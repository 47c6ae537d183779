------------------------------ MODULE Backoff ------------------------------
(***************************************************************************)
(* How long the realtime supervisor sleeps between two attempts:           *)
(* crates/polybase/src/realtime/mod.rs.  Milliseconds; the jitter is a     *)
(* choice within its fraction of the delay, in percent.                    *)
(***************************************************************************)
EXTENDS Naturals, Sequences

CONSTANTS MaxFailures  \* bound: the failure count saturates here

ASSUME BackoffBounds == MaxFailures \in Nat

VARIABLES failures,   \* consecutive_failures
          base,       \* the last delay, before its jitter,
          slept,      \* and after it
          attempt,    \* how the last attempt went: "none", "lost" for a
                      \* connection that was made and went away, "failed",
                      \* or "no token"
          transport   \* "held" or "dropped"

backoffVars == <<failures, base, slept, attempt, transport>>

InitialReconnectDelay == 250
Ladder == <<500, 1000, 2000, 5000, 10000, 30000>>
JitterPercent == 20

(* Mutant: past its end the ladder starts again.                           *)
WrappingDelay(n) ==
    IF n = 0 THEN InitialReconnectDelay ELSE Ladder[1 + ((n - 1) % Len(Ladder))]

ComputeBackoffDelay(n) ==
    IF n = 0 THEN InitialReconnectDelay
    ELSE Ladder[IF n < Len(Ladder) THEN n ELSE Len(Ladder)]

(* The ends and the middle of the range the multiplier is drawn from.      *)
Jittered(delay) == {(delay * (100 + p)) \div 100 : p \in {0, JitterPercent}}
                   \cup {(delay * (100 - JitterPercent)) \div 100}

(* A signal whose sender is gone ends the sleep at once.                   *)
Sleep(n) ==
    /\ base' = ComputeBackoffDelay(n)
    /\ slept' \in IF transport = "dropped" THEN {0} ELSE Jittered(base')

OneMore == IF failures < MaxFailures THEN failures + 1 ELSE failures

BackoffInit ==
    /\ failures = 0 /\ base = 0 /\ slept = 0
    /\ attempt = "none" /\ transport = "held"

(* A token comes, the socket opens, and in the end the connection is lost. *)
AttemptLost ==
    /\ attempt' = "lost"
    /\ failures' = 0
    /\ Sleep(0)
    /\ UNCHANGED transport

AttemptFails ==
    /\ attempt' = "failed"
    /\ failures' = OneMore
    /\ Sleep(OneMore)
    /\ UNCHANGED transport

(* The count grows after the sleep it sets.                                *)
AttemptNoToken ==
    /\ attempt' = "no token"
    /\ failures' = OneMore
    /\ Sleep(failures)
    /\ UNCHANGED transport

TransportDropped ==
    /\ transport = "held"
    /\ transport' = "dropped"
    /\ UNCHANGED <<failures, base, slept, attempt>>

BackoffNext == AttemptLost \/ AttemptFails \/ AttemptNoToken \/ TransportDropped

BackoffSpec == BackoffInit /\ [][BackoffNext]_backoffVars

-----------------------------------------------------------------------------
(* Whatever mixture of failed refreshes, failed connects and lost          *)
(* connections: delays never shrink until a connection has been made; and  *)
(* while its transport is held a supervisor never tries again at once, nor *)
(* waits longer than the ladder's end and its jitter.                      *)
DelaysClimb == base' < base => attempt' = "lost"

NeverHammers ==
    (attempt # "none" /\ transport = "held") => 200 =< slept /\ slept =< 36000

Paced == [][DelaysClimb /\ NeverHammers']_backoffVars

(* Why: the last delay is at most the one that would be next.              *)
BackoffInv ==
    /\ failures \in 0..MaxFailures
    /\ base \in 0..ComputeBackoffDelay(failures)
    /\ transport \in {"held", "dropped"}
    /\ NeverHammers
=============================================================================
