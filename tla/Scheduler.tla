------------------------------ MODULE Scheduler ------------------------------
(***************************************************************************)
(* The sync scheduler, crates/polybase/src/sync/reducer.rs, with the host  *)
(* around it.  The reducer is a pure step from a state and an event to a   *)
(* state and the delay of the replay it asks for; the host (external) owns *)
(* the queue, one timer and one replay at a time, and reports to the       *)
(* reducer what happens to them.  Delays are milliseconds.                 *)
(*                                                                         *)
(* What really happens and its report are two steps: an operation is in    *)
(* the queue before it is announced, the network is back before the event  *)
(* says so, and a replay reads the queue as it reports its outcome or, the *)
(* reducer's interface lets it, some time before.                          *)
(***************************************************************************)
EXTENDS Contract

CONSTANTS MaxOps,            \* bound: operations ever queued
          MaxFailures,       \* bound: the failure count saturates here
          MaxFlips,          \* bound: changes of the network or the session
          MaxTroubles,       \* bound: replays an answering server fails
          MaxRestarts        \* bound: restarts of the app

ASSUME SchedulerBounds ==
    {MaxOps, MaxFailures, MaxFlips, MaxTroubles, MaxRestarts} \subseteq Nat

VARIABLES core,        \* ReducerState
          queued,      \* operations in the offline queue
          unannounced, \* queued operations whose event is still to come
          timer,       \* delay of the replay that is scheduled, or NoTimer
          replay,      \* "idle", "running", "finished" or "read"
          outcome,     \* of the replay in flight: how many it drained and
                       \* how many it last read were left, and how many
                       \* have been announced since it read
          network,     \* "up" or "down", and
          session,     \* "in" or "out": the truth the events report
          app,         \* "starting" until AppLaunched is fed in
          slipped,     \* announcements the last report overwrote
          spent        \* how much of each bound is used up

hostVars == <<queued, unannounced, replay, outcome, network, session, app, slipped, spent>>
vars == <<core, timer, hostVars>>

NoTimer == -1

ReconnectDebounce == 2000
EnqueueCoalesce == 250
ForwardProgressRetry == 100

-----------------------------------------------------------------------------
(* The reducer: each handler yields the next state and the delay it asks   *)
(* for, NoTimer when it asks for nothing.  The four boolean fields of      *)
(* ReducerState are the set of the flags that are on.                      *)

Flags == {"connected", "signedIn", "processing", "pending"}

DefaultState == [on |-> {"connected", "signedIn"}, failures |-> 0]

Turn(s, flag, on) ==
    [s EXCEPT !.on = IF on THEN @ \cup {flag} ELSE @ \ {flag}]

GatesOpen(s) == s.on = {"connected", "signedIn", "pending"}

Result(s, asks, delay) == [state |-> s, delay |-> IF asks THEN delay ELSE NoTimer]

AppLaunched(s, hasPending) ==
    LET next == Turn(s, "pending", hasPending)
    IN  Result(next, GatesOpen(next), 0)

(* Mutant: the processing gate is not looked at.                           *)
ConnectivityUngated(s, isConnected) ==
    LET next == Turn(s, "connected", isConnected)
    IN  Result(next, isConnected /\ {"pending", "signedIn"} \subseteq s.on,
               ReconnectDebounce)

ConnectivityChanged(s, isConnected) ==
    LET next == Turn(s, "connected", isConnected)
    IN  Result(next, "connected" \notin s.on /\ GatesOpen(next), ReconnectDebounce)

(* Mutant: a sign-in schedules nothing.                                    *)
AuthStateSilent(s, isSignedIn) ==
    Result(Turn(s, "signedIn", isSignedIn), FALSE, 0)

AuthStateChanged(s, isSignedIn) ==
    LET next == Turn(s, "signedIn", isSignedIn)
    IN  Result(next, "signedIn" \notin s.on /\ GatesOpen(next), 0)

OperationEnqueued(s) ==
    LET next == Turn(s, "pending", TRUE)
    IN  Result(next, GatesOpen(next), EnqueueCoalesce)

ProcessingStarted(s) == Turn(s, "processing", TRUE)

FailuresAfter(s, drained, still) ==
    IF still /\ drained = 0
    THEN (IF s.failures < MaxFailures THEN s.failures + 1 ELSE MaxFailures)
    ELSE 0

AfterReplay(s, drained, still) ==
    [on       |-> (s.on \ {"processing", "pending"})
                     \cup (IF still THEN {"pending"} ELSE {}),
     failures |-> FailuresAfter(s, drained, still)]

(* Mutant: a replay that got nowhere waits for the next event.             *)
ProcessedNoRetry(s, drained, still) ==
    LET next == AfterReplay(s, drained, still)
    IN  Result(next, GatesOpen(next) /\ drained > 0, ForwardProgressRetry)

Processed(s, drained, still) ==
    LET next == AfterReplay(s, drained, still)
    IN  Result(next, GatesOpen(next),
               IF drained > 0 THEN ForwardProgressRetry
               ELSE 1000 * ReconnectBackoffSeconds(next.failures))

-----------------------------------------------------------------------------
(* The host. *)

Budget == [ops |-> MaxOps, flips |-> MaxFlips, troubles |-> MaxTroubles,
           restarts |-> MaxRestarts]

NoOutcome == [drained |-> 0, left |-> 0, missed |-> 0]

Spend(what) ==
    /\ spent[what] < Budget[what]
    /\ spent' = [spent EXCEPT ![what] = @ + 1]

(* Step the reducer and do what it asks: a new delay replaces the timer.   *)
Feed(result) ==
    /\ core' = result.state
    /\ timer' = IF result.delay = NoTimer THEN timer ELSE result.delay

Init ==
    /\ core = DefaultState
    /\ timer = NoTimer
    /\ queued \in 0..MaxOps
    /\ unannounced = 0
    /\ replay = "idle"
    /\ outcome = NoOutcome
    /\ network \in {"up", "down"} /\ session \in {"in", "out"}
    /\ app = "starting" /\ slipped = 0
    /\ spent = [ops |-> queued, flips |-> 0, troubles |-> 0, restarts |-> 0]

Heard == slipped' = IF replay = "idle" THEN 0 ELSE slipped

Launch ==
    /\ app = "starting"
    /\ app' = "launched"
    /\ Feed(AppLaunched(core, queued > 0))
    /\ Heard
    /\ UNCHANGED <<queued, unannounced, replay, outcome, network, session, spent>>

Enqueue ==
    /\ Spend("ops")
    /\ queued' = queued + 1
    /\ unannounced' = unannounced + 1
    /\ UNCHANGED <<core, timer, replay, outcome, network, session, app, slipped>>

Announce ==
    /\ unannounced > 0
    /\ unannounced' = unannounced - 1
    /\ Feed(OperationEnqueued(core))
    /\ Heard
    /\ outcome' = [outcome EXCEPT !.missed = IF replay = "read" THEN @ + 1 ELSE @]
    /\ UNCHANGED <<queued, replay, network, session, app, spent>>

NetworkFlips ==
    /\ Spend("flips")
    /\ network' = IF network = "up" THEN "down" ELSE "up"
    /\ UNCHANGED <<core, timer, queued, unannounced, replay, outcome, session, app, slipped>>

SessionFlips ==
    /\ Spend("flips")
    /\ session' = IF session = "in" THEN "out" ELSE "in"
    /\ UNCHANGED <<core, timer, queued, unannounced, replay, outcome, network, app, slipped>>

ReportConnectivity ==
    /\ network = "up" <=> "connected" \notin core.on
    /\ Feed(ConnectivityChanged(core, network = "up"))
    /\ UNCHANGED hostVars

ReportAuth ==
    /\ session = "in" <=> "signedIn" \notin core.on
    /\ Feed(AuthStateChanged(core, session = "in"))
    /\ UNCHANGED hostVars

(* The timer fires: the replay starts whatever the gates have become.      *)
Fire ==
    /\ timer # NoTimer
    /\ replay = "idle"
    /\ core' = ProcessingStarted(core)
    /\ timer' = NoTimer
    /\ replay' = "running"
    /\ UNCHANGED <<queued, unannounced, outcome, network, session, app, slipped,
                    spent>>

(* The replay finalizes the queue: all it took is drained, or, without the *)
(* server or a session, nothing is, or the server fails some of it.        *)
Drain ==
    /\ replay = "running"
    /\ network = "up" /\ session = "in"
    /\ replay' = "finished"
    /\ outcome' = [outcome EXCEPT !.drained = queued]
    /\ queued' = 0
    /\ UNCHANGED <<core, timer, unannounced, network, session, app, slipped,
                    spent>>

DrainNothing ==
    /\ replay = "running"
    /\ ~(network = "up" /\ session = "in")
    /\ replay' = "finished"
    /\ outcome' = [outcome EXCEPT !.drained = 0]
    /\ UNCHANGED <<core, timer, queued, unannounced, network, session, app, slipped,
                    spent>>

DrainSome ==
    /\ replay = "running"
    /\ Spend("troubles")
    /\ \E left \in 1..queued :
          /\ outcome' = [outcome EXCEPT !.drained = queued - left]
          /\ queued' = left
    /\ replay' = "finished"
    /\ UNCHANGED <<core, timer, unannounced, network, session, app, slipped>>

ReadQueue ==
    /\ replay = "finished"
    /\ replay' = "read"
    /\ outcome' = [outcome EXCEPT !.left = queued]
    /\ UNCHANGED <<core, timer, queued, unannounced, network, session, app,
                    slipped, spent>>

(* The outcome is reported, with what was read or with a look at the queue *)
(* in the same step.                                                       *)
Report ==
    /\ replay \in {"finished", "read"}
    /\ Feed(Processed(core, outcome.drained,
                      (IF replay = "read" THEN outcome.left ELSE queued) > 0))
    /\ replay' = "idle"
    /\ outcome' = NoOutcome
    /\ slipped' = IF outcome.left = 0 THEN outcome.missed ELSE 0
    /\ UNCHANGED <<queued, unannounced, network, session, app, spent>>

(* The app dies and starts again: the queue is what persists.              *)
Restart ==
    /\ Spend("restarts")
    /\ core' = DefaultState
    /\ timer' = NoTimer
    /\ unannounced' = 0
    /\ replay' = "idle"
    /\ outcome' = NoOutcome
    /\ app' = "starting"
    /\ slipped' = 0
    /\ UNCHANGED <<queued, network, session>>

Replaying == Fire \/ Drain \/ DrainNothing \/ DrainSome \/ ReadQueue \/ Report

Reporting == Launch \/ Announce \/ ReportConnectivity \/ ReportAuth

World == Enqueue \/ NetworkFlips \/ SessionFlips \/ Restart

Next == Replaying \/ Reporting \/ World

Spec == Init /\ [][Next]_vars

(* The host reports what happened and runs the replays it scheduled; it    *)
(* promises nothing about the network, the session or new operations.      *)
Fairness ==
    /\ WF_vars(Launch) /\ WF_vars(Announce)
    /\ WF_vars(ReportConnectivity) /\ WF_vars(ReportAuth)
    /\ WF_vars(Fire) /\ WF_vars(Drain \/ DrainNothing) /\ WF_vars(Report)

FairSpec == Spec /\ Fairness

-----------------------------------------------------------------------------

(* Every variable stays in its range. *)
TypeOK ==
    /\ core \in [on : SUBSET Flags, failures : 0..MaxFailures]
    /\ timer \in Int
    /\ queued \in Nat /\ unannounced \in Nat
    /\ replay \in {"idle", "running", "finished", "read"}
    /\ outcome \in [drained : Nat, left : Nat, missed : Nat]
    /\ network \in {"up", "down"} /\ session \in {"in", "out"}
    /\ app \in {"starting", "launched"}
    /\ slipped \in Nat
    /\ spent \in [ops : Nat, flips : Nat, troubles : Nat, restarts : Nat]

(* No operation is forgotten: once everything queued has been announced,   *)
(* an idle scheduler that believes itself connected and signed in has a    *)
(* replay scheduled whenever the queue holds something.  The one exception *)
(* is exact: an operation announced after the replay's last look at the    *)
(* queue and before its report, which overwrites has_pending with that     *)
(* look (reducer.rs:145).                                                  *)
NoStranding ==
    app = "launched" /\ queued > 0 /\ unannounced = 0 /\ replay = "idle"
             /\ {"connected", "signedIn"} \subseteq core.on /\ slipped = 0
        => timer # NoTimer

(* The gates and the replay agree: the reducer believes a replay to be in  *)
(* flight exactly while one is, and none is scheduled beside it            *)
(* (reducer.rs:78, "do not schedule a parallel drain").                    *)
NoParallelDrain ==
    /\ "processing" \in core.on <=> replay # "idle"
    /\ "processing" \in core.on => timer = NoTimer

(* If the app stays connected and signed in from some time on and no       *)
(* announcement was overwritten, the queue is empty in the end: through    *)
(* failing replays, events that came while one ran, and restarts, a replay *)
(* is always scheduled again.                                              *)
Drains == <>[](network = "up" /\ session = "in" /\ slipped = 0) => <>[](queued = 0)
=============================================================================
