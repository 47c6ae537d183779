------------------------------ MODULE Realtime ------------------------------
(***************************************************************************)
(* The realtime transport, crates/polybase/src/realtime/mod.rs: subscribe  *)
(* spawns a supervisor that connects, runs the connection until it dies,   *)
(* sleeps and connects again until it is told to stop.  How a connection   *)
(* dies and how that is noticed is in Connection; here it is up, or lost   *)
(* and about to be given up for one of the reasons.                        *)
(*                                                                         *)
(* External: the server, which commits changes and sends them to the       *)
(* channels that have joined; the network; the session; and the host, that *)
(* reads the tables when it starts to listen and again on each Connected   *)
(* or Reconnected, and otherwise lives on the changes it is sent.          *)
(***************************************************************************)
EXTENDS Naturals, FiniteSets, SequencesExt

CONSTANTS MaxSubs,     \* bound: calls of subscribe that succeed
          MaxChanges,  \* bound: changes the server commits
          Capacity,    \* of the change channel (512 in the code)
          MaxDeaths,   \* bound: connections that die
          MaxTroubles  \* bound: refused joins, connects and refreshes,
                       \* changes of the session

ASSUME RealtimeBounds ==
    /\ {MaxSubs, MaxChanges, MaxDeaths, MaxTroubles} \subseteq Nat
    /\ Capacity \in Nat \ {0}

VARIABLES handle,    \* SupervisorState: the subscription it holds, or None
          caller,    \* the one an unsubscribe waits for with the lock, or None
          started,   \* number of subscriptions made
          told,      \* those whose shutdown signal is on, and
          dropped,   \* those whose transport was dropped with the signal off
          pc,        \* where each supervisor is,
          last,      \* the last LifecycleEvent it sent,
          conn,      \* and its connection: "none", "up" or "lost"
          \* of the subscription with the handle:
          join,      \* "none", "sent", or "done" at the server
          wire, buffer,   \* changes on the socket, and in the channel
          host,      \* "away" until it receives lifecycle events, then
                     \* "behind" from one of them until it has acted, or "even"
          have,      \* the changes the host knows
          committed, \* changes made so far
          deaf, lagged,   \* those made on an open channel whose join was not
                     \* done, and those a full channel dropped
          session,   \* "in" or "out"
          spent      \* how much of each bound is used up

None == 0
Subs == 1..MaxSubs

callVars == <<handle, caller, started, told, dropped>>
loopVars == <<pc, last, conn>>
streamVars == <<join, wire, buffer, host, have, lagged>>
worldVars == <<committed, deaf, session, spent>>
vars == <<callVars, loopVars, streamVars, worldVars>>

Spend(what) ==
    /\ spent[what] < [deaths |-> MaxDeaths, troubles |-> MaxTroubles][what]
    /\ spent' = [spent EXCEPT ![what] = @ + 1]

-----------------------------------------------------------------------------
Init ==
    /\ handle = None /\ caller = None /\ started = 0
    /\ told = {} /\ dropped = {}
    /\ pc = [i \in Subs |-> "unborn"] /\ last = [i \in Subs |-> "none"]
    /\ conn = [i \in Subs |-> "none"]
    /\ join = "none" /\ wire = <<>> /\ buffer = <<>>
    /\ host = "away" /\ have = {} /\ committed = 0 /\ deaf = {} /\ lagged = {}
    /\ session \in {"in", "out"}
    /\ spent = [deaths |-> 0, troubles |-> 0]

-----------------------------------------------------------------------------
(* Calls on the transport.                                                 *)

(* AlreadySubscribed while there is a handle.                              *)
Subscribe ==
    /\ handle = None /\ caller = None
    /\ started < MaxSubs
    /\ started' = started + 1
    /\ handle' = started'
    /\ pc' = [pc EXCEPT ![started'] = "checking"]
    /\ UNCHANGED <<caller, told, dropped, last, conn, streamVars, worldVars>>

(* The host lets the Subscription go with the handle.                      *)
LetGo ==
    /\ handle # None /\ caller = None
    /\ handle' = None
    /\ join' = "none" /\ wire' = <<>> /\ buffer' = <<>>
    /\ host' = "away"

(* Mutant: the handle is let go without a signal.                          *)
UnsubscribeSilently ==
    /\ LetGo
    /\ caller' = handle
    /\ UNCHANGED <<started, told, dropped, loopVars, have, lagged, worldVars>>

Unsubscribe ==
    /\ LetGo
    /\ told' = told \cup {handle}
    /\ caller' = handle
    /\ UNCHANGED <<started, dropped, loopVars, have, lagged, worldVars>>

(* The supervisor is gone, or three seconds are over and it is left alone. *)
UnsubscribeReturns ==
    /\ caller # None
    /\ caller' = None
    /\ UNCHANGED <<handle, started, told, dropped, loopVars, streamVars, worldVars>>

(* The host drops the transport, and may make another.                     *)
DropTransport ==
    /\ LetGo
    /\ dropped' = dropped \cup {handle}
    /\ UNCHANGED <<caller, started, told, loopVars, have, lagged, worldVars>>

-----------------------------------------------------------------------------
(* Supervisor::run                                                         *)

Goto(i, from, to) == pc[i] = from /\ pc' = [pc EXCEPT ![i] = to]

Check(i) ==
    /\ Goto(i, "checking", IF i \in told THEN "exited" ELSE "refreshing")
    /\ UNCHANGED <<callVars, last, conn, streamVars, worldVars>>

Refreshed(i) ==
    /\ session = "in"
    /\ Goto(i, "refreshing", "connecting")
    /\ UNCHANGED <<callVars, last, conn, streamVars, worldVars>>

(* Mutant: a supervisor without a session gives up.                        *)
NotConnectedStops(i) ==
    /\ \/ Goto(i, "refreshing", "exited") /\ session = "out" /\ UNCHANGED spent
       \/ Goto(i, "refreshing", "sleeping") /\ Spend("troubles")
       \/ Goto(i, "connecting", "sleeping") /\ Spend("troubles")
    /\ UNCHANGED <<callVars, last, conn, streamVars, committed, deaf, session>>

(* There is no session, it cannot be refreshed, or the socket cannot be    *)
(* opened: sleep (for how long is in Backoff) and try again.               *)
NotConnected(i) ==
    /\ \/ Goto(i, "refreshing", "sleeping") /\ session = "out" /\ UNCHANGED spent
       \/ Goto(i, "refreshing", "sleeping") /\ Spend("troubles")
       \/ Goto(i, "connecting", "sleeping") /\ Spend("troubles")
    /\ UNCHANGED <<callVars, last, conn, streamVars, committed, deaf, session>>

(* Mutant: only the first connection is announced.                         *)
EstablishedOnce(i) ==
    /\ Goto(i, "connecting", "running")
    /\ conn' = [conn EXCEPT ![i] = "up"]
    /\ last' = [last EXCEPT ![i] = IF @ = "none" THEN "connected" ELSE @]
    /\ join' = IF i = handle THEN "sent" ELSE join
    /\ host' = IF i = handle /\ host = "even" /\ last[i] = "none"
               THEN "behind" ELSE host
    /\ UNCHANGED <<callVars, wire, buffer, have, lagged, worldVars>>

(* The socket is open and the join is queued; nobody waits for its reply.  *)
Established(i) ==
    /\ Goto(i, "connecting", "running")
    /\ conn' = [conn EXCEPT ![i] = "up"]
    /\ last' = [last EXCEPT ![i] = IF @ = "none" THEN "connected"
                                   ELSE "reconnected"]
    /\ join' = IF i = handle THEN "sent" ELSE join
    /\ host' = IF i = handle /\ host = "even" THEN "behind" ELSE host
    /\ UNCHANGED <<callVars, wire, buffer, have, lagged, worldVars>>

(* Connection::run ends and its tasks are aborted.                         *)
TearDown(i) ==
    /\ conn' = [conn EXCEPT ![i] = "none"]
    /\ join' = IF i = handle THEN "none" ELSE join
    /\ wire' = IF i = handle THEN <<>> ELSE wire

(* The connection is given up, or the transport is found dropped.          *)
SessionEnds(i) ==
    /\ Goto(i, "running", "sleeping")
    /\ conn[i] = "lost" \/ i \in dropped
    /\ TearDown(i)
    /\ last' = [last EXCEPT ![i] = "disconnected"]
    /\ UNCHANGED <<callVars, buffer, host, have, lagged, worldVars>>

(* Mutant: the loop is not left after a manual disconnect.                 *)
SessionShutAndGoOn(i) ==
    /\ i \in told
    /\ Goto(i, "running", "refreshing")
    /\ TearDown(i)
    /\ last' = [last EXCEPT ![i] = "manual"]
    /\ UNCHANGED <<callVars, buffer, host, have, lagged, worldVars>>

SessionShut(i) ==
    /\ i \in told
    /\ Goto(i, "running", "exited")
    /\ TearDown(i)
    /\ last' = [last EXCEPT ![i] = "manual"]
    /\ UNCHANGED <<callVars, buffer, host, have, lagged, worldVars>>

(* The delay is over; or, at once, the transport is found dropped.         *)
Wake(i) ==
    /\ Goto(i, "sleeping", "checking")
    /\ UNCHANGED <<callVars, last, conn, streamVars, worldVars>>

SleepShut(i) ==
    /\ i \in told
    /\ Goto(i, "sleeping", "exited")
    /\ UNCHANGED <<callVars, last, conn, streamVars, worldVars>>

-----------------------------------------------------------------------------
(* What happens on an open connection.                                     *)

Connected == handle # None /\ conn[handle] = "up"

(* phx_join reaches the server and takes effect.                           *)
JoinTakes ==
    /\ Connected /\ join = "sent"
    /\ join' = "done"
    /\ UNCHANGED <<callVars, loopVars, wire, buffer, host, have, lagged, worldVars>>

(* Mutant: a channel that grows.                                           *)
ReadChangeUncapped ==
    /\ wire # <<>>
    /\ wire' = Tail(wire)
    /\ buffer' = Append(buffer, Head(wire))
    /\ UNCHANGED <<callVars, loopVars, join, host, have, lagged, worldVars>>

(* The reader takes a change off the socket; a full channel drops its      *)
(* oldest one for it.                                                      *)
ReadChange ==
    /\ wire # <<>>
    /\ wire' = Tail(wire)
    /\ LET queue == Append(buffer, Head(wire))
           full  == Len(queue) > Capacity
       IN  /\ buffer' = IF full THEN Tail(queue) ELSE queue
           /\ lagged' = IF full THEN lagged \cup {Head(queue)} ELSE lagged
    /\ UNCHANGED <<callVars, loopVars, join, host, have, worldVars>>

-----------------------------------------------------------------------------
(* The server, the network and the session.                                *)

Commit ==
    /\ committed < MaxChanges
    /\ committed' = committed + 1
    /\ wire' = IF Connected /\ join = "done" THEN Append(wire, committed') ELSE wire
    /\ deaf' = IF Connected /\ join = "sent" THEN deaf \cup {committed'} ELSE deaf
    /\ UNCHANGED <<callVars, loopVars, join, buffer, host, have, lagged, session, spent>>

(* A connection dies, or its server is too slow to answer: what is on its  *)
(* way is lost or still comes.                                             *)
Die(i) ==
    /\ conn[i] = "up"
    /\ Spend("deaths")
    /\ conn' = [conn EXCEPT ![i] = "lost"]
    /\ \/ UNCHANGED wire
       \/ i = handle /\ wire' = <<>>
    /\ UNCHANGED <<callVars, pc, last, join, buffer, host, have, lagged,
                    committed, deaf, session>>

SessionFlips ==
    /\ Spend("troubles")
    /\ session' = IF session = "in" THEN "out" ELSE "in"
    /\ UNCHANGED <<callVars, loopVars, streamVars, committed, deaf>>

-----------------------------------------------------------------------------
(* The host. *)

(* It receives lifecycle events from now on, and reads the tables.         *)
Listen ==
    /\ handle # None /\ host = "away"
    /\ host' = "even"
    /\ have' = 1..committed
    /\ UNCHANGED <<callVars, loopVars, join, wire, buffer, lagged, worldVars>>

Reconcile ==
    /\ host = "behind"
    /\ host' = "even"
    /\ have' = 1..committed
    /\ UNCHANGED <<callVars, loopVars, join, wire, buffer, lagged, worldVars>>

(* Subscription::next                                                      *)
TakeChange ==
    /\ buffer # <<>>
    /\ have' = have \cup {Head(buffer)}
    /\ buffer' = Tail(buffer)
    /\ UNCHANGED <<callVars, loopVars, join, wire, host, lagged, worldVars>>

-----------------------------------------------------------------------------
Step(i) ==
    \/ Check(i) \/ Refreshed(i) \/ NotConnected(i) \/ Established(i)
    \/ SessionEnds(i) \/ SessionShut(i) \/ Wake(i) \/ SleepShut(i)

Next ==
    \/ Subscribe \/ Unsubscribe \/ UnsubscribeReturns \/ DropTransport
    \/ \E i \in Subs : Step(i) \/ Die(i)
    \/ JoinTakes \/ ReadChange \/ Commit \/ SessionFlips
    \/ Listen \/ Reconcile \/ TakeChange

Spec == Init /\ [][Next]_vars

(* The supervisors' tasks run, and what they await ends: refreshing and    *)
(* connecting, to which the code sets no limit of time, and a connection   *)
(* that is lost (Connection!DeathNoticed).                                 *)
Fairness == \A i \in Subs : WF_vars(Step(i))

FairSpec == Spec /\ Fairness

-----------------------------------------------------------------------------
Alive(i) == pc[i] \notin {"unborn", "exited"}

(* Each variable is of its type, and no channel holds more than it can.    *)
TypeOK ==
    /\ handle \in Subs \cup {None} /\ caller \in Subs \cup {None}
    /\ started \in 0..MaxSubs
    /\ told \subseteq 1..started /\ dropped \subseteq 1..started
    /\ pc \in [Subs -> {"unborn", "checking", "refreshing", "connecting",
                        "running", "sleeping", "exited"}]
    /\ last \in [Subs -> {"none", "connected", "reconnected",
                          "disconnected", "manual"}]
    /\ conn \in [Subs -> {"none", "up", "lost"}]
    /\ join \in {"none", "sent", "done"}
    /\ wire \in Seq(1..committed) /\ buffer \in Seq(1..committed)
    /\ Len(buffer) =< Capacity
    /\ host \in {"away", "behind", "even"}
    /\ committed \in 0..MaxChanges
    /\ have \subseteq 1..committed /\ deaf \subseteq 1..committed
    /\ lagged \subseteq 1..committed
    /\ session \in {"in", "out"}
    /\ spent \in [deaths : 0..MaxDeaths, troubles : 0..MaxTroubles]

(* There is a handle exactly when a supervisor runs that nobody told to    *)
(* stop and nobody lost: is_subscribed tells the truth, an unsubscribe     *)
(* that gave up waiting leaves no supervisor that would go on for ever,    *)
(* and two subscriptions never both go on.                                 *)
HandleIsTruth ==
    \A i \in Subs : (Alive(i) /\ i \notin told \cup dropped) <=> i = handle

(* When a subscription is connected and its host has acted on every        *)
(* lifecycle event, a change the host does not know of and will not be     *)
(* sent was made before the join of an open channel took effect, or was    *)
(* dropped by a full channel.  Whatever was lost with a dead connection    *)
(* or made between two connections has been made good.                     *)
Unseen == (1..committed) \ (have \cup ToSet(wire) \cup ToSet(buffer))

NothingElseMissed ==
    (Connected /\ host = "even") => Unseen \subseteq deaf \cup lagged

(* A supervisor that was told to stop does, wherever the signal finds it.  *)
Stops == \A i \in Subs : i \in told ~> pc[i] = "exited"

(* A subscription nobody ends is connected again and again, unless the     *)
(* user stays signed out.                                                  *)
Recovers ==
    \A i \in Subs :
        <>[](handle = i /\ session = "in") => []<>(conn[i] = "up")

-----------------------------------------------------------------------------
(* Why NothingElseMissed holds: a supervisor has a connection only while   *)
(* it runs it, and a connection is never open without a join.              *)
ConnectionsRun ==
    /\ \A i \in Subs : conn[i] # "none" => pc[i] = "running"
    /\ \A i \in Subs : i > started => pc[i] = "unborn"
    /\ Connected => join # "none"

StreamInv ==
    /\ TypeOK
    /\ HandleIsTruth
    /\ ConnectionsRun
    /\ NothingElseMissed
=============================================================================
