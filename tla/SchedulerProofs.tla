--------------------------- MODULE SchedulerProofs ---------------------------
(***************************************************************************)
(* Safety of the scheduler for any bounds: no operation is stranded, and   *)
(* no replay is scheduled beside another.                                  *)
(***************************************************************************)
EXTENDS Scheduler, TLAPS

States == [on : SUBSET Flags, failures : 0..MaxFailures]

(* What is queued and announced is known to an idle reducer, and what a    *)
(* replay missed at its last look was announced, or is still to be.        *)
KnownWhenIdle ==
    replay = "idle" /\ app = "launched" /\ unannounced = 0 /\ queued > 0
                    /\ slipped = 0
        => "pending" \in core.on

ScheduledWhenOpen == replay = "idle" /\ GatesOpen(core) => timer # NoTimer

MissedWasAnnounced ==
    replay = "read" /\ outcome.left = 0 /\ queued > 0 /\ unannounced = 0
        => outcome.missed > 0

IInv ==
    /\ TypeOK
    /\ NoParallelDrain
    /\ KnownWhenIdle
    /\ ScheduledWhenOpen
    /\ MissedWasAnnounced

LEMMA InitEstablishes == ASSUME Init PROVE IInv
BY SchedulerBounds DEF Init, IInv, TypeOK, NoParallelDrain, KnownWhenIdle,
   ScheduledWhenOpen, MissedWasAnnounced, DefaultState, GatesOpen, NoTimer,
   NoOutcome, Flags

(* A rung of the ladder is a time to wait.                                 *)
LEMMA BackoffIsNat ==
    ASSUME NEW n \in Nat PROVE ReconnectBackoffSeconds(n) \in Nat
BY DEF ReconnectBackoffSeconds, BackoffLadder

(* Feeding a result in keeps the range, and leaves a timer whenever the    *)
(* result asks for a delay or left one before.                             *)
LEMMA Fed ==
    ASSUME TypeOK, NEW s \in States, NEW asks \in BOOLEAN, NEW delay \in Nat,
           Feed(Result(s, asks, delay))
    PROVE  /\ core' = s
           /\ timer' \in Int
           /\ timer' # NoTimer <=> (asks \/ timer # NoTimer)
BY DEF Feed, Result, NoTimer, TypeOK

(* Spending is counting. *)
LEMMA Spending ==
    ASSUME TypeOK, NEW what \in {"ops", "flips", "troubles", "restarts"}, Spend(what)
    PROVE  spent' \in [ops : Nat, flips : Nat, troubles : Nat, restarts : Nat]
BY DEF TypeOK, Spend

LEMMA WorldKeeps == ASSUME IInv, World PROVE IInv'
<1> USE DEF IInv
<1>1. CASE Enqueue
  <2>1. TypeOK'
    BY <1>1, Spending DEF Enqueue, TypeOK
  <2>2. QED
    BY <1>1, <2>1 DEF Enqueue, TypeOK, NoParallelDrain, KnownWhenIdle,
       ScheduledWhenOpen, MissedWasAnnounced, GatesOpen
<1>2. CASE NetworkFlips
  <2>1. TypeOK'
    BY <1>2, Spending DEF NetworkFlips, TypeOK
  <2>2. QED
    BY <1>2, <2>1 DEF NetworkFlips, NoParallelDrain, KnownWhenIdle,
       ScheduledWhenOpen, MissedWasAnnounced, GatesOpen
<1>3. CASE SessionFlips
  <2>1. TypeOK'
    BY <1>3, Spending DEF SessionFlips, TypeOK
  <2>2. QED
    BY <1>3, <2>1 DEF SessionFlips, NoParallelDrain, KnownWhenIdle,
       ScheduledWhenOpen, MissedWasAnnounced, GatesOpen
<1>4. CASE Restart
  <2>1. TypeOK'
    BY <1>4, Spending, SchedulerBounds DEF Restart, TypeOK, DefaultState, Flags,
       NoOutcome, NoTimer
  <2>2. QED
    BY <1>4, <2>1 DEF Restart, NoParallelDrain, KnownWhenIdle, ScheduledWhenOpen,
       MissedWasAnnounced, GatesOpen, DefaultState, NoOutcome
<1>5. QED  BY <1>1, <1>2, <1>3, <1>4 DEF World

(* What turning a flag does, and what open gates are, flag by flag.        *)
LEMMA Turned ==
    ASSUME NEW s \in States, NEW flag \in Flags, NEW on \in BOOLEAN
    PROVE  /\ Turn(s, flag, on) \in States
           /\ flag \in Turn(s, flag, on).on <=> on
           /\ \A f \in Flags \ {flag} : f \in Turn(s, flag, on).on <=> f \in s.on
<1>1. CASE on
  BY <1>1 DEF States, Turn
<1>2. CASE ~on
  BY <1>2 DEF States, Turn
<1>3. QED  BY <1>1, <1>2

LEMMA Open ==
    ASSUME NEW s \in States
    PROVE  GatesOpen(s) <=> /\ "pending" \in s.on /\ "connected" \in s.on
                            /\ "signedIn" \in s.on /\ "processing" \notin s.on
BY DEF States, GatesOpen, Flags

LEMMA ReportingKeeps == ASSUME IInv, Reporting PROVE IInv'
<1> USE DEF IInv
<1>0. core \in States /\ {"pending", "connected", "signedIn", "processing"} = Flags
  BY DEF TypeOK, States, Flags
<1>1. CASE Launch
  <2> DEFINE s == Turn(core, "pending", queued > 0)
             asks == GatesOpen(s)
  <2>0. (queued > 0) \in BOOLEAN
    OBVIOUS
  <2>1. /\ s \in States /\ ("pending" \in s.on <=> queued > 0)
        /\ \A f \in Flags \ {"pending"} : f \in s.on <=> f \in core.on
    BY <1>0, <2>0, Turned, Zenon
  <2>2. Feed(Result(s, asks, 0)) /\ asks \in BOOLEAN
    BY <1>1, Zenon DEF Launch, AppLaunched, GatesOpen
  <2>3. GatesOpen(s) <=> /\ "pending" \in s.on /\ "connected" \in s.on
                         /\ "signedIn" \in s.on /\ "processing" \notin s.on
    BY <2>1, Open
  <2> HIDE DEF s, asks
  <2>4. core' = s /\ timer' \in Int
        /\ (timer' # NoTimer <=> (asks \/ timer # NoTimer))
    BY <2>1, <2>2, Fed
  <2>5. TypeOK'
    BY <1>1, <2>1, <2>4 DEF TypeOK, Launch, Heard, States
  <2>6. NoParallelDrain' /\ ScheduledWhenOpen'
    BY <1>0, <1>1, <2>1, <2>3, <2>4, Open DEF asks, Launch, Heard, NoParallelDrain,
       ScheduledWhenOpen, TypeOK
  <2>7. KnownWhenIdle' /\ MissedWasAnnounced'
    BY <1>0, <1>1, <2>1, <2>4 DEF Launch, Heard, KnownWhenIdle,
       MissedWasAnnounced, TypeOK
  <2>8. QED  BY <2>5, <2>6, <2>7
<1>2. CASE Announce
  <2> DEFINE s == Turn(core, "pending", TRUE)
             asks == GatesOpen(s)
  <2>1. /\ s \in States /\ ("pending" \in s.on <=> TRUE)
        /\ \A f \in Flags \ {"pending"} : f \in s.on <=> f \in core.on
    BY <1>0, Turned, Zenon
  <2>2. Feed(Result(s, asks, EnqueueCoalesce)) /\ asks \in BOOLEAN
    BY <1>2, Zenon DEF Announce, OperationEnqueued, GatesOpen
  <2>3. GatesOpen(s) <=> /\ "pending" \in s.on /\ "connected" \in s.on
                         /\ "signedIn" \in s.on /\ "processing" \notin s.on
    BY <2>1, Open
  <2> HIDE DEF s, asks
  <2>4. core' = s /\ timer' \in Int
        /\ (timer' # NoTimer <=> (asks \/ timer # NoTimer))
    BY <2>1, <2>2, Fed DEF EnqueueCoalesce
  <2>5. TypeOK'
    BY <1>2, <2>1, <2>4 DEF TypeOK, Announce, Heard, States
  <2>6. NoParallelDrain' /\ ScheduledWhenOpen'
    BY <1>0, <1>2, <2>1, <2>3, <2>4, Open DEF asks, Announce, Heard, NoParallelDrain,
       ScheduledWhenOpen, TypeOK
  <2>7. KnownWhenIdle' /\ MissedWasAnnounced'
    BY <1>0, <1>2, <2>1, <2>4 DEF Announce, Heard, KnownWhenIdle,
       MissedWasAnnounced, TypeOK
  <2>8. QED  BY <2>5, <2>6, <2>7
<1>3. CASE ReportConnectivity
  <2> DEFINE s == Turn(core, "connected", network = "up")
             asks == "connected" \notin core.on /\ GatesOpen(s)
  <2>1. /\ s \in States /\ ("connected" \in s.on <=> network = "up")
        /\ \A f \in Flags \ {"connected"} : f \in s.on <=> f \in core.on
    BY <1>0, Turned, Zenon
  <2>2. Feed(Result(s, asks, ReconnectDebounce)) /\ asks \in BOOLEAN
    BY <1>3, Zenon DEF ReportConnectivity, ConnectivityChanged, GatesOpen
  <2>3. GatesOpen(s) <=> /\ "pending" \in s.on /\ "connected" \in s.on
                         /\ "signedIn" \in s.on /\ "processing" \notin s.on
    BY <2>1, Open
  <2> HIDE DEF s, asks
  <2>4. core' = s /\ timer' \in Int
        /\ (timer' # NoTimer <=> (asks \/ timer # NoTimer))
    BY <2>1, <2>2, Fed DEF ReconnectDebounce
  <2>5. TypeOK'
    BY <1>3, <2>1, <2>4 DEF TypeOK, ReportConnectivity, hostVars, States
  <2>6. NoParallelDrain' /\ ScheduledWhenOpen'
    BY <1>0, <1>3, <2>1, <2>3, <2>4, Open DEF asks, ReportConnectivity, hostVars, NoParallelDrain,
       ScheduledWhenOpen, TypeOK
  <2>7. KnownWhenIdle' /\ MissedWasAnnounced'
    BY <1>0, <1>3, <2>1, <2>4 DEF ReportConnectivity, hostVars, KnownWhenIdle,
       MissedWasAnnounced, TypeOK
  <2>8. QED  BY <2>5, <2>6, <2>7
<1>4. CASE ReportAuth
  <2> DEFINE s == Turn(core, "signedIn", session = "in")
             asks == "signedIn" \notin core.on /\ GatesOpen(s)
  <2>1. /\ s \in States /\ ("signedIn" \in s.on <=> session = "in")
        /\ \A f \in Flags \ {"signedIn"} : f \in s.on <=> f \in core.on
    BY <1>0, Turned, Zenon
  <2>2. Feed(Result(s, asks, 0)) /\ asks \in BOOLEAN
    BY <1>4, Zenon DEF ReportAuth, AuthStateChanged, GatesOpen
  <2>3. GatesOpen(s) <=> /\ "pending" \in s.on /\ "connected" \in s.on
                         /\ "signedIn" \in s.on /\ "processing" \notin s.on
    BY <2>1, Open
  <2> HIDE DEF s, asks
  <2>4. core' = s /\ timer' \in Int
        /\ (timer' # NoTimer <=> (asks \/ timer # NoTimer))
    BY <2>1, <2>2, Fed
  <2>5. TypeOK'
    BY <1>4, <2>1, <2>4 DEF TypeOK, ReportAuth, hostVars, States
  <2>6. NoParallelDrain' /\ ScheduledWhenOpen'
    BY <1>0, <1>4, <2>1, <2>3, <2>4, Open DEF asks, ReportAuth, hostVars, NoParallelDrain,
       ScheduledWhenOpen, TypeOK
  <2>7. KnownWhenIdle' /\ MissedWasAnnounced'
    BY <1>0, <1>4, <2>1, <2>4 DEF ReportAuth, hostVars, KnownWhenIdle,
       MissedWasAnnounced, TypeOK
  <2>8. QED  BY <2>5, <2>6, <2>7
<1>5. QED  BY <1>1, <1>2, <1>3, <1>4 DEF Reporting

LEMMA ReplayingKeeps == ASSUME IInv, Replaying PROVE IInv'
<1> USE DEF IInv
<1>0. core \in States
  BY DEF TypeOK, States
<1>1. CASE Fire
  <2>1. core' \in States /\ "processing" \in core'.on
    BY <1>0, <1>1, Turned DEF Fire, ProcessingStarted, Flags
  <2>2. QED
    BY <1>1, <2>1 DEF Fire, TypeOK, States, NoTimer, NoParallelDrain,
       KnownWhenIdle, ScheduledWhenOpen, MissedWasAnnounced
<1>2. CASE Drain
  BY <1>2 DEF Drain, TypeOK, NoParallelDrain, KnownWhenIdle, ScheduledWhenOpen,
     MissedWasAnnounced
<1>3. CASE DrainNothing
  BY <1>3 DEF DrainNothing, TypeOK, NoParallelDrain, KnownWhenIdle,
     ScheduledWhenOpen, MissedWasAnnounced
<1>4. CASE DrainSome
  BY <1>4 DEF DrainSome, Spend, TypeOK, NoParallelDrain, KnownWhenIdle,
     ScheduledWhenOpen, MissedWasAnnounced
<1>5. CASE ReadQueue
  BY <1>5 DEF ReadQueue, TypeOK, NoParallelDrain, KnownWhenIdle,
     ScheduledWhenOpen, MissedWasAnnounced
<1>6. CASE Report
  <2> DEFINE still == (IF replay = "read" THEN outcome.left ELSE queued) > 0
             fails == FailuresAfter(core, outcome.drained, still)
             s == AfterReplay(core, outcome.drained, still)
             delay == IF outcome.drained > 0 THEN ForwardProgressRetry
                      ELSE 1000 * ReconnectBackoffSeconds(s.failures)
  <2>1. fails \in 0..MaxFailures /\ still \in BOOLEAN
    BY <1>0, SchedulerBounds DEF FailuresAfter, States, TypeOK
  <2>2. s \in States /\ s.failures = fails /\ "processing" \notin s.on
        /\ ("pending" \in s.on <=> still)
    BY <1>0, <2>1 DEF States, AfterReplay, Flags
  <2>3. delay \in Nat
    BY <2>1, <2>2, SchedulerBounds, BackoffIsNat DEF ForwardProgressRetry
  <2>4. Feed(Result(s, GatesOpen(s), delay)) /\ GatesOpen(s) \in BOOLEAN
    BY <1>6 DEF Report, Processed, GatesOpen
  <2> HIDE DEF delay
  <2>5. core' = s /\ timer' \in Int
        /\ (timer' # NoTimer <=> (GatesOpen(s) \/ timer # NoTimer))
    BY <2>2, <2>3, <2>4, Fed
  <2> HIDE DEF s
  <2>6. TypeOK'
    BY <1>6, <2>2, <2>5 DEF TypeOK, Report, NoOutcome, States
  <2>7. NoParallelDrain' /\ ScheduledWhenOpen' /\ MissedWasAnnounced'
    BY <1>6, <2>2, <2>5, <2>6 DEF Report, NoParallelDrain, ScheduledWhenOpen,
       MissedWasAnnounced, GatesOpen, TypeOK
  <2>8. KnownWhenIdle'
    BY <1>6, <2>2, <2>5 DEF Report, KnownWhenIdle, MissedWasAnnounced, TypeOK
  <2>9. QED  BY <2>6, <2>7, <2>8
<1>7. QED  BY <1>1, <1>2, <1>3, <1>4, <1>5, <1>6 DEF Replaying

LEMMA Inductive == ASSUME IInv, [Next]_vars PROVE IInv'
<1>1. CASE UNCHANGED vars
  BY <1>1 DEF vars, hostVars, IInv, TypeOK, NoParallelDrain, KnownWhenIdle,
     ScheduledWhenOpen, MissedWasAnnounced, GatesOpen
<1>2. QED
  BY <1>1, WorldKeeps, ReportingKeeps, ReplayingKeeps DEF Next

LEMMA Always == Spec => []IInv
<1>1. QED  BY InitEstablishes, Inductive, PTL DEF Spec

(* The scheduler's state stays in its range whatever the bounds.           *)
THEOREM SchedulerTypeCorrect == Spec => []TypeOK
<1>1. IInv => TypeOK
  BY DEF IInv
<1>2. QED  BY <1>1, Always, PTL

(* No replay is scheduled beside one that runs (reducer.rs:78).            *)
THEOREM SchedulerNeverParallel == Spec => []NoParallelDrain
<1>1. IInv => NoParallelDrain
  BY DEF IInv
<1>2. QED  BY <1>1, Always, PTL

(* Whatever interleaving of writers, replays, network, sign-ins and        *)
(* restarts, an idle and open scheduler with something queued has a replay *)
(* scheduled, unless the last report overwrote an announcement.            *)
THEOREM SchedulerNeverStrands == Spec => []NoStranding
<1>1. ASSUME IInv PROVE NoStranding
  <2>1. core \in States
    BY <1>1 DEF IInv, TypeOK, States
  <2>2. QED
    BY <1>1, <2>1, Open DEF IInv, TypeOK, KnownWhenIdle, ScheduledWhenOpen,
       NoParallelDrain, NoStranding
<1>2. QED  BY <1>1, Always, PTL
=============================================================================
