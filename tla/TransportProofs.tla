-------------------------- MODULE TransportProofs ---------------------------
(***************************************************************************)
(* The realtime transport: whatever calls, deaths and troubles come, the   *)
(* handle tells which supervisor goes on and a host that acts on lifecycle *)
(* events misses nothing but what its channel could not hold or its join   *)
(* came too late for; and no connection is given up on a false alarm.      *)
(***************************************************************************)
EXTENDS Realtime, Connection, TLAPS

-----------------------------------------------------------------------------
(* Channels.                                                               *)

LEMMA ToSetMembers ==
    \A s : \A x : x \in ToSet(s) <=> \E i \in DOMAIN s : x = s[i]
  BY DEF ToSet

(* push_back                                                               *)
LEMMA AppendFacts ==
    ASSUME NEW S, NEW s \in Seq(S), NEW x \in S
    PROVE  /\ Append(s, x) \in Seq(S) /\ Append(s, x) # <<>>
           /\ Len(Append(s, x)) = Len(s) + 1
           /\ ToSet(Append(s, x)) = ToSet(s) \cup {x}
<1> DEFINE q == Append(s, x)
<1>1. /\ q \in Seq(S) /\ Len(s) \in Nat /\ Len(q) = Len(s) + 1
      /\ DOMAIN q = 1..(Len(s) + 1) /\ DOMAIN s = 1..Len(s)
      /\ q[Len(s) + 1] = x
      /\ \A i \in 1..Len(s) : q[i] = s[i]
  OBVIOUS
<1>2. q # <<>>
  BY <1>1
<1> HIDE DEF q
<1>3. \A i : i \in 1..(Len(s) + 1) <=> i \in 1..Len(s) \/ i = Len(s) + 1
  BY <1>1, SMT
<1>4. \A y : y \in ToSet(q) <=> y \in ToSet(s) \/ y = x
  BY <1>1, <1>3, ToSetMembers
<1>5. QED  BY <1>1, <1>2, <1>4 DEF q

(* pop_front                                                               *)
LEMMA TailFacts ==
    ASSUME NEW S, NEW s \in Seq(S), s # <<>>
    PROVE  /\ Head(s) \in S /\ Tail(s) \in Seq(S)
           /\ Len(Tail(s)) = Len(s) - 1
           /\ ToSet(s) = {Head(s)} \cup ToSet(Tail(s))
<1> DEFINE q == Tail(s)
<1>1. Len(s) \in Nat /\ Len(s) # 0 /\ DOMAIN s = 1..Len(s) /\ Head(s) = s[1]
  OBVIOUS
<1>2. /\ q \in Seq(S) /\ Len(q) = Len(s) - 1
      /\ DOMAIN q = 1..(Len(s) - 1)
      /\ \A i \in 1..(Len(s) - 1) : q[i] = s[i + 1]
  BY <1>1
<1>3. Head(s) \in S
  BY <1>1
<1> HIDE DEF q
<1>4. \A i \in 1..(Len(s) - 1) : i + 1 \in 1..Len(s)
  BY <1>1, SMT
<1>5. \A i \in 1..Len(s) : i = 1 \/ (i - 1 \in 1..(Len(s) - 1) /\ i = (i - 1) + 1)
  BY <1>1, SMT
<1>6. 1 \in 1..Len(s)
  BY <1>1, SMT
<1>7. \A y : y \in ToSet(s) <=> y = Head(s) \/ y \in ToSet(q)
  <2>1. \A y \in ToSet(q) : y \in ToSet(s)
    BY <1>1, <1>2, <1>4, ToSetMembers
  <2>2. \A y \in ToSet(s) : y = Head(s) \/ y \in ToSet(q)
    <3>1. \A i \in 1..Len(s) : s[i] = Head(s) \/ \E j \in 1..(Len(s) - 1) : s[i] = q[j]
      BY <1>1, <1>2, <1>5
    <3>2. QED  BY <1>1, <1>2, <3>1, ToSetMembers
  <2>3. Head(s) \in ToSet(s)
    BY <1>1, <1>6, ToSetMembers
  <2>4. QED  BY <2>1, <2>2, <2>3
<1>8. QED  BY <1>2, <1>3, <1>7 DEF q

LEMMA EmptyFacts ==
    ASSUME NEW S PROVE <<>> \in Seq(S) /\ Len(<<>>) = 0 /\ ToSet(<<>>) = {}
  BY ToSetMembers

LEMMA SeqGrows ==
    ASSUME NEW n \in Nat, NEW s \in Seq(1..n) PROVE s \in Seq(1..(n + 1))
<1>1. \A i \in 1..Len(s) : s[i] \in 1..(n + 1)
  BY SMT
<1>2. QED  BY <1>1

-----------------------------------------------------------------------------
(* One connection.                                                         *)

LEMMA ConnStart == ConnInit => ConnInv
  BY DEF ConnInit, ConnInv, NoFalseAlarm

(* The tasks that end without a timeout meet a socket that is dead.        *)
LEMMA EndsKeep == ConnInv /\ (ReadEnds \/ WriteEnds) => ConnInv'
<1> SUFFICES ASSUME ConnInv, ReadEnds \/ WriteEnds PROVE ConnInv'
  OBVIOUS
<1>1. socket # "up"
  BY DEF ReadEnds, WriteEnds, SocketDeaths
<1>2. UNCHANGED <<socket, awaiting, pending, replied>>
  BY DEF ReadEnds, WriteEnds
<1>3. QED  BY <1>1, <1>2 DEF ConnInv, NoFalseAlarm

(* A task asks: on a live connection nobody has found slow, the writer     *)
(* runs.                                                                   *)
LEMMA AskKeeps ==
    ASSUME NEW p \in Pingers, ConnInv, Ask(p) PROVE ConnInv'
<1>1. /\ p \notin awaiting /\ pending' = pending \cup {p}
      /\ UNCHANGED <<socket, reason, replied, late>>
  BY DEF Ask
<1>2. \/ "write" \in tasks /\ awaiting' = awaiting \cup {p} /\ tasks' = tasks
      \/ "write" \notin tasks /\ awaiting' = awaiting
  <2>1. CASE "write" \in tasks
    BY <2>1 DEF Ask
  <2>2. CASE "write" \notin tasks
    BY <2>2 DEF Ask
  <2>3. QED  BY <2>1, <2>2
<1>3. p \notin replied
  BY <1>1 DEF ConnInv
<1>4. replied' \subseteq awaiting' /\ replied' \cap pending' = {}
  BY <1>1, <1>2, <1>3 DEF ConnInv
<1>5. NoFalseAlarm'
  BY <1>1, <1>2 DEF ConnInv, NoFalseAlarm, AllTasks
<1>6. QED  BY <1>4, <1>5 DEF ConnInv

(* The reader handles a reply.                                             *)
LEMMA AnswerKeeps ==
    ASSUME NEW p \in Pingers, ConnInv, Answer(p) PROVE ConnInv'
<1>1. /\ p \in awaiting
      /\ pending' = pending \ {p} /\ replied' = replied \cup {p}
      /\ UNCHANGED <<socket, tasks, awaiting, reason, late>>
  BY DEF Answer
<1>2. QED  BY <1>1 DEF ConnInv, NoFalseAlarm

(* The wait is over: the task of a reply that was read finds no ref, so    *)
(* one that finds its ref was answered late or not at all.                 *)
LEMMA WaitOverKeeps ==
    ASSUME NEW p \in Pingers, ConnInv, Resume(p) \/ Expire(p) PROVE ConnInv'
<1>1. CASE Resume(p)
  <2>1. /\ awaiting' = awaiting \ {p} /\ replied' = replied \ {p}
        /\ UNCHANGED <<socket, tasks, pending, reason, late>>
    BY <1>1 DEF Resume
  <2>2. QED  BY <2>1 DEF ConnInv, NoFalseAlarm
<1>2. CASE Expire(p)
  <2>1. /\ p \in pending /\ awaiting' = awaiting \ {p}
        /\ UNCHANGED <<socket, pending, replied, late>>
    BY <1>2 DEF Expire
  <2>2. p \notin replied
    BY <2>1 DEF ConnInv
  <2>3. socket # "up" \/ late # {}
    BY <1>2, <2>2 DEF Expire, TimeIsUp
  <2>4. QED  BY <2>1, <2>2, <2>3 DEF ConnInv, NoFalseAlarm
<1>3. QED  BY <1>1, <1>2

LEMMA ConnStep == ConnInv /\ [ConnNext]_connVars => ConnInv'
<1> SUFFICES ASSUME ConnInv, [ConnNext]_connVars PROVE ConnInv'
  OBVIOUS
<1>1. ASSUME NEW p \in Pingers, BeLate(p) PROVE ConnInv'
  <2>1. late' = late \cup {p} /\ UNCHANGED <<socket, awaiting, pending, replied>>
    BY <1>1 DEF BeLate
  <2>2. QED  BY <2>1 DEF ConnInv, NoFalseAlarm
<1>2. CASE Return
  <2>1. socket' = "closed" /\ awaiting' = {} /\ pending' = {} /\ replied' = {}
    BY <1>2 DEF Return
  <2>2. QED  BY <2>1 DEF ConnInv, NoFalseAlarm
<1>3. CASE Shut
  BY <1>3 DEF Shut, ConnInv, NoFalseAlarm
<1>4. CASE SocketDies
  BY <1>4 DEF SocketDies, SocketDeaths, ConnInv, NoFalseAlarm
<1>5. CASE UNCHANGED connVars
  BY <1>5 DEF connVars, ConnInv, NoFalseAlarm
<1>6. QED
  BY <1>1, <1>2, <1>3, <1>4, <1>5, EndsKeep, AskKeeps, AnswerKeeps, WaitOverKeeps
  DEF ConnNext

(* No connection is given up while it is alive and its server was never    *)
(* late: run_heartbeat and run_liveness look at the tracker some time      *)
(* after the reader took the ref out, and never mistake that for silence.  *)
THEOREM NoFalseAlarms == ConnSpec => []NoFalseAlarm
<1>1. ConnInv => NoFalseAlarm
  BY DEF ConnInv
<1>2. QED  BY ConnStart, ConnStep, <1>1, PTL DEF ConnSpec

-----------------------------------------------------------------------------
(* The subscription.                                                       *)

LEMMA StreamStart == Init => StreamInv
<1> SUFFICES ASSUME Init PROVE StreamInv
  OBVIOUS
<1>1. MaxSubs \in Nat /\ MaxChanges \in Nat /\ MaxDeaths \in Nat /\ MaxTroubles \in Nat
      /\ Capacity \in Nat /\ Capacity # 0
  BY RealtimeBounds
<1>2. TypeOK
  <2>1. wire \in Seq(1..committed) /\ buffer \in Seq(1..committed) /\ Len(buffer) = 0
    BY EmptyFacts DEF Init
  <2>2. handle \in Subs \cup {None} /\ caller \in Subs \cup {None}
        /\ started \in 0..MaxSubs /\ committed \in 0..MaxChanges
        /\ Len(buffer) =< Capacity
    BY <1>1, <2>1 DEF Init, Subs, None
  <2>3. spent \in [deaths : 0..MaxDeaths, troubles : 0..MaxTroubles]
    BY <1>1 DEF Init
  <2>4. QED  BY <2>1, <2>2, <2>3 DEF Init, TypeOK
<1>3. None \notin Subs
  BY DEF None, Subs
<1>4. HandleIsTruth
  BY <1>3 DEF Init, HandleIsTruth, Alive
<1>5. ~Connected
  BY DEF Init, Connected
<1>6. ConnectionsRun /\ NothingElseMissed
  BY <1>5 DEF Init, ConnectionsRun, NothingElseMissed
<1>7. QED  BY <1>2, <1>4, <1>6 DEF StreamInv

LEMMA SpendKeeps ==
    ASSUME TypeOK, NEW what \in {"deaths", "troubles"}, Spend(what)
    PROVE  spent' \in [deaths : 0..MaxDeaths, troubles : 0..MaxTroubles]
<1>1. MaxDeaths \in Nat /\ MaxTroubles \in Nat
  BY RealtimeBounds
<1>2. spent \in [deaths : 0..MaxDeaths, troubles : 0..MaxTroubles]
  BY DEF TypeOK
<1>3. CASE what = "deaths"
  <2>1. spent.deaths < MaxDeaths /\ spent' = [spent EXCEPT !.deaths = @ + 1]
    BY <1>3 DEF Spend
  <2>2. spent.deaths + 1 \in 0..MaxDeaths
    BY <1>1, <1>2, <2>1
  <2>3. QED  BY <1>2, <2>1, <2>2
<1>4. CASE what = "troubles"
  <2>1. spent.troubles < MaxTroubles /\ spent' = [spent EXCEPT !.troubles = @ + 1]
    BY <1>4 DEF Spend
  <2>2. spent.troubles + 1 \in 0..MaxTroubles
    BY <1>1, <1>2, <2>1
  <2>3. QED  BY <1>2, <2>1, <2>2
<1>5. QED  BY <1>3, <1>4

(* Between two connections a supervisor goes from place to place, and      *)
(* leaves only when it was told to.                                        *)
LEMMA MoveKeeps ==
    ASSUME StreamInv, NEW i \in Subs,
           NEW to \in {"checking", "refreshing", "connecting", "sleeping", "exited"},
           pc[i] \in {"checking", "refreshing", "connecting", "sleeping"},
           to = "exited" => i \in told,
           pc' = [pc EXCEPT ![i] = to],
           UNCHANGED <<callVars, last, conn, streamVars, committed, deaf, session>>,
           spent' \in [deaths : 0..MaxDeaths, troubles : 0..MaxTroubles]
    PROVE  StreamInv'
<1> USE DEF callVars, streamVars
<1>1. pc \in [Subs -> {"unborn", "checking", "refreshing", "connecting",
                       "running", "sleeping", "exited"}]
  BY DEF StreamInv, TypeOK
<1>2. TypeOK'
  BY <1>1 DEF StreamInv, TypeOK
<1>3. HandleIsTruth'
  BY <1>1 DEF StreamInv, HandleIsTruth, Alive
<1>4. Connected' <=> Connected
  BY DEF Connected
<1>5. ConnectionsRun'
  BY <1>1, <1>4 DEF StreamInv, ConnectionsRun
<1>6. NothingElseMissed'
  BY <1>4 DEF StreamInv, NothingElseMissed, Unseen
<1>7. QED  BY <1>2, <1>3, <1>5, <1>6 DEF StreamInv

LEMMA LoopKeeps ==
    ASSUME StreamInv, NEW i \in Subs,
           Check(i) \/ Refreshed(i) \/ NotConnected(i) \/ Wake(i) \/ SleepShut(i)
    PROVE  StreamInv'
<1>1. TypeOK /\ spent \in [deaths : 0..MaxDeaths, troubles : 0..MaxTroubles]
  BY DEF StreamInv, TypeOK
<1>2. CASE Check(i)
  <2>1. CASE i \in told
    BY <1>1, <1>2, <2>1, MoveKeeps DEF Check, Goto, worldVars
  <2>2. CASE i \notin told
    BY <1>1, <1>2, <2>2, MoveKeeps DEF Check, Goto, worldVars
  <2>3. QED  BY <2>1, <2>2
<1>3. CASE Refreshed(i)
  BY <1>1, <1>3, MoveKeeps DEF Refreshed, Goto, worldVars
<1>4. CASE NotConnected(i)
  <2>1. Goto(i, "refreshing", "sleeping") \/ Goto(i, "connecting", "sleeping")
    BY <1>4 DEF NotConnected
  <2>2. UNCHANGED spent \/ Spend("troubles")
    BY <1>4 DEF NotConnected
  <2>3. spent' \in [deaths : 0..MaxDeaths, troubles : 0..MaxTroubles]
    BY <1>1, <2>2, SpendKeeps
  <2>4. UNCHANGED <<callVars, last, conn, streamVars, committed, deaf, session>>
    BY <1>4 DEF NotConnected
  <2>5. /\ pc[i] \in {"checking", "refreshing", "connecting", "sleeping"}
        /\ pc' = [pc EXCEPT ![i] = "sleeping"]
    BY <2>1 DEF Goto
  <2>6. QED  BY <2>3, <2>4, <2>5, MoveKeeps
<1>5. CASE Wake(i)
  BY <1>1, <1>5, MoveKeeps DEF Wake, Goto, worldVars
<1>6. CASE SleepShut(i)
  BY <1>1, <1>6, MoveKeeps DEF SleepShut, Goto, worldVars
<1>7. QED  BY <1>2, <1>3, <1>4, <1>5, <1>6

(* A new connection: its join is on the way, and the host is told.         *)
LEMMA EstablishedKeeps ==
    ASSUME StreamInv, NEW i \in Subs, Established(i) PROVE StreamInv'
<1>1. /\ pc[i] = "connecting" /\ pc' = [pc EXCEPT ![i] = "running"]
      /\ conn' = [conn EXCEPT ![i] = "up"]
      /\ UNCHANGED <<callVars, wire, buffer, have, lagged, worldVars>>
  BY DEF Established, Goto
<1>2. last' = [last EXCEPT ![i] = IF @ = "none" THEN "connected" ELSE "reconnected"]
  BY DEF Established
<1>3. /\ join' = IF i = handle THEN "sent" ELSE join
      /\ host' = IF i = handle /\ host = "even" THEN "behind" ELSE host
  BY DEF Established
<1> USE DEF callVars, worldVars
<1>4. /\ pc \in [Subs -> {"unborn", "checking", "refreshing", "connecting",
                          "running", "sleeping", "exited"}]
      /\ last \in [Subs -> {"none", "connected", "reconnected",
                            "disconnected", "manual"}]
      /\ conn \in [Subs -> {"none", "up", "lost"}]
      /\ join \in {"none", "sent", "done"} /\ host \in {"away", "behind", "even"}
  BY DEF StreamInv, TypeOK
<1>5. TypeOK'
  <2>1. last' \in [Subs -> {"none", "connected", "reconnected",
                            "disconnected", "manual"}]
    BY <1>2, <1>4
  <2>2. /\ pc' \in [Subs -> {"unborn", "checking", "refreshing", "connecting",
                             "running", "sleeping", "exited"}]
        /\ conn' \in [Subs -> {"none", "up", "lost"}]
    BY <1>1, <1>4
  <2>3. join' \in {"none", "sent", "done"} /\ host' \in {"away", "behind", "even"}
    BY <1>3, <1>4
  <2>4. QED  BY <1>1, <2>1, <2>2, <2>3 DEF StreamInv, TypeOK
<1>6. HandleIsTruth'
  BY <1>1, <1>4 DEF StreamInv, HandleIsTruth, Alive
<1>7. ConnectionsRun'
  <2>1. \A j \in Subs : conn'[j] # "none" => pc'[j] = "running"
    BY <1>1, <1>4 DEF StreamInv, ConnectionsRun
  <2>2. \A j \in Subs : j > started' => pc'[j] = "unborn"
    BY <1>1, <1>4 DEF StreamInv, ConnectionsRun
  <2>3. Connected' => join' # "none"
    BY <1>1, <1>3, <1>4 DEF StreamInv, ConnectionsRun, Connected, TypeOK, None
  <2>4. QED  BY <2>1, <2>2, <2>3 DEF ConnectionsRun
<1>8. NothingElseMissed'
  <2>1. CASE i = handle
    BY <1>3, <1>4, <2>1 DEF NothingElseMissed
  <2>2. CASE i # handle
    <3>1. Connected' = Connected /\ host' = host
      BY <1>1, <1>3, <1>4, <2>2 DEF StreamInv, Connected, TypeOK, None
    <3>2. QED  BY <1>1, <3>1 DEF StreamInv, NothingElseMissed, Unseen
  <2>3. QED  BY <2>1, <2>2
<1>9. QED  BY <1>5, <1>6, <1>7, <1>8 DEF StreamInv

(* A connection is torn down: it goes on, or was told to stop.             *)
LEMMA TearDownKeeps ==
    ASSUME StreamInv, NEW i \in Subs, SessionEnds(i) \/ SessionShut(i)
    PROVE  StreamInv'
<1>1. /\ pc[i] = "running"
      /\ conn' = [conn EXCEPT ![i] = "none"]
      /\ join' = IF i = handle THEN "none" ELSE join
      /\ wire' = IF i = handle THEN <<>> ELSE wire
      /\ UNCHANGED <<callVars, buffer, host, have, lagged, worldVars>>
  BY DEF SessionEnds, SessionShut, Goto, TearDown
<1>2. \/ pc' = [pc EXCEPT ![i] = "sleeping"]
      \/ pc' = [pc EXCEPT ![i] = "exited"] /\ i \in told
  BY DEF SessionEnds, SessionShut, Goto
<1>3. \/ last' = [last EXCEPT ![i] = "disconnected"]
      \/ last' = [last EXCEPT ![i] = "manual"]
  BY DEF SessionEnds, SessionShut
<1> USE DEF callVars, worldVars
<1>4. /\ pc \in [Subs -> {"unborn", "checking", "refreshing", "connecting",
                          "running", "sleeping", "exited"}]
      /\ last \in [Subs -> {"none", "connected", "reconnected",
                            "disconnected", "manual"}]
      /\ conn \in [Subs -> {"none", "up", "lost"}]
      /\ join \in {"none", "sent", "done"} /\ wire \in Seq(1..committed)
  BY DEF StreamInv, TypeOK
<1>5. TypeOK'
  <2>1. last' \in [Subs -> {"none", "connected", "reconnected",
                            "disconnected", "manual"}]
    BY <1>3, <1>4
  <2>2. /\ pc' \in [Subs -> {"unborn", "checking", "refreshing", "connecting",
                             "running", "sleeping", "exited"}]
        /\ conn' \in [Subs -> {"none", "up", "lost"}]
    BY <1>1, <1>2, <1>4
  <2>3. join' \in {"none", "sent", "done"} /\ wire' \in Seq(1..committed)
    BY <1>1, <1>4, EmptyFacts
  <2>4. QED  BY <1>1, <2>1, <2>2, <2>3 DEF StreamInv, TypeOK
<1>6. HandleIsTruth'
  BY <1>1, <1>2, <1>4 DEF StreamInv, HandleIsTruth, Alive
<1>7. /\ i = handle => ~Connected'
      /\ i # handle => (Connected' <=> Connected) /\ wire' = wire /\ join' = join
  BY <1>1, <1>4 DEF StreamInv, Connected, TypeOK, None
<1>8. ConnectionsRun'
  <2>1. \A j \in Subs : conn'[j] # "none" => pc'[j] = "running"
    BY <1>1, <1>2, <1>4 DEF StreamInv, ConnectionsRun
  <2>2. \A j \in Subs : j > started' => pc'[j] = "unborn"
    BY <1>1, <1>2, <1>4 DEF StreamInv, ConnectionsRun
  <2>3. QED  BY <1>7, <2>1, <2>2 DEF StreamInv, ConnectionsRun
<1>9. NothingElseMissed'
  BY <1>1, <1>7 DEF StreamInv, NothingElseMissed, Unseen
<1>10. QED  BY <1>5, <1>6, <1>8, <1>9 DEF StreamInv

LEMMA DieKeeps ==
    ASSUME StreamInv, NEW i \in Subs, Die(i) PROVE StreamInv'
<1>1. /\ conn[i] = "up" /\ conn' = [conn EXCEPT ![i] = "lost"]
      /\ wire' = wire \/ (i = handle /\ wire' = <<>>)
      /\ UNCHANGED <<callVars, pc, last, join, buffer, host, have, lagged,
                     committed, deaf, session>>
  <2>1. conn[i] = "up" /\ conn' = [conn EXCEPT ![i] = "lost"]
    BY DEF Die
  <2>2. wire' = wire \/ (i = handle /\ wire' = <<>>)
    BY DEF Die
  <2>3. UNCHANGED <<callVars, pc, last, join, buffer, host, have, lagged,
                    committed, deaf, session>>
    BY DEF Die
  <2>4. QED  BY <2>1, <2>2, <2>3
<1> USE DEF callVars
<1>2. conn \in [Subs -> {"none", "up", "lost"}] /\ wire \in Seq(1..committed)
  BY DEF StreamInv, TypeOK
<1>3. TypeOK'
  <2>1. spent' \in [deaths : 0..MaxDeaths, troubles : 0..MaxTroubles]
    BY SpendKeeps DEF Die, StreamInv
  <2>2. wire' \in Seq(1..committed) /\ conn' \in [Subs -> {"none", "up", "lost"}]
    BY <1>1, <1>2, EmptyFacts
  <2>3. QED  BY <1>1, <2>1, <2>2 DEF StreamInv, TypeOK
<1>4. HandleIsTruth'
  BY <1>1 DEF StreamInv, HandleIsTruth, Alive
<1>5. /\ i = handle => ~Connected'
      /\ i # handle => (Connected' <=> Connected) /\ wire' = wire
  BY <1>1, <1>2 DEF StreamInv, Connected, TypeOK, None
<1>6. ConnectionsRun'
  <2>1. \A j \in Subs : conn'[j] # "none" => pc'[j] = "running"
    BY <1>1, <1>2 DEF StreamInv, ConnectionsRun
  <2>2. QED  BY <1>1, <1>5, <2>1 DEF StreamInv, ConnectionsRun
<1>7. NothingElseMissed'
  BY <1>1, <1>5 DEF StreamInv, NothingElseMissed, Unseen
<1>8. QED  BY <1>3, <1>4, <1>6, <1>7 DEF StreamInv

(* A call that fails leaves the handle; one that succeeds takes a fresh    *)
(* subscription, which has no connection yet.                              *)
LEMMA SubscribeKeeps == ASSUME StreamInv, Subscribe PROVE StreamInv'
<1> DEFINE n == started + 1
<1>1. /\ handle = None /\ started < MaxSubs /\ started' = n /\ handle' = n
      /\ pc' = [pc EXCEPT ![n] = "checking"]
      /\ UNCHANGED <<caller, told, dropped, last, conn, streamVars, worldVars>>
  BY DEF Subscribe
<1> USE DEF streamVars, worldVars
<1>2. MaxSubs \in Nat /\ started \in 0..MaxSubs
  BY RealtimeBounds DEF StreamInv, TypeOK
<1>3. n \in Subs /\ n > started /\ n \in 0..MaxSubs /\ started \in Nat
  BY <1>1, <1>2 DEF Subs
<1>4. /\ told \subseteq 1..started /\ dropped \subseteq 1..started
      /\ pc \in [Subs -> {"unborn", "checking", "refreshing", "connecting",
                          "running", "sleeping", "exited"}]
      /\ conn \in [Subs -> {"none", "up", "lost"}]
  BY DEF StreamInv, TypeOK
<1>5. n \notin told \cup dropped /\ told \subseteq 1..n /\ dropped \subseteq 1..n
  BY <1>3, <1>4
<1>6. pc[n] = "unborn" /\ conn[n] = "none"
  BY <1>3, <1>4 DEF StreamInv, ConnectionsRun
<1> HIDE DEF n
<1>7. TypeOK'
  <2>1. pc' \in [Subs -> {"unborn", "checking", "refreshing", "connecting",
                          "running", "sleeping", "exited"}]
    BY <1>1, <1>4
  <2>2. told' \subseteq 1..started' /\ dropped' \subseteq 1..started'
        /\ started' \in 0..MaxSubs /\ handle' \in Subs \cup {None}
    BY <1>1, <1>3, <1>5
  <2>3. QED  BY <1>1, <2>1, <2>2 DEF StreamInv, TypeOK
<1>8. HandleIsTruth'
  <2>1. ASSUME NEW j \in Subs
        PROVE  (Alive(j) /\ j \notin told \cup dropped)' <=> j = n
    <3>1. CASE j = n
      BY <1>1, <1>4, <1>5, <3>1 DEF Alive
    <3>2. CASE j # n
      <4>1. ~(Alive(j) /\ j \notin told \cup dropped)
        BY <1>1 DEF StreamInv, HandleIsTruth, Subs, None
      <4>2. pc'[j] = pc[j]
        BY <1>1, <1>4, <3>2
      <4>3. QED  BY <1>1, <3>2, <4>1, <4>2 DEF Alive
    <3>3. QED  BY <3>1, <3>2
  <2>2. QED  BY <1>1, <2>1 DEF HandleIsTruth
<1>9. ~Connected'
  BY <1>1, <1>6 DEF Connected
<1>10. ConnectionsRun'
  <2>1. \A j \in Subs : conn'[j] # "none" => j # n /\ pc[j] = "running"
    BY <1>1, <1>6 DEF StreamInv, ConnectionsRun
  <2>2. \A j \in Subs : conn'[j] # "none" => pc'[j] = "running"
    BY <1>1, <1>4, <2>1
  <2>3. \A j \in Subs : j > n => j > started /\ j # n
    BY <1>3 DEF Subs, n
  <2>4. \A j \in Subs : j > started' => pc'[j] = "unborn"
    BY <1>1, <1>4, <2>3 DEF StreamInv, ConnectionsRun
  <2>5. QED  BY <1>9, <2>2, <2>4 DEF ConnectionsRun
<1>11. QED  BY <1>7, <1>8, <1>9, <1>10 DEF StreamInv, NothingElseMissed

(* The handle goes, and what it stood for was signalled or lost.           *)
LEMMA LetGoKeeps ==
    ASSUME StreamInv, Unsubscribe \/ DropTransport PROVE StreamInv'
<1>1. /\ handle # None /\ handle' = None /\ host' = "away"
      /\ join' = "none" /\ wire' = <<>> /\ buffer' = <<>>
      /\ UNCHANGED <<started, loopVars, have, lagged, worldVars>>
  BY DEF Unsubscribe, DropTransport, LetGo
<1>2. \/ told' = told \cup {handle} /\ caller' = handle /\ dropped' = dropped
      \/ told' = told /\ caller' = caller /\ dropped' = dropped \cup {handle}
  BY DEF Unsubscribe, DropTransport
<1> USE DEF loopVars, worldVars
<1>3. handle \in Subs /\ caller \in Subs \cup {None} /\ started \in 0..MaxSubs
  BY <1>1 DEF StreamInv, TypeOK
<1>4. handle \in 1..started
  <2>1. Alive(handle)
    BY <1>3 DEF StreamInv, HandleIsTruth
  <2>2. ~(handle > started)
    BY <1>3, <2>1 DEF StreamInv, ConnectionsRun, Alive
  <2>3. QED  BY <1>3, <2>2, RealtimeBounds DEF Subs
<1>5. TypeOK'
  <2>1. told' \subseteq 1..started' /\ dropped' \subseteq 1..started'
        /\ caller' \in Subs \cup {None}
    BY <1>1, <1>2, <1>3, <1>4 DEF StreamInv, TypeOK
  <2>2. /\ wire' \in Seq(1..committed') /\ buffer' \in Seq(1..committed')
        /\ Len(buffer') = 0
    BY <1>1, EmptyFacts
  <2>3. Len(buffer') =< Capacity
    BY <2>2, RealtimeBounds
  <2>4. QED  BY <1>1, <2>1, <2>2, <2>3 DEF StreamInv, TypeOK
<1>6. HandleIsTruth'
  <2>1. ASSUME NEW j \in Subs
        PROVE  ~(Alive(j) /\ j \notin told \cup dropped)'
    BY <1>1, <1>2 DEF StreamInv, HandleIsTruth, Alive
  <2>2. None \notin Subs
    BY DEF None, Subs
  <2>3. QED  BY <1>1, <2>1, <2>2 DEF HandleIsTruth
<1>7. ~Connected'
  BY <1>1 DEF Connected
<1>8. QED
  BY <1>1, <1>5, <1>6, <1>7 DEF StreamInv, ConnectionsRun, NothingElseMissed

(* What leaves the supervisors and the calls alone keeps all but the types *)
(* and the changes' account.                                               *)
LEMMA StreamFrame ==
    ASSUME StreamInv, UNCHANGED <<callVars, loopVars>>,
           join' = join \/ join' # "none"
    PROVE  HandleIsTruth' /\ ConnectionsRun' /\ (Connected' <=> Connected)
<1> USE DEF callVars, loopVars
<1>1. HandleIsTruth'
  BY DEF StreamInv, HandleIsTruth, Alive
<1>2. Connected' <=> Connected
  BY DEF Connected
<1>3. QED  BY <1>1, <1>2 DEF StreamInv, ConnectionsRun

(* The reader moves a change from the socket to the channel; the one a     *)
(* full channel gives up for it is counted.                                *)
LEMMA ReadChangeKeeps == ASSUME StreamInv, ReadChange PROVE StreamInv'
<1> DEFINE queue == Append(buffer, Head(wire))
<1>1. /\ wire # <<>> /\ wire' = Tail(wire)
      /\ UNCHANGED <<callVars, loopVars, join, host, have, worldVars>>
  BY DEF ReadChange
<1>2. \/ Len(queue) =< Capacity /\ buffer' = queue /\ lagged' = lagged
      \/ Len(queue) > Capacity /\ buffer' = Tail(queue) /\ lagged' = lagged \cup {Head(queue)}
  <2>1. CASE Len(queue) > Capacity
    BY <2>1 DEF ReadChange
  <2>2. CASE ~(Len(queue) > Capacity)
    <3>1. buffer' = queue /\ lagged' = lagged
      BY <2>2 DEF ReadChange
    <3>2. buffer \in Seq(1..committed) /\ wire \in Seq(1..committed)
      BY DEF StreamInv, TypeOK
    <3>3. Len(queue) \in Nat
      BY <1>1, <3>2, TailFacts, AppendFacts
    <3>4. Len(queue) =< Capacity
      BY <2>2, <3>3, RealtimeBounds
    <3>5. QED  BY <3>1, <3>4
  <2>3. QED  BY <2>1, <2>2
<1>3. /\ wire \in Seq(1..committed) /\ buffer \in Seq(1..committed)
      /\ Len(buffer) =< Capacity /\ Len(buffer) \in Nat /\ Capacity \in Nat
      /\ lagged \subseteq 1..committed
  BY RealtimeBounds DEF StreamInv, TypeOK
<1>4. /\ Head(wire) \in 1..committed /\ Tail(wire) \in Seq(1..committed)
      /\ ToSet(wire) = {Head(wire)} \cup ToSet(Tail(wire))
  BY <1>1, <1>3, TailFacts
<1>5. /\ queue \in Seq(1..committed) /\ queue # <<>>
      /\ Len(queue) = Len(buffer) + 1
      /\ ToSet(queue) = ToSet(buffer) \cup {Head(wire)}
  BY <1>3, <1>4, AppendFacts
<1> HIDE DEF queue
<1>6. /\ Head(queue) \in 1..committed /\ Tail(queue) \in Seq(1..committed)
      /\ Len(Tail(queue)) = Len(queue) - 1
      /\ ToSet(queue) = {Head(queue)} \cup ToSet(Tail(queue))
  BY <1>5, TailFacts
<1>7. Len(Tail(queue)) =< Capacity
  BY <1>3, <1>5, <1>6
<1>8. TypeOK'
  <2>1. /\ buffer' \in Seq(1..committed) /\ lagged' \subseteq 1..committed
        /\ wire' \in Seq(1..committed)
    BY <1>1, <1>2, <1>3, <1>4, <1>5, <1>6
  <2>2. Len(buffer') =< Capacity
    BY <1>2, <1>7
  <2>3. QED  BY <1>1, <2>1, <2>2 DEF StreamInv, TypeOK, callVars, loopVars, worldVars
<1>9. HandleIsTruth' /\ ConnectionsRun' /\ (Connected' <=> Connected)
  BY <1>1, StreamFrame
<1>10. Unseen' \ lagged' \subseteq Unseen \ lagged
  BY <1>1, <1>2, <1>4, <1>5, <1>6 DEF Unseen, worldVars
<1>11. NothingElseMissed'
  <2>1. host' = host /\ deaf' = deaf /\ lagged \subseteq lagged'
    BY <1>1, <1>2 DEF worldVars
  <2>2. QED  BY <1>9, <1>10, <2>1 DEF StreamInv, NothingElseMissed
<1>12. QED  BY <1>8, <1>9, <1>11 DEF StreamInv

(* The server sends a change to a channel that has joined; on a connection *)
(* that is open there is one that has or will.                             *)
LEMMA CommitKeeps == ASSUME StreamInv, Commit PROVE StreamInv'
<1> DEFINE n == committed + 1
<1>1. /\ committed < MaxChanges /\ committed' = n
      /\ UNCHANGED <<callVars, loopVars, join, buffer, host, have, lagged, session, spent>>
  BY DEF Commit
<1>2. /\ wire' = IF Connected /\ join = "done" THEN Append(wire, n) ELSE wire
      /\ deaf' = IF Connected /\ join = "sent" THEN deaf \cup {n} ELSE deaf
  BY DEF Commit
<1>3. /\ committed \in Nat /\ MaxChanges \in Nat
      /\ wire \in Seq(1..committed) /\ buffer \in Seq(1..committed)
      /\ have \subseteq 1..committed /\ deaf \subseteq 1..committed
      /\ lagged \subseteq 1..committed
      /\ join \in {"none", "sent", "done"}
  BY RealtimeBounds DEF StreamInv, TypeOK
<1>4. n \in 1..n /\ 1..committed \subseteq 1..n /\ 1..n = 1..committed \cup {n}
      /\ n \in 0..MaxChanges
  BY <1>1, <1>3
<1>5. wire \in Seq(1..n) /\ buffer \in Seq(1..n)
  BY <1>3, SeqGrows
<1>6. Append(wire, n) \in Seq(1..n) /\ ToSet(Append(wire, n)) = ToSet(wire) \cup {n}
  BY <1>4, <1>5, AppendFacts
<1> HIDE DEF n
<1>7. TypeOK'
  <2>1. wire' \in Seq(1..n) /\ deaf' \subseteq 1..n
    BY <1>2, <1>3, <1>4, <1>5, <1>6
  <2>2. have' \subseteq 1..n /\ lagged' \subseteq 1..n /\ buffer' \in Seq(1..n)
    BY <1>1, <1>3, <1>4, <1>5
  <2>3. QED  BY <1>1, <1>4, <2>1, <2>2 DEF StreamInv, TypeOK, callVars, loopVars
<1>8. HandleIsTruth' /\ ConnectionsRun' /\ (Connected' <=> Connected)
  BY <1>1, StreamFrame
<1>9. NothingElseMissed'
  <2>1. SUFFICES ASSUME Connected, host = "even" PROVE (Unseen \subseteq deaf \cup lagged)'
    BY <1>1, <1>8 DEF NothingElseMissed
  <2>2. Unseen \subseteq deaf \cup lagged /\ join # "none"
    BY <2>1 DEF StreamInv, NothingElseMissed, ConnectionsRun
  <2>3. ToSet(wire) \subseteq ToSet(wire') /\ deaf \subseteq deaf'
    BY <1>2, <1>6
  <2>4. n \in ToSet(wire') \cup deaf'
    BY <1>2, <1>3, <1>6, <2>1, <2>2
  <2>5. Unseen' \subseteq (Unseen \cup {n}) \ ToSet(wire')
    BY <1>1, <1>4, <2>3 DEF Unseen
  <2>6. QED  BY <1>1, <2>2, <2>3, <2>4, <2>5
<1>10. QED  BY <1>7, <1>8, <1>9 DEF StreamInv

(* The host reads the tables, or takes a change from the channel.          *)
LEMMA HostKeeps ==
    ASSUME StreamInv, Listen \/ Reconcile \/ TakeChange PROVE StreamInv'
<1>1. UNCHANGED <<callVars, loopVars, join, wire, lagged, worldVars>>
  BY DEF Listen, Reconcile, TakeChange
<1>2. HandleIsTruth' /\ ConnectionsRun' /\ (Connected' <=> Connected)
  BY <1>1, StreamFrame
<1> USE DEF callVars, loopVars, worldVars
<1>3. CASE Listen \/ Reconcile
  <2>1. host' = "even" /\ have' = 1..committed /\ buffer' = buffer
    BY <1>3 DEF Listen, Reconcile
  <2>2. TypeOK'
    BY <1>1, <2>1 DEF StreamInv, TypeOK
  <2>3. Unseen' = {}
    BY <1>1, <2>1 DEF Unseen
  <2>4. QED  BY <1>2, <2>2, <2>3 DEF StreamInv, NothingElseMissed
<1>4. CASE TakeChange
  <2>1. /\ buffer # <<>> /\ have' = have \cup {Head(buffer)}
        /\ buffer' = Tail(buffer) /\ host' = host
    BY <1>4 DEF TakeChange
  <2>2. /\ buffer \in Seq(1..committed) /\ Len(buffer) \in Nat
        /\ Len(buffer) =< Capacity /\ Capacity \in Nat
    BY RealtimeBounds DEF StreamInv, TypeOK
  <2>3. /\ Head(buffer) \in 1..committed /\ Tail(buffer) \in Seq(1..committed)
        /\ Len(Tail(buffer)) = Len(buffer) - 1
        /\ ToSet(buffer) = {Head(buffer)} \cup ToSet(Tail(buffer))
    BY <2>1, <2>2, TailFacts
  <2>4. Len(buffer') =< Capacity
    BY <2>1, <2>2, <2>3
  <2>5. TypeOK'
    BY <1>1, <2>1, <2>3, <2>4 DEF StreamInv, TypeOK
  <2>6. Unseen' = Unseen
    BY <1>1, <2>1, <2>3 DEF Unseen
  <2>7. QED  BY <1>1, <1>2, <2>1, <2>5, <2>6 DEF StreamInv, NothingElseMissed
<1>5. QED  BY <1>3, <1>4

LEMMA StreamStep == StreamInv /\ [Next]_vars => StreamInv'
<1> SUFFICES ASSUME StreamInv, [Next]_vars PROVE StreamInv'
  OBVIOUS
<1>1. CASE UnsubscribeReturns
  <2>1. caller' = None
        /\ UNCHANGED <<handle, started, told, dropped, loopVars, streamVars, worldVars>>
    BY <1>1 DEF UnsubscribeReturns
  <2> USE DEF loopVars, streamVars, worldVars
  <2>2. TypeOK'
    BY <2>1 DEF StreamInv, TypeOK
  <2>3. HandleIsTruth'
    BY <2>1 DEF StreamInv, HandleIsTruth, Alive
  <2>4. ConnectionsRun' /\ NothingElseMissed'
    BY <2>1 DEF StreamInv, ConnectionsRun, NothingElseMissed, Connected, Unseen
  <2>5. QED  BY <2>2, <2>3, <2>4 DEF StreamInv
<1>2. CASE JoinTakes
  <2>1. /\ join' = "done"
        /\ UNCHANGED <<callVars, loopVars, wire, buffer, host, have, lagged, worldVars>>
    BY <1>2 DEF JoinTakes
  <2>2. HandleIsTruth' /\ ConnectionsRun' /\ (Connected' <=> Connected)
    BY <2>1, StreamFrame
  <2>3. TypeOK' /\ NothingElseMissed'
    BY <2>1, <2>2 DEF StreamInv, TypeOK, NothingElseMissed, Unseen,
                      callVars, loopVars, worldVars
  <2>4. QED  BY <2>2, <2>3 DEF StreamInv
<1>3. CASE SessionFlips
  <2>1. /\ session' \in {"in", "out"}
        /\ UNCHANGED <<callVars, loopVars, streamVars, committed, deaf>>
    BY <1>3 DEF SessionFlips
  <2>2. spent' \in [deaths : 0..MaxDeaths, troubles : 0..MaxTroubles]
    BY <1>3, SpendKeeps DEF SessionFlips, StreamInv
  <2>3. HandleIsTruth' /\ ConnectionsRun' /\ (Connected' <=> Connected)
    BY <2>1, StreamFrame DEF streamVars
  <2>4. TypeOK' /\ NothingElseMissed'
    BY <2>1, <2>2, <2>3 DEF StreamInv, TypeOK, NothingElseMissed, Unseen,
                            callVars, loopVars, streamVars
  <2>5. QED  BY <2>3, <2>4 DEF StreamInv
<1>4. CASE UNCHANGED vars
  <2>1. UNCHANGED <<callVars, loopVars, streamVars, worldVars>>
    BY <1>4 DEF vars
  <2>2. HandleIsTruth' /\ ConnectionsRun' /\ (Connected' <=> Connected)
    BY <2>1, StreamFrame DEF streamVars
  <2>3. TypeOK' /\ NothingElseMissed'
    BY <2>1, <2>2 DEF StreamInv, TypeOK, NothingElseMissed, Unseen,
                      callVars, loopVars, streamVars, worldVars
  <2>4. QED  BY <2>2, <2>3 DEF StreamInv
<1>5. ASSUME NEW i \in Subs, Step(i) \/ Die(i) PROVE StreamInv'
  BY <1>5, LoopKeeps, EstablishedKeeps, TearDownKeeps, DieKeeps DEF Step
<1>6. QED
  BY <1>1, <1>2, <1>3, <1>4, <1>5, SubscribeKeeps, LetGoKeeps, ReadChangeKeeps,
     CommitKeeps, HostKeeps
  DEF Next

-----------------------------------------------------------------------------
(* Whatever is subscribed, unsubscribed, dropped, refused, killed and      *)
(* committed, in any order and number, the supervisors, connections and    *)
(* channels stay as StreamInv says.                                        *)
THEOREM StreamInvariant == Spec => []StreamInv
  BY StreamStart, StreamStep, PTL DEF Spec

(* RealtimeTransport::is_subscribed: a handle stands for the one           *)
(* supervisor that goes on, and without a handle none does.                *)
THEOREM HandleTellsTruth == Spec => []HandleIsTruth
<1>1. StreamInv => HandleIsTruth
  BY DEF StreamInv
<1>2. QED  BY StreamInvariant, <1>1, PTL

(* A host that reads the tables when it starts to listen and on every      *)
(* Connected and Reconnected misses a change only if the join came too     *)
(* late for it or the change channel was full.                             *)
THEOREM NothingElseIsMissed == Spec => []NothingElseMissed
<1>1. StreamInv => NothingElseMissed
  BY DEF StreamInv
<1>2. QED  BY StreamInvariant, <1>1, PTL
=============================================================================
