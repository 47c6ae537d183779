--------------------------- MODULE LibraryProofs ----------------------------
(***************************************************************************)
(* The machines that share no state: the event bus, the plugin's handles,  *)
(* one write, cached symbols, the supervisor's delays, one encrypted       *)
(* column, one object of a bucket, the exported writer and its readers,    *)
(* the registry, the logger, and the switch from user to user.             *)
(***************************************************************************)
EXTENDS EventBus, Writes, Runtime, Symbols, Backoff, Columns, Bucket, Remote,
        Registry, Logger, UserPartition, SequenceTheorems, WellFoundedInduction, TLAPS

-----------------------------------------------------------------------------
(* The event bus.                                                          *)

LEMMA BusStart == BusInit => BusInv
<1> SUFFICES ASSUME BusInit PROVE BusInv
  OBVIOUS
<1>1. sent \in Seq(Nat) /\ Len(sent) = 0
  BY DEF BusInit
<1>2. BusTyped
  BY <1>1 DEF BusInit, BusTyped
<1>3. QED  BY <1>2 DEF BusInit, BusInv

LEMMA PublishKeeps == ASSUME BusInv, Publish PROVE BusInv'
<1>1. /\ published' = published + 1 /\ kvs' \subseteq kvs \cup {published + 1}
      /\ UNCHANGED <<relay, relayed, sent, consumer, taken, known, skipped>>
  BY DEF Publish
<1>2. BusTyped'
  BY <1>1 DEF BusInv, BusTyped
<1>3. \A k \in kvs' : k =< relayed => k \in kvs
  BY <1>1 DEF BusInv, BusTyped
<1>4. QED  BY <1>1, <1>2, <1>3 DEF BusInv

(* The relay skips what it has lost, and counts it.                        *)
LEMMA RelayLagsKeeps == ASSUME BusInv, RelayLags PROVE BusInv'
<1>1. /\ published - relayed > BusCapacity /\ relayed' = published - BusCapacity
      /\ skipped' = skipped \cup (kvs \cap (relayed + 1)..relayed')
      /\ UNCHANGED <<published, kvs, relay, sent, consumer, taken, known>>
  BY DEF RelayLags, Lags
<1>2. BusTyped /\ BusCapacity \in Nat
  BY BusBounds DEF BusInv
<1>3. BusTyped'
  BY <1>1, <1>2 DEF BusTyped
<1>4. \A k \in kvs : k =< relayed' => k =< relayed \/ k \in skipped'
  <2>1. \A k \in kvs : k =< relayed' => k =< relayed \/ k \in (relayed + 1)..relayed'
    BY <1>1, <1>2 DEF BusTyped
  <2>2. QED  BY <1>1, <2>1
<1>5. QED  BY <1>1, <1>3, <1>4 DEF BusInv

(* It gives the consumer a KvsChanged to read, and passes over the rest.   *)
LEMMA RelayKeeps == ASSUME BusInv, Relay PROVE BusInv'
<1>1. /\ relayed < published /\ relayed' = relayed + 1
      /\ UNCHANGED <<published, kvs, consumer, taken, known, skipped>>
  BY DEF Relay
<1>2. BusTyped
  BY DEF BusInv
<1>3. CASE relayed' \in kvs /\ consumer # "gone"
  <2>1. sent' = Append(sent, relayed') /\ relay' = relay
    BY <1>3 DEF Relay
  <2>2. sent' \in Seq(Nat) /\ Len(sent') = Len(sent) + 1 /\ Len(sent) \in Nat
    BY <1>1, <1>2, <2>1 DEF BusTyped
  <2>3. BusTyped' /\ taken' # Len(sent')
    BY <1>1, <1>2, <2>2 DEF BusTyped
  <2>4. QED  BY <1>1, <2>1, <2>3 DEF BusInv
<1>4. CASE relayed' \in kvs /\ consumer = "gone"
  <2>1. sent' = sent
    BY <1>4 DEF Relay
  <2>2. BusTyped'
    BY <1>1, <1>2, <2>1 DEF BusTyped
  <2>3. QED  BY <1>1, <1>4, <2>2 DEF BusInv
<1>5. CASE relayed' \notin kvs
  <2>1. sent' = sent /\ relay' = relay
    BY <1>5 DEF Relay
  <2>2. BusTyped'
    BY <1>1, <1>2, <2>1 DEF BusTyped
  <2>3. \A k \in kvs : k =< relayed' => k =< relayed
    BY <1>1, <1>2, <1>5 DEF BusTyped
  <2>4. QED  BY <1>1, <2>1, <2>2, <2>3 DEF BusInv
<1>6. QED  BY <1>3, <1>4, <1>5

(* The consumer reads the store, which has what was published.             *)
LEMMA ConsumeKeeps == ASSUME BusInv, Consume PROVE BusInv'
<1>1. /\ taken < Len(sent) /\ known' = published
      /\ UNCHANGED <<published, kvs, relay, relayed, sent, consumer, skipped>>
      /\ taken' = IF Len(sent) - taken > RelayCapacity
                  THEN Len(sent) - RelayCapacity ELSE taken + 1
  BY DEF Consume, Lags
<1>2. BusTyped /\ RelayCapacity \in Nat /\ Len(sent) \in Nat
  BY BusBounds DEF BusInv, BusTyped
<1>3. taken' \in 0..Len(sent)
  BY <1>1, <1>2 DEF BusTyped
<1>4. BusTyped'
  BY <1>1, <1>2, <1>3 DEF BusTyped
<1>5. \A k \in kvs : k =< known'
  BY <1>1, <1>2 DEF BusTyped
<1>6. QED  BY <1>1, <1>4, <1>5 DEF BusInv

LEMMA BusStep == BusInv /\ [BusNext]_busVars => BusInv'
<1> SUFFICES ASSUME BusInv, [BusNext]_busVars PROVE BusInv'
  OBVIOUS
<1>1. CASE Forward
  BY <1>1 DEF Forward, BusInv, BusTyped
<1>2. CASE ConsumerLeaves
  BY <1>2 DEF ConsumerLeaves, BusInv, BusTyped
<1>3. CASE UNCHANGED busVars
  BY <1>3 DEF busVars, BusInv, BusTyped
<1>4. QED
  BY <1>1, <1>2, <1>3, PublishKeeps, RelayLagsKeeps, RelayKeeps, ConsumeKeeps
  DEF BusNext

(* Kvs::subscribe: for every capacity of bus and relay, a consumer that    *)
(* has taken what there is knows of every change the relay did not lose.   *)
THEOREM ConsumerIsInformed == BusSpec => []ConsumerInformed
<1>1. BusInv => ConsumerInformed
  BY DEF BusInv, BusTyped, ConsumerInformed
<1>2. QED  BY BusStart, BusStep, <1>1, PTL DEF BusSpec

-----------------------------------------------------------------------------
(* The plugin's handles.                                                   *)

LEMMA RuntimeStart == RuntimeInit => RuntimeInv
  BY DEF RuntimeInit, RuntimeInv, RuntimeKeeps, OneSessionStore,
         SealedForItsBucket, CoordinatorWhole, NoCoordinator, NotRunning

(* Attaching, or setting the registry, leaves the coordinator as it is.    *)
LEMMA AttachKeeps ==
    ASSUME RuntimeInv, AttachStores \/ SetRegistry PROVE RuntimeInv'
<1>1. \/ \E l \in Locals : inner' = [inner EXCEPT !.local = l]
      \/ \E r \in Registries : inner' = [inner EXCEPT !.registry = r]
  BY DEF AttachStores, SetRegistry
<1>2. UNCHANGED <<kvsIn, hooked, stored, running, shim>>
  BY DEF AttachStores, SetRegistry
<1>3. /\ inner' \in [client : Nat, store : Nat, secret : Nat,
                     registry : Registries \cup {"default"},
                     local : Locals \cup {NotAttached},
                     coordinator : [built : Nat, store : Nat,
                                    registry : Registries \cup {"default"},
                                    local : Locals \cup {NotAttached}]]
      /\ inner'.client = inner.client /\ inner'.store = inner.store
      /\ inner'.secret = inner.secret /\ inner'.coordinator = inner.coordinator
  BY <1>1 DEF RuntimeInv
<1>4. RuntimeKeeps'
  BY <1>2, <1>3 DEF RuntimeInv, RuntimeKeeps, OneSessionStore, SealedForItsBucket,
                    CoordinatorWhole
<1>5. QED  BY <1>2, <1>3, <1>4 DEF RuntimeInv

(* configure builds all anew but the session store.                        *)
LEMMA ConfigureKeeps == ASSUME RuntimeInv, ConfigureAll PROVE RuntimeInv'
<1> DEFINE n == inner.client + 1
           store == IF inner.store = 0 THEN n ELSE inner.store
           new == IF inner.local = NotAttached THEN NoCoordinator
                  ELSE [built |-> n, store |-> store, registry |-> inner.registry,
                        local |-> inner.local]
<1>1. PICK encrypts \in BOOLEAN : inner' = Rebuilt(store, encrypts)
  BY DEF ConfigureAll
<1>2. /\ kvsIn' = kvsIn \cup {inner.registry} /\ hooked' = inner.local
      /\ UNCHANGED <<stored, running, shim>>
  BY DEF ConfigureAll
<1>3. inner \in [client : Nat, store : Nat, secret : Nat,
                 registry : Registries \cup {"default"},
                 local : Locals \cup {NotAttached},
                 coordinator : [built : Nat, store : Nat,
                                registry : Registries \cup {"default"},
                                local : Locals \cup {NotAttached}]]
  BY DEF RuntimeInv
<1>4. n \in Nat /\ n # 0 /\ store \in Nat /\ store # 0
  BY <1>3
<1>5. new \in [built : Nat, store : Nat, registry : Registries \cup {"default"},
               local : Locals \cup {NotAttached}]
  BY <1>3, <1>4 DEF NoCoordinator, NotAttached
<1>6. /\ new.built # 0 => new.built = n /\ new.store = store
                          /\ new.registry = inner.registry /\ new.local = inner.local
  BY DEF NoCoordinator
<1>7. inner' = [inner EXCEPT !.client = n, !.store = store,
                             !.secret = IF encrypts THEN n ELSE 0, !.coordinator = new]
  BY <1>1 DEF Rebuilt
<1>8. (IF encrypts THEN n ELSE 0) \in {0, n}
  OBVIOUS
<1>9. inner.store # 0 => store = inner.store
  OBVIOUS
<1> HIDE DEF n, store, new
<1>10. /\ inner' \in [client : Nat, store : Nat, secret : Nat,
                      registry : Registries \cup {"default"},
                      local : Locals \cup {NotAttached},
                      coordinator : [built : Nat, store : Nat,
                                     registry : Registries \cup {"default"},
                                     local : Locals \cup {NotAttached}]]
       /\ inner'.client = n /\ inner'.store = store /\ inner'.secret \in {0, n}
       /\ inner'.coordinator = new
  BY <1>3, <1>4, <1>5, <1>7, <1>8
<1>11. running # NotRunning => inner.store # 0 /\ running.store = inner.store
  BY DEF RuntimeInv, RuntimeKeeps, OneSessionStore
<1>12. shim # 0 => shim = inner.store
  BY DEF RuntimeInv, RuntimeKeeps, OneSessionStore
<1>13. OneSessionStore'
  BY <1>2, <1>6, <1>9, <1>10, <1>11, <1>12 DEF OneSessionStore
<1>14. CoordinatorWhole'
  BY <1>2, <1>6, <1>10 DEF CoordinatorWhole
<1>15. SealedForItsBucket'
  BY <1>2 DEF RuntimeInv, RuntimeKeeps, SealedForItsBucket
<1>16. QED  BY <1>2, <1>4, <1>10, <1>11, <1>13, <1>14, <1>15 DEF RuntimeInv, RuntimeKeeps

(* A command takes handles that belong together.                           *)
LEMMA TakeKeeps ==
    ASSUME RuntimeInv, NEW kind, NEW client, NEW store, NEW key,
           Take(kind, client, store, key),
           store = inner.store, store # 0,
           kind = "sealed" => key \in {0, client}
    PROVE  RuntimeInv'
<1>1. /\ running' = [kind |-> kind, client |-> client, store |-> store, secret |-> key]
      /\ UNCHANGED <<inner, kvsIn, hooked, stored, shim>>
  BY DEF Take
<1>2. /\ running'.store = inner.store
      /\ running'.kind = "sealed" => running'.secret \in {0, running'.client}
  BY <1>1
<1>3. RuntimeKeeps'
  BY <1>1, <1>2 DEF RuntimeInv, RuntimeKeeps, OneSessionStore, SealedForItsBucket,
                    CoordinatorWhole
<1>4. QED  BY <1>1, <1>3 DEF RuntimeInv

LEMMA CommandsKeep ==
    ASSUME RuntimeInv,
           \/ CurrentEncryptionContext \/ EdgeCall \/ KvsCommand
           \/ RequireClientSessionAndEncryption \/ RequireClientAndSession
    PROVE  RuntimeInv'
<1>1. /\ inner.client # 0 => inner.store # 0
      /\ inner.secret # 0 => inner.store # 0
      /\ inner.secret \in {0, inner.client}
      /\ inner.coordinator.built # 0 =>
            inner.store # 0 /\ inner.coordinator.store = inner.store
  BY DEF RuntimeInv, RuntimeKeeps, OneSessionStore
<1>2. CASE CurrentEncryptionContext
  BY <1>1, <1>2, TakeKeeps DEF CurrentEncryptionContext
<1>3. CASE EdgeCall
  BY <1>1, <1>3, TakeKeeps DEF EdgeCall, IsConfigured
<1>4. CASE KvsCommand
  BY <1>1, <1>4, TakeKeeps DEF KvsCommand
<1>5. CASE RequireClientSessionAndEncryption
  BY <1>1, <1>5, TakeKeeps DEF RequireClientSessionAndEncryption, IsConfigured
<1>6. CASE RequireClientAndSession
  BY <1>1, <1>6, TakeKeeps DEF RequireClientAndSession, IsConfigured
<1>7. QED  BY <1>2, <1>3, <1>4, <1>5, <1>6

LEMMA RuntimeStep == RuntimeInv /\ [RuntimeNext]_runtimeVars => RuntimeInv'
<1> SUFFICES ASSUME RuntimeInv, [RuntimeNext]_runtimeVars PROVE RuntimeInv'
  OBVIOUS
<1> USE DEF RuntimeInv, RuntimeKeeps, OneSessionStore, SealedForItsBucket, CoordinatorWhole
<1>1. CASE Sessions
  BY <1>1 DEF Sessions
<1>2. CASE SessionComesOrGoes
  BY <1>2 DEF SessionComesOrGoes
<1>3. CASE Runs \/ HasNoSession
  BY <1>3 DEF Runs, HasNoSession, NotRunning
<1>4. CASE UNCHANGED runtimeVars
  BY <1>4 DEF runtimeVars
<1>5. QED
  BY <1>1, <1>2, <1>3, <1>4, AttachKeeps, ConfigureKeeps, CommandsKeep DEF RuntimeNext

(* RuntimeInner: however configure, attach and commands interleave, the    *)
(* handles a command goes on with belong together.                         *)
THEOREM HandlesBelongTogether == RuntimeSpec => []RuntimeKeeps
<1>1. RuntimeInv => RuntimeKeeps
  BY DEF RuntimeInv
<1>2. QED  BY RuntimeStart, RuntimeStep, <1>1, PTL DEF RuntimeSpec

-----------------------------------------------------------------------------
(* One write.                                                              *)

LEMMA WriteStart == WriteInit => WriteInv
<1> SUFFICES ASSUME WriteInit PROVE WriteInv
  OBVIOUS
<1>1. held \in 0..MaxHeld
  BY WritesBounds DEF WriteInit
<1>2. QED
  BY <1>1 DEF WriteInit, WriteInv, WritesSettle, NoFalseDone, NoneLost,
              RegressionTold, Announced

Rejections == {"version regression", "same version"} \cup Lasting \cup Passing

(* What the two classifications make of a rejection.                       *)
LEMMA ClassesFacts ==
    ASSUME path \in {"rest", "edge"}, op \in {"set", "delete"},
           NEW why \in Rejections, NEW class \in Classes(why)
    PROVE  /\ class # "ok"
           /\ class = "ignored" => path = "rest" /\ why = "same version"
           /\ path = "rest" /\ why = "version regression" => class = "permanent"
           /\ why \in Passing /\ ~IsTransient(class) =>
                 path = "edge" /\ why \notin {"no access", "down"}
<1>1. CASE path = "rest"
  <2>1. class = ClassifyPush(why)
    BY <1>1 DEF Classes
  <2>2. why \in {"version regression", "same version", "constraint",
                 "no parent row", "no access", "rate limited", "down"}
    BY DEF Rejections, Lasting, Passing
  <2>3. CASE why \in {"version regression", "constraint"}
    BY <2>1, <2>3, <1>1 DEF ClassifyPush, IsPermanentPushErrorMessage, Lasting, Passing
  <2>4. CASE why = "same version"
    BY <2>1, <2>4, <1>1 DEF ClassifyPush, IsPermanentPushErrorMessage, Lasting, Passing
  <2>5. CASE why \in Passing
    BY <2>1, <2>5, <1>1 DEF ClassifyPush, IsPermanentPushErrorMessage, Lasting, Passing, IsTransient
  <2>6. QED  BY <2>2, <2>3, <2>4, <2>5 DEF Passing
<1>2. CASE path = "edge"
  <2>1. PICK d \in Dress(why) : class = ClassifyEdge(d[1], d[2])
    BY <1>2 DEF Classes
  <2>a. d[1] \in {400, 401, 500}
    <3>1. \/ d \in {<<401, "other">>, <<400, "other">>, <<500, "other">>}
          \/ d \in {400, 500} \X {"conflict", "permanent", "other"}
      BY <2>1 DEF Dress
    <3>2. QED  BY <3>1
  <2>2. class \in {"forbidden", "permanent", "transient", "conflict", "validation"}
    <3>1. CASE d[1] = 401
      BY <2>1, <3>1 DEF ClassifyEdge
    <3>2. CASE d[1] = 500
      BY <2>1, <3>2 DEF ClassifyEdge
    <3>3. CASE d[1] = 400
      BY <2>1, <3>3 DEF ClassifyEdge
    <3>4. QED  BY <2>a, <3>1, <3>2, <3>3
  <2>3. why = "no access" => IsTransient(class)
    <3>1. SUFFICES ASSUME why = "no access" PROVE IsTransient(class)
      OBVIOUS
    <3>2. d = <<401, "other">>
      BY <2>1, <3>1 DEF Dress
    <3>3. QED  BY <2>1, <3>2 DEF ClassifyEdge, IsTransient
  <2>4. why = "down" => IsTransient(class)
    <3>1. SUFFICES ASSUME why = "down" PROVE IsTransient(class)
      OBVIOUS
    <3>2. d = <<500, "other">>
      BY <2>1, <3>1 DEF Dress
    <3>3. d[1] = 500 /\ d[2] = "other"
      BY <3>2
    <3>4. ClassifyEdge(500, "other") = "transient"
      BY DEF ClassifyEdge
    <3>5. QED  BY <2>1, <3>3, <3>4 DEF IsTransient
  <2>5. QED  BY <1>2, <2>2, <2>3, <2>4
<1>3. QED  BY <1>1, <1>2

LEMMA OutcomeFacts ==
    ASSUME NEW class
    PROVE  /\ Outcome(class) \in {"done", "queued", "failed", "dropped"}
           /\ Outcome(class) = "done" <=> class \in {"ok", "ignored"}
           /\ Outcome(class) = "failed" => stage = "calling"
           /\ Outcome(class) = "dropped" => stage # "calling"
           /\ Outcome(class) \in {"failed", "dropped"} => ~IsTransient(class)
<1>1. CASE class \in {"ok", "ignored"}
  <2>1. ~IsTransient(class)
    BY <1>1 DEF IsTransient
  <2>2. Outcome(class) = "done"
    BY <1>1, <2>1 DEF Outcome
  <2>3. QED  BY <1>1, <2>2
<1>2. CASE class \notin {"ok", "ignored"} /\ IsTransient(class)
  <2>1. Outcome(class) = "queued"
    BY <1>2 DEF Outcome
  <2>2. QED  BY <1>2, <2>1
<1>3. CASE class \notin {"ok", "ignored"} /\ ~IsTransient(class) /\ stage = "calling"
  <2>1. Outcome(class) = "failed"
    BY <1>3 DEF Outcome
  <2>2. QED  BY <1>3, <2>1
<1>4. CASE class \notin {"ok", "ignored"} /\ ~IsTransient(class) /\ stage # "calling"
  <2>1. Outcome(class) = "dropped"
    BY <1>4 DEF Outcome
  <2>2. QED  BY <1>4, <2>1
<1>5. QED  BY <1>1, <1>2, <1>3, <1>4

(* Coordinator and replay, after an answer: what is owed to listeners.     *)
LEMMA SettleKeeps ==
    ASSUME WriteInv, Awaited, NEW class, NEW why, Settle(class, why),
           UNCHANGED op, held' \in 0..MaxHeld,
           class \in {"ok", "ignored"} => held' >= Ours \/ NoRowToDelete',
           why = "version regression" => held' > Ours
    PROVE  /\ stage' = Outcome(class)
           /\ told' \in BOOLEAN /\ announced' \in BOOLEAN
           /\ Announced' /\ NoFalseDone' /\ (told' => held' > Ours)
           /\ told' <=> stage' = "failed" /\ IsVersionRegression(class, why)
<1>1. /\ stage' = Outcome(class)
      /\ told' = (stage' = "failed" /\ IsVersionRegression(class, why))
  BY DEF Settle, SettleChange, SettleDelete
<1>2. /\ op = "set" => announced' = (announced \/ (stage = "calling" /\ stage' # "failed"))
      /\ op = "delete" => announced' = (announced \/ (stage = "calling" /\ class = "ok"))
  BY DEF Settle, SettleChange, SettleDelete
<1>3. /\ op \in {"set", "delete"} /\ announced \in BOOLEAN
      /\ stage \in {"calling", "replaying"}
      /\ op = "set" => (announced <=> stage = "replaying")
      /\ op = "delete" => ~announced
  BY DEF WriteInv, WritesSettle, Announced, Awaited
<1>4. NoFalseDone'
  BY <1>1, OutcomeFacts DEF NoFalseDone
<1>5. IsVersionRegression(class, why) => why = "version regression"
  BY DEF IsVersionRegression, EdgeRegression, PushRegression
<1>6. Announced'
  <2>1. CASE op = "set"
    <3>1. announced' <=> stage = "replaying" \/ stage' # "failed"
      BY <1>2, <1>3, <2>1
    <3>2. stage' # "calling" /\ (stage' = "failed" => stage = "calling")
      BY <1>1, OutcomeFacts
    <3>3. QED  BY <1>3, <2>1, <3>1, <3>2 DEF Announced
  <2>2. CASE op = "delete"
    <3>1. announced' => class = "ok"
      BY <1>2, <1>3, <2>2
    <3>2. class = "ok" => stage' = "done" /\ (held' >= Ours \/ NoRowToDelete')
      BY <1>1, OutcomeFacts
    <3>3. QED  BY <2>2, <3>1, <3>2 DEF Announced
  <2>3. QED  BY <1>3, <2>1, <2>2
<1>7. announced' \in BOOLEAN
  BY <1>2, <1>3
<1>8. QED  BY <1>1, <1>4, <1>5, <1>6, <1>7

LEMMA RejectionFacts ==
    ASSUME WriteInv
    PROVE  /\ Rejection \in Rejections \cup {"none"}
           /\ Rejection = "none" => held < Ours
           /\ Rejection = "same version" => held = Ours
           /\ Rejection = "version regression" => held > Ours
<1>1. trouble \in {"none", "constraint", "no parent row", "no access",
                   "rate limited", "down"}
  BY DEF WriteInv, Troubles, Lasting, Passing
<1>a. held \in Nat
  BY WritesBounds DEF WriteInv
<1>2. CASE trouble # "none"
  BY <1>1, <1>2 DEF Rejection, Rejections, Lasting, Passing
<1>3. CASE trouble = "none" /\ held = Ours
  BY <1>3, WritesBounds DEF Rejection, Rejections
<1>4. CASE trouble = "none" /\ held > Ours
  BY <1>a, <1>4, WritesBounds DEF Rejection, Rejections
<1>5. CASE trouble = "none" /\ held < Ours
  BY <1>a, <1>5, WritesBounds DEF Rejection, Rejections
<1>6. held = Ours \/ held > Ours \/ held < Ours
  BY <1>a, WritesBounds
<1>7. QED  BY <1>2, <1>3, <1>4, <1>5, <1>6

(* The server does the write, and says so or not.                          *)
LEMMA DoneKeeps ==
    ASSUME WriteInv, Applied \/ Garbled \/ Unheard PROVE WriteInv'
<1>1. Awaited /\ UNCHANGED <<path, op, trouble>>
  BY DEF Applied, Garbled, DoneBut, Unheard
<1>2. held' \in 0..MaxHeld /\ held \in 0..MaxHeld /\ Ours \in Nat \ {0}
  <2>1. Stored \subseteq {0, Ours}
    BY DEF Stored
  <2>2. held' \in {0, Ours, held}
    BY <2>1 DEF Applied, Garbled, DoneBut, Unheard
  <2>3. QED  BY <2>2, WritesBounds DEF WriteInv
<1>a. ASSUME NEW reading, DoneBut(reading)
      PROVE  /\ held' >= Ours \/ NoRowToDelete'
             /\ heard' = TRUE /\ verdict' \in {reading, "no row"}
  <2>1. \/ held' = Ours
        \/ op = "delete" /\ held' = 0
    BY <1>a DEF DoneBut, Stored
  <2>2. CASE held' = Ours
    BY <1>a, <1>2, <2>2 DEF DoneBut
  <2>3. CASE held' # Ours
    BY <1>1, <1>a, <2>1, <2>3 DEF DoneBut, NoRowToDelete
  <2>4. QED  BY <2>2, <2>3
<1>3. stage \in {"calling", "replaying", "queued", "done", "failed", "dropped"}
  BY DEF WriteInv
<1>4. CASE Applied
  <2>1. Settle("ok", "none") /\ (held' >= Ours \/ NoRowToDelete')
    BY <1>4, <1>a DEF Applied
  <2>2. /\ stage' = Outcome("ok") /\ told' \in BOOLEAN /\ announced' \in BOOLEAN
        /\ Announced' /\ NoFalseDone' /\ (told' => held' > Ours)
    <3>1. op' = op
      BY <1>1
    <3>2. QED  BY <1>1, <1>2, <2>1, <3>1, SettleKeeps
  <2>3. stage' = "done"
    BY <2>2, OutcomeFacts
  <2>4. NoneLost' /\ RegressionTold'
    BY <2>2, <2>3 DEF NoneLost, RegressionTold
  <2>5. heard' = TRUE
    BY <1>4, <1>a DEF Applied
  <2>6. QED  BY <1>1, <1>2, <2>2, <2>3, <2>4, <2>5 DEF WriteInv, WritesSettle
<1>5. CASE Garbled
  <2>1. /\ Settle("decode", "none") /\ (held' >= Ours \/ NoRowToDelete')
        /\ verdict' \in {"decode", "no row"} /\ heard' = TRUE /\ path = "edge"
    BY <1>5, <1>a DEF Garbled
  <2>2. /\ stage' = Outcome("decode") /\ told' \in BOOLEAN /\ announced' \in BOOLEAN
        /\ Announced' /\ NoFalseDone' /\ (told' => held' > Ours)
    BY <1>1, <1>2, <2>1, SettleKeeps
  <2>3. stage' \in {"done", "queued", "failed", "dropped"}
    BY <2>2, OutcomeFacts
  <2>4. NoneLost' /\ RegressionTold'
    BY <1>1, <2>1, <2>2 DEF NoneLost, RegressionTold, Passing
  <2>5. QED  BY <1>1, <1>2, <2>1, <2>2, <2>3, <2>4 DEF WriteInv, WritesSettle
<1>6. CASE Unheard
  <2>1. Settle("transient", "none") /\ heard' = FALSE
    BY <1>6 DEF Unheard
  <2>2. /\ stage' = Outcome("transient") /\ told' \in BOOLEAN /\ announced' \in BOOLEAN
        /\ Announced' /\ NoFalseDone' /\ (told' => held' > Ours)
    BY <1>1, <1>2, <2>1, SettleKeeps
  <2>3. stage' = "queued"
    BY <2>2, OutcomeFacts DEF IsTransient
  <2>4. NoneLost' /\ RegressionTold'
    BY <2>2, <2>3 DEF NoneLost, RegressionTold
  <2>5. QED  BY <1>1, <1>2, <2>1, <2>2, <2>3, <2>4 DEF WriteInv, WritesSettle
<1>7. QED  BY <1>4, <1>5, <1>6

(* The server rejects it.                                                  *)
LEMMA RejectedKeeps == ASSUME WriteInv, Rejected PROVE WriteInv'
<1> DEFINE why == Rejection
<1>1. /\ Awaited /\ why # "none" /\ verdict' = why /\ heard' = TRUE
      /\ UNCHANGED <<path, op, held, trouble>>
  BY DEF Rejected
<1>2. PICK class \in Classes(why) : Settle(class, why)
  BY DEF Rejected
<1>3. /\ why \in Rejections
      /\ why = "same version" => held = Ours
      /\ why = "version regression" => held > Ours
  BY <1>1, RejectionFacts
<1> HIDE DEF why
<1>4. /\ path \in {"rest", "edge"} /\ op \in {"set", "delete"}
      /\ held \in 0..MaxHeld /\ MaxHeld \in Nat
  BY WritesBounds DEF WriteInv
<1>5. /\ class # "ok"
      /\ class = "ignored" => path = "rest" /\ why = "same version"
      /\ path = "rest" /\ why = "version regression" => class = "permanent"
      /\ why \in Passing /\ ~IsTransient(class) =>
            path = "edge" /\ why \notin {"no access", "down"}
  BY <1>3, <1>4, ClassesFacts
<1>6. class \in {"ok", "ignored"} => held' >= Ours
  <2>1. Ours >= Ours
    BY WritesBounds
  <2>2. QED  BY <1>1, <1>3, <1>5, <2>1
<1>7. /\ stage' = Outcome(class) /\ told' \in BOOLEAN /\ announced' \in BOOLEAN
      /\ Announced' /\ NoFalseDone' /\ (told' => held' > Ours)
      /\ told' <=> stage' = "failed" /\ IsVersionRegression(class, why)
  BY <1>1, <1>2, <1>3, <1>4, <1>6, SettleKeeps
<1>8. /\ stage' \in {"done", "queued", "failed", "dropped"}
      /\ stage' \in {"failed", "dropped"} => ~IsTransient(class)
  BY <1>7, OutcomeFacts
<1>9. NoneLost'
  <2>1. why \notin {"decode", "no row"}
    BY <1>3 DEF Rejections, Lasting, Passing
  <2>2. QED  BY <1>1, <1>5, <1>8, <2>1 DEF NoneLost
<1>10. why = "version regression" => IsVersionRegression(class, why)
  BY <1>4, <1>5 DEF IsVersionRegression, EdgeRegression, PushRegression
<1>11. RegressionTold'
  BY <1>1, <1>7, <1>10 DEF RegressionTold
<1>12. QED  BY <1>1, <1>7, <1>8, <1>9, <1>11 DEF WriteInv, WritesSettle

LEMMA WriteStep == WriteInv /\ [WriteNext]_writeVars => WriteInv'
<1> SUFFICES ASSUME WriteInv, [WriteNext]_writeVars PROVE WriteInv'
  OBVIOUS
<1>1. CASE Replay
  BY <1>1 DEF Replay, WriteInv, WritesSettle, NoFalseDone, NoneLost, RegressionTold,
              Announced, NoRowToDelete
<1>2. CASE ServerMoves
  <2>1. UNCHANGED <<path, op, stage, verdict, heard, told, announced>>
    BY <1>2 DEF ServerMoves
  <2>2. trouble' \in Troubles /\ held' \in 0..MaxHeld /\ held' >= held /\ held \in Nat
    BY <1>2, WritesBounds DEF ServerMoves, WriteInv
  <2>3. held >= Ours => held' >= Ours
    BY <2>2, WritesBounds
  <2>4. held > Ours => held' > Ours
    BY <2>2, WritesBounds
  <2>a. NoRowToDelete' = NoRowToDelete
    BY <2>1 DEF NoRowToDelete
  <2>5. NoFalseDone' /\ RegressionTold'
    BY <2>1, <2>3, <2>4, <2>a DEF WriteInv, WritesSettle, NoFalseDone, RegressionTold
  <2>6. NoneLost' /\ Announced'
    BY <2>1, <2>3, <2>a DEF WriteInv, WritesSettle, NoneLost, Announced
  <2>7. QED  BY <2>1, <2>2, <2>5, <2>6 DEF WriteInv, WritesSettle
<1>3. CASE UNCHANGED writeVars
  BY <1>3 DEF writeVars, WriteInv, WritesSettle, NoFalseDone, NoneLost, RegressionTold,
              Announced, NoRowToDelete
<1>4. QED
  BY <1>1, <1>2, <1>3, DoneKeeps, RejectedKeeps DEF WriteNext

(* Coordinator, push and edge client: on both paths and through any number *)
(* of replays a write ends done, or given up for a cause that was heard    *)
(* and does not pass, and its listeners and callers are told what is so.   *)
THEOREM WritesAreSettled == WriteSpec => []WritesSettle
<1>1. WriteInv => WritesSettle
  BY DEF WriteInv
<1>2. QED  BY WriteStart, WriteStep, <1>1, PTL DEF WriteSpec

-----------------------------------------------------------------------------
(* The symbol cache.                                                       *)

Icons == [by : {"nobody", "sfsym", "lucide", "wrap"}, size : Nat]

LEMMA SymbolsStart == SymbolsInit => SymbolsInv
<1> SUFFICES ASSUME SymbolsInit PROVE SymbolsInv
  OBVIOUS
<1>1. /\ specs = [n \in SymbolNames |-> 0] /\ manifest.sizes = specs
      /\ manifest = [format |-> "missing", sizes |-> specs]
      /\ quiet = FALSE /\ slipped = {}
  BY DEF SymbolsInit, Manifest
<1>2. /\ out = [n \in SymbolNames |-> [by |-> "nobody", size |-> 0]]
      /\ cache = [n \in SymbolNames |-> [by |-> "nobody", size |-> 0]]
  BY DEF SymbolsInit, NoIcon, Icon
<1>3. SymbolsKeep
  BY <1>1 DEF SymbolsKeep, QuietMeansCommitted, ManifestTells
<1>4. /\ out \in [SymbolNames -> [by : {"nobody", "sfsym", "lucide", "wrap"}, size : Nat]]
      /\ cache \in [SymbolNames -> [by : {"nobody", "sfsym", "lucide", "wrap"}, size : Nat]]
  BY <1>2
<1>5. specs \in [SymbolNames -> Nat]
  BY <1>1
<1>6. manifest \in [format : {"missing", "current", "unusable"},
                    sizes : [SymbolNames -> Nat]]
  BY <1>1, <1>5
<1>7. QED  BY <1>1, <1>3, <1>4, <1>5, <1>6 DEF SymbolsInv

LEMMA IconTyped ==
    NoIcon \in Icons
    /\ \A by \in {"nobody", "sfsym", "lucide", "wrap"}, size \in Nat : Icon(by, size) \in Icons
  BY DEF NoIcon, Icon, Icons

(* Only the first tier yields "sf".                                        *)
LEMMA ResolutionFacts ==
    ASSUME NEW n, NEW succeeded, NEW uncopied
    PROVE  /\ Resolution(n, succeeded, uncopied) = "sf" <=> n \in succeeded
           /\ Resolution(n, succeeded, uncopied) \in {"sf", "cached", "lucide", "missing"}
<1>1. CASE n \in succeeded
  BY <1>1 DEF Resolution
<1>2. CASE n \notin succeeded
  BY <1>2 DEF Resolution
<1>3. QED  BY <1>1, <1>2

(* One build: what is drawn, copied and listed is what is declared.        *)
LEMMA BuildKeeps ==
    ASSUME SymbolsInv,
           NEW sfsym \in {"absent", "fails", "works"}, NEW refresh \in BOOLEAN,
           NEW drawn \in SUBSET Declared, NEW uncopied \in SUBSET Declared,
           Build(sfsym, refresh, drawn, uncopied)
    PROVE  SymbolsInv'
<1> DEFINE files == RunBatch(drawn)
           succeeded == RunSfsymForAll(sfsym, files)
           resolution == [n \in Declared |-> Resolution(n, succeeded, uncopied)]
           icons == [n \in SymbolNames |->
                       IF n \in Declared THEN Resolved(n, files, resolution[n]) ELSE files[n]]
<1>1. /\ out' = icons /\ specs' = specs
      /\ quiet' = (/\ sfsym # "absent"
                   /\ refresh \/ ~ManifestWarning
                   /\ \A n \in Declared : ~Warns(n, resolution[n], sfsym, refresh, uncopied))
  BY DEF Build
<1>2. refresh =>
         /\ cache' = PruneOrphans(CopyToAssetsDir(icons, succeeded \ uncopied))
         /\ WriteManifest(succeeded)
         /\ slipped' = (slipped \ (succeeded \cap drawn))
                          \cup (succeeded \ drawn) \cup (succeeded \cap uncopied)
  BY DEF Build
<1>3. ~refresh => UNCHANGED <<cache, manifest, slipped>>
  BY DEF Build
<1>4. /\ specs \in [SymbolNames -> Nat] /\ out \in [SymbolNames -> Icons]
      /\ cache \in [SymbolNames -> Icons]
      /\ manifest \in [format : {"missing", "current", "unusable"},
                       sizes : [SymbolNames -> Nat]]
      /\ slipped \subseteq SymbolNames
  BY DEF SymbolsInv, Icons
<1>5. \A n \in Declared : n \in SymbolNames /\ specs[n] \in Nat /\ specs[n] # 0
  BY <1>4 DEF Declared
<1>6. files \in [SymbolNames -> Icons]
      /\ \A n \in drawn : files[n] = Icon("sfsym", specs[n])
  BY <1>4, <1>5, IconTyped DEF RunBatch
<1>7. /\ succeeded \subseteq Declared
      /\ \A n \in succeeded : files[n] # NoIcon
  BY DEF RunSfsymForAll
<1>8. \A n \in Declared : resolution[n] = Resolution(n, succeeded, uncopied)
  OBVIOUS
<1>9. \A n \in Declared : (resolution[n] = "sf" <=> n \in succeeded)
                          /\ resolution[n] \in {"sf", "cached", "lucide", "missing"}
  <2>1. SUFFICES ASSUME NEW n \in Declared
                 PROVE  /\ Resolution(n, succeeded, uncopied) = "sf" <=> n \in succeeded
                        /\ Resolution(n, succeeded, uncopied)
                              \in {"sf", "cached", "lucide", "missing"}
    BY <1>8
  <2>2. QED  BY ResolutionFacts
<1> HIDE DEF files, succeeded, resolution
<1>10. \A n \in SymbolNames : n \in Declared => icons[n] = Resolved(n, files, resolution[n])
  OBVIOUS
<1>11. \A n \in succeeded :
          /\ icons[n] # NoIcon
          /\ n \in drawn => icons[n] = Icon("sfsym", specs[n])
  <2>1. SUFFICES ASSUME NEW n \in succeeded
                 PROVE  /\ icons[n] # NoIcon
                        /\ n \in drawn => icons[n] = Icon("sfsym", specs[n])
    OBVIOUS
  <2>2. icons[n] = ApplyPadding(files[n], specs[n])
    BY <1>5, <1>7, <1>9, <1>10 DEF Resolved
  <2>3. files[n] # NoIcon /\ specs[n] \in Nat
    BY <1>5, <1>7
  <2>4. Icon("wrap", specs[n]) # NoIcon
    BY DEF Icon, NoIcon
  <2>5. ApplyPadding(Icon("sfsym", specs[n]), specs[n]) = Icon("sfsym", specs[n])
    BY <2>3 DEF ApplyPadding, Icon
  <2>6. icons[n] # NoIcon
    BY <2>2, <2>3, <2>4 DEF ApplyPadding
  <2>7. QED  BY <1>6, <2>2, <2>5, <2>6
<1>12. icons \in [SymbolNames -> Icons]
  <2>1. ASSUME NEW n \in Declared PROVE Resolved(n, files, resolution[n]) \in Icons
    <3>1. files[n] \in Icons /\ cache[n] \in Icons /\ specs[n] \in Nat
      BY <1>4, <1>5, <1>6
    <3>2. ApplyPadding(files[n], specs[n]) \in Icons /\ WriteLucideAssets(n) \in Icons
      BY <3>1, IconTyped DEF ApplyPadding, WriteLucideAssets
    <3>3. QED  BY <1>9, <3>1, <3>2 DEF Resolved
  <2>2. QED  BY <1>6, <2>1
<1> HIDE DEF icons
<1>13. refresh => \A n \in SymbolNames :
          cache'[n] = IF n \in Declared
                      THEN IF n \in succeeded \ uncopied THEN icons[n] ELSE cache[n]
                      ELSE NoIcon
  BY <1>2 DEF PruneOrphans, CopyToAssetsDir
<1>14. refresh /\ succeeded # {} =>
          /\ manifest'.format = "current"
          /\ manifest'.sizes = [n \in SymbolNames |-> IF n \in succeeded THEN specs[n] ELSE 0]
  BY <1>2 DEF WriteManifest, Manifest
<1>15. ~refresh \/ succeeded = {} => manifest' = manifest
  BY <1>2, <1>3 DEF WriteManifest
<1>16. QuietMeansCommitted'
  <2>1. SUFFICES ASSUME quiet', NEW n \in Declared
                 PROVE  /\ cache'[n] # NoIcon
                        /\ manifest'.format = "current" /\ manifest'.sizes[n] = specs[n]
    BY <1>1 DEF QuietMeansCommitted, Declared
  <2>2. sfsym # "absent" /\ ~Warns(n, resolution[n], sfsym, refresh, uncopied)
    BY <1>1, <2>1
  <2>3. resolution[n] = "sf"
    BY <1>9, <2>2 DEF Warns
  <2>4. n \in succeeded /\ n \in SymbolNames
    BY <1>5, <1>9, <2>3
  <2>5. CASE refresh
    <3>1. n \notin uncopied
      BY <2>2, <2>3, <2>5 DEF Warns
    <3>2. cache'[n] = icons[n]
      BY <1>13, <2>4, <2>5, <3>1
    <3>3. QED  BY <1>11, <1>14, <2>4, <2>5, <3>2
  <2>6. CASE ~refresh
    <3>1. ~CheckCommittedAsset(n)
      BY <2>2, <2>3, <2>6 DEF Warns
    <3>2. ~ManifestWarning
      BY <1>1, <2>1, <2>6
    <3>3. cache[n] # NoIcon /\ ~(manifest.format = "current" /\ manifest.sizes[n] # specs[n])
      BY <3>1 DEF CheckCommittedAsset
    <3>4. manifest.format = "current"
      BY <1>4, <2>4, <3>2, <3>3 DEF ManifestWarning
    <3>5. QED  BY <1>3, <2>6, <3>3, <3>4
  <2>7. QED  BY <2>5, <2>6
<1>17. ManifestTells'
  <2>1. CASE ~refresh
    BY <1>1, <1>3, <2>1 DEF SymbolsInv, SymbolsKeep, ManifestTells
  <2>2. CASE refresh
    <3>1. SUFFICES ASSUME NEW n \in SymbolNames \ slipped',
                          manifest'.sizes[n] # 0, cache'[n] # NoIcon
                   PROVE  cache'[n] = Icon("sfsym", manifest'.sizes[n])
      BY DEF ManifestTells
    <3>2. CASE n \in succeeded
      <4>1. n \in drawn /\ n \notin uncopied /\ n \in Declared
        BY <1>2, <1>7, <2>2, <3>1, <3>2
      <4>2. cache'[n] = icons[n] /\ icons[n] = Icon("sfsym", specs[n])
        BY <1>11, <1>13, <2>2, <3>1, <3>2, <4>1
      <4>3. manifest'.sizes[n] = specs[n]
        BY <1>14, <2>2, <3>1, <3>2
      <4>4. QED  BY <4>2, <4>3
    <3>3. CASE n \notin succeeded
      <4>1. n \notin slipped /\ cache'[n] = cache[n]
        BY <1>2, <1>13, <2>2, <3>1, <3>3
      <4>2. manifest' = manifest
        <5>1. CASE succeeded = {}
          BY <1>15, <5>1
        <5>2. CASE succeeded # {}
          BY <1>14, <2>2, <3>1, <3>3, <5>2
        <5>3. QED  BY <5>1, <5>2
      <4>3. QED  BY <3>1, <4>1, <4>2 DEF SymbolsInv, SymbolsKeep, ManifestTells
    <3>4. QED  BY <3>2, <3>3
  <2>3. QED  BY <2>1, <2>2
<1>18. /\ cache' \in [SymbolNames -> Icons] /\ slipped' \subseteq SymbolNames
       /\ manifest' \in [format : {"missing", "current", "unusable"},
                         sizes : [SymbolNames -> Nat]]
  <2>1. succeeded \subseteq SymbolNames
    BY <1>5, <1>7
  <2>2. slipped' \subseteq SymbolNames
    BY <1>2, <1>3, <1>4, <2>1
  <2>3. cache' \in [SymbolNames -> Icons]
    <3>1. CASE refresh
      <4>1. cache' = [n \in SymbolNames |->
                        IF n \in Declared
                        THEN IF n \in succeeded \ uncopied THEN icons[n] ELSE cache[n]
                        ELSE NoIcon]
        BY <1>2, <3>1 DEF PruneOrphans, CopyToAssetsDir
      <4>2. QED  BY <1>4, <1>12, <4>1, IconTyped
    <3>2. QED  BY <1>3, <1>4, <3>1
  <2>4. manifest' \in [format : {"missing", "current", "unusable"},
                       sizes : [SymbolNames -> Nat]]
    <3>1. CASE refresh /\ succeeded # {}
      <4>1. manifest' = [format |-> "current",
                         sizes |-> [n \in SymbolNames |->
                                      IF n \in succeeded THEN specs[n] ELSE 0]]
        BY <1>2, <3>1 DEF WriteManifest, Manifest
      <4>2. QED  BY <1>4, <4>1
    <3>2. QED  BY <1>4, <1>15, <3>1
  <2>5. QED  BY <2>2, <2>3, <2>4
<1>19. QED
  BY <1>1, <1>4, <1>12, <1>16, <1>17, <1>18 DEF SymbolsInv, SymbolsKeep, Icons

(* The build that panics has copied some icons it does not list.           *)
LEMMA PanicKeeps ==
    ASSUME SymbolsInv, NEW refresh \in BOOLEAN, NEW drawn \in SUBSET Declared,
           NEW copied \in SUBSET Declared, BuildPanics(refresh, drawn, copied)
    PROVE  SymbolsInv'
<1> DEFINE files == RunBatch(drawn)
<1>1. out' = files /\ quiet' = FALSE /\ UNCHANGED <<specs, manifest>>
  BY DEF BuildPanics
<1>2. \/ cache' = CopyToAssetsDir(files, copied) /\ slipped' = slipped \cup copied
      \/ UNCHANGED <<cache, slipped>>
  BY DEF BuildPanics
<1>3. /\ specs \in [SymbolNames -> Nat] /\ out \in [SymbolNames -> Icons]
      /\ cache \in [SymbolNames -> Icons] /\ slipped \subseteq SymbolNames
  BY DEF SymbolsInv, Icons
<1>4. files \in [SymbolNames -> Icons]
  BY <1>3, IconTyped DEF RunBatch, Declared
<1> HIDE DEF files
<1>5. cache' \in [SymbolNames -> Icons] /\ slipped' \subseteq SymbolNames
  BY <1>2, <1>3, <1>4 DEF CopyToAssetsDir, Declared
<1>6. ManifestTells'
  <2>1. \A n \in SymbolNames \ slipped' : n \notin slipped /\ cache'[n] = cache[n]
    BY <1>2 DEF CopyToAssetsDir
  <2>2. QED  BY <1>1, <2>1 DEF SymbolsInv, SymbolsKeep, ManifestTells
<1>7. QED
  BY <1>1, <1>3, <1>4, <1>5, <1>6
  DEF SymbolsInv, SymbolsKeep, QuietMeansCommitted, Icons

LEMMA SymbolsStep == SymbolsInv /\ [SymbolsNext]_symbolVars => SymbolsInv'
<1> SUFFICES ASSUME SymbolsInv, [SymbolsNext]_symbolVars PROVE SymbolsInv'
  OBVIOUS
<1>1. CASE EditSpec
  <2>1. PICK n \in SymbolNames, size \in Nat : specs' = [specs EXCEPT ![n] = size]
    BY <1>1, SymbolsAssumption DEF EditSpec
  <2>2. quiet' = FALSE /\ UNCHANGED <<out, cache, manifest, slipped>>
    BY <1>1 DEF EditSpec
  <2>3. specs' \in [SymbolNames -> Nat]
    BY <2>1 DEF SymbolsInv
  <2>4. QED
    BY <2>2, <2>3 DEF SymbolsInv, SymbolsKeep, QuietMeansCommitted, ManifestTells
<1>2. CASE OutdateManifest
  <2>1. /\ manifest' = [format |-> "unusable", sizes |-> [n \in SymbolNames |-> 0]]
        /\ quiet' = FALSE /\ UNCHANGED <<specs, out, cache, slipped>>
    BY <1>2 DEF OutdateManifest, Manifest
  <2>2. ManifestTells' /\ QuietMeansCommitted'
    BY <2>1 DEF QuietMeansCommitted, ManifestTells
  <2>3. QED  BY <2>1, <2>2 DEF SymbolsInv, SymbolsKeep
<1>3. CASE CleanOut
  <2>1. /\ out' = [n \in SymbolNames |-> NoIcon]
        /\ UNCHANGED <<specs, cache, manifest, quiet, slipped>>
    BY <1>3 DEF CleanOut
  <2>2. ManifestTells' /\ QuietMeansCommitted'
    BY <2>1 DEF SymbolsInv, SymbolsKeep, QuietMeansCommitted, ManifestTells, Declared
  <2>3. out' \in [SymbolNames -> Icons]
    BY <2>1, IconTyped
  <2>4. QED  BY <2>1, <2>2, <2>3 DEF SymbolsInv, SymbolsKeep, Icons
<1>4. CASE UNCHANGED symbolVars
  BY <1>4 DEF symbolVars, SymbolsInv, SymbolsKeep, QuietMeansCommitted, ManifestTells,
              Declared
<1>5. ASSUME NEW sfsym \in {"absent", "fails", "works"}, NEW refresh \in BOOLEAN,
             NEW drawn \in SUBSET (IF sfsym = "absent" THEN {} ELSE Declared),
             NEW uncopied \in SUBSET Declared,
             Build(sfsym, refresh, drawn, uncopied)
      PROVE  SymbolsInv'
  <2>1. drawn \in SUBSET Declared
    OBVIOUS
  <2>2. QED  BY <1>5, <2>1, BuildKeeps
<1>6. ASSUME NEW refresh \in BOOLEAN, NEW drawn \in SUBSET Declared,
             NEW copied \in SUBSET Declared, BuildPanics(refresh, drawn, copied)
      PROVE  SymbolsInv'
  BY <1>6, PanicKeeps
<1>7. QED  BY <1>1, <1>2, <1>3, <1>4, <1>5, <1>6 DEF SymbolsNext

(* polysym-build: for any symbols, sizes and fallbacks, what a build does  *)
(* not warn of may be committed, and the manifest tells of the icons that  *)
(* are there, but for those that slipped in.                               *)
THEOREM CacheIsTold == SymbolsSpec => []SymbolsKeep
<1>1. SymbolsInv => SymbolsKeep
  BY DEF SymbolsInv
<1>2. QED  BY SymbolsStart, SymbolsStep, <1>1, PTL DEF SymbolsSpec

-----------------------------------------------------------------------------
(* The supervisor's delays.                                                *)

LEMMA LadderFacts ==
    ASSUME NEW n \in Nat
    PROVE  /\ ComputeBackoffDelay(n) \in Nat
           /\ 250 =< ComputeBackoffDelay(n) /\ ComputeBackoffDelay(n) =< 30000
           /\ ComputeBackoffDelay(n) =< ComputeBackoffDelay(n + 1)
<1>1. Len(Ladder) = 6
  BY DEF Ladder
<1>2. /\ Ladder[1] = 500 /\ Ladder[2] = 1000 /\ Ladder[3] = 2000
      /\ Ladder[4] = 5000 /\ Ladder[5] = 10000 /\ Ladder[6] = 30000
  BY DEF Ladder
<1>3. \/ n = 0 \/ n = 1 \/ n = 2 \/ n = 3 \/ n = 4 \/ n = 5 \/ n >= 6
  OBVIOUS
<1>4. CASE n >= 6
  <2>1. ComputeBackoffDelay(n) = 30000 /\ ComputeBackoffDelay(n + 1) = 30000
    <3>1. ~(n < 6) /\ ~(n + 1 < 6) /\ n # 0 /\ n + 1 # 0
      BY <1>4
    <3>2. QED  BY <1>1, <1>2, <3>1 DEF ComputeBackoffDelay
  <2>2. QED  BY <2>1
<1>5. CASE n = 0
  BY <1>1, <1>2, <1>5 DEF ComputeBackoffDelay, InitialReconnectDelay
<1>6. CASE n \in 1..5
  <2>1. ComputeBackoffDelay(n) = Ladder[n]
    BY <1>1, <1>6 DEF ComputeBackoffDelay
  <2>2. ComputeBackoffDelay(n + 1) = Ladder[n + 1]
    BY <1>1, <1>6 DEF ComputeBackoffDelay
  <2>3. n = 1 \/ n = 2 \/ n = 3 \/ n = 4 \/ n = 5
    BY <1>6
  <2>4. QED  BY <1>2, <2>1, <2>2, <2>3
<1>7. QED  BY <1>3, <1>4, <1>5, <1>6

(* A delay of the ladder stays within bounds under its jitter.             *)
LEMMA JitterFacts ==
    ASSUME NEW delay \in Nat, 250 =< delay, delay =< 30000
    PROVE  \A d \in Jittered(delay) : 200 =< d /\ d =< 36000
<1>1. Jittered(delay) = {(delay * 100) \div 100, (delay * 120) \div 100,
                         (delay * 80) \div 100}
  BY DEF Jittered, JitterPercent
<1>2. 200 =< (delay * 100) \div 100 /\ (delay * 100) \div 100 =< 36000
  OBVIOUS
<1>3. 200 =< (delay * 120) \div 100 /\ (delay * 120) \div 100 =< 36000
  OBVIOUS
<1>4. 200 =< (delay * 80) \div 100 /\ (delay * 80) \div 100 =< 36000
  OBVIOUS
<1>5. QED  BY <1>1, <1>2, <1>3, <1>4

(* What one round of sleeping does, n being at most the next count.        *)
LEMMA SleepFacts ==
    ASSUME BackoffInv, NEW n \in Nat, Sleep(n),
           failures' \in 0..MaxFailures, UNCHANGED transport,
           ComputeBackoffDelay(n) =< ComputeBackoffDelay(failures')
    PROVE  BackoffInv' /\ base' = ComputeBackoffDelay(n)
<1>1. base' = ComputeBackoffDelay(n)
  BY DEF Sleep
<1>2. base' \in Nat /\ 250 =< base' /\ base' =< 30000
  BY <1>1, LadderFacts
<1>3. transport' = "held" => slept' \in Jittered(base')
  BY DEF Sleep
<1>4. NeverHammers'
  <2>1. \A d \in Jittered(base') : 200 =< d /\ d =< 36000
    BY <1>2, JitterFacts
  <2>2. QED  BY <1>3, <2>1 DEF NeverHammers
<1>5. failures' \in Nat
  BY BackoffBounds
<1>6. ComputeBackoffDelay(failures') \in Nat
  BY <1>5, LadderFacts
<1>7. base' \in 0..ComputeBackoffDelay(failures')
  BY <1>1, <1>2, <1>6
<1>8. (base \in 0..ComputeBackoffDelay(failures))'
  BY <1>7
<1>9. QED  BY <1>1, <1>4, <1>8 DEF BackoffInv

LEMMA BackoffStart == BackoffInit => BackoffInv
<1> SUFFICES ASSUME BackoffInit PROVE BackoffInv
  OBVIOUS
<1>1. ComputeBackoffDelay(0) = 250
  BY DEF ComputeBackoffDelay, InitialReconnectDelay
<1>2. 0 \in 0..MaxFailures
  BY BackoffBounds
<1>3. QED  BY <1>1, <1>2 DEF BackoffInit, BackoffInv, NeverHammers

LEMMA BackoffStep ==
    BackoffInv /\ [BackoffNext]_backoffVars => BackoffInv' /\ DelaysClimb
<1> SUFFICES ASSUME BackoffInv, [BackoffNext]_backoffVars
             PROVE  BackoffInv' /\ DelaysClimb
  OBVIOUS
<1>1. failures \in Nat /\ failures =< MaxFailures /\ MaxFailures \in Nat
  BY BackoffBounds DEF BackoffInv
<1>2. ComputeBackoffDelay(failures) \in Nat /\ base \in Nat
      /\ base =< ComputeBackoffDelay(failures)
  <2>1. ComputeBackoffDelay(failures) \in Nat
    BY <1>1, LadderFacts
  <2>2. QED  BY <2>1 DEF BackoffInv
<1>3. /\ OneMore \in 0..MaxFailures
      /\ OneMore = failures \/ OneMore = failures + 1
  BY <1>1 DEF OneMore
<1>4. /\ OneMore \in Nat /\ ComputeBackoffDelay(OneMore) \in Nat
      /\ ComputeBackoffDelay(failures) =< ComputeBackoffDelay(OneMore)
  <2>1. ComputeBackoffDelay(OneMore) \in Nat
    BY <1>1, <1>3, LadderFacts
  <2>2. CASE OneMore = failures
    BY <1>1, <1>2, <2>2
  <2>3. CASE OneMore = failures + 1
    BY <1>1, <2>1, <2>3, LadderFacts
  <2>4. QED  BY <1>1, <1>3, <2>1, <2>2, <2>3
<1>5. CASE AttemptLost
  <2>1. Sleep(0) /\ failures' = 0 /\ UNCHANGED transport /\ attempt' = "lost"
    BY <1>5 DEF AttemptLost
  <2>2. ComputeBackoffDelay(0) =< ComputeBackoffDelay(failures')
    BY <2>1 DEF ComputeBackoffDelay, InitialReconnectDelay
  <2>3. failures' \in 0..MaxFailures
    BY <1>1, <2>1
  <2>4. BackoffInv'
    BY <2>1, <2>2, <2>3, SleepFacts
  <2>5. QED  BY <2>1, <2>4 DEF DelaysClimb
<1>6. CASE AttemptFails
  <2>1. Sleep(OneMore) /\ failures' = OneMore /\ UNCHANGED transport
    BY <1>6 DEF AttemptFails
  <2>2. ComputeBackoffDelay(OneMore) =< ComputeBackoffDelay(failures')
    BY <1>4, <2>1
  <2>3. BackoffInv' /\ base' = ComputeBackoffDelay(OneMore)
    BY <1>3, <1>4, <2>1, <2>2, SleepFacts
  <2>4. ~(base' < base)
    BY <1>2, <1>4, <2>3
  <2>5. QED  BY <2>3, <2>4 DEF DelaysClimb
<1>7. CASE AttemptNoToken
  <2>1. Sleep(failures) /\ failures' = OneMore /\ UNCHANGED transport
    BY <1>7 DEF AttemptNoToken
  <2>2. ComputeBackoffDelay(failures) =< ComputeBackoffDelay(failures')
    BY <1>4, <2>1
  <2>3. BackoffInv' /\ base' = ComputeBackoffDelay(failures)
    BY <1>1, <1>3, <2>1, <2>2, SleepFacts
  <2>4. ~(base' < base)
    BY <1>2, <2>3
  <2>5. QED  BY <2>3, <2>4 DEF DelaysClimb
<1>8. CASE TransportDropped
  <2>1. transport' = "dropped" /\ UNCHANGED <<failures, base>>
    BY <1>8 DEF TransportDropped
  <2>2. BackoffInv'
    BY <2>1 DEF BackoffInv, NeverHammers
  <2>3. QED  BY <1>2, <2>1, <2>2 DEF DelaysClimb
<1>9. CASE UNCHANGED backoffVars
  <2>1. UNCHANGED <<failures, base, slept, attempt, transport>>
    BY <1>9 DEF backoffVars
  <2>2. BackoffInv'
    BY <2>1 DEF BackoffInv, NeverHammers
  <2>3. QED  BY <1>2, <2>1, <2>2 DEF DelaysClimb
<1>10. QED  BY <1>5, <1>6, <1>7, <1>8, <1>9 DEF BackoffNext

(* The supervisor loop: for every number of failures in a row, delays      *)
(* never shrink before a connection was made, and a supervisor with its    *)
(* transport sleeps between 200 ms and 36 s before it tries again.         *)
THEOREM DelaysArePaced == BackoffSpec => Paced
<1>1. BackoffInv /\ BackoffInv' /\ [BackoffNext]_backoffVars
      => [DelaysClimb /\ NeverHammers']_backoffVars
  BY BackoffStep DEF BackoffInv
<1>2. BackoffInv /\ [BackoffNext]_backoffVars => BackoffInv'
  BY BackoffStep
<1>3. QED  BY BackoffStart, <1>1, <1>2, PTL DEF BackoffSpec, Paced

-----------------------------------------------------------------------------
(* Sealing and opening.                                                    *)

LEMMA EncryptFacts ==
    ASSUME NEW B, NEW K, NEW v \in [body : B, layers : Seq(K)], NEW key \in K
    PROVE  /\ Encrypt(v, key) \in [body : B, layers : Seq(K)]
           /\ Encrypt(v, key).body = v.body
           /\ ~InClear(Encrypt(v, key))
           /\ v.layers = <<>> => /\ Len(Encrypt(v, key).layers) =< 1
                                 /\ Encrypt(v, key).layers # <<>> =>
                                       Head(Encrypt(v, key).layers) = key
           /\ v.layers # <<>> => Encrypt(v, key).layers # <<>>
           /\ v.layers # <<>> => Head(Encrypt(v, key).layers) = Head(v.layers)
           /\ Decrypt(Encrypt(v, key), key) = v
<1>1. CASE v = Empty
  <2>1. Encrypt(v, key) = v /\ v.layers = <<>> /\ v.body = "empty" /\ Len(v.layers) = 0
    BY <1>1 DEF Encrypt, Empty
  <2>2. Decrypt(v, key) = v
    BY <2>1 DEF Decrypt, IsEncrypted
  <2>3. QED  BY <1>1, <2>1, <2>2 DEF InClear
<1>2. CASE v # Empty
  <2> DEFINE e == Encrypt(v, key)
             s == Append(v.layers, key)
  <2>1. e = [v EXCEPT !.layers = s]
    BY <1>2 DEF Encrypt
  <2>2. v.layers \in Seq(K) /\ Len(v.layers) \in Nat
    OBVIOUS
  <2>3. /\ s \in Seq(K) /\ s # <<>> /\ Len(s) = Len(v.layers) + 1
        /\ \A i \in 1..Len(v.layers) : s[i] = v.layers[i]
        /\ s[Len(v.layers) + 1] = key
    BY <2>2, AppendProperties
  <2>4. /\ e \in [body : B, layers : Seq(K)] /\ e.body = v.body /\ e.layers = s
        /\ [e EXCEPT !.layers = v.layers] = v
    BY <2>1, <2>3
  <2>5. Head(s) = s[1]
    BY <2>3
  <2>6. v.layers = <<>> => Len(s) = 1 /\ Head(s) = key
    BY <2>3, <2>5
  <2>7. v.layers # <<>> => Head(s) = Head(v.layers)
    <3>1. SUFFICES ASSUME v.layers # <<>> PROVE Head(s) = Head(v.layers)
      OBVIOUS
    <3>2. Len(v.layers) # 0
      BY <2>2, <3>1, EmptySeq
    <3>3. 1 \in 1..Len(v.layers)
      BY <2>2, <3>2
    <3>4. QED  BY <2>3, <2>5, <3>3
  <2>8. Last(s) = key
    BY <2>3 DEF Last
  <2>9. Front(s) = v.layers
    <3>1. Len(s) - 1 = Len(v.layers) /\ Len(v.layers) \in Int
      BY <2>2, <2>3
    <3>2. \A i \in 1..Len(v.layers) : s[i] \in K
      BY <2>2, <2>3
    <3>3. /\ SubSeq(s, 1, Len(v.layers)) \in Seq(K)
          /\ Len(SubSeq(s, 1, Len(v.layers)))
             = IF 1 =< Len(v.layers) THEN Len(v.layers) - 1 + 1 ELSE 0
          /\ \A i \in 1..(Len(v.layers) - 1 + 1) :
                SubSeq(s, 1, Len(v.layers))[i] = s[1 + i - 1]
      BY <3>1, <3>2, SubSeqProperties
    <3>4. Len(SubSeq(s, 1, Len(v.layers))) = Len(v.layers)
      BY <2>2, <3>3
    <3>5. \A i \in 1..Len(v.layers) : SubSeq(s, 1, Len(v.layers))[i] = v.layers[i]
      BY <2>2, <2>3, <3>3
    <3>6. SubSeq(s, 1, Len(v.layers)) = v.layers
      BY <2>2, <3>3, <3>4, <3>5, SeqEqual
    <3>7. QED  BY <3>1, <3>6 DEF Front
  <2>10. Decrypt(e, key) = [e EXCEPT !.layers = Front(@)]
    BY <2>3, <2>4, <2>8 DEF Decrypt, IsEncrypted
  <2>11. Decrypt(e, key) = v
    BY <2>4, <2>9, <2>10
  <2>12. ~InClear(e)
    BY <2>3, <2>4 DEF InClear
  <2>13. QED  BY <2>2, <2>3, <2>4, <2>6, <2>7, <2>11, <2>12
<1>3. QED  BY <1>1, <1>2

LEMMA DecryptFacts ==
    ASSUME NEW B, NEW K, NEW v \in [body : B, layers : Seq(K)], NEW key,
           "error" \in B
    PROVE  /\ Decrypt(v, key) \in [body : B, layers : Seq(K)]
           /\ \/ Decrypt(v, key) = v
              \/ Decrypt(v, key) = Unreadable
              \/ /\ v.layers # <<>>
                 /\ Decrypt(v, key).body = v.body
                 /\ Len(Decrypt(v, key).layers) = Len(v.layers) - 1
                 /\ Decrypt(v, key).layers = <<>> => Head(v.layers) = key
                 /\ Decrypt(v, key).layers # <<>> =>
                       Head(Decrypt(v, key).layers) = Head(v.layers)
<1>1. CASE ~IsEncrypted(v)
  BY <1>1 DEF Decrypt, IsEncrypted
<1>2. CASE v.layers # <<>> /\ Last(v.layers) = key
  <2> DEFINE s == v.layers
             f == Front(s)
  <2>1. Decrypt(v, key) = [v EXCEPT !.layers = f]
    BY <1>2 DEF Decrypt, IsEncrypted
  <2>2. s \in Seq(K) /\ Len(s) \in Nat /\ Len(s) # 0
    BY <1>2, EmptySeq
  <2>3. \A i \in 1..(Len(s) - 1) : s[i] \in K
    BY <2>2
  <2>4. f = SubSeq(s, 1, Len(s) - 1) /\ 1 \in Int /\ Len(s) - 1 \in Int
    BY <2>2 DEF Front
  <2>5. /\ f \in Seq(K)
        /\ Len(f) = IF 1 =< Len(s) - 1 THEN Len(s) - 1 - 1 + 1 ELSE 0
        /\ \A i \in 1..(Len(s) - 1 - 1 + 1) : f[i] = s[1 + i - 1]
    BY <2>2, <2>3, <2>4, SubSeqProperties
  <2> HIDE DEF f, s
  <2>6. Len(f) = Len(s) - 1 /\ f \in Seq(K)
    <3>1. Len(f) = IF 1 =< Len(s) - 1 THEN Len(s) - 1 - 1 + 1 ELSE 0
      BY <2>5
    <3>2. CASE Len(s) = 1
      BY <2>5, <3>1, <3>2
    <3>3. CASE Len(s) > 1
      BY <2>2, <2>5, <3>1, <3>3
    <3>4. Len(s) = 1 \/ Len(s) > 1
      <4>1. \A n \in Nat : n # 0 => n = 1 \/ n > 1
        OBVIOUS
      <4>2. QED  BY <2>2, <4>1
    <3>5. QED  BY <3>2, <3>3, <3>4
  <2>7. f = <<>> => Head(s) = key
    <3>1. SUFFICES ASSUME f = <<>> PROVE Head(s) = key
      OBVIOUS
    <3>2. Len(f) = 0
      BY <3>1, EmptySeq
    <3>3. Len(s) = 1
      BY <2>2, <2>6, <3>2
    <3>4. QED  BY <1>2, <3>3 DEF Last, s
  <2>8. f # <<>> => Head(f) = Head(s)
    <3>1. SUFFICES ASSUME f # <<>> PROVE Head(f) = Head(s)
      OBVIOUS
    <3>2. Len(f) # 0
      BY <2>6, <3>1, EmptySeq
    <3>3. Len(f) \in Nat
      BY <2>6
    <3>a. 1 \in 1..(Len(s) - 1 - 1 + 1)
      BY <2>2, <2>6, <3>2, <3>3
    <3>4. f[1] = s[1]
      BY <2>5, <3>a
    <3>5. QED  BY <3>4
  <2>9. /\ Decrypt(v, key).body = v.body /\ Decrypt(v, key).layers = f
        /\ Decrypt(v, key) \in [body : B, layers : Seq(K)]
    BY <2>1, <2>5
  <2>10. QED  BY <1>2, <2>6, <2>7, <2>8, <2>9 DEF s
<1>3. CASE IsEncrypted(v) /\ ~(v.layers # <<>> /\ Last(v.layers) = key)
  <2>1. Decrypt(v, key) = Unreadable
    BY <1>3 DEF Decrypt
  <2>2. <<>> \in Seq(K)
    OBVIOUS
  <2>3. Unreadable \in [body : B, layers : Seq(K)]
    BY <2>2 DEF Unreadable
  <2>4. QED  BY <2>1, <2>3
<1>4. QED  BY <1>1, <1>2, <1>3

-----------------------------------------------------------------------------
(* One encrypted column.                                                   *)

LEMMA ColumnStart == ColumnInit => ColumnInv
<1> SUFFICES ASSUME ColumnInit PROVE ColumnInv
  OBVIOUS
<1>1. Empty \in ColumnValues /\ Len(Empty.layers) =< 1 /\ ~InClear(Empty)
  <2>1. <<>> \in Seq({KeyOf(Owner, s) : s \in ColumnSecrets \cup {NoSecret}})
    OBVIOUS
  <2>2. Len(<<>>) = 0
    OBVIOUS
  <2>3. QED  BY <2>1, <2>2 DEF Empty, ColumnValues, InClear
<1>2. /\ desk = Empty /\ mirror = Empty /\ waiting.value = Empty /\ remote.value = Empty
      /\ mirrored = NoSecret /\ configured \in ColumnSecrets \cup {NoSecret}
  BY DEF ColumnInit, NoWrite
<1>3. QED  BY <1>1, <1>2 DEF ColumnInv, SealedOnce

(* What the machine's values may be.                                       *)
Sound(v) == v \in ColumnValues /\ Len(v.layers) =< 1

LEMMA ColumnParts ==
    ColumnInv <=> /\ Sound(desk) /\ Sound(mirror)
                  /\ Sound(waiting.value) /\ Sound(remote.value)
                  /\ configured \in ColumnSecrets \cup {NoSecret}
                  /\ mirrored # NoSecret => ~InClear(mirror)
                  /\ waiting.with # NoSecret => ~InClear(waiting.value)
                  /\ remote.with # NoSecret => ~InClear(remote.value)
  BY DEF ColumnInv, SealedOnce, Sound

LEMMA PlainSound ==
    /\ Sound(Empty) /\ Sound(Forged) /\ Sound(Written(Owner)) /\ Sound(Unreadable)
    /\ ~InClear(Empty)
<1>1. <<>> \in Seq({KeyOf(Owner, s) : s \in ColumnSecrets \cup {NoSecret}})
  OBVIOUS
<1>2. Len(<<>>) = 0
  OBVIOUS
<1>3. QED
  BY <1>1, <1>2 DEF Sound, ColumnValues, Empty, Forged, Written, Unreadable, InClear

(* What is sealed once stays so, and opened it is plain.                   *)
LEMMA SealedSound ==
    ASSUME NEW v, Sound(v), v.layers = <<>>, NEW s \in ColumnSecrets \cup {NoSecret}
    PROVE  Sound(Encrypt(v, KeyOf(Owner, s))) /\ ~InClear(Encrypt(v, KeyOf(Owner, s)))
<1> DEFINE B == {"empty", "forged", "error", Owner}
           K == {KeyOf(Owner, t) : t \in ColumnSecrets \cup {NoSecret}}
           key == KeyOf(Owner, s)
<1>1. key \in K
  OBVIOUS
<1>2. ColumnValues = [body : B, layers : Seq(K)] /\ v \in ColumnValues
  BY DEF ColumnValues, Sound
<1> HIDE DEF B, K, key
<1>3. /\ Encrypt(v, key) \in [body : B, layers : Seq(K)]
      /\ Len(Encrypt(v, key).layers) =< 1 /\ ~InClear(Encrypt(v, key))
  BY <1>1, <1>2, EncryptFacts
<1>4. Sound(Encrypt(v, key))
  BY <1>2, <1>3 DEF Sound
<1>5. QED  BY <1>3, <1>4 DEF key

LEMMA OpenedSound == ASSUME NEW v, Sound(v), NEW key PROVE Sound(Decrypt(v, key))
<1> DEFINE d == Decrypt(v, key)
           B == {"empty", "forged", "error", Owner}
           K == {KeyOf(Owner, t) : t \in ColumnSecrets \cup {NoSecret}}
<1>a. ColumnValues = [body : B, layers : Seq(K)] /\ v \in ColumnValues /\ "error" \in B
  BY DEF ColumnValues, Sound
<1> HIDE DEF B, K
<1>1. /\ d \in ColumnValues
      /\ \/ d = v \/ d = Unreadable
         \/ v.layers # <<>> /\ Len(d.layers) = Len(v.layers) - 1
  BY <1>a, DecryptFacts
<1>2. v.layers \in Seq({KeyOf(Owner, s) : s \in ColumnSecrets \cup {NoSecret}})
  BY DEF Sound, ColumnValues
<1>3. Len(v.layers) \in Nat /\ Len(v.layers) =< 1
  BY <1>2 DEF Sound
<1>4. Len(v.layers) - 1 =< 1
  BY <1>3
<1>5. QED  BY <1>1, <1>4, PlainSound DEF Sound

LEMMA SerializeSound ==
    ASSUME ColumnInv
    PROVE  /\ Sound(Serialize(desk))
           /\ configured # NoSecret => ~InClear(Serialize(desk))
<1>1. Sound(desk) /\ configured \in ColumnSecrets \cup {NoSecret}
  BY ColumnParts
<1>2. CASE configured = NoSecret
  BY <1>1, <1>2 DEF Serialize
<1>3. CASE configured # NoSecret /\ IsEncrypted(desk)
  <2>1. Serialize(desk) = desk
    BY <1>3 DEF Serialize
  <2>2. desk.layers = <<>> => desk = Forged
    BY <1>1, <1>3 DEF IsEncrypted, Sound, ColumnValues, Forged
  <2>3. QED  BY <1>1, <2>1, <2>2 DEF InClear
<1>4. CASE configured # NoSecret /\ ~IsEncrypted(desk)
  <2>1. Serialize(desk) = Encrypt(desk, KeyOf(Owner, configured)) /\ desk.layers = <<>>
    BY <1>4 DEF Serialize, IsEncrypted
  <2>2. QED  BY <1>1, <2>1, SealedSound
<1>5. QED  BY <1>2, <1>3, <1>4

LEMMA ColumnStep == ColumnInv /\ [ColumnNext]_columnVars => ColumnInv'
<1> SUFFICES ASSUME ColumnInv, [ColumnNext]_columnVars PROVE ColumnInv'
  OBVIOUS
<1>1. /\ Sound(desk) /\ Sound(mirror)
      /\ Sound(waiting.value) /\ Sound(remote.value)
      /\ configured \in ColumnSecrets \cup {NoSecret}
      /\ mirrored # NoSecret => ~InClear(mirror)
      /\ waiting.with # NoSecret => ~InClear(waiting.value)
      /\ remote.with # NoSecret => ~InClear(remote.value)
  BY ColumnParts
<1>2. SUFFICES (/\ Sound(desk) /\ Sound(mirror)
                /\ Sound(waiting.value) /\ Sound(remote.value)
                /\ configured \in ColumnSecrets \cup {NoSecret}
                /\ mirrored # NoSecret => ~InClear(mirror)
                /\ waiting.with # NoSecret => ~InClear(waiting.value)
                /\ remote.with # NoSecret => ~InClear(remote.value))'
  BY ColumnParts, PTL
<1>3. CASE ConfigureSecret
  BY <1>1, <1>3 DEF ConfigureSecret, Sound, ColumnValues, InClear
<1>4. CASE Type \/ ReadRecord \/ EncryptText \/ DecryptText
  <2>1. /\ UNCHANGED <<configured, mirror, mirrored, waiting, remote>>
    BY <1>4 DEF Type, ReadRecord, EncryptText, DecryptText
  <2>2. Sound(desk')
    <3>1. CASE Type
      BY <3>1, PlainSound DEF Type
    <3>2. CASE ReadRecord
      BY <1>1, <3>2 DEF ReadRecord
    <3>3. CASE EncryptText
      BY <1>1, <3>3, SealedSound DEF EncryptText
    <3>4. CASE DecryptText
      BY <1>1, <3>4, OpenedSound DEF DecryptText
    <3>5. QED  BY <1>4, <3>1, <3>2, <3>3, <3>4
  <2>3. QED  BY <1>1, <2>1, <2>2 DEF Sound, ColumnValues, InClear
<1>5. CASE PersistColumn
  <2> DEFINE row == [value |-> mirror', with |-> configured]
  <2>1. /\ mirror' = Serialize(desk) /\ mirrored' = configured
        /\ \/ remote' = row /\ UNCHANGED waiting
           \/ waiting' = row /\ UNCHANGED remote
        /\ UNCHANGED <<configured, desk>>
    BY <1>5 DEF PersistColumn
  <2>2. Sound(mirror') /\ (configured # NoSecret => ~InClear(mirror'))
    BY <2>1, SerializeSound
  <2>3. row.value = mirror' /\ row.with = configured
    OBVIOUS
  <2> HIDE DEF row
  <2>4. /\ Sound(waiting'.value) /\ Sound(remote'.value)
        /\ waiting'.with # NoSecret => ~InClear(waiting'.value)
        /\ remote'.with # NoSecret => ~InClear(remote'.value)
    BY <1>1, <2>1, <2>2, <2>3
  <2>5. QED  BY <1>1, <2>1, <2>2, <2>4 DEF Sound, ColumnValues, InClear
<1>6. CASE ReplayColumn
  <2>1. /\ remote' = waiting /\ waiting' = NoWrite
        /\ UNCHANGED <<configured, desk, mirror, mirrored>>
    BY <1>6 DEF ReplayColumn
  <2>2. waiting'.value = Empty
    BY <2>1 DEF NoWrite
  <2>3. QED  BY <1>1, <2>1, <2>2, PlainSound DEF Sound, ColumnValues, InClear
<1>7. CASE ApplyColumn
  <2>1. /\ mirror' = Opened(remote.value) /\ mirrored' = NoSecret
        /\ UNCHANGED <<configured, desk, waiting, remote>>
    BY <1>7 DEF ApplyColumn
  <2>2. Sound(mirror')
    BY <1>1, <2>1, OpenedSound DEF Opened
  <2>3. QED  BY <1>1, <2>1, <2>2 DEF Sound, ColumnValues, InClear
<1>8. CASE OtherDeviceWrites
  <2>1. UNCHANGED <<configured, desk, mirror, mirrored, waiting>>
    BY <1>8 DEF OtherDeviceWrites
  <2>2. PICK s \in ColumnSecrets \cup {NoSecret}, v \in {Empty, Written(Owner)} :
          remote' = [value |-> IF s = NoSecret THEN v ELSE Encrypt(v, KeyOf(Owner, s)),
                     with |-> s]
    BY <1>8 DEF OtherDeviceWrites
  <2>3. Sound(v) /\ v.layers = <<>>
    BY PlainSound DEF Empty, Written
  <2>4. Sound(Encrypt(v, KeyOf(Owner, s))) /\ ~InClear(Encrypt(v, KeyOf(Owner, s)))
    BY <2>3, SealedSound
  <2>5. Sound(remote'.value) /\ (remote'.with # NoSecret => ~InClear(remote'.value))
    BY <2>2, <2>3, <2>4
  <2>6. QED  BY <1>1, <2>1, <2>5 DEF Sound, ColumnValues, InClear
<1>9. CASE UNCHANGED columnVars
  BY <1>1, <1>9 DEF columnVars, Sound, ColumnValues, InClear
<1>10. QED  BY <1>3, <1>4, <1>5, <1>6, <1>7, <1>8, <1>9 DEF ColumnNext

(* serialize_for_remote and the plugin's encrypt commands: in every order, *)
(* with every number of secrets, no value is sealed twice, and none that   *)
(* was written with a secret is left open.                                 *)
THEOREM ColumnsAreSealedOnce == ColumnSpec => []SealedOnce
<1>1. ColumnInv => SealedOnce
  BY DEF ColumnInv
<1>2. QED  BY ColumnStart, ColumnStep, <1>1, PTL DEF ColumnSpec

-----------------------------------------------------------------------------
(* One object of a bucket.                                                 *)

LEMMA SealFacts ==
    ASSUME NEW v \in BucketValues, NEW by \in BucketUsers,
           NEW with \in {Secret, NoSecret}
    PROVE  /\ MaybeEncrypt(v, by, with) \in BucketValues
           /\ MaybeEncrypt(v, by, with).body = v.body
           /\ MaybeDecrypt(MaybeEncrypt(v, by, with), by, with) = v
           /\ MaybeEncrypt(v, by, with) = v \/ ~InClear(MaybeEncrypt(v, by, with))
           /\ with = NoSecret => MaybeEncrypt(v, by, with) = v
           /\ with # NoSecret => ~InClear(MaybeEncrypt(v, by, with))
           /\ v.layers # <<>> => /\ MaybeEncrypt(v, by, with).layers # <<>>
                                 /\ Head(MaybeEncrypt(v, by, with).layers) = Head(v.layers)
           /\ v.layers = <<>> /\ MaybeEncrypt(v, by, with).layers # <<>> =>
                 Head(MaybeEncrypt(v, by, with).layers)[1] = by
<1> DEFINE B == BucketUsers \cup {"empty", "forged", "error"}
           K == BucketKeys
           key == KeyOf(by, with)
           e == Encrypt(v, key)
<1>1. key \in K /\ key[1] = by
  BY DEF BucketKeys, KeyOf
<1>2. BucketValues = [body : B, layers : Seq(K)]
  BY DEF BucketValues
<1> HIDE DEF B, K, key
<1>3. CASE with = NoSecret
  BY <1>3 DEF MaybeEncrypt, MaybeDecrypt
<1>4. CASE with # NoSecret
  <2>1. MaybeEncrypt(v, by, with) = e
    BY <1>4 DEF MaybeEncrypt, key
  <2>2. /\ e \in BucketValues /\ e.body = v.body /\ ~InClear(e)
        /\ v.layers = <<>> /\ e.layers # <<>> => Head(e.layers) = key
        /\ v.layers # <<>> => e.layers # <<>> /\ Head(e.layers) = Head(v.layers)
        /\ Decrypt(e, key) = v
    <3>1. v \in [body : B, layers : Seq(K)] /\ key \in K
      BY <1>1, <1>2
    <3>2. /\ e \in [body : B, layers : Seq(K)] /\ e.body = v.body /\ ~InClear(e)
          /\ Decrypt(e, key) = v
      BY <3>1, EncryptFacts
    <3>3. v.layers = <<>> /\ e.layers # <<>> => Head(e.layers) = key
      BY <3>1, EncryptFacts
    <3>4. v.layers # <<>> => e.layers # <<>> /\ Head(e.layers) = Head(v.layers)
      <4>1. SUFFICES ASSUME v.layers # <<>>
                     PROVE  e.layers # <<>> /\ Head(e.layers) = Head(v.layers)
        OBVIOUS
      <4>2. e.layers # <<>>
        BY <3>1, <4>1, EncryptFacts, SMT
      <4>3. Head(e.layers) = Head(v.layers)
        BY <3>1, <4>1, EncryptFacts, SMT
      <4>4. QED  BY <4>2, <4>3
    <3>5. QED  BY <1>2, <3>2, <3>3, <3>4
  <2>3. MaybeDecrypt(e, by, with) = v
    <3>1. CASE IsEncrypted(e)
      BY <1>4, <2>2, <3>1 DEF MaybeDecrypt, key
    <3>2. CASE ~IsEncrypted(e)
      <4>1. Decrypt(e, key) = e
        BY <3>2 DEF Decrypt, IsEncrypted
      <4>2. QED  BY <2>2, <3>2, <4>1 DEF MaybeDecrypt
    <3>3. QED  BY <3>1, <3>2
  <2> HIDE DEF e
  <2>4. QED  BY <1>1, <1>4, <2>1, <2>2, <2>3
<1>5. QED  BY <1>3, <1>4

LEMMA OpenFacts ==
    ASSUME NEW v \in BucketValues, NEW by \in BucketUsers,
           NEW with \in {Secret, NoSecret}
    PROVE  /\ MaybeDecrypt(v, by, with) \in BucketValues
           /\ \/ MaybeDecrypt(v, by, with) = v
              \/ MaybeDecrypt(v, by, with) = Unreadable
              \/ /\ v.layers # <<>>
                 /\ MaybeDecrypt(v, by, with).body = v.body
                 /\ MaybeDecrypt(v, by, with).layers = <<>> => Head(v.layers)[1] = by
                 /\ MaybeDecrypt(v, by, with).layers # <<>> =>
                       Head(MaybeDecrypt(v, by, with).layers) = Head(v.layers)
<1> DEFINE B == BucketUsers \cup {"empty", "forged", "error"}
           K == BucketKeys
           key == KeyOf(by, with)
           d == Decrypt(v, key)
<1>1. key[1] = by /\ "error" \in B
  BY DEF KeyOf
<1>2. BucketValues = [body : B, layers : Seq(K)]
  BY DEF BucketValues
<1> HIDE DEF B, K, key
<1>3. CASE with = NoSecret \/ ~IsEncrypted(v)
  BY <1>3 DEF MaybeDecrypt
<1>4. CASE ~(with = NoSecret \/ ~IsEncrypted(v))
  <2>1. MaybeDecrypt(v, by, with) = d
    BY <1>4 DEF MaybeDecrypt, key
  <2>2. /\ d \in BucketValues
        /\ \/ d = v \/ d = Unreadable
           \/ /\ v.layers # <<>> /\ d.body = v.body
              /\ d.layers = <<>> => Head(v.layers) = key
              /\ d.layers # <<>> => Head(d.layers) = Head(v.layers)
    BY <1>1, <1>2, DecryptFacts
  <2> HIDE DEF d
  <2>3. QED  BY <1>1, <2>1, <2>2
<1>5. QED  BY <1>3, <1>4

LEMMA PlainValues ==
    /\ Empty \in BucketValues /\ Forged \in BucketValues
    /\ \A u \in BucketUsers : Written(u) \in BucketValues
    /\ Empty.layers = <<>> /\ ~InClear(Empty) /\ ~InClear(Forged)
    /\ ~InClear(Unreadable) /\ Unreadable.layers = <<>>
<1>1. <<>> \in Seq(BucketKeys)
  OBVIOUS
<1>2. QED
  BY <1>1 DEF BucketValues, Empty, Forged, Unreadable, Written, InClear

LEMMA BucketStart == BucketInit => BucketInv
<1> SUFFICES ASSUME BucketInit PROVE BucketInv
  OBVIOUS
<1>1. /\ reader = NoUser /\ secret \in {Secret, NoSecret} /\ command.kind = "none"
      /\ object.held = Empty /\ object.was = Empty /\ object.by = NoUser
      /\ object.with = NoSecret /\ shown = Empty
  BY DEF BucketInit, NoCommand, NoObject
<1>2. BucketKeeps
  BY <1>1, PlainValues DEF BucketKeeps, OnlyAuthorsRead, RoundTrip, MaybeDecrypt
<1>3. QED
  BY <1>1, <1>2, PlainValues DEF BucketInv, UploadInv, AuthorsSeal, OpenIsExposed

(* More texts lie open: what held before still holds.                      *)
LEMMA BeginUploadKeeps ==
    ASSUME BucketInv, NEW v \in Uploads, BeginUpload(v) PROVE BucketInv'
<1> DEFINE e == MaybeEncrypt(v, reader, secret)
<1>1. /\ reader # NoUser
      /\ command' = [kind |-> "upload", by |-> reader, with |-> secret, was |-> v,
                     body |-> e]
      /\ exposed' = exposed \cup (IF InClear(v) /\ secret = NoSecret THEN {v.body} ELSE {})
      /\ UNCHANGED <<reader, secret, object, shown, shownTo>>
  BY DEF BeginUpload
<1>2. reader \in BucketUsers /\ secret \in {Secret, NoSecret}
  BY <1>1 DEF BucketInv
<1>3. v \in BucketValues
  BY <1>2, PlainValues DEF Uploads, BucketInv
<1>4. v.layers # <<>> => AuthorsSeal(v)
  <2>1. Written(reader).layers = <<>> /\ Forged.layers = <<>>
    BY DEF Written, Forged
  <2>2. QED  BY <2>1 DEF Uploads, BucketInv
<1>5. v.layers = <<>> => v.body \in {reader, "forged"}
  <2>1. Written(reader).body = reader /\ Forged.body = "forged"
    BY DEF Written, Forged
  <2>2. Len(<<>>) = 0
    OBVIOUS
  <2>3. QED  BY <2>1, <2>2 DEF Uploads
<1>6. /\ e \in BucketValues /\ e.body = v.body
      /\ v.layers # <<>> => e.layers # <<>> /\ Head(e.layers) = Head(v.layers)
      /\ v.layers = <<>> /\ e.layers # <<>> => Head(e.layers)[1] = reader
      /\ secret # NoSecret => ~InClear(e)
      /\ secret = NoSecret => e = v
  BY <1>2, <1>3, SealFacts
<1>7. e.layers # <<>> =>
           \/ e.body \in exposed' \cup {"empty", "forged", "error"}
           \/ Head(e.layers)[1] = e.body
  BY <1>1, <1>4, <1>5, <1>6 DEF AuthorsSeal
<1>8. InClear(e) => e.body \in exposed'
  BY <1>1, <1>6
<1>9. e = MaybeEncrypt(v, reader, secret)
  OBVIOUS
<1> HIDE DEF e
<1>10. /\ command'.kind = "upload" /\ command'.by = reader /\ command'.with = secret
       /\ command'.was = v /\ command'.body = e
  BY <1>1
<1>11. UploadInv'
  <2>1. AuthorsSeal(command.body)' /\ OpenIsExposed(command.body)'
    BY <1>7, <1>8, <1>10 DEF AuthorsSeal, OpenIsExposed
  <2>2. QED  BY <1>2, <1>3, <1>6, <1>9, <1>10, <2>1 DEF UploadInv
<1>12. exposed \subseteq exposed'
  BY <1>1
<1>13. /\ AuthorsSeal(shown)' /\ AuthorsSeal(object.held)' /\ OpenIsExposed(object.held)'
  BY <1>1, <1>12 DEF BucketInv, AuthorsSeal, OpenIsExposed
<1>14. OnlyAuthorsRead'
  BY <1>1, <1>12 DEF BucketInv, BucketKeeps, OnlyAuthorsRead
<1>15. RoundTrip'
  BY <1>1 DEF BucketInv, BucketKeeps, RoundTrip
<1>16. QED
  BY <1>1, <1>2, <1>10, <1>11, <1>13, <1>14, <1>15 DEF BucketInv, BucketKeeps

(* The object is what was uploaded, and its uploader can have it back.     *)
LEMMA UploadServedKeeps == ASSUME BucketInv, UploadServed PROVE BucketInv'
<1>1. /\ command.kind = "upload" /\ command'.kind = "none"
      /\ object'.held = command.body /\ object'.was = command.was
      /\ object'.by = command.by /\ object'.with = command.with
      /\ UNCHANGED <<reader, secret, shown, shownTo, exposed>>
  BY DEF UploadServed, NoCommand
<1>2. /\ command.by \in BucketUsers /\ command.with \in {Secret, NoSecret}
      /\ command.was \in BucketValues /\ command.body \in BucketValues
      /\ command.body = MaybeEncrypt(command.was, command.by, command.with)
      /\ AuthorsSeal(command.body) /\ OpenIsExposed(command.body)
  BY <1>1 DEF BucketInv, UploadInv
<1>3. RoundTrip'
  <2>1. MaybeDecrypt(command.body, command.by, command.with) = command.was
    BY <1>2, SealFacts
  <2>2. QED  BY <1>1, <2>1 DEF RoundTrip
<1>4. OnlyAuthorsRead' /\ AuthorsSeal(shown)'
  BY <1>1 DEF BucketInv, BucketKeeps, OnlyAuthorsRead, AuthorsSeal
<1>5. AuthorsSeal(object.held)' /\ OpenIsExposed(object.held)'
  BY <1>1, <1>2 DEF AuthorsSeal, OpenIsExposed
<1>6. QED  BY <1>1, <1>2, <1>3, <1>4, <1>5 DEF BucketInv, BucketKeeps, UploadInv

(* A download opens what its user sealed, and nothing else.                *)
LEMMA DownloadServedKeeps == ASSUME BucketInv, DownloadServed PROVE BucketInv'
<1>1. /\ command.kind = "download" /\ command'.kind = "none"
      /\ shown' = MaybeDecrypt(object.held, command.by, command.with)
      /\ shownTo' = command.by
      /\ UNCHANGED <<reader, secret, object, exposed>>
  BY DEF DownloadServed, NoCommand
<1>2. /\ command.by \in BucketUsers /\ command.with \in {Secret, NoSecret}
      /\ object.held \in BucketValues
      /\ AuthorsSeal(object.held) /\ OpenIsExposed(object.held)
  BY <1>1 DEF BucketInv
<1>3. /\ shown' \in BucketValues
      /\ \/ shown' = object.held
         \/ shown' = Unreadable
         \/ /\ object.held.layers # <<>>
            /\ shown'.body = object.held.body
            /\ shown'.layers = <<>> => Head(object.held.layers)[1] = command.by
            /\ shown'.layers # <<>> => Head(shown'.layers) = Head(object.held.layers)
  BY <1>1, <1>2, OpenFacts
<1>4. AuthorsSeal(shown)'
  BY <1>1, <1>2, <1>3, PlainValues DEF AuthorsSeal
<1>5. OnlyAuthorsRead'
  <2>1. SUFFICES ASSUME InClear(shown')
                 PROVE  shown'.body = command.by \/ shown'.body \in exposed
    BY <1>1 DEF OnlyAuthorsRead
  <2>2. CASE shown' = object.held
    BY <1>2, <2>1, <2>2 DEF OpenIsExposed
  <2>3. CASE shown' # object.held
    <3>1. /\ object.held.layers # <<>> /\ shown'.body = object.held.body
          /\ shown'.layers = <<>> /\ Head(object.held.layers)[1] = command.by
      BY <1>3, <2>1, <2>3, PlainValues DEF InClear
    <3>2. shown'.body \notin {"empty", "forged", "error"}
      BY <1>3, <2>1, <3>1 DEF InClear, BucketValues, Empty, Forged, Unreadable
    <3>3. QED  BY <1>2, <3>1, <3>2 DEF AuthorsSeal
  <2>4. QED  BY <2>2, <2>3
<1>6. RoundTrip' /\ AuthorsSeal(object.held)' /\ OpenIsExposed(object.held)'
  BY <1>1 DEF BucketInv, BucketKeeps, RoundTrip, AuthorsSeal, OpenIsExposed
<1>7. QED  BY <1>1, <1>3, <1>4, <1>5, <1>6 DEF BucketInv, BucketKeeps, UploadInv

(* Who follows a signed URL is given what the server holds.                *)
LEMMA SignedUrlKeeps == ASSUME BucketInv, FollowSignedUrl PROVE BucketInv'
<1>1. shown' = object.held /\ UNCHANGED <<reader, secret, command, object, exposed>>
  BY DEF FollowSignedUrl
<1>2. OnlyAuthorsRead' /\ AuthorsSeal(shown)'
  BY <1>1 DEF BucketInv, OnlyAuthorsRead, OpenIsExposed, AuthorsSeal
<1>3. UploadInv'
  BY <1>1 DEF BucketInv, UploadInv, AuthorsSeal, OpenIsExposed
<1>4. RoundTrip' /\ AuthorsSeal(object.held)' /\ OpenIsExposed(object.held)'
  BY <1>1 DEF BucketInv, BucketKeeps, RoundTrip, AuthorsSeal, OpenIsExposed
<1>5. QED  BY <1>1, <1>2, <1>3, <1>4 DEF BucketInv, BucketKeeps

(* The session, the secret, a command or the object goes.                  *)
LEMMA DeleteKeeps == ASSUME BucketInv, DeleteObject PROVE BucketInv'
<1>1. /\ object'.held = Empty /\ object'.was = Empty /\ object'.by = NoUser
      /\ object'.with = NoSecret
      /\ UNCHANGED <<reader, secret, command, shown, shownTo, exposed>>
  BY DEF DeleteObject, NoObject
<1>2. RoundTrip' /\ AuthorsSeal(object.held)' /\ OpenIsExposed(object.held)'
  BY <1>1, PlainValues DEF RoundTrip, MaybeDecrypt, AuthorsSeal, OpenIsExposed
<1>3. OnlyAuthorsRead' /\ AuthorsSeal(shown)'
  BY <1>1 DEF BucketInv, BucketKeeps, OnlyAuthorsRead, AuthorsSeal
<1>4. UploadInv'
  BY <1>1 DEF BucketInv, UploadInv, AuthorsSeal, OpenIsExposed
<1>5. QED  BY <1>1, <1>2, <1>3, <1>4, PlainValues DEF BucketInv, BucketKeeps

LEMMA BystandersKeep ==
    ASSUME BucketInv,
           \/ SwitchSession \/ Reconfigure \/ BeginDownload \/ CommandFails
           \/ UNCHANGED bucketVars
    PROVE  BucketInv'
<1>1. UNCHANGED <<object, shown, shownTo, exposed>>
  BY DEF SwitchSession, Reconfigure, BeginDownload, CommandFails, bucketVars
<1>2. reader' \in BucketUsers \cup {NoUser} /\ secret' \in {Secret, NoSecret}
  BY DEF SwitchSession, Reconfigure, BeginDownload, CommandFails, bucketVars, BucketInv
<1>3. \/ UNCHANGED command \/ command'.kind = "none"
      \/ /\ command'.kind = "download"
         /\ command'.by \in BucketUsers /\ command'.with \in {Secret, NoSecret}
  <2>1. CASE BeginDownload
    <3>1. command' = [kind |-> "download", by |-> reader, with |-> secret]
      BY <2>1 DEF BeginDownload
    <3>2. reader \in BucketUsers /\ secret \in {Secret, NoSecret}
      BY <2>1 DEF BeginDownload, BucketInv
    <3>3. QED  BY <3>1, <3>2
  <2>2. CASE CommandFails
    BY <2>2 DEF CommandFails, NoCommand
  <2>3. CASE SwitchSession \/ Reconfigure \/ UNCHANGED bucketVars
    BY <2>3 DEF SwitchSession, Reconfigure, bucketVars
  <2>4. QED  BY <2>1, <2>2, <2>3
<1>4. UploadInv'
  BY <1>1, <1>3 DEF BucketInv, UploadInv, AuthorsSeal, OpenIsExposed
<1>5. BucketKeeps' /\ AuthorsSeal(shown)' /\ AuthorsSeal(object.held)'
      /\ OpenIsExposed(object.held)'
  BY <1>1 DEF BucketInv, BucketKeeps, OnlyAuthorsRead, RoundTrip, AuthorsSeal, OpenIsExposed
<1>6. QED  BY <1>1, <1>2, <1>3, <1>4, <1>5 DEF BucketInv

LEMMA BucketStep == BucketInv /\ [BucketNext]_bucketVars => BucketInv'
  BY BeginUploadKeeps, UploadServedKeeps, DownloadServedKeeps, SignedUrlKeeps,
     DeleteKeeps, BystandersKeep DEF BucketNext

(* SupabaseStorage with its engine: for every set of users, a text is      *)
(* shown to its author alone unless it went up in the clear, and its       *)
(* uploader has back the very bytes.                                       *)
THEOREM BucketKeepsTexts == BucketSpec => []BucketKeeps
<1>1. BucketInv => BucketKeeps
  BY DEF BucketInv
<1>2. QED  BY BucketStart, BucketStep, <1>1, PTL DEF BucketSpec

-----------------------------------------------------------------------------
(* The exported writer, and the two readers.                               *)

LEMMA ValueFacts ==
    /\ Numerals = {"n9", "n10"} /\ Texts = {"n10", "n9", "d1", "d2"}
    /\ columnType \in {"integer", "text"} => "n9" \in Values /\ "null" \in Values
  BY DEF Numerals, Texts, Number, Place, Values

LEMMA ReadersFacts ==
    ASSUME columnType \in {"integer", "text"}, table \in [RowIds -> RemoteRows]
    PROVE  ReadersAgree
<1>1. SUFFICES ASSUME NEW p \in IF columnType = "integer" THEN Numerals ELSE Texts
               PROVE  /\ columnType = "integer" \/ p \notin Numerals =>
                            FetchRecords("gte", p) = MemoryFetchRecords("gte", p)
                      /\ columnType = "text" => FetchVersions(p) = MemoryFetchVersions(p)
  BY DEF ReadersAgree
<1>2. \A id \in RowIds : table[id].value \in Values
  BY DEF RemoteRows
<1>3. ASSUME columnType = "integer" \/ p \notin Numerals
      PROVE  FetchRecords("gte", p) = MemoryFetchRecords("gte", p)
  <2>1. ASSUME NEW v \in Values PROVE GteAt(v, p) <=> RowValueGte(v, p)
    <3>1. CASE columnType = "integer"
      <4>1. p \in Numerals /\ v \in Numerals \cup {"null"} /\ "null" \notin Numerals
        BY <1>1, <3>1, ValueFacts DEF Values
      <4>2. CASE v = "null"
        BY <3>1, <4>1, <4>2 DEF GteAt, RowValueGte
      <4>3. CASE v # "null"
        <5>1. {v, p} \subseteq Numerals
          BY <4>1, <4>3
        <5>2. GteAt(v, p) = (Number[v] >= Number[p])
          BY <3>1, <4>3 DEF GteAt
        <5>3. RowValueGte(v, p) = (Number[v] >= Number[p])
          BY <5>1 DEF RowValueGte
        <5>4. QED  BY <5>2, <5>3
      <4>4. QED  BY <4>2, <4>3
    <3>2. CASE columnType = "text"
      <4>1. ~({v, p} \subseteq Numerals)
        BY <1>3, <3>2
      <4>2. v # "null" <=> v \in Texts
        BY <3>2, ValueFacts DEF Values
      <4>3. QED  BY <3>2, <4>1, <4>2 DEF GteAt, RowValueGte
    <3>3. QED  BY <3>1, <3>2
  <2>2. \A id \in {i \in RowIds : IsThere(i)} :
           GteAt(table[id].value, p) <=> RowValueGte(table[id].value, p)
    BY <1>2, <2>1
  <2>3. FetchRecords("gte", p)
        = {id \in {i \in RowIds : IsThere(i)} : GteAt(table[id].value, p)}
    BY DEF FetchRecords
  <2>4. MemoryFetchRecords("gte", p)
        = {id \in {i \in RowIds : IsThere(i)} : RowValueGte(table[id].value, p)}
    BY DEF MemoryFetchRecords
  <2>5. QED  BY <2>2, <2>3, <2>4
<1>4. ASSUME columnType = "text" PROVE FetchVersions(p) = MemoryFetchVersions(p)
  <2>1. FetchRecords("eq", p) = {id \in {i \in RowIds : IsThere(i)} : table[id].value = p}
    BY DEF FetchRecords
  <2>2. MemoryFetchRecords("eq", p)
        = {id \in {i \in RowIds : IsThere(i)} : table[id].value = p}
    BY <1>4 DEF MemoryFetchRecords
  <2>3. QED  BY <2>1, <2>2 DEF FetchVersions, MemoryFetchVersions
<1>5. QED  BY <1>3, <1>4

LEMMA RemoteStart == RemoteInit => RemoteInv
<1> SUFFICES ASSUME RemoteInit PROVE RemoteInv
  OBVIOUS
<1>1. /\ request.kind = "nothing" /\ request.rows = <<>> /\ outcome = "ok"
      /\ carried = {} /\ marks = {} /\ columnType \in {"integer", "text"}
      /\ table = [id \in RowIds |-> Missing]
  BY DEF RemoteInit
<1>2. DOMAIN <<>> = {}
  OBVIOUS
<1>3. Missing \in RemoteRows
  BY <1>1, RemoteBounds, ValueFacts DEF Missing, RemoteRows
<1>4. DOMAIN request.rows = {}
  BY <1>1, <1>2
<1>5. WriterTruthful
  BY <1>1, <1>4 DEF WriterTruthful
<1>6. QED  BY <1>1, <1>3, <1>4, <1>5 DEF RemoteInv, AskedFor

(* A request that may be sent: of rows of ours, and one if it is for one.  *)
LEMMA SendKeeps ==
    ASSUME RemoteInv, NEW kind, NEW rows, Send(kind, rows),
           DOMAIN rows \subseteq RowIds,
           \A id \in DOMAIN rows : rows[id] \in Records,
           kind = "one" => \E id \in RowIds : DOMAIN rows = {id}
    PROVE  RemoteInv'
<1>1. /\ request'.kind = kind /\ request'.rows = rows /\ outcome' = "pending"
      /\ carried' = {} /\ marks' = DOMAIN rows /\ UNCHANGED <<columnType, table>>
  BY DEF Send
<1>2. AskedFor'
  BY <1>1 DEF AskedFor, Records
<1>3. WriterTruthful'
  BY <1>1 DEF WriterTruthful
<1>4. (table \in [RowIds -> RemoteRows])'
  BY <1>1 DEF RemoteInv, RemoteRows, Values
<1>5. QED  BY <1>1, <1>2, <1>3, <1>4 DEF RemoteInv

LEMMA RequestsKeep ==
    ASSUME RemoteInv, UpsertOne \/ UpsertBatch \/ UpdateFields \/ Retry
    PROVE  RemoteInv'
<1>1. CASE UpsertOne \/ UpdateFields
  <2>1. PICK id \in RowIds, r \in Records, kind \in {"one", "fields"} :
           Send(kind, [i \in {id} |-> r])
    BY <1>1 DEF UpsertOne, UpdateFields
  <2> DEFINE rows == [i \in {id} |-> r]
  <2>2. DOMAIN rows = {id} /\ rows[id] = r
    OBVIOUS
  <2> HIDE DEF rows
  <2>3. QED  BY <2>1, <2>2, SendKeeps DEF rows
<1>2. CASE UpsertBatch
  <2>1. PICK ids \in SUBSET RowIds \ {{}} : \E rows \in [ids -> Records] :
           Send("batch", rows)
    BY <1>2 DEF UpsertBatch
  <2>2. PICK rows \in [ids -> Records] : Send("batch", rows)
    BY <2>1
  <2>3. DOMAIN rows = ids /\ ids \subseteq RowIds /\ \A id \in ids : rows[id] \in Records
    OBVIOUS
  <2>4. QED  BY <2>2, <2>3, SendKeeps
<1>3. CASE Retry
  <2>1. Send(request.kind, request.rows)
    BY <1>3 DEF Retry
  <2>2. AskedFor
    BY DEF RemoteInv
  <2>3. QED  BY <2>1, <2>2, SendKeeps DEF AskedFor
<1>4. QED  BY <1>1, <1>2, <1>3

(* A statement that nothing refuses.                                       *)
LEMMA ApplyFacts ==
    ASSUME RemoteInv, Refusals = {}, Apply, UNCHANGED <<columnType, request, marks>>
    PROVE  /\ (table \in [RowIds -> RemoteRows])'
           /\ carried' = Touched /\ Touched \subseteq DOMAIN request.rows
           /\ request.kind # "fields" => Touched = DOMAIN request.rows
           /\ \A id \in Touched : AtServer(id)'
<1>1. /\ columnType \in {"integer", "text"} /\ table \in [RowIds -> RemoteRows] /\ AskedFor
  BY DEF RemoteInv
<1>2. \A id \in Touched : Refusal(id) = "none"
  BY DEF Refusals
<1>3. Touched \subseteq DOMAIN request.rows
      /\ (request.kind # "fields" => Touched = DOMAIN request.rows)
  BY DEF Touched
<1>4. \A id \in Touched : request.rows[id] \in Records /\ id \in RowIds
  BY <1>1, <1>3 DEF AskedFor
<1>5. \A id \in Touched : request.rows[id].value # "invalid"
  BY <1>2 DEF Refusal
<1>6. \A id \in Touched : request.rows[id] \in RemoteRows
  <2>1. SUFFICES ASSUME NEW id \in Touched PROVE request.rows[id] \in RemoteRows
    OBVIOUS
  <2>2. request.rows[id] \in Records /\ request.rows[id].value = "n9"
    BY <1>4, <1>5 DEF Records
  <2>3. "n9" \in Values
    BY <1>1, ValueFacts
  <2>4. QED  BY <2>2, <2>3, RemoteBounds DEF Records, RemoteRows
<1>7. table' = [id \in RowIds |-> IF id \in Touched THEN request.rows[id] ELSE table[id]]
  BY DEF Apply
<1>8. table' \in [RowIds -> RemoteRows] /\ RemoteRows' = RemoteRows
  <2>1. RemoteRows' = RemoteRows
    BY DEF RemoteRows, Values
  <2>2. QED  BY <1>1, <1>6, <1>7, <2>1
<1>9. \A id \in Touched : AtServer(id)'
  <2>1. SUFFICES ASSUME NEW id \in Touched PROVE table'[id].version >= request.rows[id].version
    BY DEF AtServer
  <2>2. table'[id] = request.rows[id] /\ request.rows[id].version \in Nat
    BY <1>4, <1>7, RemoteBounds DEF Records
  <2>3. QED  BY <2>2
<1>10. QED  BY <1>3, <1>8, <1>9 DEF Apply

LEMMA SucceedsKeeps == ASSUME RemoteInv, Succeeds PROVE RemoteInv'
<1>1. Refusals = {} /\ Apply /\ outcome' = "ok" /\ UNCHANGED <<columnType, request, marks>>
  BY DEF Succeeds
<1>2. /\ (table \in [RowIds -> RemoteRows])'
      /\ carried' = Touched /\ Touched \subseteq DOMAIN request.rows
      /\ request.kind # "fields" => Touched = DOMAIN request.rows
      /\ \A id \in Touched : AtServer(id)'
  BY <1>1, ApplyFacts
<1>3. marks = DOMAIN request.rows
  BY DEF RemoteInv
<1>4. WriterTruthful'
  BY <1>1, <1>2, <1>3 DEF WriterTruthful
<1>5. QED  BY <1>1, <1>2, <1>4 DEF RemoteInv, AskedFor, Records

(* What is refused is at the server in a version as new, or cannot be.     *)
LEMMA RefusalFacts ==
    ASSUME RemoteInv, NEW id \in DOMAIN request.rows
    PROVE  /\ Refusal(id) # "none" => AtServer(id) \/ request.rows[id].value = "invalid"
           /\ Refusal(id) = "same version" => AtServer(id)
<1>1. table \in [RowIds -> RemoteRows] /\ request.rows[id] \in Records /\ id \in RowIds
  BY DEF RemoteInv, AskedFor
<1>2. table[id].version \in Nat /\ request.rows[id].version \in Nat
  BY <1>1, RemoteBounds DEF RemoteRows, Records
<1>3. CASE request.rows[id].value = "invalid"
  BY <1>3 DEF Refusal
<1>4. CASE request.rows[id].value # "invalid"
  <2> DEFINE ours == request.rows[id].version
             theirs == table[id].version
  <2>1. Refusal(id) = CASE ours = theirs -> "same version"
                        [] ours < theirs -> "version regression"
                        [] ours > theirs -> "none"
    BY <1>4 DEF Refusal
  <2>2. ours \in Nat /\ theirs \in Nat /\ (AtServer(id) <=> theirs >= ours)
    BY <1>2 DEF AtServer
  <2> HIDE DEF ours, theirs
  <2>3. CASE ours > theirs
    <3>1. ~(ours = theirs) /\ ~(ours < theirs)
      BY <2>2, <2>3
    <3>2. Refusal(id) = "none"
      BY <2>1, <2>3, <3>1
    <3>3. QED  BY <3>2
  <2>4. CASE ~(ours > theirs)
    <3>1. AtServer(id)
      BY <2>2, <2>4
    <3>2. QED  BY <3>1
  <2>5. QED  BY <2>3, <2>4
<1>5. QED  BY <1>3, <1>4

LEMMA RefusedKeeps == ASSUME RemoteInv, IsRefused PROVE RemoteInv'
<1>1. UNCHANGED <<columnType, table, request, carried, marks>>
  BY DEF IsRefused
<1>2. PICK why \in Refusals : outcome' = IF why = "same version" /\ request.kind = "one"
                                         THEN "ignored" ELSE "permanent"
  BY DEF IsRefused
<1>3. PICK id \in Touched : why = Refusal(id) /\ why # "none"
  BY DEF Refusals
<1>4. id \in DOMAIN request.rows
  BY DEF Touched
<1>5. AtServer(id) \/ request.rows[id].value = "invalid"
  BY <1>3, <1>4, RefusalFacts
<1>6. outcome' = "ignored" => \A i \in DOMAIN request.rows : AtServer(i)
  <2>1. SUFFICES ASSUME outcome' = "ignored" PROVE \A i \in DOMAIN request.rows : AtServer(i)
    OBVIOUS
  <2>2. why = "same version" /\ request.kind = "one"
    BY <1>2, <2>1
  <2>3. AtServer(id)
    BY <1>3, <1>4, <2>2, RefusalFacts
  <2>4. DOMAIN request.rows = {id}
    BY <1>4, <2>2 DEF RemoteInv, AskedFor
  <2>5. QED  BY <2>3, <2>4
<1>7. carried \subseteq marks
  BY DEF RemoteInv, WriterTruthful
<1>8. \A i : AtServer(i)' <=> AtServer(i)
  BY <1>1 DEF AtServer
<1>9. outcome' \in {"ignored", "permanent"}
  BY <1>2
<1>10. WriterTruthful'
  BY <1>1, <1>4, <1>5, <1>6, <1>7, <1>8, <1>9 DEF WriterTruthful
<1>11. QED  BY <1>1, <1>10 DEF RemoteInv, AskedFor, RemoteRows, Values, Records

LEMMA UnheardKeeps == ASSUME RemoteInv, IsUnheard PROVE RemoteInv'
<1>1. outcome' = "transient" /\ UNCHANGED <<columnType, request, marks>>
  BY DEF IsUnheard
<1>2. marks = DOMAIN request.rows /\ carried \subseteq marks
  BY DEF RemoteInv, WriterTruthful
<1>3. (table \in [RowIds -> RemoteRows])' /\ carried' \subseteq marks
  <2>1. CASE UNCHANGED <<table, carried>>
    BY <1>1, <1>2, <2>1 DEF RemoteInv, RemoteRows, Values
  <2>2. CASE Refusals = {} /\ Apply
    BY <1>1, <1>2, <2>2, ApplyFacts
  <2>3. QED  BY <2>1, <2>2 DEF IsUnheard
<1>4. WriterTruthful'
  BY <1>1, <1>3 DEF WriterTruthful
<1>5. QED  BY <1>1, <1>2, <1>3, <1>4 DEF RemoteInv, AskedFor, Records

(* Versions at the server only grow.                                       *)
LEMMA OthersWriteKeeps == ASSUME RemoteInv, OthersWrite PROVE RemoteInv'
<1>1. UNCHANGED <<columnType, request, outcome, carried, marks>>
  BY DEF OthersWrite
<1>2. PICK id \in RowIds, v \in Values :
         /\ table[id].version < MaxRowVersion
         /\ table' = [table EXCEPT ![id] = [version |-> @.version + 1, value |-> v]]
  BY DEF OthersWrite
<1>3. table \in [RowIds -> RemoteRows] /\ AskedFor
  BY DEF RemoteInv
<1>4. table[id].version \in 0..MaxRowVersion
  BY <1>3 DEF RemoteRows
<1>5. table[id].version + 1 \in 0..MaxRowVersion
  BY <1>2, <1>4, RemoteBounds
<1>6. [version |-> table[id].version + 1, value |-> v] \in RemoteRows
  BY <1>5 DEF RemoteRows
<1>7. table' \in [RowIds -> RemoteRows]
  BY <1>2, <1>3, <1>6
<1>8. \A i \in DOMAIN request.rows : AtServer(i) => AtServer(i)'
  <2>1. SUFFICES ASSUME NEW i \in DOMAIN request.rows,
                        table[i].version >= request.rows[i].version
                 PROVE  table'[i].version >= request.rows[i].version
    BY <1>1 DEF AtServer
  <2>2. i \in RowIds /\ request.rows[i] \in Records
    BY <1>3 DEF AskedFor
  <2>3. table[i].version \in Nat /\ request.rows[i].version \in Nat
    BY <1>3, <2>2, RemoteBounds DEF RemoteRows, Records
  <2>4. CASE i = id
    <3>1. table'[i].version = table[i].version + 1
      BY <1>2, <1>3, <2>4
    <3>2. QED  BY <2>1, <2>3, <3>1
  <2>5. CASE i # id
    <3>1. table'[i] = table[i]
      BY <1>2, <1>3, <2>2, <2>5
    <3>2. QED  BY <2>1, <3>1
  <2>6. QED  BY <2>4, <2>5
<1>9. carried \subseteq DOMAIN request.rows
  BY DEF RemoteInv, WriterTruthful
<1>10. WriterTruthful'
  BY <1>1, <1>8, <1>9 DEF RemoteInv, WriterTruthful
<1>11. (table \in [RowIds -> RemoteRows])'
  BY <1>1, <1>7 DEF RemoteRows, Values
<1>12. QED  BY <1>1, <1>10, <1>11 DEF RemoteInv, AskedFor, Records

LEMMA RemoteStep == RemoteInv /\ [RemoteNext]_remoteVars => RemoteInv'
<1> SUFFICES ASSUME RemoteInv, [RemoteNext]_remoteVars PROVE RemoteInv'
  OBVIOUS
<1>1. CASE UNCHANGED remoteVars
  BY <1>1 DEF remoteVars, RemoteInv, AskedFor, Records, RemoteRows, Values,
              WriterTruthful, AtServer
<1>2. QED
  BY <1>1, RequestsKeep, SucceedsKeeps, RefusedKeeps, UnheardKeeps, OthersWriteKeeps
  DEF RemoteNext

(* RemoteWriter and the two readers: for every set of rows, what the       *)
(* caller is told is true of the table, what realtime brings back is       *)
(* marked, and the memory reader finds what PostgREST would.               *)
THEOREM WriterAndReadersKeep == RemoteSpec => []RemoteKeeps
<1>1. RemoteInv => RemoteKeeps
  BY ReadersFacts DEF RemoteInv, RemoteKeeps
<1>2. QED  BY RemoteStart, RemoteStep, <1>1, PTL DEF RemoteSpec

-----------------------------------------------------------------------------
(* The registry.                                                           *)

LEMMA RegistryStart == RegistryInit => RegistryInv
<1> SUFFICES ASSUME RegistryInit PROVE RegistryInv
  OBVIOUS
<1>1. DOMAIN <<>> = {}
  OBVIOUS
<1>2. DOMAIN byTable = {} /\ DOMAIN byType = {} /\ DOMAIN tableToType = {}
  BY <1>1 DEF RegistryInit
<1>3. QED  BY <1>2 DEF RegistryInv, SyncedTables

LEMMA RegisterKeeps ==
    ASSUME RegistryInv, NEW config \in Configs \cup {KvsEntityConfig},
           RegisterEntity(config)
    PROVE  RegistryInv'
<1>1. byTable' = Put(byTable, config.table, config)
  BY DEF RegisterEntity
<1>2. /\ DOMAIN byTable' = DOMAIN byTable \cup {config.table}
      /\ byTable'[config.table] = config
      /\ \A t \in DOMAIN byTable \ {config.table} : byTable'[t] = byTable[t]
  BY <1>1 DEF Put
<1>3. \A t \in DOMAIN byTable' :
         byTable'[t] \in Configs \cup {KvsEntityConfig} /\ byTable'[t].table = t
  BY <1>2 DEF RegistryInv
<1>4. CASE IsSynced(config)
  <2>1. /\ tableToType' = Put(tableToType, config.table, config.type)
        /\ byType' = Put(byType, config.type, config)
    BY <1>4 DEF RegisterEntity
  <2>2. /\ DOMAIN tableToType' = DOMAIN tableToType \cup {config.table}
        /\ tableToType'[config.table] = config.type
        /\ \A t \in DOMAIN tableToType \ {config.table} : tableToType'[t] = tableToType[t]
    BY <2>1 DEF Put
  <2>3. /\ DOMAIN byType' = DOMAIN byType \cup {config.type}
        /\ byType'[config.type] = config
        /\ \A t \in DOMAIN byType \ {config.type} : byType'[t] = byType[t]
    BY <2>1 DEF Put
  <2>4. \A t \in DOMAIN tableToType' : tableToType'[t] \in DOMAIN byType'
    BY <2>2, <2>3 DEF RegistryInv
  <2>5. \A type \in DOMAIN byType' : IsSynced(byType'[type])
    BY <1>4, <2>3 DEF RegistryInv
  <2>6. \A t \in DOMAIN byTable' : IsSynced(byTable'[t]) =>
           t \in DOMAIN tableToType' /\ tableToType'[t] = byTable'[t].type
    BY <1>2, <2>2 DEF RegistryInv, SyncedTables
  <2>7. QED  BY <1>3, <2>4, <2>5, <2>6 DEF RegistryInv, SyncedTables, IsSynced
<1>5. CASE ~IsSynced(config)
  <2>1. UNCHANGED <<tableToType, byType>>
    BY <1>5 DEF RegisterEntity
  <2>2. \A t \in DOMAIN byTable' : IsSynced(byTable'[t]) =>
           t \in DOMAIN tableToType' /\ tableToType'[t] = byTable'[t].type
    BY <1>2, <1>5, <2>1 DEF RegistryInv, SyncedTables
  <2>3. QED  BY <1>3, <2>1, <2>2 DEF RegistryInv, SyncedTables, IsSynced
<1>6. QED  BY <1>4, <1>5

LEMMA RegistryStep == RegistryInv /\ [RegistryNext]_registryVars => RegistryInv'
<1> SUFFICES ASSUME RegistryInv, [RegistryNext]_registryVars PROVE RegistryInv'
  OBVIOUS
<1>1. CASE UNCHANGED <<byTable, byType, tableToType>>
  BY <1>1 DEF RegistryInv, SyncedTables, IsSynced
<1>2. CASE \E config \in Configs : RegisterEntity(config)
  BY <1>2, RegisterKeeps
<1>3. CASE RegisterKvs
  BY <1>3, RegisterKeeps DEF RegisterKvs
<1>4. CASE Migrate \/ UNCHANGED registryVars
  BY <1>1, <1>4 DEF Migrate, registryVars
<1>5. QED  BY <1>2, <1>3, <1>4 DEF RegistryNext

-----------------------------------------------------------------------------
(* What a validation without issues says.                                  *)
LEMMA NoIssues ==
    ASSUME NEW expected, NEW snapshot, Issues(expected, snapshot) = {},
           NEW t \in DOMAIN expected, NEW want \in expected[t]
    PROVE  \E have \in snapshot[t] :
              have[1] = want[1] /\ NormalizeType(have[2]) = NormalizeType(want[2])
  BY DEF Issues

LEMMA ServerHas ==
    ASSUME NEW snapshot, RemoteIssues(snapshot) = {}, NEW t \in SyncedTables,
           NEW want \in ExpectedRemote(byTable[t])
    PROVE  \E have \in snapshot[t] :
              have[1] = want[1] /\ NormalizeType(have[2]) = NormalizeType(want[2])
<1> DEFINE expected == [u \in SyncedTables |-> ExpectedRemote(byTable[u])]
<1>1. t \in DOMAIN expected /\ expected[t] = ExpectedRemote(byTable[t])
  OBVIOUS
<1>2. Issues(expected, snapshot) = {}
  BY DEF RemoteIssues
<1> HIDE DEF expected
<1>3. QED  BY <1>1, <1>2, NoIssues

LEMMA MirrorHas ==
    ASSUME NEW snapshot, LocalIssues(snapshot) = {}, NEW t \in DOMAIN byTable,
           NEW want \in ExpectedLocal(byTable[t])
    PROVE  \E have \in snapshot[t] :
              have[1] = want[1] /\ NormalizeType(have[2]) = NormalizeType(want[2])
<1> DEFINE expected == [u \in DOMAIN byTable |-> ExpectedLocal(byTable[u])]
<1>1. t \in DOMAIN expected /\ expected[t] = ExpectedLocal(byTable[t])
  OBVIOUS
<1>2. Issues(expected, snapshot) = {}
  BY DEF LocalIssues
<1> HIDE DEF expected
<1>3. QED  BY <1>1, <1>2, NoIssues

(* serialize_for_remote sends no column that validation did not look for.  *)
LEMMA SentFits ==
    ASSUME NEW snapshot, RemoteIssues(snapshot) = {}, NEW t \in SyncedTables, NEW names,
           NEW sending \in SerializeRemotePayload(t, MapLocalToRemote(byTable[t], names))
    PROVE  sending \subseteq Names(snapshot[t])
<1>1. t \in DOMAIN byTable
  BY DEF SyncedTables
<1>2. ConfigForTable(t) = {byTable[t]}
  BY <1>1 DEF ConfigForTable
<1>3. sending = MapLocalToRemote(byTable[t], names) \cup Included(byTable[t])
  BY <1>2 DEF SerializeRemotePayload, SerializedColumns
<1>4. SUFFICES ASSUME NEW name \in sending
               PROVE  \E have \in snapshot[t] : have[1] = name
  BY DEF Names
<1>5. \E want \in ExpectedRemote(byTable[t]) : want[1] = name
  <2>1. CASE name \in Included(byTable[t])
    <3>1. <<name, "string">> \in ExpectedRemote(byTable[t])
      BY <2>1 DEF ExpectedRemote
    <3>2. QED  BY <3>1
  <2>2. CASE name \in MapLocalToRemote(byTable[t], names)
    <3>1. PICK c \in RemoteColumns(byTable[t]) : name = c.remote
      BY <2>2 DEF MapLocalToRemote
    <3>2. <<c.remote, c.remoteType>> \in ExpectedRemote(byTable[t])
      BY DEF ExpectedRemote
    <3>3. QED  BY <3>1, <3>2
  <2>3. QED  BY <1>3, <2>1, <2>2
<1>6. QED  BY <1>5, ServerHas

LEMMA AppliedFits ==
    ASSUME NEW snapshot, LocalIssues(snapshot) = {}, NEW t \in DOMAIN byTable, NEW names
    PROVE  MapRemoteToLocal(byTable[t], names) \subseteq Names(snapshot[t])
<1>1. SUFFICES ASSUME NEW name \in MapRemoteToLocal(byTable[t], names)
               PROVE  \E have \in snapshot[t] : have[1] = name
  BY DEF Names
<1>2. PICK c \in byTable[t].columns : name = c.local
  BY DEF MapRemoteToLocal, RemoteColumns
<1>3. <<c.local, c.sqlType>> \in ExpectedLocal(byTable[t])
  BY DEF ExpectedLocal
<1>4. QED  BY <1>2, <1>3, MirrorHas

(* A table of the server has one column of a name.                         *)
LEMMA ServerColumns ==
    ASSUME NEW t \in DOMAIN Schema("server"),
           NEW a \in Schema("server")[t], NEW b \in Schema("server")[t], a[1] = b[1]
    PROVE  a[2] = b[2]
<1> DEFINE all == AllColumns("server", t)
<1>1. all = {<<c.remote, c.remoteType>> :
               c \in {d \in SchemaColumns(t) : d.remote # NoRemote}}
            \cup {<<"user_id", "string">>}
  BY DEF AllColumns
<1>2. \A c \in SchemaColumns(t) : c.remote # NoRemote =>
         \/ c.remote = "id" /\ c.remoteType = "string"
         \/ c.remote = "name" /\ c.remoteType = "string"
         \/ c.remote = "value" /\ c.remoteType = "jsonb"
         \/ c.remote = "version" /\ c.remoteType = "integer"
         \/ c.remote = "deleted" /\ c.remoteType = "boolean"
         \/ c.remote = "updated_at" /\ c.remoteType = IF t = "kvs" THEN "string" ELSE "integer"
  BY DEF SchemaColumns, KvsEntityConfig, Id, Title, Draft, Version, Deleted, UpdatedAt,
         LocalOnly, Synced
<1>3. \A c \in all :
         \/ c[1] \in {"id", "name", "user_id"} /\ c[2] = "string"
         \/ c[1] = "value" /\ c[2] = "jsonb"
         \/ c[1] = "version" /\ c[2] = "integer"
         \/ c[1] = "deleted" /\ c[2] = "boolean"
         \/ c[1] = "updated_at" /\ c[2] = IF t = "kvs" THEN "string" ELSE "integer"
  BY <1>1, <1>2
<1> HIDE DEF all
<1>4. \A c, d \in all : c[1] = d[1] => c[2] = d[2]
  BY <1>3
<1>5. CASE drift.place = "server" /\ drift.table = t
  <2>1. Schema("server")[t] = Drifted(all)
    BY <1>5 DEF Schema, all
  <2>2. \A c \in Drifted(all) :
           \/ c \in all /\ c[1] # drift.column
           \/ c[1] = drift.column /\ c[2] = drift.how
    BY DEF Drifted
  <2>3. QED  BY <1>4, <2>1, <2>2
<1>6. CASE ~(drift.place = "server" /\ drift.table = t)
  <2>1. Schema("server")[t] = all
    BY <1>6 DEF Schema, all
  <2>2. QED  BY <1>4, <2>1
<1>7. QED  BY <1>5, <1>6

(* update_tombstone: what it writes to a registered column has the type of *)
(* the server's column if and only if that is the registered one.          *)
LEMMA TombstoneFits ==
    ASSUME RemoteIssues(Schema("server")) = {}, NEW t \in SyncedTables,
           NEW put \in TombstoneColumns(byTable[t]),
           put[1] \in {c.remote : c \in RemoteColumns(byTable[t])}
    PROVE  put \in Shape(Schema("server")[t]) <=> put \notin Misfits(byTable[t])
<1> DEFINE columns == Schema("server")[t]
<1>1. put = <<put[1], put[2]>>
  BY DEF TombstoneColumns
<1>2. t \in DOMAIN Schema("server")
  <2> DEFINE expected == [u \in SyncedTables |-> ExpectedRemote(byTable[u])]
  <2>1. t \in DOMAIN expected /\ Issues(expected, Schema("server")) = {}
    BY DEF RemoteIssues
  <2> HIDE DEF expected
  <2>2. QED  BY <2>1 DEF Issues
<1>3. \A c \in RemoteColumns(byTable[t]) :
         \E have \in columns :
            have[1] = c.remote /\ NormalizeType(have[2]) = NormalizeType(c.remoteType)
  <2>1. SUFFICES ASSUME NEW c \in RemoteColumns(byTable[t])
                 PROVE  \E have \in columns :
                           have[1] = c.remote
                           /\ NormalizeType(have[2]) = NormalizeType(c.remoteType)
    OBVIOUS
  <2>2. <<c.remote, c.remoteType>> \in ExpectedRemote(byTable[t])
    BY DEF ExpectedRemote
  <2> HIDE DEF columns
  <2>3. \E have \in columns :
           have[1] = <<c.remote, c.remoteType>>[1]
           /\ NormalizeType(have[2]) = NormalizeType(<<c.remote, c.remoteType>>[2])
    BY <2>2, ServerHas DEF columns
  <2>4. QED  BY <2>3
<1>4. \A a, b \in columns : a[1] = b[1] => a[2] = b[2]
  BY <1>2, ServerColumns
<1>5. put \in Shape(columns) <=>
         \E have \in columns : have[1] = put[1] /\ NormalizeType(have[2]) = put[2]
  BY <1>1 DEF Shape
<1> HIDE DEF columns
<1>6. ASSUME put \in Shape(columns) PROVE put \notin Misfits(byTable[t])
  <2>1. PICK have \in columns : have[1] = put[1] /\ NormalizeType(have[2]) = put[2]
    BY <1>5, <1>6
  <2>2. \A c \in RemoteColumns(byTable[t]) :
           c.remote = put[1] => NormalizeType(c.remoteType) = put[2]
    BY <1>3, <1>4, <2>1
  <2>3. QED  BY <2>2 DEF Misfits
<1>7. ASSUME put \notin Misfits(byTable[t]) PROVE put \in Shape(columns)
  <2>1. PICK c \in RemoteColumns(byTable[t]) : c.remote = put[1]
    OBVIOUS
  <2>2. NormalizeType(c.remoteType) = put[2]
    BY <1>7, <2>1 DEF Misfits
  <2>3. QED  BY <1>3, <1>5, <2>1, <2>2
<1>8. QED  BY <1>6, <1>7 DEF columns

LEMMA OwnSnapshotPasses == RemoteIssues(BuildRemoteSnapshot) = {}
<1> DEFINE own == [u \in SyncedTables |-> ExpectedRemote(byTable[u])]
<1>1. \A t \in SyncedTables : t \in DOMAIN own /\ own[t] = ExpectedRemote(byTable[t])
  OBVIOUS
<1>2. DOMAIN own = SyncedTables
  OBVIOUS
<1>3. RemoteIssues(BuildRemoteSnapshot) = Issues(own, own)
  BY DEF RemoteIssues, BuildRemoteSnapshot
<1> HIDE DEF own
<1>4. Issues(own, own) = {}
  BY DEF Issues
<1>5. QED  BY <1>3, <1>4

(* Registry and validate_schema: for every set of configurations, in       *)
(* whatever order they are registered, a validation without issues means   *)
(* that what is sent and applied fits, but for exactly the columns whose   *)
(* registered types say otherwise.                                         *)
THEOREM RegistryFits == RegistrySpec => []RegistryKeeps
<1>1. ValidatedFits
  BY SentFits, TombstoneFits, AppliedFits DEF ValidatedFits
<1>2. RegistryInv => RegistryAgrees
  <2> SUFFICES ASSUME RegistryInv PROVE RegistryAgrees
    OBVIOUS
  <2>1. \A t \in SyncedTables : IsRegisteredTable(t) /\ tableToType[t] = byTable[t].type
    BY DEF RegistryInv, IsRegisteredTable, RegisteredTables
  <2>2. \A t \in RegisteredTables :
           \E config \in ConfigForType(tableToType[t]) : IsSynced(config)
    BY DEF RegistryInv, RegisteredTables, ConfigForType
  <2>3. QED  BY <2>1, <2>2, OwnSnapshotPasses DEF RegistryAgrees
<1>3. QED  BY RegistryStart, RegistryStep, <1>1, <1>2, PTL DEF RegistrySpec, RegistryKeeps

-----------------------------------------------------------------------------
(* The logger.                                                             *)

LEMMA LoggerStart == LoggerInit => LoggerInv
<1> SUFFICES ASSUME LoggerInit PROVE LoggerInv
  OBVIOUS
<1>1. \A t \in Installers : installer[t].phase = "building"
  BY DEF LoggerInit
<1>2. InstallsInv
  BY <1>1 DEF LoggerInit, InstallsInv, OneLogger, InstallsAlternate, Installing, Phases
<1>3. LevelsInv
  <2>1. overriding \in Seq(Override) /\ Len(overriding) = 0
    BY EmptySeq DEF LoggerInit
  <2>2. OverridesNest
    BY DEF LoggerInit, OverridesNest, BaseLevel
  <2>3. OverridesStack
    BY <2>1 DEF LoggerInit, OverridesStack
  <2>4. QED  BY <2>1, <2>2, <2>3 DEF LoggerInit, LevelsInv, Info
<1>4. LinesInv
  BY DEF LoggerInit, LinesInv, NoLines
<1>5. QED  BY <1>2, <1>3, <1>4 DEF LoggerInv

(* What changes nothing of a part keeps it.                                *)
LEMMA InstallsStay ==
    ASSUME InstallsInv, UNCHANGED <<initialized, installer, subscriber, layers>>
    PROVE  InstallsInv'
  BY DEF InstallsInv, OneLogger, InstallsAlternate, Installing

LEMMA LinesStay ==
    ASSUME LinesInv, UNCHANGED <<guard, lines>>,
           subscriber = "polylog" => subscriber' = "polylog"
    PROVE  LinesInv'
  BY DEF LinesInv

(* Installs that have stored their level count towards the base.           *)
LEMMA BaseGrows ==
    ASSUME DOMAIN installer' = DOMAIN installer,
           \A t \in Installers : installer[t].phase \in {"leveled", "failed", "installed"} =>
               /\ installer'[t].phase \in {"leveled", "failed", "installed"}
               /\ installer'[t].builder = installer[t].builder
    PROVE  BaseLevel \subseteq BaseLevel'
  BY DEF BaseLevel

LEMMA LevelsStay ==
    ASSUME LevelsInv, UNCHANGED <<minLevel, overriding, tidy>>, BaseLevel \subseteq BaseLevel'
    PROVE  LevelsInv'
<1>1. OverridesNest'
  BY DEF LevelsInv, OverridesNest
<1>2. OverridesStack'
  BY DEF LevelsInv, OverridesStack, Left
<1>3. QED  BY <1>1, <1>2 DEF LevelsInv

(* One step of an install.                                                 *)
LEMMA PhaseFacts ==
    ASSUME InstallsInv, NEW t \in Installers, NEW phase \in Phases, Phase(t, phase)
    PROVE  /\ installer' \in [Installers -> [phase : Phases,
                                            builder : LogBuilders \cup {NoBuilder}]]
           /\ installer'[t].phase = phase /\ installer'[t].builder = installer[t].builder
           /\ \A s \in Installers \ {t} : installer'[s] = installer[s]
  BY DEF InstallsInv, Phase

(* compare_exchange: who finds the flag set goes no further.               *)
LEMMA ClaimKeeps == ASSUME LoggerInv, NEW t \in Installers, Claim(t) PROVE LoggerInv'
<1>1. InstallsInv /\ LevelsInv /\ LinesInv
  BY DEF LoggerInv
<1>2. /\ installer[t].phase = "building" /\ initialized' = TRUE
      /\ UNCHANGED <<minLevel, subscriber, layers, guard, tidy, overriding, lines>>
  BY DEF Claim, Untouched
<1>3. PICK b \in LogBuilders :
         installer' = [installer EXCEPT ![t] =
             [phase |-> IF initialized THEN "already" ELSE "claimed", builder |-> b]]
  BY DEF Claim
<1>4. /\ installer' \in [Installers -> [phase : Phases,
                                       builder : LogBuilders \cup {NoBuilder}]]
      /\ installer'[t].phase = IF initialized THEN "already" ELSE "claimed"
      /\ installer'[t].builder = b
      /\ \A s \in Installers \ {t} : installer'[s] = installer[s]
  BY <1>1, <1>3 DEF InstallsInv, Phases
<1>5. BaseLevel \subseteq BaseLevel'
  BY <1>1, <1>2, <1>4, BaseGrows DEF InstallsInv
<1>6. CASE initialized
  <2>1. installer'[t].phase = "already"
    BY <1>4, <1>6
  <2>2. InstallsAlternate'
    BY <1>1, <1>2, <1>4, <1>6, <2>1 DEF InstallsInv, InstallsAlternate
  <2>3. OneLogger'
    BY <1>1, <1>2, <1>4, <1>6, <2>1 DEF InstallsInv, OneLogger, Installing
  <2>4. QED
    BY <1>1, <1>2, <1>4, <1>5, <2>2, <2>3, LevelsStay, LinesStay DEF InstallsInv, LoggerInv
<1>7. CASE ~initialized
  <2>1. installer'[t].phase = "claimed"
    BY <1>4, <1>7
  <2>2. subscriber # "polylog"
    BY <1>1, <1>7 DEF InstallsInv, OneLogger
  <2>3. \A s \in Installers : installer[s].phase \notin {"claimed", "leveled"}
    BY <1>1, <1>7 DEF InstallsInv, InstallsAlternate
  <2>4. InstallsAlternate'
    BY <1>1, <1>2, <1>4, <2>1, <2>2, <2>3 DEF InstallsInv, InstallsAlternate
  <2>5. OneLogger'
    BY <1>2, <2>1, <2>2 DEF OneLogger, Installing
  <2>6. QED
    BY <1>1, <1>2, <1>4, <1>5, <2>4, <2>5, LevelsStay, LinesStay DEF InstallsInv, LoggerInv
<1>8. QED  BY <1>6, <1>7

LEMMA StoreLevelKeeps ==
    ASSUME LoggerInv, NEW t \in Installers, StoreLevel(t) PROVE LoggerInv'
<1>1. InstallsInv /\ LevelsInv /\ LinesInv
  BY DEF LoggerInv
<1>2. /\ installer[t].phase = "claimed" /\ initialized' = TRUE
      /\ minLevel' = installer[t].builder.level
      /\ tidy' = (tidy /\ overriding = <<>>) /\ Phase(t, "leveled")
      /\ UNCHANGED <<subscriber, layers, guard, overriding, lines>>
  BY DEF StoreLevel, Untouched
<1>3. /\ installer' \in [Installers -> [phase : Phases,
                                       builder : LogBuilders \cup {NoBuilder}]]
      /\ installer'[t].phase = "leveled" /\ installer'[t].builder = installer[t].builder
      /\ \A s \in Installers \ {t} : installer'[s] = installer[s]
  BY <1>1, <1>2, PhaseFacts DEF Phases
<1>4. initialized /\ subscriber # "polylog"
  BY <1>1, <1>2 DEF InstallsInv, InstallsAlternate
<1>5. InstallsAlternate'
  BY <1>1, <1>2, <1>3, <1>4 DEF InstallsInv, InstallsAlternate
<1>6. OneLogger'
  BY <1>2, <1>3, <1>4 DEF OneLogger, Installing
<1>7. InstallsInv'
  BY <1>1, <1>2, <1>3, <1>5, <1>6 DEF InstallsInv
<1>8. LevelsInv'
  <2>1. installer[t].builder.level \in 0..3
    BY <1>1, <1>2, LoggerBounds DEF InstallsInv
  <2>2. minLevel' \in BaseLevel'
    BY <1>2, <1>3 DEF BaseLevel
  <2>3. OverridesNest'
    BY <1>2, <2>2 DEF OverridesNest
  <2>4. OverridesStack'
    <3>1. SUFFICES ASSUME tidy' PROVE OverridesStack'
      BY DEF OverridesStack
    <3>2. overriding' = <<>> /\ overriding' \in Seq(Override) /\ Len(overriding') = 0
      BY <1>2, <3>1, EmptySeq
    <3>3. QED  BY <3>2 DEF OverridesStack, Override
  <2>5. QED  BY <1>1, <1>2, <2>1, <2>3, <2>4 DEF LevelsInv
<1>9. QED  BY <1>1, <1>2, <1>7, <1>8, LinesStay DEF LoggerInv

(* The flag is taken back, the level stays.                                *)
LEMMA FailureKeeps ==
    ASSUME LoggerInv, NEW t \in Installers, FileSetupFails(t) \/ SetGlobalDefaultFails(t)
    PROVE  LoggerInv'
<1>1. InstallsInv /\ LevelsInv /\ LinesInv
  BY DEF LoggerInv
<1>2. /\ installer[t].phase = "leveled" /\ initialized' = FALSE /\ Phase(t, "failed")
      /\ UNCHANGED <<minLevel, subscriber, layers, guard, tidy, overriding, lines>>
  BY DEF FileSetupFails, SetGlobalDefaultFails, Untouched
<1>3. /\ installer' \in [Installers -> [phase : Phases,
                                       builder : LogBuilders \cup {NoBuilder}]]
      /\ installer'[t].phase = "failed" /\ installer'[t].builder = installer[t].builder
      /\ \A s \in Installers \ {t} : installer'[s] = installer[s]
  BY <1>1, <1>2, PhaseFacts DEF Phases
<1>4. /\ subscriber # "polylog"
      /\ \A s \in Installers \ {t} : installer[s].phase \notin {"claimed", "leveled"}
  BY <1>1, <1>2 DEF InstallsInv, InstallsAlternate
<1>5. InstallsAlternate'
  BY <1>1, <1>2, <1>3, <1>4 DEF InstallsInv, InstallsAlternate
<1>6. OneLogger'
  BY <1>2, <1>4 DEF OneLogger
<1>7. InstallsInv'
  BY <1>1, <1>2, <1>3, <1>5, <1>6 DEF InstallsInv
<1>8. BaseLevel \subseteq BaseLevel'
  BY <1>1, <1>2, <1>3, BaseGrows DEF InstallsInv
<1>9. QED  BY <1>1, <1>2, <1>7, <1>8, LevelsStay, LinesStay DEF LoggerInv

LEMMA TryInitKeeps ==
    ASSUME LoggerInv, NEW t \in Installers, TryInit(t) PROVE LoggerInv'
<1>1. InstallsInv /\ LevelsInv /\ LinesInv
  BY DEF LoggerInv
<1>2. /\ installer[t].phase = "leveled" /\ subscriber = "none" /\ subscriber' = "polylog"
      /\ layers' = installer[t].builder
      /\ guard' = IF installer[t].builder.file THEN "held" ELSE "none"
      /\ Phase(t, "installed")
      /\ UNCHANGED <<initialized, minLevel, tidy, overriding, lines>>
  BY DEF TryInit, Untouched
<1>3. /\ installer' \in [Installers -> [phase : Phases,
                                       builder : LogBuilders \cup {NoBuilder}]]
      /\ installer'[t].phase = "installed" /\ installer'[t].builder = installer[t].builder
      /\ \A s \in Installers \ {t} : installer'[s] = installer[s]
  BY <1>1, <1>2, PhaseFacts DEF Phases
<1>4. /\ initialized
      /\ \A s \in Installers \ {t} :
            installer[s].phase \notin {"claimed", "leveled", "installed"}
  BY <1>1, <1>2 DEF InstallsInv, InstallsAlternate
<1>5. InstallsAlternate'
  BY <1>1, <1>2, <1>3, <1>4 DEF InstallsInv, InstallsAlternate
<1>6. OneLogger'
  <2>1. installer'[t] = [phase |-> "installed", builder |-> layers']
    BY <1>2, <1>3
  <2>2. QED  BY <1>2, <1>3, <1>4, <2>1 DEF OneLogger
<1>7. InstallsInv'
  BY <1>1, <1>2, <1>3, <1>5, <1>6 DEF InstallsInv
<1>8. BaseLevel \subseteq BaseLevel'
  BY <1>1, <1>2, <1>3, BaseGrows DEF InstallsInv
<1>9. LinesInv'
  BY <1>1, <1>2 DEF LinesInv
<1>10. QED  BY <1>1, <1>2, <1>7, <1>8, <1>9, LevelsStay DEF LoggerInv

LEMMA SomeoneElseKeeps == ASSUME LoggerInv, SomeoneElseSubscribes PROVE LoggerInv'
<1>1. InstallsInv /\ LevelsInv /\ LinesInv
  BY DEF LoggerInv
<1>2. /\ subscriber = "none" /\ subscriber' = "foreign"
      /\ UNCHANGED <<initialized, minLevel, installer, layers, guard, tidy, overriding, lines>>
  BY DEF SomeoneElseSubscribes, Untouched
<1>3. InstallsInv'
  BY <1>1, <1>2 DEF InstallsInv, OneLogger, InstallsAlternate, Installing
<1>4. BaseLevel \subseteq BaseLevel'
  BY <1>2 DEF BaseLevel
<1>5. QED  BY <1>1, <1>2, <1>3, <1>4, LevelsStay, LinesStay DEF LoggerInv

(* An override that is new finds what the last one left.                   *)
LEMMA LoadKeeps ==
    ASSUME LoggerInv, NEW level \in OverrideLevels, Load(level) PROVE LoggerInv'
<1>1. InstallsInv /\ LevelsInv /\ LinesInv
  BY DEF LoggerInv
<1> DEFINE o == [level |-> level, previous |-> minLevel, stored |-> FALSE]
           n == Len(overriding)
<1>2. /\ overriding' = Append(overriding, o)
      /\ UNCHANGED <<initialized, minLevel, installer, subscriber, layers, tidy, guard, lines>>
  BY DEF Load
<1>3. o \in Override /\ overriding \in Seq(Override) /\ n \in Nat
  BY <1>1 DEF LevelsInv, Override
<1>4. /\ overriding' \in Seq(Override) /\ Len(overriding') = n + 1 /\ overriding' # <<>>
      /\ \A i \in 1..n : overriding'[i] = overriding[i]
      /\ overriding'[n + 1] = o
  BY <1>2, <1>3, AppendProperties
<1>5. BaseLevel' = BaseLevel
  BY <1>2 DEF BaseLevel
<1>6. OverridesNest'
  BY <1>2, <1>4 DEF OverridesNest
<1>7. ASSUME tidy' PROVE /\ overriding'[1].previous \in BaseLevel'
                         /\ minLevel' = Left(overriding'[n + 1])
                         /\ \A i \in 2..(n + 1) :
                               overriding'[i].previous = Left(overriding'[i - 1])
  <2>1. minLevel' = Left(overriding'[n + 1])
    BY <1>2, <1>4 DEF Left
  <2>2. CASE n = 0
    <3>1. overriding = <<>>
      BY <1>3, <2>2, EmptySeq
    <3>2. minLevel \in BaseLevel
      BY <1>1, <1>2, <1>7, <3>1 DEF LevelsInv, OverridesNest
    <3>3. QED  BY <1>4, <1>5, <2>1, <2>2, <3>2
  <2>3. CASE n > 0
    <3>1. overriding # <<>>
      BY <2>3, EmptySeq
    <3>2. /\ overriding[1].previous \in BaseLevel /\ minLevel = Left(overriding[n])
          /\ \A i \in 2..n : overriding[i].previous = Left(overriding[i - 1])
      BY <1>1, <1>2, <1>7, <3>1 DEF LevelsInv, OverridesStack
    <3>3. overriding'[1].previous \in BaseLevel'
      BY <1>3, <1>4, <1>5, <2>3, <3>2
    <3>4. ASSUME NEW i \in 2..(n + 1)
          PROVE  overriding'[i].previous = Left(overriding'[i - 1])
      <4>1. CASE i = n + 1
        <5>1. overriding'[i] = o /\ overriding'[i - 1] = overriding[n]
          BY <1>3, <1>4, <2>3, <4>1
        <5>2. QED  BY <3>2, <5>1
      <4>2. CASE i \in 2..n
        <5>1. overriding'[i] = overriding[i] /\ overriding'[i - 1] = overriding[i - 1]
          BY <1>3, <1>4, <4>2
        <5>2. QED  BY <3>2, <4>2, <5>1
      <4>3. QED  BY <1>3, <3>4, <4>1, <4>2
    <3>5. QED  BY <2>1, <3>3, <3>4
  <2>4. QED  BY <1>3, <2>2, <2>3
<1>8. OverridesStack'
  BY <1>4, <1>7 DEF OverridesStack
<1>9. LevelsInv'
  BY <1>1, <1>2, <1>4, <1>6, <1>8 DEF LevelsInv
<1>10. QED  BY <1>1, <1>2, <1>9, InstallsStay, LinesStay DEF LoggerInv

LEMMA StoreKeeps ==
    ASSUME LoggerInv, NEW level \in OverrideLevels, Store(level) PROVE LoggerInv'
<1>1. InstallsInv /\ LevelsInv /\ LinesInv
  BY DEF LoggerInv
<1> DEFINE n == Len(overriding)
<1>2. PICK k \in DOMAIN overriding :
         /\ overriding[k].level = level
         /\ overriding' = [overriding EXCEPT ![k].stored = TRUE]
         /\ minLevel' = level /\ tidy' = (tidy /\ k = n)
  BY DEF Store, Living
<1>3. UNCHANGED <<initialized, installer, subscriber, layers, guard, lines>>
  BY DEF Store
<1>4. /\ overriding \in Seq(Override) /\ n \in Nat /\ k \in 1..n
      /\ \A i \in 1..n : overriding[i] \in Override
  BY <1>1, <1>2 DEF LevelsInv
<1>5. /\ overriding' \in Seq(Override) /\ Len(overriding') = n
      /\ \A i \in 1..n \ {k} : overriding'[i] = overriding[i]
      /\ overriding'[k].stored /\ overriding'[k].level = level
      /\ overriding'[k].previous = overriding[k].previous
  <2>1. overriding \in [1..n -> Override]
    BY <1>4, LenProperties
  <2>2. [overriding[k] EXCEPT !.stored = TRUE] \in Override
    BY <1>4 DEF Override
  <2>3. overriding' = [overriding EXCEPT ![k] = [overriding[k] EXCEPT !.stored = TRUE]]
    BY <1>2
  <2>4. overriding' \in [1..n -> Override]
    BY <2>1, <2>2, <2>3
  <2>5. overriding' \in Seq(Override) /\ Len(overriding') = n
    BY <1>4, <2>4
  <2>6. /\ overriding'[k] = [overriding[k] EXCEPT !.stored = TRUE]
        /\ \A i \in 1..n \ {k} : overriding'[i] = overriding[i]
    BY <1>4, <2>1, <2>3
  <2>7. /\ overriding'[k].stored /\ overriding'[k].level = level
        /\ overriding'[k].previous = overriding[k].previous
    <3>1. overriding[k] \in Override
      BY <1>4
    <3>2. QED  BY <1>2, <2>6, <3>1 DEF Override
  <2>8. QED  BY <2>5, <2>6, <2>7
<1>6. BaseLevel' = BaseLevel
  BY <1>3 DEF BaseLevel
<1>7. overriding # <<>> /\ overriding' # <<>>
  BY <1>4, <1>5, EmptySeq
<1>8. OverridesNest'
  BY <1>2, <1>5, <1>7 DEF OverridesNest
<1>9. ASSUME tidy' PROVE /\ overriding'[1].previous \in BaseLevel'
                         /\ minLevel' = Left(overriding'[n])
                         /\ \A i \in 2..n : overriding'[i].previous = Left(overriding'[i - 1])
  <2>1. tidy /\ k = n
    BY <1>2, <1>9
  <2>2. /\ overriding[1].previous \in BaseLevel
        /\ \A i \in 2..n : overriding[i].previous = Left(overriding[i - 1])
    BY <1>1, <1>7, <2>1 DEF LevelsInv, OverridesStack
  <2>3. minLevel' = Left(overriding'[n])
    BY <1>2, <1>5, <2>1 DEF Left
  <2>4. \A i \in 1..n : overriding'[i].previous = overriding[i].previous
    BY <1>5
  <2>5. \A i \in 2..n : overriding'[i - 1] = overriding[i - 1]
    BY <1>4, <1>5, <2>1
  <2>6. overriding'[1].previous \in BaseLevel'
    BY <1>4, <1>6, <2>2, <2>4
  <2>7. ASSUME NEW i \in 2..n PROVE overriding'[i].previous = Left(overriding'[i - 1])
    <3>1. i \in 1..n
      BY <1>4
    <3>2. QED  BY <2>2, <2>4, <2>5, <3>1
  <2>8. QED  BY <2>3, <2>6, <2>7
<1>10. OverridesStack'
  BY <1>5, <1>9 DEF OverridesStack
<1>11. minLevel' \in 0..3
  BY <1>2, LoggerBounds
<1>12. LevelsInv'
  BY <1>5, <1>8, <1>10, <1>11 DEF LevelsInv
<1>13. QED  BY <1>1, <1>3, <1>12, InstallsStay, LinesStay DEF LoggerInv

(* The last override is gone: the one below it is what the level shows.    *)
LEMMA DropOverrideKeeps ==
    ASSUME LoggerInv, NEW level \in OverrideLevels, DropOverride(level) PROVE LoggerInv'
<1>1. InstallsInv /\ LevelsInv /\ LinesInv
  BY DEF LoggerInv
<1> DEFINE n == Len(overriding)
<1>2. PICK k \in DOMAIN overriding :
         /\ minLevel' = overriding[k].previous
         /\ overriding' = RemoveAt(overriding, k) /\ tidy' = (tidy /\ k = n)
  BY DEF DropOverride, Living
<1>3. UNCHANGED <<initialized, installer, subscriber, layers, guard, lines>>
  BY DEF DropOverride
<1>4. /\ overriding \in Seq(Override) /\ n \in Nat /\ k \in 1..n
      /\ \A i \in 1..n : overriding[i] \in Override
  BY <1>1, <1>2 DEF LevelsInv
<1> DEFINE below == SubSeq(overriding, 1, k - 1)
           above == SubSeq(overriding, k + 1, n)
<1>5. /\ below \in Seq(Override) /\ Len(below) = k - 1
      /\ \A i \in 1..(k - 1) : below[i] = overriding[i]
  <2>1. \A i \in 1..(k - 1) : overriding[i] \in Override
    BY <1>4
  <2>2. QED  BY <1>4, <2>1, SubSeqProperties
<1>6. above \in Seq(Override) /\ Len(above) = n - k
  <2>1. \A i \in (k + 1)..n : overriding[i] \in Override
    BY <1>4
  <2>2. QED  BY <1>4, <2>1, SubSeqProperties
<1>7. overriding' = below \o above
  BY <1>2 DEF RemoveAt
<1>8. overriding' \in Seq(Override)
  BY <1>5, <1>6, <1>7, ConcatProperties
<1>9. minLevel' \in 0..3
  BY <1>2, <1>4 DEF Override
<1>10. BaseLevel' = BaseLevel
  BY <1>3 DEF BaseLevel
<1>11. overriding # <<>>
  BY <1>4, EmptySeq
<1>12. ASSUME tidy'
       PROVE  /\ IF n = 1 THEN overriding' = <<>> /\ minLevel' \in BaseLevel
                 ELSE overriding' # <<>> /\ minLevel' = Left(overriding'[n - 1])
              /\ Len(overriding') = n - 1
              /\ \A i \in 1..(n - 1) : overriding'[i] = overriding[i]
  <2>1. tidy /\ k = n
    BY <1>2, <1>12
  <2>2. above = <<>>
    BY <1>4, <1>6, <2>1, EmptySeq
  <2>3. overriding' = below
    BY <1>5, <1>7, <2>2, ConcatEmptySeq
  <2>4. /\ overriding[1].previous \in BaseLevel
        /\ \A i \in 2..n : overriding[i].previous = Left(overriding[i - 1])
    BY <1>1, <1>11, <2>1 DEF LevelsInv, OverridesStack
  <2>5. CASE n = 1
    BY <1>2, <1>5, <2>1, <2>3, <2>4, <2>5, EmptySeq
  <2>6. CASE n # 1
    <3>1. n \in 2..n /\ n - 1 \in 1..(n - 1) /\ n - 1 # 0
      <4>1. n \in Nat /\ n >= 1
        BY <1>4
      <4>2. ASSUME NEW m \in Nat, m >= 1, m # 1
            PROVE  m \in 2..m /\ m - 1 \in 1..(m - 1) /\ m - 1 # 0
        BY <4>2
      <4> HIDE DEF n
      <4>3. QED  BY <2>6, <4>1, <4>2
    <3>2. minLevel' = Left(overriding[n - 1])
      BY <1>2, <2>1, <2>4, <3>1
    <3>3. overriding' # <<>>
      <4>1. Len(overriding') = n - 1
        BY <1>5, <2>1, <2>3
      <4>2. QED  BY <3>1, <4>1
    <3>4. QED  BY <1>5, <2>1, <2>3, <2>6, <3>1, <3>2, <3>3
  <2>7. QED  BY <2>5, <2>6
<1>13. OverridesNest'
  BY <1>4, <1>10, <1>12 DEF OverridesNest, Left
<1>14. OverridesStack'
  <2>1. SUFFICES ASSUME tidy' PROVE OverridesStack'
    BY DEF OverridesStack
  <2>2. tidy
    BY <1>2, <2>1
  <2>3. /\ overriding[1].previous \in BaseLevel
        /\ \A i \in 2..n : overriding[i].previous = Left(overriding[i - 1])
    BY <1>1, <1>11, <2>2 DEF LevelsInv, OverridesStack
  <2>4. ASSUME NEW i \in 2..(n - 1) PROVE overriding'[i].previous = Left(overriding'[i - 1])
    <3>1. i \in 2..n /\ i \in 1..(n - 1) /\ i - 1 \in 1..(n - 1)
      BY <1>4
    <3>2. QED  BY <1>12, <2>1, <2>3, <3>1
  <2>5. ASSUME overriding' # <<>>
        PROVE  overriding'[1].previous \in BaseLevel'
               /\ minLevel' = Left(overriding'[Len(overriding')])
    <3>1. n # 1 /\ 1 \in 1..(n - 1)
      BY <1>4, <1>12, <2>1, <2>5
    <3>2. QED  BY <1>10, <1>12, <2>1, <2>3, <3>1
  <2>6. QED  BY <1>12, <2>1, <2>4, <2>5 DEF OverridesStack
<1>15. LevelsInv'
  BY <1>8, <1>9, <1>13, <1>14 DEF LevelsInv
<1>16. QED  BY <1>1, <1>3, <1>15, InstallsStay, LinesStay DEF LoggerInv

(* The lines of the file.                                                  *)
LEMMA FileKeeps == ASSUME LoggerInv, Emit \/ WorkerWrites \/ DropGuard PROVE LoggerInv'
<1>1. InstallsInv /\ LevelsInv /\ LinesInv
  BY DEF LoggerInv
<1>2. UNCHANGED <<initialized, minLevel, installer, subscriber, layers, overriding, tidy>>
  BY DEF Emit, WorkerWrites, DropGuard
<1>3. LinesInv'
  <2> DEFINE Counts == [shown : Nat, due : Nat, queued : Nat, written : Nat, missed : Nat]
  <2>1. /\ lines \in Counts /\ lines.due = lines.queued + lines.written + lines.missed
        /\ guard # "held" => lines.queued = 0
        /\ subscriber # "polylog" => guard = "none"
    BY <1>1 DEF LinesInv
  <2>2. SUFFICES /\ lines' \in Counts
                 /\ lines'.due = lines'.queued + lines'.written + lines'.missed
                 /\ guard' # "held" => lines'.queued = 0
                 /\ subscriber' # "polylog" => guard' = "none"
    BY DEF LinesInv
  <2> DEFINE Count(s, d, q, w, m) ==
                 [shown |-> s, due |-> d, queued |-> q, written |-> w, missed |-> m]
  <2>3. /\ lines = Count(lines.shown, lines.due, lines.queued, lines.written, lines.missed)
        /\ lines.shown \in Nat /\ lines.due \in Nat /\ lines.queued \in Nat
        /\ lines.written \in Nat /\ lines.missed \in Nat
    BY <2>1
  <2>4. CASE Emit
    <3>1. guard' = guard /\ subscriber = "polylog"
      BY <2>4 DEF Emit
    <3>2. PICK room \in BOOLEAN :
             lines' = IF guard # "held" THEN [lines EXCEPT !.shown = @ + 1]
                      ELSE [lines EXCEPT !.shown = @ + 1, !.due = @ + 1,
                                         !.queued = IF room THEN @ + 1 ELSE @,
                                         !.missed = IF room THEN @ ELSE @ + 1]
      BY <2>4 DEF Emit
    <3>3. CASE guard # "held"
      <4>1. lines' = Count(lines.shown + 1, lines.due, lines.queued, lines.written, lines.missed)
        BY <2>3, <3>2, <3>3
      <4>2. QED  BY <1>2, <2>1, <2>3, <3>1, <3>3, <4>1
    <3>4. CASE guard = "held" /\ room
      <4>1. lines' = Count(lines.shown + 1, lines.due + 1, lines.queued + 1,
                           lines.written, lines.missed)
        BY <2>3, <3>2, <3>4
      <4>2. QED  BY <1>2, <2>1, <2>3, <3>1, <3>4, <4>1
    <3>5. CASE guard = "held" /\ ~room
      <4>1. lines' = Count(lines.shown + 1, lines.due + 1, lines.queued,
                           lines.written, lines.missed + 1)
        BY <2>3, <3>2, <3>5
      <4>2. QED  BY <1>2, <2>1, <2>3, <3>1, <3>5, <4>1
    <3>6. QED  BY <3>3, <3>4, <3>5
  <2>5. CASE WorkerWrites
    <3>1. /\ guard = "held" /\ guard' = guard /\ lines.queued > 0
          /\ lines' = [lines EXCEPT !.queued = @ - 1, !.written = @ + 1]
      BY <2>5 DEF WorkerWrites
    <3>2. lines' = Count(lines.shown, lines.due, lines.queued - 1, lines.written + 1, lines.missed)
      BY <2>3, <3>1
    <3>3. QED  BY <1>2, <2>1, <2>3, <3>1, <3>2
  <2>6. CASE DropGuard
    <3>1. /\ guard = "held" /\ guard' = "dropped"
          /\ lines' = [lines EXCEPT !.written = @ + lines.queued, !.queued = 0]
      BY <2>6 DEF DropGuard
    <3>2. lines' = Count(lines.shown, lines.due, 0, lines.written + lines.queued, lines.missed)
      BY <2>3, <3>1
    <3>3. QED  BY <1>2, <2>1, <2>3, <3>1, <3>2
  <2>7. QED  BY <2>4, <2>5, <2>6
<1>4. BaseLevel \subseteq BaseLevel'
  BY <1>2 DEF BaseLevel
<1>5. QED  BY <1>1, <1>2, <1>3, <1>4, InstallsStay, LevelsStay DEF LoggerInv

LEMMA LoggerStep == LoggerInv /\ [LoggerNext]_loggerVars => LoggerInv'
<1> SUFFICES ASSUME LoggerInv, [LoggerNext]_loggerVars PROVE LoggerInv'
  OBVIOUS
<1>1. ASSUME NEW t \in Installers,
             Claim(t) \/ StoreLevel(t) \/ FileSetupFails(t)
             \/ TryInit(t) \/ SetGlobalDefaultFails(t)
      PROVE  LoggerInv'
  BY <1>1, ClaimKeeps, StoreLevelKeeps, FailureKeeps, TryInitKeeps
<1>2. ASSUME NEW l \in OverrideLevels, Load(l) \/ Store(l) \/ DropOverride(l)
      PROVE  LoggerInv'
  BY <1>2, LoadKeeps, StoreKeeps, DropOverrideKeeps
<1>3. CASE UNCHANGED loggerVars
  <2>1. InstallsInv /\ LevelsInv /\ LinesInv
    BY DEF LoggerInv
  <2>2. BaseLevel \subseteq BaseLevel'
    BY <1>3 DEF BaseLevel, loggerVars
  <2>3. QED
    BY <1>3, <2>1, <2>2, InstallsStay, LevelsStay, LinesStay DEF LoggerInv, loggerVars
<1>4. QED
  BY <1>1, <1>2, <1>3, SomeoneElseKeeps, FileKeeps DEF LoggerNext

(* A guard that is gone has nothing in its queue.                          *)
LEMMA LinesTell == LinesInv => GuardFlushes
  BY DEF LinesInv, GuardFlushes

(* Induction, as far as the prover can use it: a set of numbers that is    *)
(* not empty has a least one.                                              *)
LEMMA LeastOf ==
    ASSUME NEW S, S \subseteq Nat, S # {}
    PROVE  \E n \in S : \A m \in S : n <= m
<1>1. PICK n \in S : \A m \in S : ~ (<<m, n>> \in OpToRel(<, Nat))
  BY WFMin, NatLessThanWellFounded
<1>2. \A m \in S : ~ (m < n)
  BY <1>1 DEF OpToRel
<1>3. QED  BY <1>2

(* The overrides that the first n calls leave, call by call: a function    *)
(* that satisfies the recursion exists for each number of calls.           *)
LEMMA CallsInOrder ==
    ASSUME NEW calls \in Seq(TargetOverride)
    PROVE  /\ OverridesAfter(calls)[0] = <<>>
           /\ \A n \in 1..Len(calls) :
                 OverridesAfter(calls)[n] = TargetLevel(OverridesAfter(calls)[n - 1], calls[n])
<1> DEFINE L == Len(calls)
           Unfolds(g, n) == g = [m \in 0..n |-> IF m = 0 THEN <<>>
                                                ELSE TargetLevel(g[m - 1], calls[m])]
           Stuck == {n \in 0..L : \A g : ~Unfolds(g, n)}
<1>0. L \in Nat
  OBVIOUS
<1>1. Stuck = {}
  <2>1. SUFFICES ASSUME Stuck # {} PROVE FALSE
    OBVIOUS
  <2>2. PICK n \in Stuck : \A m \in Stuck : n <= m
    <3>1. Stuck \subseteq Nat
      BY <1>0
    <3> HIDE DEF Stuck
    <3>2. QED  BY <2>1, <3>1, LeastOf
  <2>3. n # 0
    <3>1. Unfolds([m \in 0..0 |-> <<>>], 0)
      OBVIOUS
    <3>2. QED  BY <3>1
  <2>4. n \in 1..L /\ n - 1 \in 0..L /\ n - 1 \notin Stuck
    BY <1>0, <2>2, <2>3
  <2>5. PICK g : Unfolds(g, n - 1)
    BY <2>4
  <2> DEFINE h == [m \in 0..n |-> IF m = n THEN TargetLevel(g[n - 1], calls[n]) ELSE g[m]]
  <2>6. Unfolds(h, n)
    <3>1. \A m \in 0..n : h[m] = IF m = 0 THEN <<>> ELSE TargetLevel(h[m - 1], calls[m])
      <4>1. TAKE m \in 0..n
      <4>2. CASE m = 0
        BY <2>4, <2>5, <4>2
      <4>3. CASE m = n
        BY <2>4, <4>3
      <4>4. CASE m \in 1..(n - 1)
        BY <2>4, <2>5, <4>4
      <4>5. QED  BY <2>4, <4>2, <4>3, <4>4
    <3>2. h = [m \in 0..n |-> h[m]]
      OBVIOUS
    <3> HIDE DEF h
    <3>3. QED  BY <3>1, <3>2
  <2>7. QED  BY <2>2, <2>6
<1>2. Unfolds(OverridesAfter(calls), L)
  <2>1. \E g : Unfolds(g, L)
    BY <1>0, <1>1
  <2>2. OverridesAfter(calls) = CHOOSE g : Unfolds(g, L)
    BY DEF OverridesAfter
  <2> HIDE DEF Unfolds
  <2>3. QED  BY <2>1, <2>2
<1>3. QED  BY <1>0, <1>2

(* Each prefix is there once.                                              *)
Once(s) ==
    s \in Seq(TargetOverride) /\ \A i, j \in DOMAIN s : s[i].prefix = s[j].prefix => i = j

(* t is s with the call in it, instead of any other with its prefix.       *)
WithCall(s, call, t) ==
    /\ \A i \in DOMAIN t :
          \/ t[i] = call
          \/ t[i].prefix # call.prefix /\ \E j \in DOMAIN s : s[j] = t[i]
    /\ \E i \in DOMAIN t : t[i] = call
    /\ \A j \in DOMAIN s : \E i \in DOMAIN t : t[i].prefix = s[j].prefix

(* target_level: the overrides keep a prefix each, and one has the call's. *)
LEMMA CallTakesEffect ==
    ASSUME NEW s, Once(s), NEW call \in TargetOverride
    PROVE  Once(TargetLevel(s, call)) /\ WithCall(s, call, TargetLevel(s, call))
<1> DEFINE t == TargetLevel(s, call)
<1>0. s \in Seq(TargetOverride) /\ \A i, j \in DOMAIN s : s[i].prefix = s[j].prefix => i = j
  BY DEF Once
<1>1. CASE \E i \in DOMAIN s : s[i].prefix = call.prefix
  <2>1. t = [i \in 1..Len(s) |-> IF s[i].prefix = call.prefix THEN call ELSE s[i]]
    BY <1>0, <1>1 DEF TargetLevel
  <2>2. t \in Seq(TargetOverride) /\ DOMAIN t = DOMAIN s
    BY <1>0, <2>1
  <2>3. \A i \in DOMAIN t : t[i].prefix = s[i].prefix
    BY <1>0, <2>1
  <2>4. \A i \in DOMAIN t : t[i] = IF s[i].prefix = call.prefix THEN call ELSE s[i]
    BY <1>0, <2>1
  <2> HIDE DEF t
  <2>5. Once(t) /\ WithCall(s, call, t)
    BY <1>0, <1>1, <2>2, <2>3, <2>4 DEF Once, WithCall
  <2>6. QED  BY <2>5 DEF t
<1>2. CASE ~ \E i \in DOMAIN s : s[i].prefix = call.prefix
  <2>1. t = Append(s, call)
    BY <1>0, <1>2 DEF TargetLevel
  <2>2. /\ t \in Seq(TargetOverride) /\ Len(s) \in Nat
        /\ DOMAIN s = 1..Len(s) /\ DOMAIN t = 1..(Len(s) + 1)
        /\ t[Len(s) + 1] = call /\ \A i \in 1..Len(s) : t[i] = s[i]
    BY <1>0, <2>1
  <2> HIDE DEF t
  <2>3. Once(t) /\ WithCall(s, call, t)
    BY <1>0, <1>2, <2>2 DEF Once, WithCall
  <2>4. QED  BY <2>3 DEF t
<1>3. QED  BY <1>1, <1>2

(* s has, of every prefix in the first n calls, the last call.             *)
LastOf(calls, n, s) ==
    /\ \A i \in DOMAIN s : \E k \in 1..n :
          /\ s[i] = calls[k]
          /\ \A m \in 1..n : calls[m].prefix = calls[k].prefix => m <= k
    /\ \A k \in 1..n : \E i \in DOMAIN s : s[i].prefix = calls[k].prefix

LEMMA LastCallsStand ==
    ASSUME NEW calls \in Seq(TargetOverride), NEW n \in 0..Len(calls)
    PROVE  Once(OverridesAfter(calls)[n]) /\ LastOf(calls, n, OverridesAfter(calls)[n])
<1> DEFINE L == Len(calls)
           Good(s, m) == Once(s) /\ LastOf(calls, m, s)
           Bad == {m \in 0..L : ~Good(OverridesAfter(calls)[m], m)}
<1>0. L \in Nat
  OBVIOUS
<1>1. SUFFICES Bad = {}
  OBVIOUS
<1>2. SUFFICES ASSUME Bad # {} PROVE FALSE
  OBVIOUS
<1>3. PICK m \in Bad : \A o \in Bad : m <= o
  <2>1. Bad \subseteq Nat
    BY <1>0
  <2> HIDE DEF Bad
  <2>2. QED  BY <1>2, <2>1, LeastOf
<1>4. m # 0
  <2>1. OverridesAfter(calls)[0] = <<>>
    BY CallsInOrder
  <2>2. Good(<<>>, 0)
    BY DEF Once, LastOf
  <2> HIDE DEF Good
  <2>3. QED  BY <2>1, <2>2, <1>3
<1>5. m \in 1..L /\ m - 1 \in 0..L /\ m - 1 \notin Bad
  BY <1>0, <1>3, <1>4
<1> DEFINE s == OverridesAfter(calls)[m - 1]
           call == calls[m]
           t == TargetLevel(s, call)
<1>6. Good(s, m - 1)
  BY <1>5
<1>7. t = OverridesAfter(calls)[m]
  BY <1>5, CallsInOrder
<1>8. call \in TargetOverride
  BY <1>5
<1> HIDE DEF s, call, Bad
<1>9. Good(t, m)
  <2>1. Once(t) /\ WithCall(s, call, t)
    BY <1>6, <1>8, CallTakesEffect
  <2> HIDE DEF t
  <2>2. 1..m = 1..(m - 1) \cup {m} /\ m \in Nat
    BY <1>0, <1>5
  <2>3. ASSUME NEW i \in DOMAIN t
        PROVE  \E k \in 1..m :
                  /\ t[i] = calls[k]
                  /\ \A o \in 1..m : calls[o].prefix = calls[k].prefix => o <= k
    <3>1. CASE t[i] = call
      BY <1>5, <2>2, <3>1 DEF call
    <3>2. CASE t[i].prefix # call.prefix /\ \E j \in DOMAIN s : s[j] = t[i]
      <4>1. PICK j \in DOMAIN s : s[j] = t[i]
        BY <3>2
      <4>2. PICK k \in 1..(m - 1) :
              /\ s[j] = calls[k]
              /\ \A o \in 1..(m - 1) : calls[o].prefix = calls[k].prefix => o <= k
        BY <1>6 DEF LastOf
      <4>3. calls[m].prefix # calls[k].prefix
        BY <3>2, <4>1, <4>2 DEF call
      <4>4. QED  BY <2>2, <4>1, <4>2, <4>3
    <3>3. QED  BY <2>1, <3>1, <3>2 DEF WithCall
  <2>4. ASSUME NEW k \in 1..m
        PROVE  \E i \in DOMAIN t : t[i].prefix = calls[k].prefix
    <3>1. CASE k = m
      BY <2>1, <3>1 DEF call, WithCall
    <3>2. CASE k \in 1..(m - 1)
      BY <1>6, <2>1, <3>2 DEF LastOf, WithCall
    <3>3. QED  BY <2>2, <3>1, <3>2
  <2>5. QED  BY <2>1, <2>3, <2>4 DEF LastOf
<1> HIDE DEF Good
<1>10. QED  BY <1>3, <1>7, <1>9 DEF Bad

LEMMA PathOf ==
    ASSUME NEW o \in TargetOverride
    PROVE  o.prefix \in Seq(PathNames) /\ Len(o.prefix) \in Nat
<1>1. o.prefix \in ModulePath
  BY DEF TargetOverride
<1>2. o.prefix \in Seq(PathNames)
  BY <1>1 DEF ModulePath
<1>3. QED  BY <1>2

(* A prefix of a path is told by its length.                               *)
LEMMA PrefixByLength ==
    ASSUME NEW whole \in Seq(PathNames), NEW p \in Seq(PathNames), NEW q \in Seq(PathNames),
           IsPrefix(p, whole), IsPrefix(q, whole), Len(p) = Len(q)
    PROVE  p = q
<1>1. SubSeq(p, 1, Len(p)) = p /\ SubSeq(q, 1, Len(q)) = q
  OBVIOUS
<1>2. QED  BY <1>1 DEF IsPrefix

Matching(s, target) == {i \in DOMAIN s : IsPrefix(s[i].prefix, target)}

FirstSorted(s, target) ==
    CHOOSE i \in Matching(s, target) :
        \A j \in Matching(s, target) \ {i} : SortedBefore(s, i, j)

(* The first of the sorted overrides that match is the longest.            *)
LEMMA LongestComesFirst ==
    ASSUME NEW s, Once(s), NEW target \in Seq(PathNames), Matching(s, target) # {}
    PROVE  /\ FirstSorted(s, target) \in Matching(s, target)
           /\ \A j \in Matching(s, target) :
                 Len(s[j].prefix) <= Len(s[FirstSorted(s, target)].prefix)
<1> DEFINE M == Matching(s, target)
           Short == {Len(target) - Len(s[i].prefix) : i \in M}
           Leads(i) == \A j \in M \ {i} : SortedBefore(s, i, j)
           length(i) == Len(s[i].prefix)
<1>0. /\ Len(target) \in Nat /\ s \in Seq(TargetOverride)
      /\ \A i, j \in DOMAIN s : s[i].prefix = s[j].prefix => i = j
      /\ M # {} /\ \A i : i \in M <=> i \in DOMAIN s /\ IsPrefix(s[i].prefix, target)
  BY DEF Once, Matching
<1> HIDE DEF M
<1>1. \A i \in DOMAIN s : s[i].prefix \in Seq(PathNames) /\ Len(s[i].prefix) \in Nat
  <2>1. \A i \in DOMAIN s : s[i] \in TargetOverride
    BY <1>0
  <2>2. QED  BY <2>1, PathOf
<1>2. \A i \in M : length(i) \in Nat /\ length(i) <= Len(target)
  BY <1>0, <1>1 DEF IsPrefix
<1>3. \A i, j \in M : length(i) = length(j) => i = j
  <2>1. TAKE i, j \in M
  <2>2. SUFFICES ASSUME length(i) = length(j) PROVE s[i].prefix = s[j].prefix
    BY <1>0
  <2>3. /\ s[i].prefix \in Seq(PathNames) /\ IsPrefix(s[i].prefix, target)
        /\ s[j].prefix \in Seq(PathNames) /\ IsPrefix(s[j].prefix, target)
    BY <1>0, <1>1
  <2>4. QED  BY <2>2, <2>3, PrefixByLength
<1>4. \A i, j : SortedBefore(s, i, j) <=>
                   \/ length(i) > length(j)
                   \/ length(i) = length(j) /\ i < j
  BY DEF SortedBefore
<1> HIDE DEF length
<1>5. PICK n \in Short : \A m \in Short : n <= m
  <2>1. Short = {Len(target) - length(i) : i \in M}
    BY DEF length
  <2>2. Short \subseteq Nat /\ Short # {}
    <3>1. \A i \in M : Len(target) - length(i) \in Nat
      BY <1>0, <1>2
    <3> HIDE DEF Short
    <3>2. Short \subseteq Nat
      BY <2>1, <3>1
    <3>3. Short # {}
      BY <1>0, <2>1
    <3>4. QED  BY <3>2, <3>3
  <2> HIDE DEF Short
  <2>3. QED  BY <2>2, LeastOf
<1>6. PICK top \in M : n = Len(target) - length(top)
  BY <1>5 DEF length
<1>7. \A j \in M : length(j) <= length(top)
  <2>1. \A j \in M : Len(target) - length(j) \in Short
    BY DEF length
  <2> HIDE DEF Short
  <2>2. QED  BY <1>0, <1>2, <1>5, <1>6, <2>1
<1>8. \A i \in M : Leads(i) <=> i = top
  <2>1. TAKE i \in M
  <2>2. Leads(top)
    <3>1. \A j \in M \ {top} : /\ length(j) \in Nat /\ length(top) \in Nat
                                 /\ length(j) <= length(top) /\ length(j) # length(top)
      BY <1>2, <1>3, <1>6, <1>7
    <3>2. \A j \in M \ {top} : length(top) > length(j)
      BY <3>1
    <3>3. QED  BY <1>4, <3>2
  <2>3. ASSUME Leads(i), i # top PROVE FALSE
    <3>1. SortedBefore(s, i, top)
      BY <1>6, <2>3
    <3>2. length(i) <= length(top) /\ length(i) # length(top)
      BY <1>3, <1>6, <1>7, <2>1, <2>3
    <3>3. length(i) \in Nat /\ length(top) \in Nat
      BY <1>2, <1>6, <2>1
    <3>4. QED  BY <1>4, <3>1, <3>2, <3>3
  <2>4. QED  BY <2>2, <2>3
<1> HIDE DEF Leads
<1>9. top = CHOOSE i \in M : Leads(i)
  BY <1>6, <1>8
<1>10. top = FirstSorted(s, target)
  BY <1>9 DEF Leads, FirstSorted, M
<1>11. QED  BY <1>6, <1>7, <1>10 DEF M, length

Longest(calls, target) ==
    {i \in Matching(calls, target) : \A j \in Matching(calls, target) :
        Len(calls[j].prefix) <= Len(calls[i].prefix)}

(* What decides about a target is the last call for the longest prefix.    *)
LEMMA LongestDecides ==
    ASSUME NEW calls \in Seq(TargetOverride), NEW target \in Seq(PathNames), NEW global
    PROVE  EffectiveMinLevel(target, OverridesAfter(calls)[Len(calls)], global)
               = IF Matching(calls, target) = {} THEN global
                 ELSE calls[Max(Longest(calls, target))].level
<1> DEFINE L == Len(calls)
           s == OverridesAfter(calls)[L]
           M == Matching(s, target)
           top == FirstSorted(s, target)
           matching == Matching(calls, target)
           longest == Longest(calls, target)
<1>0. /\ L \in Nat /\ L \in 0..L /\ DOMAIN calls = 1..L
      /\ \A i : i \in matching <=> i \in DOMAIN calls /\ IsPrefix(calls[i].prefix, target)
      /\ \A i : i \in longest <=>
               i \in matching /\ \A j \in matching :
                                   Len(calls[j].prefix) <= Len(calls[i].prefix)
  BY DEF Matching, Longest
<1>1. Once(s) /\ LastOf(calls, L, s)
  BY <1>0, LastCallsStand
<1>2. EffectiveMinLevel(target, s, global) = IF M = {} THEN global ELSE s[top].level
  BY DEF EffectiveMinLevel, TargetMatches, Matching, FirstSorted
<1> HIDE DEF s, M, top, matching, longest
<1>3. \A k \in 1..L : calls[k].prefix \in Seq(PathNames) /\ Len(calls[k].prefix) \in Nat
  <2>1. \A k \in 1..L : calls[k] \in TargetOverride
    BY <1>0
  <2>2. QED  BY <2>1, PathOf
<1>4. M = {} <=> matching = {}
  BY <1>0, <1>1 DEF M, Matching, LastOf
<1>5. ASSUME matching # {}
      PROVE  s[top].level = calls[Max(longest)].level
  <2>1. top \in M /\ \A j \in M : Len(s[j].prefix) <= Len(s[top].prefix)
    BY <1>1, <1>4, <1>5, LongestComesFirst DEF M, top
  <2>2. PICK k \in 1..L :
           /\ s[top] = calls[k]
           /\ \A m \in 1..L : calls[m].prefix = calls[k].prefix => m <= k
    BY <1>1, <2>1 DEF LastOf, M, Matching
  <2>3. k \in matching
    BY <1>0, <2>1, <2>2 DEF M, Matching
  <2>4. \A j \in matching : Len(calls[j].prefix) <= Len(calls[k].prefix)
    <3>1. TAKE j \in matching
    <3>2. PICK i \in DOMAIN s : s[i].prefix = calls[j].prefix
      BY <1>0, <1>1 DEF LastOf
    <3>3. i \in M
      BY <1>0, <3>2 DEF M, Matching
    <3>4. QED  BY <2>1, <2>2, <3>2, <3>3
  <2>5. k \in longest
    BY <1>0, <2>3, <2>4
  <2>6. \A j \in longest : calls[j].prefix = calls[k].prefix
    <3>1. TAKE j \in longest
    <3>2. /\ j \in 1..L /\ IsPrefix(calls[j].prefix, target)
          /\ k \in 1..L /\ IsPrefix(calls[k].prefix, target)
      BY <1>0, <2>3
    <3>3. /\ Len(calls[j].prefix) >= Len(calls[k].prefix)
          /\ Len(calls[j].prefix) <= Len(calls[k].prefix)
      BY <1>0, <2>3, <2>4
    <3>4. Len(calls[j].prefix) = Len(calls[k].prefix)
      BY <1>3, <3>2, <3>3
    <3>5. QED  BY <1>3, <3>2, <3>4, PrefixByLength
  <2>7. \A j \in longest : j \in Nat /\ j <= k
    BY <1>0, <2>2, <2>6
  <2>8. Max(longest) = k
    <3>1. \E x \in longest : \A y \in longest : x >= y
      BY <1>0, <2>5, <2>7
    <3>2. Max(longest) \in longest /\ \A y \in longest : Max(longest) >= y
      BY <3>1 DEF Max
    <3>3. k \in Nat /\ Max(longest) \in Nat /\ Max(longest) <= k /\ Max(longest) >= k
      BY <1>0, <2>5, <2>7, <3>2
    <3>4. QED  BY <3>3
  <2>9. QED  BY <2>2, <2>8
<1>6. QED  BY <1>2, <1>4, <1>5 DEF s, matching, longest

(* What is shown follows from the builder of the layers and the level.     *)
LEMMA ShownBySpecific == LoggerInv => MostSpecific
<1> SUFFICES ASSUME LoggerInv, subscriber = "polylog", NEW e \in Events
             PROVE  LET calls    == layers.calls
                        target   == IF e.bridged THEN <<"log">> ELSE e.target
                        matching == {i \in DOMAIN calls : IsPrefix(calls[i].prefix, target)}
                        longest  == {i \in matching : \A j \in matching :
                                        Len(calls[j].prefix) <= Len(calls[i].prefix)}
                    IN  IsRendered(e) <=>
                            e.level >= 0 /\ e.level >= IF matching = {} THEN minLevel
                                                       ELSE calls[Max(longest)].level
  BY DEF MostSpecific
<1> DEFINE calls == layers.calls
           target == IF e.bridged THEN <<"log">> ELSE e.target
           matching == {i \in DOMAIN calls : IsPrefix(calls[i].prefix, target)}
           longest == {i \in matching : \A j \in matching :
                          Len(calls[j].prefix) <= Len(calls[i].prefix)}
           level == IF matching = {} THEN minLevel ELSE calls[Max(longest)].level
<1>1. calls \in Seq(TargetOverride)
  <2>1. layers \in LogBuilders
    BY DEF LoggerInv, InstallsInv, OneLogger
  <2>2. QED  BY <2>1, LoggerBounds
<1>2. e.level \in -1..3 /\ e.target \in Targets
  BY DEF Events
<1>3. target \in Seq(PathNames) /\ MetaTarget(e) = target
  BY <1>2, LoggerBounds DEF MetaTarget, ModulePath
<1>4. TargetOverrides(layers) = OverridesAfter(calls)[Len(calls)]
  BY DEF TargetOverrides
<1> HIDE DEF calls, target
<1>5. EffectiveMinLevel(target, TargetOverrides(layers), minLevel) = level
  <2>1. matching = Matching(calls, target)
    BY DEF Matching
  <2>2. longest = Longest(calls, target)
    BY <2>1 DEF Longest
  <2> HIDE DEF matching, longest
  <2>3. QED  BY <1>1, <1>3, <1>4, <2>1, <2>2, LongestDecides
<1> HIDE DEF level
<1>6. IsRendered(e) <=> e.level >= 0 /\ e.level >= level
  BY <1>2, <1>3, <1>5 DEF IsRendered
<1>7. QED  BY <1>6 DEF level, target, calls

(* install_with_config, LogLevelOverride and InitGuard, in whatever order  *)
(* threads run them, with whatever fails: the layers are those of the one  *)
(* install that was told of success, nested overrides leave the level that *)
(* was there before them, the most specific prefix of a target decides     *)
(* whatever the builder's calls were, and the file has what was shown.     *)
THEOREM LoggerIsOne == LoggerSpec => []LoggerKeeps
<1>1. LoggerInv => LoggerKeeps
  BY LinesTell, ShownBySpecific DEF LoggerInv, InstallsInv, LevelsInv, LoggerKeeps
<1>2. QED  BY LoggerStart, LoggerStep, <1>1, PTL DEF LoggerSpec

-----------------------------------------------------------------------------
(* The switch from user to user, for any users, commands and bounds.       *)

USE DEF Idle, NoPool, NoTask, Resting, NoFile, Present

(* A number above zero was spawned by the hook for the session's user; a   *)
(* task, the switch under way and the settled one carry what was spawned   *)
(* under their number.                                                     *)
SpawnInv ==
    /\ spawned.nr > 0 => "hooked" \in runtime /\ spawned.to = session
    /\ \A t \in tasks : t.nr = spawned.nr => t.to = spawned.to
    /\ switching # Idle /\ switching.nr = spawned.nr => switching.to = spawned.to
    /\ switching # Idle <=> switching.stage # "free"
    /\ settled > 0 => switching = Idle
    /\ settled > 0 /\ settled = spawned.nr => user = spawned.to

(* A command that holds a pool holds that of a user. *)
CommandInv ==
    \A c \in Commands :
       cmd[c].at = "pool" => cmd[c].owner \in Users /\ cmd[c].handle.user \in Users

SessionInv ==
    \A c \in Commands : cmd[c].at = "session" => cmd[c].owner \in Users

IInv ==
    /\ TypeOK
    /\ PoolIsActiveUsers
    /\ OthersWiped
    /\ SpawnInv
    /\ CommandInv
    /\ SessionInv

LEMMA InitEstablishes == ASSUME Init PROVE IInv
<1> USE PartitionAssumption DEF Init
<1>1. TypeOK
  BY DEF TypeOK
<1>2. PoolIsActiveUsers /\ OthersWiped /\ SpawnInv /\ CommandInv /\ SessionInv
  BY DEF PoolIsActiveUsers, OthersWiped, SpawnInv, CommandInv, SessionInv
<1>3. QED  BY <1>1, <1>2 DEF IInv

LEMMA Spending ==
    ASSUME TypeOK, NEW what \in {"switches", "troubles", "restarts", "commands"},
           Spend(what)
    PROVE  spent' \in [switches : Nat, troubles : Nat, restarts : Nat, commands : Nat]
BY DEF TypeOK, Spend

(* A change of the session's user.                                         *)
LEMMA HookKeeps ==
    ASSUME IInv, NEW u \in Users \cup {Nobody}, session' = u, Hook(u),
           UNCHANGED <<runtime, managerVars, cmd>>,
           spent' \in [switches : Nat, troubles : Nat, restarts : Nat, commands : Nat]
    PROVE  IInv'
<1> USE DEF IInv, managerVars
<1>1. CASE "hooked" \in runtime
  <2>1. /\ spawned' = [to |-> u, nr |-> spawned.nr + 1]
        /\ tasks' = tasks \cup {spawned'}
    BY <1>1 DEF Hook
  <2>2. spawned' \in [to : Users \cup {Nobody}, nr : Nat] /\ spawned'.nr = spawned.nr + 1
        /\ spawned.nr \in Nat
    BY <2>1 DEF TypeOK
  <2>3. /\ tasks' \subseteq [to : Users \cup {Nobody}, nr : 1..spawned'.nr]
        /\ \A t \in tasks : t.nr <= spawned.nr
    BY <2>1, <2>2 DEF TypeOK
  <2>4. switching.nr <= spawned.nr /\ settled <= spawned.nr /\ pool.nr <= spawned.nr
    BY DEF TypeOK
  <2>5. TypeOK'
    BY <2>2, <2>3, <2>4 DEF TypeOK
  <2>6. SpawnInv'
    BY <1>1, <2>1, <2>2, <2>3, <2>4 DEF SpawnInv, TypeOK
  <2>7. PoolIsActiveUsers' /\ OthersWiped' /\ CommandInv' /\ SessionInv'
    BY DEF PoolIsActiveUsers, OthersWiped, CommandInv, SessionInv
  <2>8. QED  BY <2>5, <2>6, <2>7
<1>2. CASE "hooked" \notin runtime
  <2>1. UNCHANGED <<tasks, spawned>> /\ spawned.nr = 0
    BY <1>2 DEF Hook, SpawnInv, TypeOK
  <2>2. TypeOK'
    BY <2>1 DEF TypeOK
  <2>3. QED
    BY <2>1, <2>2 DEF SpawnInv, PoolIsActiveUsers, OthersWiped, CommandInv, SessionInv
<1>3. QED  BY <1>1, <1>2

LEMMA HostingKeeps == ASSUME IInv, Hosting PROVE IInv'
<1>1. CASE Attach \/ Configure
  <2>1. /\ runtime' \subseteq {"attached", "configured", "hooked"}
        /\ runtime \subseteq runtime'
        /\ UNCHANGED <<session, tasks, spawned, managerVars, cmd, spent>>
    BY <1>1 DEF Attach, Configure, IInv, TypeOK
  <2>2. TypeOK'
    BY <2>1 DEF IInv, TypeOK, managerVars
  <2>3. QED
    BY <2>1, <2>2 DEF IInv, managerVars, SpawnInv, PoolIsActiveUsers, OthersWiped,
       CommandInv, SessionInv
<1>2. ASSUME NEW u \in Users, SetSession(u) PROVE IInv'
  BY <1>2, HookKeeps, Spending DEF SetSession, IInv
<1>3. CASE ClearSession
  BY <1>3, HookKeeps, Spending DEF ClearSession, IInv
<1>4. QED  BY <1>1, <1>2, <1>3 DEF Hosting

LEMMA SwitchingKeeps == ASSUME IInv, Switching PROVE IInv'
<1> USE DEF IInv
<1>0. /\ switching.to \in Users \cup {Nobody} /\ switching.nr \in 0..spawned.nr
      /\ spawned.nr \in Nat
  BY DEF TypeOK
<1>1. ASSUME NEW t \in tasks, SwitchToSame(t) PROVE IInv'
  <2>1. t.nr \in 1..spawned.nr
    BY DEF TypeOK
  <2>2. TypeOK'
    BY <1>1, <2>1 DEF SwitchToSame, TypeOK
  <2>3. QED
    BY <1>1, <2>1, <2>2 DEF SwitchToSame, SpawnInv, PoolIsActiveUsers, OthersWiped,
       CommandInv, SessionInv
<1>2. ASSUME NEW t \in tasks, Begin(t) PROVE IInv'
  <2>1. t.nr \in 1..spawned.nr /\ t.to \in Users \cup {Nobody}
    BY DEF TypeOK
  <2>2. switching' = [nr |-> t.nr, to |-> t.to, stage |-> "wiping"]
    BY <1>2 DEF Begin, Running
  <2>3. TypeOK'
    BY <1>2, <2>1, <2>2 DEF Begin, TypeOK
  <2>4. QED
    BY <1>2, <2>1, <2>2, <2>3 DEF Begin, SpawnInv, PoolIsActiveUsers, OthersWiped,
       CommandInv, SessionInv
<1>3. CASE Wipe
  <2>1. TypeOK'
    BY <1>0, <1>3 DEF Wipe, TypeOK, hostVars
  <2>2. pool = NoPool /\ settled = 0
    BY <1>3 DEF Wipe, PoolIsActiveUsers, SpawnInv, TypeOK
  <2>3. OthersWiped'
    BY <1>3 DEF Wipe, OthersWiped, TypeOK, hostVars
  <2>4. QED
    BY <1>3, <2>1, <2>2, <2>3 DEF Wipe, SpawnInv, PoolIsActiveUsers, CommandInv,
       SessionInv, hostVars, TypeOK
<1>4. CASE WipeFails
  <2>1. TypeOK'
    BY <1>4, Spending DEF WipeFails, TypeOK, hostVars
  <2>2. pool = NoPool /\ settled = 0
    BY <1>4 DEF WipeFails, PoolIsActiveUsers, SpawnInv, TypeOK
  <2>3. OthersWiped'
    BY <1>4 DEF WipeFails, OthersWiped, TypeOK, hostVars
  <2>4. QED
    BY <1>4, <2>1, <2>2, <2>3 DEF WipeFails, SpawnInv, PoolIsActiveUsers, CommandInv,
       SessionInv, hostVars, TypeOK
<1>5. CASE SignedOut
  <2>1. TypeOK'
    BY <1>0, <1>5 DEF SignedOut, TypeOK, hostVars
  <2>2. user = Nobody /\ pool = NoPool
    BY <1>5 DEF SignedOut, PoolIsActiveUsers
  <2>3. QED
    BY <1>0, <1>5, <2>1, <2>2 DEF SignedOut, SpawnInv, PoolIsActiveUsers, OthersWiped,
       CommandInv, SessionInv, hostVars
<1>6. CASE Open
  <2>1. /\ switching.to \in Users
        /\ disk' = [disk EXCEPT ![switching.to].exists = 1]
        /\ user' = switching.to /\ pool' = [user |-> switching.to, nr |-> switching.nr]
    BY <1>0, <1>6 DEF Open
  <2>2. disk' \in [Users -> [exists : {0, 1}, rows : SUBSET Users]]
        /\ disk'[switching.to].exists = 1
        /\ \A u \in Users \ {switching.to} : disk'[u] = disk[u]
    BY <2>1 DEF TypeOK
  <2>p. pool' \in [user : Users \cup {Nobody}, nr : 0..spawned.nr]
    BY <1>0, <2>1
  <2>q. /\ kept' \subseteq Users /\ settled' \in 0..spawned.nr
        /\ switching' \in [nr : 0..spawned.nr, to : Users \cup {Nobody},
                           stage : {"free", "wiping", "opening"}]
    BY <1>0, <1>6 DEF Open, TypeOK
  <2>3. TypeOK'
    <3>1. UNCHANGED <<runtime, session, tasks, spawned, cmd, spent>>
      BY <1>6 DEF Open, hostVars
    <3>2. user' \in Users \cup {Nobody}
      BY <2>1
    <3> HIDE DEF Idle, NoPool
    <3>3. QED  BY <2>2, <2>p, <2>q, <3>1, <3>2 DEF TypeOK
  <2>4. user = Nobody
    BY <1>6 DEF Open, PoolIsActiveUsers
  <2>5. OthersWiped'
    BY <1>6, <2>1, <2>2, <2>4, PartitionAssumption DEF Open, OthersWiped
  <2>6. PoolIsActiveUsers'
    BY <1>6, <2>1, <2>2, PartitionAssumption DEF Open, PoolIsActiveUsers
  <2>7. QED
    BY <1>0, <1>6, <2>1, <2>3, <2>5, <2>6 DEF Open, SpawnInv, CommandInv, SessionInv,
       hostVars
<1>7. CASE OpenFails
  <2>1. user = Nobody /\ pool = NoPool /\ settled = 0 /\ switching.to \in Users
    BY <1>0, <1>7 DEF OpenFails, PoolIsActiveUsers, SpawnInv, TypeOK
  <2>2. /\ disk' \in [Users -> [exists : {0, 1}, rows : SUBSET Users]]
        /\ kept' \subseteq Users
        /\ \A u \in Users : disk'[u].exists = 1 => disk[u].exists = 1 \/ u \in kept'
        /\ kept \subseteq kept'
    BY <1>7, <2>1 DEF OpenFails, TypeOK
  <2>3. TypeOK'
    BY <1>7, <2>2, Spending DEF OpenFails, TypeOK, hostVars
  <2>4. OthersWiped'
    BY <1>7, <2>1, <2>2 DEF OpenFails, OthersWiped
  <2>5. QED
    BY <1>0, <1>7, <2>1, <2>3, <2>4 DEF OpenFails, SpawnInv, PoolIsActiveUsers,
       CommandInv, SessionInv, hostVars
<1>8. QED  BY <1>1, <1>2, <1>3, <1>4, <1>5, <1>6, <1>7 DEF Switching

LEMMA StatementKeeps ==
    ASSUME IInv, NEW c \in Commands, NEW file \in SUBSET Users, Statement(c, file)
    PROVE  IInv'
<1> USE DEF IInv
<1>1. cmd' \in [Commands -> [at : {"rest", "session", "pool"},
                             owner : Users \cup {Nobody},
                             handle : [user : Users \cup {Nobody}, nr : Nat]]]
  BY DEF Statement, TypeOK
<1>2. /\ disk' \in [Users -> [exists : {0, 1}, rows : SUBSET Users]]
      /\ \A u \in Users : disk'[u].exists = disk[u].exists
  <2>1. CASE cmd[c].handle # pool
    BY <2>1 DEF Statement, TypeOK
  <2>2. CASE cmd[c].handle = pool
    <3>1. pool.user \in Users /\ disk' = [disk EXCEPT ![pool.user].rows = file]
      BY <2>2 DEF Statement, CommandInv
    <3>2. disk \in [Users -> [exists : {0, 1}, rows : SUBSET Users]]
      BY DEF TypeOK
    <3>3. QED  BY <3>1, <3>2
  <2>3. QED  BY <2>1, <2>2
<1>3. TypeOK'
  BY <1>1, <1>2 DEF Statement, TypeOK, hostVars
<1>4. QED
  BY <1>2, <1>3 DEF Statement, SpawnInv, PoolIsActiveUsers, OthersWiped,
     CommandInv, SessionInv, hostVars, TypeOK

LEMMA CommandingKeeps == ASSUME IInv, Commanding PROVE IInv'
<1> USE DEF IInv
<1>1. ASSUME NEW c \in Commands, ReadSession(c) PROVE IInv'
  <2>1. TypeOK'
    BY <1>1, Spending DEF ReadSession, TypeOK, hostVars, managerVars
  <2>2. QED
    BY <1>1, <2>1 DEF ReadSession, TypeOK, hostVars, managerVars, SpawnInv,
       PoolIsActiveUsers, OthersWiped, CommandInv, SessionInv
<1>2. ASSUME NEW c \in Commands, TakePool(c) PROVE IInv'
  <2>0. cmd' \in [Commands -> [at : {"rest", "session", "pool"},
                               owner : Users \cup {Nobody},
                               handle : [user : Users \cup {Nobody}, nr : Nat]]]
    <3>1. CASE pool = NoPool
      BY <1>2, <3>1 DEF TakePool, TypeOK
    <3>2. CASE pool # NoPool
      <4>1. cmd' = [cmd EXCEPT ![c] = [at |-> "pool", owner |-> cmd[c].owner, handle |-> pool]]
        BY <1>2, <3>2 DEF TakePool
      <4>2. pool \in [user : Users \cup {Nobody}, nr : Nat]
        BY DEF TypeOK
      <4>3. [at |-> "pool", owner |-> cmd[c].owner, handle |-> pool]
                \in [at : {"rest", "session", "pool"}, owner : Users \cup {Nobody},
                    handle : [user : Users \cup {Nobody}, nr : Nat]]
        BY <4>2 DEF TypeOK
      <4>4. QED  BY <4>1, <4>3 DEF TypeOK
    <3>3. QED  BY <3>1, <3>2
  <2>1. TypeOK'
    BY <1>2, <2>0 DEF TakePool, TypeOK, hostVars, managerVars
  <2>2. pool # NoPool => pool.user \in Users
    BY DEF PoolIsActiveUsers, TypeOK
  <2>3. CommandInv' /\ SessionInv'
    BY <1>2, <2>2 DEF TakePool, TypeOK, CommandInv, SessionInv
  <2>4. QED
    BY <1>2, <2>1, <2>3 DEF TakePool, hostVars, managerVars, SpawnInv,
       PoolIsActiveUsers, OthersWiped
<1>3. ASSUME NEW c \in Commands, cmd[c].at = "pool",
             UpsertRecord(c) \/ HardDelete(c) \/ ReadOrMark(c)
      PROVE IInv'
  <2>1. cmd[c].owner \in Users /\ disk[cmd[c].handle.user].rows \subseteq Users
    BY <1>3 DEF CommandInv, TypeOK
  <2>2. PICK file \in SUBSET Users : Statement(c, file)
    BY <1>3, <2>1 DEF UpsertRecord, HardDelete, ReadOrMark
  <2>3. QED  BY <2>2, StatementKeeps
<1>4. QED  BY <1>1, <1>2, <1>3 DEF Commanding

LEMMA RestartKeeps == ASSUME IInv, Restart PROVE IInv'
<1> USE PartitionAssumption DEF IInv
<1>1. TypeOK'
  BY Spending DEF Restart, TypeOK
<1>2. QED
  BY <1>1 DEF Restart, SpawnInv, PoolIsActiveUsers, OthersWiped, CommandInv,
     SessionInv, TypeOK

LEMMA Inductive == ASSUME IInv, [Next]_vars PROVE IInv'
<1>1. CASE UNCHANGED vars
  BY <1>1 DEF vars, hostVars, managerVars, IInv, TypeOK, SpawnInv,
     PoolIsActiveUsers, OthersWiped, CommandInv, SessionInv
<1>2. QED
  BY <1>1, HostingKeeps, SwitchingKeeps, CommandingKeeps, RestartKeeps DEF Next

LEMMA Always == Spec => []IInv
<1>1. QED  BY InitEstablishes, Inductive, PTL DEF Spec

(* The manager, its tasks and its files stay in their ranges.              *)
THEOREM PartitionTypeCorrect == Spec => []TypeOK
<1>1. IInv => TypeOK
  BY DEF IInv
<1>2. QED  BY <1>1, Always, PTL

(* No interleaving of sign-ins, failing or overtaken switches, restarts    *)
(* and commands makes the manager hand out another user's pool.            *)
THEOREM PoolCorrect == Spec => []PoolIsActiveUsers
<1>1. IInv => PoolIsActiveUsers
  BY DEF IInv
<1>2. QED  BY <1>1, Always, PTL

(* Data of a user who left is gone unless a failure or a restart kept it.  *)
THEOREM WipeCorrect == Spec => []OthersWiped
<1>1. IInv => OthersWiped
  BY DEF IInv
<1>2. QED  BY <1>1, Always, PTL

(* The last spawned switch, when it ran last and succeeded, has brought    *)
(* the mirror to the session's user.                                       *)
THEOREM MirrorCorrect == Spec => []MirrorFollowsHook
<1>1. IInv => MirrorFollowsHook
  BY DEF IInv, SpawnInv, MirrorFollowsHook
<1>2. QED  BY <1>1, Always, PTL
=============================================================================
