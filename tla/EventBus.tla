------------------------------ MODULE EventBus ------------------------------
(***************************************************************************)
(* The event bus (crates/polybase/src/events.rs) and its two long-lived    *)
(* receivers: the plugin's forwarder to the frontend (its src/events.rs)   *)
(* and the relay behind Kvs::subscribe (crates/polybase/src/kvs.rs).       *)
(*                                                                         *)
(* A broadcast channel keeps its last Capacity events.  A receiver that    *)
(* has fallen further behind is told Lagged once and goes on with the      *)
(* oldest event kept.  Events are their numbers on the bus; a KvsChanged   *)
(* is published after its row is stored and carries no value.              *)
(***************************************************************************)
EXTENDS Naturals, Sequences, FiniteSets

CONSTANTS MaxEvents,     \* bound: events published
          BusCapacity,   \* 256 in the code
          RelayCapacity  \* 64

ASSUME BusBounds ==
    MaxEvents \in Nat /\ {BusCapacity, RelayCapacity} \subseteq Nat \ {0}

VARIABLES published,  \* number of events on the bus,
          kvs,        \* and which of them are KvsChanged
          forwarder,  \* "running" or "ended"
          emitted,    \* number of the last event it emitted, which is
                      \* also the last it received
          relay,      \* "running" or "ended"
          relayed,    \* number of the last event it has dealt with
          sent,       \* the KvsChange values it sent
          consumer,   \* "listening" or "gone"
          taken,      \* how many of them the consumer has received
          known,      \* the last event whose row its reads have covered
          skipped     \* KvsChanged events the relay lost to a lag

busVars == <<published, kvs, forwarder, emitted, relay, relayed, sent, consumer,
          taken, known, skipped>>

BusInit ==
    /\ published = 0 /\ kvs = {}
    /\ forwarder = "running" /\ emitted = 0
    /\ relay = "running" /\ relayed = 0 /\ sent = <<>>
    /\ consumer = "listening" /\ taken = 0 /\ known = 0
    /\ skipped = {}

Publish ==
    /\ published < MaxEvents
    /\ published' = published + 1
    /\ kvs' \in {kvs, kvs \cup {published'}}
    /\ UNCHANGED <<forwarder, emitted, relay, relayed, sent, consumer, taken,
                    known, skipped>>

-----------------------------------------------------------------------------
Lags(at, end, capacity) == end - at > capacity

(* EventForwarder: emit what comes, and end at the first error, a lag      *)
(* included.                                                               *)
Forward ==
    /\ forwarder = "running" /\ emitted < published
    /\ IF Lags(emitted, published, BusCapacity)
       THEN forwarder' = "ended" /\ UNCHANGED emitted
       ELSE emitted' = emitted + 1 /\ UNCHANGED forwarder
    /\ UNCHANGED <<published, kvs, relay, relayed, sent, consumer, taken,
                    known, skipped>>

(* The relay tells nobody of a lag.                                        *)
RelayLags ==
    /\ relay = "running" /\ Lags(relayed, published, BusCapacity)
    /\ relayed' = published - BusCapacity
    /\ skipped' = skipped \cup (kvs \cap (relayed + 1)..relayed')
    /\ UNCHANGED <<published, kvs, forwarder, emitted, relay, sent, consumer,
                    taken, known>>

(* Mutant: the relay ends with the first event of another kind.            *)
RelayOnlyKvs ==
    /\ relay = "running" /\ relayed < published
    /\ ~Lags(relayed, published, BusCapacity)
    /\ relayed' = relayed + 1
    /\ IF relayed' \in kvs
       THEN /\ sent' = IF consumer = "gone" THEN sent ELSE Append(sent, relayed')
            /\ relay' = IF consumer = "gone" THEN "ended" ELSE relay
       ELSE relay' = "ended" /\ UNCHANGED sent
    /\ UNCHANGED <<published, kvs, forwarder, emitted, consumer, taken, known, skipped>>

(* A KvsChanged goes to the consumer, and without one the relay ends;      *)
(* other events are passed over.                                           *)
Relay ==
    /\ relay = "running" /\ relayed < published
    /\ ~Lags(relayed, published, BusCapacity)
    /\ relayed' = relayed + 1
    /\ IF relayed' \in kvs
       THEN /\ sent' = IF consumer = "gone" THEN sent ELSE Append(sent, relayed')
            /\ relay' = IF consumer = "gone" THEN "ended" ELSE relay
       ELSE UNCHANGED <<sent, relay>>
    /\ UNCHANGED <<published, kvs, forwarder, emitted, consumer, taken, known, skipped>>

(* The consumer (external) reads the store at each change and at a lag.    *)
Consume ==
    /\ consumer = "listening" /\ taken < Len(sent)
    /\ taken' = IF Lags(taken, Len(sent), RelayCapacity)
                THEN Len(sent) - RelayCapacity ELSE taken + 1
    /\ known' = published
    /\ UNCHANGED <<published, kvs, forwarder, emitted, relay, relayed, sent,
                    consumer, skipped>>

ConsumerLeaves ==
    /\ consumer = "listening"
    /\ consumer' = "gone"
    /\ UNCHANGED <<published, kvs, forwarder, emitted, relay, relayed, sent,
                    taken, known, skipped>>

BusNext ==
    \/ Publish \/ Forward \/ RelayLags \/ Relay \/ Consume \/ ConsumerLeaves

BusSpec == BusInit /\ [][BusNext]_busVars

-----------------------------------------------------------------------------
(* A consumer of Kvs::subscribe that has received all there is knows of    *)
(* every change, unless the relay fell behind the bus and lost it: the     *)
(* consumer's own lag never hides one.                                     *)
ConsumerInformed ==
    (consumer = "listening" /\ taken = Len(sent)
        /\ (relay = "ended" \/ relayed = published))
    => \A k \in kvs : k =< known \/ k \in skipped

(* Why: while there is a consumer the relay runs, and what it has dealt    *)
(* with waits in its channel, is covered by a later read, or was lost.     *)
BusTyped ==
    /\ published \in Nat /\ kvs \subseteq 1..published
    /\ relayed \in 0..published /\ known \in 0..published
    /\ sent \in Seq(Nat) /\ taken \in 0..Len(sent)

BusInv ==
    /\ BusTyped
    /\ consumer = "listening" => relay = "running"
    /\ consumer = "listening" /\ taken = Len(sent) =>
          \A k \in kvs : k =< relayed => k =< known \/ k \in skipped
=============================================================================
