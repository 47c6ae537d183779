----------------------------- MODULE MCScheduler -----------------------------
(* The scheduler of the sync and a connection of the realtime transport,   *)
(* the two parts that owe their callers an end whatever fails.  They share *)
(* no state: `machine` says which of them a behaviour is about, and the    *)
(* other keeps its initial state.                                          *)
EXTENDS Scheduler, Connection

VARIABLE machine

allVars == <<machine, vars, connVars>>

BothInit ==
    /\ machine \in {"scheduler", "connection"}
    /\ Init /\ ConnInit
    /\ machine # "scheduler" => queued = 0 /\ network = "down" /\ session = "out"

BothNext ==
    /\ UNCHANGED machine
    /\ \/ machine = "scheduler" /\ Next /\ UNCHANGED connVars
       \/ machine = "connection" /\ ConnNext /\ UNCHANGED vars

BothSpec ==
    /\ BothInit /\ [][BothNext]_allVars
    /\ machine = "scheduler" => Fairness
    /\ machine = "connection" => ConnFairness
=============================================================================
