----------------------------- MODULE MCLibraries -----------------------------
(* The machines of the system that share no state, checked in one run:     *)
(* `machine` says which of them a behaviour is about, and the others keep  *)
(* their initial states.  Init, Next and vars are those of UserPartition.  *)
EXTENDS MCUserPartition, EventBus, Backoff, Bucket, Columns, Writes, Registry,
        Remote, Runtime, Logger, Symbols

(* Entities a host may register.  For the same table: one in full, two     *)
(* whose updated_at has a type in the mirror from which a tombstone does   *)
(* not learn the server's, and one that is local only; and one for the     *)
(* table of the key-value store.                                           *)
TestConfigs ==
    {[table |-> "items", synced |-> "yes", type |-> "Item",
      columns |-> {Id, Title, Draft, Version, Deleted, UpdatedAt("INTEGER", "integer")},
      userIdColumn |-> "user_id"],
     [table |-> "items", synced |-> "yes", type |-> "Note",
      columns |-> {Id, Title, UpdatedAt("INTEGER", "string")},
      userIdColumn |-> "not included"],
     [table |-> "items", synced |-> "yes", type |-> "Item",
      columns |-> {Id, UpdatedAt("INT8", "integer")}, userIdColumn |-> "user_id"],
     [table |-> "items", synced |-> "no", type |-> "none",
      columns |-> {Id, Draft}, userIdColumn |-> "not included"],
     [table |-> "kvs", synced |-> "yes", type |-> "Item",
      columns |-> {Id, Version}, userIdColumn |-> "user_id"]}

(* Two ways to build a logger, with overrides whose order matters.         *)
Call(prefix, level) == [prefix |-> prefix, level |-> level]
TestLogBuilders ==
    {[level |-> 0, file |-> FALSE,
      calls |-> <<Call(<<"sqlx">>, 2), Call(<<"sqlx", "query">>, 1), Call(<<"log">>, 3)>>],
     [level |-> 2, file |-> TRUE,
      calls |-> <<Call(<<"sqlx", "query">>, 3), Call(<<"sqlx">>, 0),
                  Call(<<"sqlx", "query">>, 1)>>]}

TestTargets ==
    {<<"app">>, <<"sqlx">>, <<"sqlx", "query">>, <<"sqlx", "query", "slow">>}

TestSizes == [trash |-> {1, 2}, bell |-> {1}]

VARIABLE machine

allVars == <<machine, vars, busVars, backoffVars, bucketVars,
             columnVars, writeVars, registryVars,
             remoteVars, runtimeVars, loggerVars, symbolVars>>

(* An idle machine has one initial state.                                  *)
LibInit ==
    /\ machine \in {"partition", "bus", "backoff", "bucket", "column",
                   "write", "registry", "remote", "runtime", "logger",
                   "symbols"}
    /\ Init /\ BusInit /\ BackoffInit /\ BucketInit
    /\ ColumnInit /\ WriteInit /\ RegistryInit
    /\ RemoteInit /\ RuntimeInit /\ LoggerInit /\ SymbolsInit
    /\ machine # "remote" => columnType = "text"
    /\ machine # "bucket" => secret = Secret
    /\ machine # "column" => configured = NoSecret
    /\ machine # "write" => path = "rest" /\ op = "set" /\ held = 0
                            /\ trouble = "none"

OthersIdle ==
    /\ UNCHANGED machine
    /\ machine # "partition" => UNCHANGED vars
    /\ machine # "bus" => UNCHANGED busVars
    /\ machine # "backoff" => UNCHANGED backoffVars
    /\ machine # "bucket" => UNCHANGED bucketVars
    /\ machine # "column" => UNCHANGED columnVars
    /\ machine # "write" => UNCHANGED writeVars
    /\ machine # "registry" => UNCHANGED registryVars
    /\ machine # "remote" => UNCHANGED remoteVars
    /\ machine # "runtime" => UNCHANGED runtimeVars
    /\ machine # "logger" => UNCHANGED loggerVars
    /\ machine # "symbols" => UNCHANGED symbolVars

LibNext ==
    \/ machine = "partition" /\ Next /\ OthersIdle
    \/ machine = "bus" /\ BusNext /\ OthersIdle
    \/ machine = "backoff" /\ BackoffNext /\ OthersIdle
    \/ machine = "bucket" /\ BucketNext /\ OthersIdle
    \/ machine = "column" /\ ColumnNext /\ OthersIdle
    \/ machine = "write" /\ WriteNext /\ OthersIdle
    \/ machine = "registry" /\ RegistryNext /\ OthersIdle
    \/ machine = "remote" /\ RemoteNext /\ OthersIdle
    \/ machine = "runtime" /\ RuntimeNext /\ OthersIdle
    \/ machine = "logger" /\ LoggerNext /\ OthersIdle
    \/ machine = "symbols" /\ SymbolsNext /\ OthersIdle

LibSpec == LibInit /\ [][LibNext]_allVars
=============================================================================
