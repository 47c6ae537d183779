------------------------------ MODULE Registry ------------------------------
(***************************************************************************)
(* The entity registry and its check for schema drift:                     *)
(* crates/polybase/src/registry/mod.rs and schema.rs, with Kvs::register.  *)
(* A column has a canonical and a local name and a type in the mirror, and *)
(* if it is synced a name and a type at the server; no two columns of an   *)
(* entity have the same canonical name.  Of a record only the column names *)
(* count, of a tombstone the types of its values too.                      *)
(*                                                                         *)
(* External: the host that registers entities, and the schemas of server   *)
(* and mirror, which are as they should be but for one drift at a time.    *)
(***************************************************************************)
EXTENDS Functions

CONSTANTS Configs  \* the entity configurations that a host may register

VARIABLES byTable, byType, tableToType,  \* RegistryInner
          drift  \* what the schemas lack or have otherwise

registryVars == <<byTable, byType, tableToType, drift>>

NoRemote == "no remote name or type"
NoDrift == [place |-> "nowhere"]

(* ColumnDef::synced and ColumnDef::local_only                             *)
Synced(canonical, local, remote, sqlType, remoteType) ==
    [canonical |-> canonical, local |-> local, remote |-> remote,
     sqlType |-> sqlType, remoteType |-> remoteType]
LocalOnly(name, sqlType) == Synced(name, name, NoRemote, sqlType, NoRemote)

Id == Synced("id", "id", "id", "TEXT", "string")
Title == Synced("title", "title", "name", "TEXT", "string")
Draft == LocalOnly("draft", "TEXT")
Version == Synced("version", "version", "version", "INTEGER", "integer")
Deleted == Synced("deleted", "deleted", "deleted", "INTEGER", "boolean")
UpdatedAt(sqlType, remoteType) ==
    Synced("updated_at", "updated_at", "updated_at", sqlType, remoteType)

(* kvs_entity_config; namespace and key are like id.                       *)
KvsEntityConfig ==
    [table |-> "kvs", synced |-> "yes", type |-> "Kvs", userIdColumn |-> "user_id",
     columns |-> {Id, Synced("value", "value", "value", "TEXT", "jsonb"),
                  Version, Deleted, UpdatedAt("TEXT", "string")}]

IsSynced(config) == config.synced = "yes"
Included(config) == {config.userIdColumn} \ {"not included"}

RegistryInit ==
    /\ byTable = <<>> /\ byType = <<>> /\ tableToType = <<>>
    /\ drift = NoDrift

Put(f, key, value) == [k \in DOMAIN f \cup {key} |-> IF k = key THEN value ELSE f[k]]

(* A table that was synced and is registered again as local only stays in  *)
(* the two other maps.                                                     *)
RegisterEntity(config) ==
    /\ byTable' = Put(byTable, config.table, config)
    /\ IF IsSynced(config)
       THEN /\ tableToType' = Put(tableToType, config.table, config.type)
            /\ byType' = Put(byType, config.type, config)
       ELSE UNCHANGED <<tableToType, byType>>
    /\ UNCHANGED drift

(* Lookups; none or one configuration.                                     *)
ConfigForTable(table) == {byTable[t] : t \in DOMAIN byTable \cap {table}}
ConfigForType(type) == {byType[t] : t \in DOMAIN byType \cap {type}}
RegisteredTables == DOMAIN tableToType
IsRegisteredTable(table) == table \in RegisteredTables

RegisterKvs == ~IsRegisteredTable("kvs") /\ RegisterEntity(KvsEntityConfig)

-----------------------------------------------------------------------------
(* Columns of a record on its way.                                         *)

RemoteColumns(config) == {c \in config.columns : c.remote # NoRemote}

MapRemoteToLocal(config, names) ==
    {c.local : c \in {d \in RemoteColumns(config) : d.remote \in names}}

MapLocalToRemote(config, names) ==
    {c.remote : c \in {d \in RemoteColumns(config) : d.local \in names}}

(* serialize_for_remote; how it seals values is in Columns.                *)
SerializedColumns(config, names) == names \cup Included(config)

SerializeRemotePayload(table, names) ==
    {SerializedColumns(config, names) : config \in ConfigForTable(table)}

(* tombstone_updated_at_value: milliseconds or a text, after the mirror.   *)
TombstoneUpdatedAt(config) ==
    IF \E c \in config.columns :
          c.canonical = "updated_at" /\ c.sqlType \in {"INTEGER", "BIGINT", "INT", "INT64"}
    THEN "integer" ELSE "string"

(* The columns that the PATCH of a tombstone writes, with their types.     *)
TombstoneColumns(config) ==
    {<<"version", "integer">>, <<"deleted", "boolean">>,
     <<"updated_at", TombstoneUpdatedAt(config)>>}

-----------------------------------------------------------------------------
(* Snapshots: columns and their types, by table.                           *)

(* normalize_type *)
NormalizeType(type) ==
    CASE type \in {"integer", "INTEGER", "bigint", "BIGINT", "INT8"} -> "integer"
      [] type \in {"boolean", "bool"}                                -> "boolean"
      [] type \in {"string", "text", "TEXT"}                         -> "string"
      [] OTHER                                                       -> type

(* Mutant: user_id is not checked.                                         *)
ExpectedWithoutUser(config) == {<<c.remote, c.remoteType>> : c \in RemoteColumns(config)}

ExpectedRemote(config) ==
    {<<c.remote, c.remoteType>> : c \in RemoteColumns(config)}
    \cup {<<name, "string">> : name \in Included(config)}

ExpectedLocal(config) == {<<c.local, c.sqlType>> : c \in config.columns}

(* build_remote_snapshot_from_registry *)
SyncedTables == {t \in DOMAIN byTable : IsSynced(byTable[t])}
BuildRemoteSnapshot == [t \in SyncedTables |-> ExpectedRemote(byTable[t])]

(* validate_schema: the tables that are missing or have a column that is   *)
(* missing or of another type.                                             *)
Issues(expected, snapshot) ==
    {t \in DOMAIN expected :
        \/ t \notin DOMAIN snapshot
        \/ \E want \in expected[t] :
              ~\E have \in snapshot[t] :
                  have[1] = want[1] /\ NormalizeType(have[2]) = NormalizeType(want[2])}

RemoteIssues(snapshot) ==
    Issues([t \in SyncedTables |-> ExpectedRemote(byTable[t])], snapshot)

LocalIssues(snapshot) ==
    Issues([t \in DOMAIN byTable |-> ExpectedLocal(byTable[t])], snapshot)

(* The schemas (external) and what may be otherwise in one of them.        *)
Tables == {"items", "kvs"}

SchemaColumns(table) ==
    IF table = "kvs" THEN KvsEntityConfig.columns
    ELSE {Id, Title, Draft, Version, Deleted, UpdatedAt("INTEGER", "integer")}

AllColumns(place, table) ==
    IF place = "mirror" THEN {<<c.local, c.sqlType>> : c \in SchemaColumns(table)}
    ELSE {<<c.remote, c.remoteType>> :
             c \in {d \in SchemaColumns(table) : d.remote # NoRemote}}
         \cup {<<"user_id", "string">>}

Drifted(columns) ==
    {c \in columns : c[1] # drift.column}
    \cup {<<drift.column, type>> : type \in {drift.how} \ {"missing"}}

Schema(place) ==
    [t \in {u \in Tables : drift # [place |-> place, table |-> u]} |->
        IF drift.place = place /\ drift.table = t THEN Drifted(AllColumns(place, t))
        ELSE AllColumns(place, t)]

Migrate ==
    /\ drift' \in {NoDrift} \cup [place : {"server", "mirror"}, table : Tables]
         \cup [place : {"server", "mirror"}, table : Tables,
               how : {"missing", "text", "bigint", "bool"},
               column : {"id", "title", "name", "draft", "value", "version",
                         "deleted", "updated_at", "user_id"}]
    /\ drift' # drift /\ NoDrift \in {drift, drift'}
    /\ UNCHANGED <<byTable, byType, tableToType>>

RegistryNext ==
    \/ \E config \in Configs : RegisterEntity(config)
    \/ RegisterKvs \/ Migrate

RegistrySpec == RegistryInit /\ [][RegistryNext]_registryVars

-----------------------------------------------------------------------------
Names(columns) == {c[1] : c \in columns}

(* By their types: what writes put there, and what the database has.       *)
Shape(columns) == {<<c[1], NormalizeType(c[2])>> : c \in columns}

(* A column is registered with two types; that of the value in a tombstone *)
(* follows neither or the mirror's.                                        *)
Misfits(config) ==
    {sent \in TombstoneColumns(config) :
        \E c \in RemoteColumns(config) :
            c.remote = sent[1] /\ NormalizeType(c.remoteType) # sent[2]}

(* When validation finds nothing in a schema, rows of every registered     *)
(* table fit it: what is pushed has its columns at the server, what is     *)
(* applied has them in the mirror, and the values of a tombstone whose     *)
(* columns are registered are of the server's types, but for exactly those *)
(* whose registration says that the server has another type: the check     *)
(* compares either type with its own database and never with the tombstone.*)
ValidatedFits ==
    /\ RemoteIssues(Schema("server")) = {} =>
          \A t \in SyncedTables :
              LET config == byTable[t]
                  local == {c.local : c \in config.columns}
              IN  /\ \A sent \in SerializeRemotePayload(t, MapLocalToRemote(config, local)) :
                        sent \subseteq Names(Schema("server")[t])
                  /\ \A sent \in TombstoneColumns(config) :
                        sent[1] \in {c.remote : c \in RemoteColumns(config)} =>
                            (sent \in Shape(Schema("server")[t]) <=> sent \notin Misfits(config))
    /\ LocalIssues(Schema("mirror")) = {} =>
          \A t \in DOMAIN byTable :
              MapRemoteToLocal(byTable[t], Names(AllColumns("server", t)))
                 \subseteq Names(Schema("mirror")[t])

(* The registry's own snapshot passes its validation; a synced table is    *)
(* listed under its type, and what is listed leads to a synced entity, in  *)
(* whatever order tables were registered.                                  *)
RegistryAgrees ==
    /\ RemoteIssues(BuildRemoteSnapshot) = {}
    /\ \A t \in SyncedTables :
          IsRegisteredTable(t) /\ tableToType[t] = byTable[t].type
    /\ \A t \in RegisteredTables :
          \E config \in ConfigForType(tableToType[t]) : IsSynced(config)

RegistryKeeps == ValidatedFits /\ RegistryAgrees

(* Why: the maps lead to configurations a host registered, and to each     *)
(* other.                                                                  *)
RegistryInv ==
    /\ \A t \in DOMAIN byTable :
          byTable[t] \in Configs \cup {KvsEntityConfig} /\ byTable[t].table = t
    /\ \A t \in DOMAIN tableToType : tableToType[t] \in DOMAIN byType
    /\ \A type \in DOMAIN byType : IsSynced(byType[type])
    /\ \A t \in SyncedTables :
          t \in DOMAIN tableToType /\ tableToType[t] = byTable[t].type
=============================================================================
