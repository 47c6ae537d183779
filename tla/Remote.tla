------------------------------- MODULE Remote -------------------------------
(***************************************************************************)
(* The exported remote traits, crates/polybase/src/sync/remote.rs: the     *)
(* PostgREST writer with the echo marks it sets, for one caller that       *)
(* awaits each call, and the PostgREST reader's filters next to those of   *)
(* the reader that tests use in its place.                                 *)
(*                                                                         *)
(* A row is its version and the value of one column that filters are       *)
(* about; deleted and the other columns follow the version.  External:     *)
(* PostgREST, whose table has the trigger guard_version_regression, and    *)
(* the other devices that write to it.                                     *)
(***************************************************************************)
EXTENDS Naturals

CONSTANTS RowIds,
          MaxRowVersion  \* bound on versions

ASSUME RemoteBounds == MaxRowVersion \in Nat

VARIABLES columnType,  \* the filtered column's: "integer" or "text"
          table,       \* the server's rows
          request,     \* what the writer was last asked: kind and rows
          outcome,     \* "pending", or what the caller was told
          carried,     \* the rows whose changes by us realtime carries
          marks        \* the rows the echo tracker knows as pushed

remoteVars == <<columnType, table, request, outcome, carried, marks>>

(* Values by their spelling: two numerals, two dates, SQL's null, and a    *)
(* value that violates a constraint of the server.                         *)
Number == [n9 |-> 9, n10 |-> 10]
Place == [n10 |-> 1, n9 |-> 2, d1 |-> 3, d2 |-> 4]
Numerals == DOMAIN Number
Texts == DOMAIN Place
Values == IF columnType = "integer" THEN Numerals \cup {"null"} ELSE Texts \cup {"null"}

Missing == [version |-> 0, value |-> "null"]
IsThere(id) == table[id].version > 0

RemoteInit ==
    /\ columnType \in {"integer", "text"}
    /\ table = [id \in RowIds |-> Missing]
    /\ request = [kind |-> "nothing", rows |-> <<>>]
    /\ outcome = "ok"
    /\ carried = {} /\ marks = {}

-----------------------------------------------------------------------------
(* RemoteWriter.                                                           *)

(* Mutant: the tracker is told when the call is over.                      *)
SendUnmarked(kind, rows) ==
    /\ outcome # "pending"
    /\ request' = [kind |-> kind, rows |-> rows]
    /\ outcome' = "pending"
    /\ carried' = {} /\ marks' = {}
    /\ UNCHANGED <<columnType, table>>

(* Mark each row, then send the one request that has them all.  Earlier    *)
(* marks have passed.                                                      *)
Send(kind, rows) ==
    /\ outcome # "pending"
    /\ request' = [kind |-> kind, rows |-> rows]
    /\ outcome' = "pending"
    /\ carried' = {} /\ marks' = DOMAIN rows
    /\ UNCHANGED <<columnType, table>>

(* Our own rows all have the same value, or one that is refused.           *)
Records == [version : 1..MaxRowVersion, value : {"n9", "invalid"}]

(* upsert_record *)
UpsertOne == \E id \in RowIds, r \in Records : Send("one", [i \in {id} |-> r])

(* upsert_records; an empty batch returns at once.                         *)
UpsertBatch ==
    \E ids \in SUBSET RowIds \ {{}} : \E rows \in [ids -> Records] : Send("batch", rows)

(* update_fields *)
UpdateFields == \E id \in RowIds, r \in Records : Send("fields", [i \in {id} |-> r])

(* The caller tries again what it was told, or not, had not been done.     *)
Retry == outcome = "transient" /\ Send(request.kind, request.rows)

(* The statement's rows: a PATCH of a missing row has none.                *)
Touched ==
    {id \in DOMAIN request.rows : request.kind = "fields" => IsThere(id)}

Refusal(id) ==
    IF request.rows[id].value = "invalid" THEN "invalid input"
    ELSE CASE request.rows[id].version = table[id].version -> "same version"
           [] request.rows[id].version < table[id].version -> "version regression"
           [] request.rows[id].version > table[id].version -> "none"

Refusals == {Refusal(id) : id \in Touched} \ {"none"}

Apply ==
    /\ table' = [id \in RowIds |-> IF id \in Touched THEN request.rows[id] ELSE table[id]]
    /\ carried' = Touched

Succeeds ==
    /\ outcome = "pending" /\ Refusals = {}
    /\ Apply
    /\ outcome' = "ok"
    /\ UNCHANGED <<columnType, request, marks>>

(* One row refused refuses the statement.  Only upsert_record tells the    *)
(* same version from the other refusals, all of which are permanent.       *)
IsRefused ==
    /\ outcome = "pending"
    /\ \E why \in Refusals :
          outcome' = IF why = "same version" /\ request.kind = "one"
                     THEN "ignored" ELSE "permanent"
    /\ UNCHANGED <<columnType, table, request, carried, marks>>

(* Request or answer are lost, or the server is in trouble.                *)
IsUnheard ==
    /\ outcome = "pending"
    /\ outcome' = "transient"
    /\ \/ UNCHANGED <<table, carried>>
       \/ Refusals = {} /\ Apply
    /\ UNCHANGED <<columnType, request, marks>>

OthersWrite ==
    /\ \E id \in RowIds, v \in Values :
          /\ table[id].version < MaxRowVersion
          /\ table' = [table EXCEPT ![id] = [version |-> @.version + 1, value |-> v]]
    /\ UNCHANGED <<columnType, request, outcome, carried, marks>>

RemoteNext ==
    \/ UpsertOne \/ UpsertBatch \/ UpdateFields \/ Retry
    \/ Succeeds \/ IsRefused \/ IsUnheard \/ OthersWrite

RemoteSpec == RemoteInit /\ [][RemoteNext]_remoteVars

-----------------------------------------------------------------------------
(* RemoteReader: what a predicate of fetch_records leaves.                 *)

(* PostgREST (external) reads the text of the predicate as a value of the  *)
(* column's type.                                                          *)
GteAt(v, predicate) ==
    v # "null" /\ IF columnType = "integer" THEN Number[v] >= Number[predicate]
                  ELSE Place[v] >= Place[predicate]

FetchRecords(op, predicate) ==
    {id \in {i \in RowIds : IsThere(i)} :
        CASE op = "eq"  -> table[id].value = predicate
          [] op = "gte" -> GteAt(table[id].value, predicate)}

(* row_value_gte: numbers and texts that look like numbers are compared as *)
(* numbers, if the predicate is one too.                                   *)
RowValueGte(v, predicate) ==
    IF {v, predicate} \subseteq Numerals THEN Number[v] >= Number[predicate]
    ELSE columnType = "text" /\ v \in Texts /\ Place[v] >= Place[predicate]

(* MemoryReader::fetch_records on the same rows; eq only knows texts.      *)
MemoryFetchRecords(op, predicate) ==
    {id \in {i \in RowIds : IsThere(i)} :
        CASE op = "eq"  -> columnType = "text" /\ table[id].value = predicate
          [] op = "gte" -> RowValueGte(table[id].value, predicate)}

(* fetch_versions, at either, of the rows whose user column, a text, has   *)
(* the user.                                                               *)
FetchVersions(user) == [id \in FetchRecords("eq", user) |-> table[id].version]
MemoryFetchVersions(user) == [id \in MemoryFetchRecords("eq", user) |-> table[id].version]

-----------------------------------------------------------------------------
(* A caller that keeps what was transient and drops the rest, and retries  *)
(* requests whose answer it never got, ends with every row at the server   *)
(* in its version or a newer one, but for rows refused for their values    *)
(* and rows of a batch that has such a row or one in conflict; and realtime *)
(* never brings it a change of its own that it did not know as its own.    *)
AtServer(id) == table[id].version >= request.rows[id].version

WriterTruthful ==
    /\ outcome = "ok" =>
          /\ request.kind # "fields" => carried = DOMAIN request.rows
          /\ \A id \in carried : AtServer(id)
    /\ outcome = "ignored" => \A id \in DOMAIN request.rows : AtServer(id)
    /\ outcome = "permanent" =>
          \E id \in DOMAIN request.rows : AtServer(id) \/ request.rows[id].value = "invalid"
    /\ carried \subseteq marks

(* A delta pull tested on the memory reader sees the rows it would see at  *)
(* PostgREST, unless the column's texts look like numbers and so does the  *)
(* predicate; and an equality does if the column is a text.                *)
ReadersAgree ==
    \A p \in IF columnType = "integer" THEN Numerals ELSE Texts :
        /\ columnType = "integer" \/ p \notin Numerals =>
              FetchRecords("gte", p) = MemoryFetchRecords("gte", p)
        /\ columnType = "text" => FetchVersions(p) = MemoryFetchVersions(p)

RemoteKeeps == WriterTruthful /\ ReadersAgree

(* Why: what was marked is what was asked, and upsert_record asks for one. *)
RemoteRows == [version : 0..MaxRowVersion, value : Values]

AskedFor ==
    /\ DOMAIN request.rows \subseteq RowIds
    /\ \A id \in DOMAIN request.rows : request.rows[id] \in Records
    /\ request.kind = "one" => \E id \in RowIds : DOMAIN request.rows = {id}

RemoteInv ==
    /\ columnType \in {"integer", "text"}
    /\ table \in [RowIds -> RemoteRows]
    /\ AskedFor
    /\ marks = DOMAIN request.rows
    /\ WriterTruthful
=============================================================================
