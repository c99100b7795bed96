---------------------------- MODULE ConfigStore -----------------------------
(***************************************************************************)
(* The operational configuration: the table configurations, the Config the *)
(* server keeps in memory, and the requests that change both               *)
(* (admin/config_api.go, config/config.go, models/configuration.go,        *)
(* config/dbconfig/dbconfig.go).                                           *)
(*                                                                         *)
(* A value is known by what the code does with it: the default of the key, *)
(* another good one, zero, a number so huge that its conversion to bytes   *)
(* or nanoseconds overflows, or one that is no number, boolean or URL at   *)
(* all. Metadata is the type and the validation of a row; the migration    *)
(* writes them, an insert by the API does not.                             *)
(***************************************************************************)
EXTENDS Naturals, FiniteSets

CONSTANTS
    Keys,
    Kind,       \* of each key: its type, and the unit of its field
    Requests,   \* goroutines that serve a PUT or a DELETE
    NoKey

Numbers == {"number", "megabytes", "duration_seconds"}
Kinds == Numbers \cup {"boolean", "url", "secret"}

ASSUME ConfigAssumption == NoKey \notin Keys /\ Kind \in [Keys -> Kinds]

VARIABLES
    row,        \* the table: [there, value, described]
    blind,      \* keys whose last put could not read the row it wrote
    mem,        \* the fields of Config
    req,        \* each request: program point, key, value, and what it read
    overlapped, \* keys two requests were at together since the boot
    missed      \* keys with a reload that could not read since the boot

vars == << row, blind, mem, req, overlapped, missed >>

Values == {"default", "other", "zero", "huge", "junk"}
Loads == Values \cup {"one", "wrapped"}

Idle == [at |-> "idle", op |-> "none", key |-> NoKey, value |-> "default",
         blind |-> FALSE, got |-> "default"]

Row == [there : BOOLEAN, value : Values, described : BOOLEAN]
Step == [at : {"idle", "read", "write", "reload", "query", "assign"},
         op : {"none", "put", "delete"}, key : Keys \cup {NoKey}, value : Values,
         blind : BOOLEAN, got : Loads]

TypeOK ==
    /\ row \in [Keys -> Row] /\ blind \subseteq Keys
    /\ mem \in [Keys -> Loads]
    /\ req \in [Requests -> Step]
    /\ \A q \in Requests : req[q].at # "idle" => req[q].key \in Keys
    /\ overlapped \subseteq Keys /\ missed \subseteq Keys

-----------------------------------------------------------------------------
(* What the code makes of a value                                          *)

\* ValidateConfigValue with the metadata of the migration.
Valid(k, v) ==
    \/ v \in {"default", "other"}
    \/ v = "huge" /\ Kind[k] \in Numbers
    \/ Kind[k] = "secret"

\* GetString, GetNumber, GetBool and GetDurationSeconds: what they can read.
Readable(k, v) ==
    CASE Kind[k] \in {"url", "secret"} -> TRUE
      [] Kind[k] = "boolean" -> v \in {"default", "other"}
      [] OTHER -> v # "junk"

\* What the conversion to the unit of the field makes of it: a number is raised to
\* one at least, and before it is multiplied; a product that overflows wraps, here
\* to one that is not positive.
Converted(k, v) ==
    IF Kind[k] \in {"number", "megabytes"} /\ v \in {"zero", "wrapped"} THEN "one"
    ELSE IF Kind[k] \in {"megabytes", "duration_seconds"} /\ v = "huge" THEN "wrapped"
    ELSE v

\* The field a row gives: the fallback, converted back and forth, without a row that
\* can be read.
Loaded(k, r, fallback) ==
    Converted(k, IF r.there /\ Readable(k, r.value) THEN r.value ELSE fallback)

-----------------------------------------------------------------------------
(* Requests                                                                *)

At(k) == {q \in Requests : req[q].key = k}

Start(q, op, k, v, at) ==
    /\ req[q].at = "idle"
    /\ req' = [req EXCEPT ![q] = [at |-> at, op |-> op, key |-> k, value |-> v,
                                  blind |-> FALSE, got |-> "default"]]
    /\ overlapped' = IF At(k) = {} THEN overlapped ELSE overlapped \cup {k}
    /\ UNCHANGED << row, blind, mem, missed >>

Put(q, k, v) == Start(q, "put", k, v, "read")

Delete(q, k) == Start(q, "delete", k, "default", "write")

\* Bug: the value is not validated.
Bug_Check(q, fails) ==
    /\ req[q].at = "read"
    /\ req' = [req EXCEPT ![q].at = "write", ![q].blind = fails]
    /\ UNCHANGED << row, blind, mem, overlapped, missed >>

\* HandleUpdateConfig reads the row for its metadata: a value that is not valid is
\* refused. Without a row, when the read fails, or with a row that has no metadata,
\* any will do.
Check(q, fails) ==
    LET k == req[q].key  r == row[k] IN
    /\ req[q].at = "read"
    /\ req' = IF ~fails /\ r.there /\ r.described /\ ~Valid(k, req[q].value)
              THEN [req EXCEPT ![q] = Idle]
              ELSE [req EXCEPT ![q].at = "write", ![q].blind = fails]
    /\ UNCHANGED << row, blind, mem, overlapped, missed >>

\* Bug: a row that is inserted anew is not loaded.
Bug_Write(q) ==
    LET k == req[q].key  r == row[k] IN
    /\ req[q].at = "write"
    /\ row' = [row EXCEPT ![k] =
                 IF req[q].op = "delete"
                 THEN [there |-> FALSE, value |-> "default", described |-> FALSE]
                 ELSE [there |-> TRUE, value |-> req[q].value,
                       described |-> r.there /\ r.described]]
    /\ blind' = IF req[q].blind THEN blind \cup {k} ELSE blind \ {k}
    /\ req' = IF req[q].op = "put" /\ ~r.there THEN [req EXCEPT ![q] = Idle]
              ELSE [req EXCEPT ![q].at = "reload"]
    /\ UNCHANGED << mem, overlapped, missed >>

\* UpsertConfiguration keeps the metadata of a row that is there and gives a new
\* one none; DeleteConfiguration.
Write(q) ==
    LET k == req[q].key  r == row[k] IN
    /\ req[q].at = "write"
    /\ row' = [row EXCEPT ![k] =
                 IF req[q].op = "delete"
                 THEN [there |-> FALSE, value |-> "default", described |-> FALSE]
                 ELSE [there |-> TRUE, value |-> req[q].value,
                       described |-> r.there /\ r.described]]
    /\ blind' = IF req[q].blind THEN blind \cup {k} ELSE blind \ {k}
    /\ req' = [req EXCEPT ![q].at = "reload"]
    /\ UNCHANGED << mem, overlapped, missed >>

\* ReloadFromDB: the field as it is now is the fallback ...
Reload(q) ==
    /\ req[q].at = "reload"
    /\ req' = [req EXCEPT ![q].at = "query", ![q].got = mem[req[q].key]]
    /\ UNCHANGED << row, blind, mem, overlapped, missed >>

\* ... the row is read, which may fail ...
Query(q, fails) ==
    LET k == req[q].key IN
    /\ req[q].at = "query"
    /\ req' = [req EXCEPT ![q].at = "assign",
                          ![q].got = Loaded(k, [row[k] EXCEPT !.there = @ /\ ~fails], @)]
    /\ missed' = IF fails THEN missed \cup {k} ELSE missed
    /\ UNCHANGED << row, blind, mem, overlapped >>

\* ... and the field is assigned.
Assign(q) ==
    /\ req[q].at = "assign"
    /\ mem' = [mem EXCEPT ![req[q].key] = req[q].got]
    /\ req' = [req EXCEPT ![q] = Idle]
    /\ UNCHANGED << row, blind, overlapped, missed >>

\* A write fails: the answer is an error and nothing has changed.
WriteFails(q) ==
    /\ req[q].at = "write"
    /\ req' = [req EXCEPT ![q] = Idle]
    /\ UNCHANGED << row, blind, mem, overlapped, missed >>

\* Bug: Load gives the fields no default.
Bug_Restart ==
    /\ mem' = [k \in Keys |-> Loaded(k, row[k], "unset")]
    /\ req' = [q \in Requests |-> Idle]
    /\ overlapped' = {} /\ missed' = {}
    /\ UNCHANGED << row, blind >>

\* The process ends, whatever was going on, and starts: Load and ApplyFromDB.
Restart ==
    /\ mem' = [k \in Keys |-> Loaded(k, row[k], "default")]
    /\ req' = [q \in Requests |-> Idle]
    /\ overlapped' = {} /\ missed' = {}
    /\ UNCHANGED << row, blind >>

Init ==
    /\ row = [k \in Keys |-> [there |-> TRUE, value |-> "default", described |-> TRUE]]
    /\ blind = {}
    /\ mem = [k \in Keys |-> "default"]
    /\ req = [q \in Requests |-> Idle]
    /\ overlapped = {} /\ missed = {}

Next ==
    \/ \E q \in Requests :
        \/ \E k \in Keys : Delete(q, k) \/ \E v \in Values : Put(q, k, v)
        \/ \E fails \in BOOLEAN : Check(q, fails) \/ Query(q, fails)
        \/ Write(q) \/ WriteFails(q) \/ Reload(q) \/ Assign(q)
    \/ Restart

Spec == Init /\ [][Next]_vars

-----------------------------------------------------------------------------
(* Properties                                                              *)

\* A row with the metadata of the migration holds a value they admit, unless the put
\* that wrote it could not read the row, which the code takes for a row that is not
\* there. A row that could be read is another one when it is written: it may have been
\* deleted, and inserted by another request, between (config_api.go:63-91).
DescribedValuesAreValid ==
    \A k \in Keys :
        row[k].there /\ row[k].described /\ k \notin blind => Valid(k, row[k].value)

\* When the requests for a key came one after the other and each could read it back,
\* its field of Config is what the next start would load, unless the row is gone or
\* cannot be read (config_api.go:79, 97: "Aplica a mudança em tempo real"). What was
\* built of the field at the boot, as the workers and the queue, stays as it was.
RestartChangesNothing ==
    \A k \in Keys :
        /\ At(k) = {} /\ k \notin overlapped \cup missed
        /\ row[k].there /\ Readable(k, row[k].value)
        => mem[k] = Loaded(k, row[k], "default")

\* The same for a row that was deleted: "Após a remoção, o sistema passa a usar o
\* DefaultValues[key] como fallback" (config_api.go:102-103, 125).
DeletedMeansDefault ==
    \A k \in Keys :
        /\ At(k) = {} /\ k \notin overlapped \cup missed
        /\ ~row[k].there
        => mem[k] = "default"
=============================================================================
