------------------------------ MODULE CiCapture -----------------------------
(***************************************************************************)
(* scripts/capture_ci_performance.py: one run of main().  Each step is    *)
(* one call of main's try block; every exception it can raise ends the   *)
(* run through main's handlers with status 1, and argparse's rejection   *)
(* of a non-integer with status 2.  A database call either succeeds or   *)
(* raises psycopg.Error (server down, lost connection, a rejected value). *)
(* Work the server has not committed is discarded when the process ends. *)
(* The APK path, the connection details and the printed text are left   *)
(* out; what the properties tell apart is whether the APK exists, whether *)
(* the four DB_* variables are set, and the two integers.                *)
(***************************************************************************)
EXTENDS Integers

CONSTANTS
    Timestamps,   \* integers argparse may return for the two times (type=int)
    IntegerMax,   \* largest build_duration_seconds INTEGER accepts (2^31 - 1, scaled)
    TimestampMax  \* largest time datetime.fromtimestamp accepts (scaled)

VARIABLES
    pc,          \* the next step of main, or "exited"
    args,        \* [start, end]: the parsed build times
    host,        \* [apkExists, dbEnvSet]: os.path.exists(apk_path), all DB_* non-empty
    duration,    \* build_duration
    tableExists, \* ci_data exists (committed)
    recorded,    \* this run's row is committed in ci_data
    rowDuration, \* its build_duration_seconds
    exitCode     \* the process exit status, -1 before

vars == <<pc, args, host, duration, tableExists, recorded, rowDuration, exitCode>>

Init ==
    /\ pc = "parse"
    /\ args = [start |-> 0, end |-> 0]
    /\ host \in [apkExists : BOOLEAN, dbEnvSet : BOOLEAN]
    /\ duration = 0
    /\ tableExists \in BOOLEAN   \* an earlier run may have created it
    /\ recorded = FALSE /\ rowDuration = 0
    /\ exitCode = -1

Exit(code) == pc' = "exited" /\ exitCode' = code

Goto(step) == pc' = step /\ UNCHANGED exitCode

\* parse_arguments: two integers, or argparse's usage error (SystemExit(2)).
Parse ==
    /\ pc = "parse"
    /\ \/ \E s, e \in Timestamps : args' = [start |-> s, end |-> e] /\ Goto("validate")
       \/ Exit(2) /\ UNCHANGED args
    /\ UNCHANGED <<host, duration, tableExists, recorded, rowDuration>>

\* validate_arguments with "end >= start" for "end > start".
ValidArgumentsAllowEqual(a) ==
    a.start > 0 /\ a.end > 0 /\ a.end >= a.start /\ host.apkExists

\* validate_arguments: each failed check raises ValueError.
ValidArguments(a) ==
    a.start > 0 /\ a.end > 0 /\ a.end > a.start /\ host.apkExists

Validate ==
    /\ pc = "validate"
    /\ IF ValidArguments(args) THEN Goto("config") ELSE Exit(1)
    /\ UNCHANGED <<args, host, duration, tableExists, recorded, rowDuration>>

\* get_database_config: ValueError when a DB_* variable is missing or empty.
Config ==
    /\ pc = "config"
    /\ IF host.dbEnvSet THEN Goto("measure") ELSE Exit(1)
    /\ UNCHANGED <<args, host, duration, tableExists, recorded, rowDuration>>

\* build_duration, os.path.getsize, and datetime.fromtimestamp of both
\* times, which raises (OverflowError, ValueError, OSError) past TimestampMax.
Measure ==
    /\ pc = "measure"
    /\ duration' = args.end - args.start
    /\ IF args.end <= TimestampMax THEN Goto("connect") ELSE Exit(1)
    /\ UNCHANGED <<args, host, tableExists, recorded, rowDuration>>

\* psycopg.connect
Connect ==
    /\ pc = "connect"
    /\ Goto("create") \/ Exit(1)
    /\ UNCHANGED <<args, host, duration, tableExists, recorded, rowDuration>>

\* create_table_if_not_exists: CREATE TABLE IF NOT EXISTS, then commit.
CreateTable ==
    /\ pc = "create"
    /\ \/ tableExists' = TRUE /\ Goto("insert")
       \/ Exit(1) /\ UNCHANGED tableExists
    /\ UNCHANGED <<args, host, duration, recorded, rowDuration>>

\* insert_performance_data whose commit is missing: the row stays in the
\* open transaction, which conn.close() discards.
InsertWithoutCommit ==
    /\ pc = "insert"
    /\ \/ duration <= IntegerMax /\ Goto("close")
       \/ Exit(1)
    /\ UNCHANGED <<args, host, duration, tableExists, recorded, rowDuration>>

\* insert_performance_data: INSERT then commit.  A duration beyond INTEGER
\* is rejected by the server (NumericValueOutOfRange); any call may fail.
Insert ==
    /\ pc = "insert"
    /\ \/ /\ duration <= IntegerMax
          /\ recorded' = TRUE /\ rowDuration' = duration
          /\ Goto("close")
       \/ Exit(1) /\ UNCHANGED <<recorded, rowDuration>>
    /\ UNCHANGED <<args, host, duration, tableExists>>

\* conn.close(); main returns.
Close ==
    /\ pc = "close"
    /\ Exit(0)
    /\ UNCHANGED <<args, host, duration, tableExists, recorded, rowDuration>>

Done == pc = "exited" /\ UNCHANGED vars

Next ==
    Parse \/ Validate \/ Config \/ Measure \/ Connect \/ CreateTable \/ Insert \/ Close \/ Done

Spec == Init /\ [][Next]_vars
-----------------------------------------------------------------------------
(***************************************************************************)
(* The exit status tells the CI job the truth: the run exits 0 exactly   *)
(* when its row is committed in ci_data, whichever of the validation,    *)
(* configuration, connection, table creation or insert steps failed.     *)
(***************************************************************************)
ExitMatchesRow == pc = "exited" => (exitCode = 0 <=> recorded)

(***************************************************************************)
(* A committed row has a positive duration that fits the INTEGER column, *)
(* and came from a run whose APK existed: validate_arguments runs before *)
(* any database call.                                                     *)
(***************************************************************************)
RecordedRowValid ==
    recorded => rowDuration \in 1..IntegerMax /\ host.apkExists
=============================================================================
