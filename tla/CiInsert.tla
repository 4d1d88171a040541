------------------------------ MODULE CiInsert ------------------------------
(***************************************************************************)
(* scripts/insert-ci-perf-data.py: argparse, then one call of             *)
(* insert_ci_perf.  Each step is one call of its try block.  Every       *)
(* exception inside it (ValueError, any Exception, psycopg.DatabaseError) *)
(* is caught by the one handler, printed, and the function returns; the   *)
(* finally clause closes the connection, and __main__ ends.  Work the    *)
(* server has not committed is discarded when the connection closes.     *)
(* The APK name and size and the connection details are left out.        *)
(***************************************************************************)
EXTENDS Integers

CONSTANT Timestamps   \* integers argparse may return for the two times

VARIABLES
    pc,           \* the next step, or "exited"
    args,         \* [start, end]
    passwordSet,  \* DB_PASSWORD is set and non-empty
    buildTime,    \* build_time_secs
    recorded,     \* this run's row is committed in ci_perf
    rowBuildTime, \* its build_time_secs
    exitCode      \* the process exit status, -1 before

vars == <<pc, args, passwordSet, buildTime, recorded, rowBuildTime, exitCode>>

Init ==
    /\ pc = "parse"
    /\ args = [start |-> 0, end |-> 0]
    /\ passwordSet \in BOOLEAN
    /\ buildTime = 0
    /\ recorded = FALSE /\ rowBuildTime = 0
    /\ exitCode = -1

Goto(step) == pc' = step /\ UNCHANGED exitCode

\* The except clause: print the error, return to __main__.
Caught == Goto("return")

\* argparse: two integers (and a float size), or a usage error, status 2.
Parse ==
    /\ pc = "parse"
    /\ \/ \E s, e \in Timestamps : args' = [start |-> s, end |-> e] /\ Goto("password")
       \/ pc' = "exited" /\ exitCode' = 2 /\ UNCHANGED args
    /\ UNCHANGED <<passwordSet, buildTime, recorded, rowBuildTime>>

\* A missing DB_PASSWORD raises ValueError; then build_time_secs.
Password ==
    /\ pc = "password"
    /\ IF passwordSet
          THEN buildTime' = args.end - args.start /\ Goto("connect")
          ELSE Caught /\ UNCHANGED buildTime
    /\ UNCHANGED <<args, passwordSet, recorded, rowBuildTime>>

\* psycopg.connect (the with block).
Connect ==
    /\ pc = "connect"
    /\ Goto("execute") \/ Caught
    /\ UNCHANGED <<args, passwordSet, buildTime, recorded, rowBuildTime>>

\* cur.execute(INSERT INTO ci_perf ...): fails when the table is missing,
\* a value is rejected, or the connection drops.
Execute ==
    /\ pc = "execute"
    /\ Goto("commit") \/ Caught
    /\ UNCHANGED <<args, passwordSet, buildTime, recorded, rowBuildTime>>

\* conn.commit()
Commit ==
    /\ pc = "commit"
    /\ \/ recorded' = TRUE /\ rowBuildTime' = buildTime /\ Goto("return")
       \/ Caught /\ UNCHANGED <<recorded, rowBuildTime>>
    /\ UNCHANGED <<args, passwordSet, buildTime>>

\* finally: conn.close(); insert_ci_perf returns and the script ends.
Return ==
    /\ pc = "return"
    /\ pc' = "exited" /\ exitCode' = 0
    /\ UNCHANGED <<args, passwordSet, buildTime, recorded, rowBuildTime>>

Done == pc = "exited" /\ UNCHANGED vars

Next == Parse \/ Password \/ Connect \/ Execute \/ Commit \/ Return \/ Done

Spec == Init /\ [][Next]_vars
-----------------------------------------------------------------------------
(***************************************************************************)
(* As capture_ci_performance.py does (sys.exit(1) in each handler), the   *)
(* script exits 0 exactly when its row is committed, so that the CI step *)
(* running it fails when nothing was recorded.                           *)
(***************************************************************************)
InsertExitMatchesRow == pc = "exited" => (exitCode = 0 <=> recorded)
(***************************************************************************)
(* start_time and end_time are the build's start and end (the docstring *)
(* and the argparse help), and line 30 computes "the build time in      *)
(* seconds" from them; capture_ci_performance.py, which records the same *)
(* measure, rejects end <= start before connecting.  A committed build   *)
(* time is never negative: swapped times are not a build.                *)
(***************************************************************************)
RecordedBuildTimeNonNegative == recorded => rowBuildTime >= 0
=============================================================================
