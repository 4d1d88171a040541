------------------------------ MODULE Replacer ------------------------------
(***************************************************************************)
(* replace_duplicates_with_links.  Groups are taken one at a time in dict *)
(* order, which follows rglob's order and is left open here.  Inside a   *)
(* group the paths are sorted by (is_symlink, str); the first is kept     *)
(* and resolved once; every other path is unlinked and then recreated as *)
(* a relative symbolic link to the kept file's real path.  Unlink and    *)
(* symlink are separate steps: the process may die between them, and     *)
(* either call may raise OSError, which is counted and skipped.          *)
(***************************************************************************)
EXTENDS FileTree

\* Path.resolve(strict=True) raises RuntimeError, which no handler of the
\* Replacer catches, on a symbolic-link loop (Python before 3.13; from 3.13
\* it raises OSError, caught like any other resolution failure).
CONSTANT ResolveLoopRaises

VARIABLES
    fs,            \* the tree
    pending,       \* groups of duplicate_groups not yet taken
    kept,          \* original_file_obj of the current group
    origAbs,       \* original_file_abs: the kept path resolved
    todo,          \* duplicates_to_link_obj still to replace, in sorted order
    inFlight,      \* the path unlinked and not yet relinked, or NoPath
    linksCreated,  \* links_created
    errors,        \* errors
    lost           \* paths unlinked whose symlink was never created

replacerVars == <<fs, pending, kept, origAbs, todo, inFlight, linksCreated, errors, lost>>

NoPath == <<>>   \* the root directory, never a slot

\* The entry state at the call: nothing taken, counters at zero.
Start(groups) ==
    /\ pending = groups
    /\ kept = NoPath
    /\ origAbs = NoPath
    /\ todo = <<>>
    /\ inFlight = NoPath
    /\ linksCreated = 0
    /\ errors = 0
    /\ lost = {}

\* The call replace_duplicates_with_links(duplicate_groups, ...) begins.
Call(groups) ==
    /\ pending' = groups
    /\ kept' = NoPath
    /\ origAbs' = NoPath
    /\ todo' = <<>>
    /\ inFlight' = NoPath
    /\ linksCreated' = 0
    /\ errors' = 0
    /\ lost' = {}

\* A sort on str(p) alone, without the preference for real files.
SortKeyLessByName(t, p, q) == PathLess(p, q)

\* The sort key (p.is_symlink(), str(p)): real files before links, then by name.
SortKeyLess(t, p, q) ==
    IF IsLink(t, p) = IsLink(t, q) THEN PathLess(p, q) ELSE ~IsLink(t, p)

Between == todo = <<>> /\ inFlight = NoPath

\* sorted_paths_obj
Sorted(t, g) == SetToSortSeq(g, LAMBDA p, q : SortKeyLess(t, p, q))

\* Resolving the kept path ends in a symbolic-link loop (ELOOP).
KeptLoops(t, g) ==
    LET r == Resolve(t, Head(Sorted(t, g)))
    IN  ~r.ok /\ r.at \in Slots /\ t[r.at].type = "link"

\* The kept path itself taken as the link target, without resolve().
OriginalAbsUnresolved(t, k) == k

\* original_file_abs = original_file_obj.resolve(strict=True)
OriginalAbs(t, k) == Resolve(t, k).at

(***************************************************************************)
(* Take the next group: skip it when it has fewer than two paths; sort   *)
(* it; keep the first; resolve the kept path strictly, and when that     *)
(* fails count every other path of the group as an error.  A loop at the *)
(* kept path under ResolveLoopRaises is not an outcome of this step: the *)
(* exception ends the process (Dedup's ReplaceAborts).                  *)
(***************************************************************************)
BeginGroup ==
    /\ Between
    /\ \E g \in pending :
         LET sorted == Sorted(fs, g)
             orig   == Resolve(fs, Head(sorted))
         IN  /\ ~(ResolveLoopRaises /\ Cardinality(g) >= 2 /\ KeptLoops(fs, g))
             /\ pending' = pending \ {g}
             /\ IF Cardinality(g) < 2
                   THEN UNCHANGED <<kept, origAbs, todo, errors>>
                ELSE IF orig.ok
                   THEN /\ kept' = Head(sorted)
                        /\ origAbs' = OriginalAbs(fs, Head(sorted))
                        /\ todo' = Tail(sorted)
                        /\ UNCHANGED errors
                   ELSE /\ kept' = Head(sorted)
                        /\ errors' = errors + Len(sorted) - 1
                        /\ UNCHANGED <<origAbs, todo>>
    /\ UNCHANGED <<fs, inFlight, linksCreated, lost>>

\* A relpath taken from the link path itself instead of its directory.
TargetFromLinkPath(d) == RelPath(origAbs, d)

\* The target os.symlink is given for d: relpath from d's directory.
TargetFor(d) == RelPath(origAbs, Parent(d))

\* A dry run that falls through to the file operations (a missing continue).
DryRunReplaceFallsThrough ==
    /\ todo # <<>> /\ inFlight = NoPath
    /\ fs' = [fs EXCEPT ![Head(todo)] = Link(TargetFor(Head(todo)))]
    /\ linksCreated' = linksCreated + 2
    /\ todo' = Tail(todo)
    /\ UNCHANGED <<pending, kept, origAbs, inFlight, errors, lost>>

\* Dry run: count the intended link and continue; nothing is touched.
DryRunReplace ==
    /\ todo # <<>> /\ inFlight = NoPath
    /\ linksCreated' = linksCreated + 1
    /\ todo' = Tail(todo)
    /\ UNCHANGED <<fs, pending, kept, origAbs, inFlight, errors, lost>>

\* An unlink that records the whole remaining list as the path in flight.
UnlinkRecordsList ==
    /\ todo # <<>> /\ inFlight = NoPath
    /\ fs[Head(todo)] # NoEntry
    /\ fs' = [fs EXCEPT ![Head(todo)] = NoEntry]
    /\ inFlight' = todo
    /\ lost' = lost \cup {Head(todo)}
    /\ UNCHANGED <<pending, kept, origAbs, todo, linksCreated, errors>>

\* link_path_obj.unlink() succeeds: the duplicate is gone.
Unlink ==
    /\ todo # <<>> /\ inFlight = NoPath
    /\ fs[Head(todo)] # NoEntry
    /\ fs' = [fs EXCEPT ![Head(todo)] = NoEntry]
    /\ inFlight' = Head(todo)
    /\ lost' = lost \cup {Head(todo)}
    /\ UNCHANGED <<pending, kept, origAbs, todo, linksCreated, errors>>

\* unlink() raises OSError (no write permission on the directory, or the
\* path is already gone): one error, next duplicate.
UnlinkFails ==
    /\ todo # <<>> /\ inFlight = NoPath
    /\ errors' = errors + 1
    /\ todo' = Tail(todo)
    /\ UNCHANGED <<fs, pending, kept, origAbs, inFlight, linksCreated, lost>>

\* os.symlink(relative_target_path, link_path_str) succeeds.
Symlink ==
    /\ inFlight # NoPath
    /\ fs' = [fs EXCEPT ![inFlight] = Link(TargetFor(inFlight))]
    /\ linksCreated' = linksCreated + 1
    /\ lost' = lost \ {inFlight}
    /\ inFlight' = NoPath
    /\ todo' = Tail(todo)
    /\ UNCHANGED <<pending, kept, origAbs, errors>>

\* A failed symlink that is reported but not counted.
SymlinkFailsUncounted ==
    /\ inFlight # NoPath
    /\ inFlight' = NoPath
    /\ todo' = Tail(todo)
    /\ UNCHANGED <<fs, pending, kept, origAbs, linksCreated, errors, lost>>

\* os.symlink raises OSError (ENOSPC, EDQUOT, EIO): one error, and the
\* unlinked path stays missing.
SymlinkFails ==
    /\ inFlight # NoPath
    /\ errors' = errors + 1
    /\ inFlight' = NoPath
    /\ todo' = Tail(todo)
    /\ UNCHANGED <<fs, pending, kept, origAbs, linksCreated, lost>>

\* The group loop left after the current group (a break for a continue).
IdleBetweenGroups == Between

\* The loop over groups is over.
Idle == pending = {} /\ Between

Step(dryRun) ==
    \/ BeginGroup
    \/ dryRun /\ DryRunReplace
    \/ ~dryRun /\ (Unlink \/ UnlinkFails \/ Symlink \/ SymlinkFails)
=============================================================================
