------------------------------- MODULE Dedup --------------------------------
(***************************************************************************)
(* The __main__ block of deduplicate_with_links.py: scan, report (which   *)
(* only reads), then, on --dry-run or a confirmed --link, the Replacer.   *)
(* ScanWalk and the Replacer share the tree fs.  The command line and   *)
(* the host (is the folder a directory, is the platform Linux/Darwin)    *)
(* are fixed in the initial state; the answer to the confirmation prompt *)
(* is chosen when it is asked.  The process may be killed at any moment  *)
(* of the replacement phase.  EnvSpec adds other writers (Environment)   *)
(* during the scan, at the prompt and during the replacement, and the    *)
(* RuntimeErrors their symbolic-link loops provoke.                      *)
(***************************************************************************)
EXTENDS Integers, FileTree

CONSTANTS
    MinFileSizeToHash,
    ResolveLoopRaises,   \* see Replacer
    MaxExternalChanges   \* see Environment

VARIABLES
    fs, duplicates, hashFailed,
    scanStage, unvisited, bySize, unhashed, byHash,   \* ScanWalk's locals
    pending, kept, origAbs, todo, inFlight, linksCreated, errors, lost,
    phase,      \* "scan", "report", "decide", "replace", "exited" or "crashed"
    args,       \* the parsed --link, --dry-run and --yes flags
    host,       \* os.path.isdir(folder) and platform.system() in Linux/Darwin
    mode,       \* "none", or the dry_run the Replacer was called with
    exitCode,   \* the process exit status once exited, -1 before
    wasted,     \* total_wasted_space_found, as the report printed it
    fs0,        \* the tree when the program started
    fsExt,      \* Environment's history: fs0 with only the other writers' changes
    extChanges  \* changes made by other writers so far

W == INSTANCE ScanWalk WITH stage <- scanStage
R == INSTANCE Replacer
Env == INSTANCE Environment

replacerVars == <<pending, kept, origAbs, todo, inFlight, linksCreated, errors, lost>>
envVars == <<fsExt, extChanges>>
walkVars == <<scanStage, unvisited, bySize, unhashed, byHash>>
vars == <<fs, duplicates, hashFailed, walkVars, replacerVars, phase, args, host, mode, exitCode,
          wasted, fs0, envVars>>

Init ==
    /\ fs \in InitialTrees
    /\ fs0 = fs /\ fsExt = fs /\ extChanges = 0
    /\ W!Start
    /\ R!Start({})
    /\ phase = "scan"
    /\ args \in [link : BOOLEAN, dryRun : BOOLEAN, yes : BOOLEAN]
    /\ host \in [rootIsDir : BOOLEAN, posix : BOOLEAN]
    /\ mode = "none"
    /\ exitCode = -1
    /\ wasted = 0

Exit(code) == phase' = "exited" /\ exitCode' = code

\* One step of find_duplicate_files (ScanWalk); os.path.isdir(folder) holds.
ScanStep ==
    /\ phase = "scan" /\ host.rootIsDir
    /\ W!Step
    /\ UNCHANGED <<replacerVars, phase, args, host, mode, exitCode, wasted, fs0, envVars>>

\* find_duplicate_files has returned: at once when the root is not a
\* directory, with {}.  "No duplicate files found" ends the run with 0.
Scan ==
    /\ phase = "scan" /\ (scanStage = "done" \/ ~host.rootIsDir)
    /\ IF duplicates = {} THEN Exit(0) ELSE phase' = "report" /\ UNCHANGED exitCode
    /\ UNCHANGED <<fs, duplicates, hashFailed, walkVars, replacerVars, args, host, mode,
                   wasted, fs0, envVars>>

\* The RuntimeError of a path turned into a loop during the scan (see
\* ScanWalk!HashRaises) escapes main: a traceback and exit status 1.
ScanAborts ==
    /\ phase = "scan" /\ W!HashRaises
    /\ Exit(1)
    /\ UNCHANGED <<fs, duplicates, hashFailed, walkVars, replacerVars, args, host, mode,
                   wasted, fs0, envVars>>

\* paths_str[0]: the group's first path in rglob's order, which the model
\* does not keep; any fixed member stands for it.
FirstPath(g) == CHOOSE p \in g : TRUE

\* A report that counts every path of the group as recoverable.
GroupWasteAllPaths(t, g) ==
    IF IsFile(t, FirstPath(g)) THEN Size[ContentOf(t, FirstPath(g))] * Cardinality(g) ELSE 0

\* size_bytes * (num_duplicates - 1), size_bytes read through paths_str[0];
\* when it no longer resolves, size_bytes is -1 and the group adds nothing.
GroupWaste(t, g) ==
    IF IsFile(t, FirstPath(g)) THEN Size[ContentOf(t, FirstPath(g))] * (Cardinality(g) - 1)
                               ELSE 0

\* Before Python 3.13 the resolve(strict=True) of line 269 raises
\* RuntimeError on a looping paths_str[0]; its handler catches only
\* OSError.  Only a writer acting during the scan can make it loop.
ReportRaises ==
    phase = "report" /\ ResolveLoopRaises /\ \E g \in duplicates : Loops(fs, FirstPath(g))

\* The report: total_wasted_space_found over all groups.
Report ==
    /\ phase = "report" /\ ~ReportRaises
    /\ wasted' = MapThenSumSet(LAMBDA g : GroupWaste(fs, g), duplicates)
    /\ phase' = "decide"
    /\ UNCHANGED <<fs, duplicates, hashFailed, walkVars, replacerVars, args, host, mode, exitCode,
                   fs0, envVars>>

\* The RuntimeError of the report escapes main: exit status 1.
ReportAborts ==
    /\ ReportRaises
    /\ Exit(1)
    /\ UNCHANGED <<fs, duplicates, hashFailed, walkVars, replacerVars, args, host, mode,
                   wasted, fs0, envVars>>

\* replace_duplicates_with_links(duplicate_groups, dryRun): on a platform
\* other than Linux/Darwin it returns (0, 0) at once and main ends.
CallReplacer(dryRun) ==
    IF host.posix
       THEN /\ phase' = "replace"
            /\ mode' = IF dryRun THEN "dry" ELSE "live"
            /\ R!Call(duplicates)
            /\ UNCHANGED exitCode
       ELSE /\ Exit(0)
            /\ UNCHANGED <<mode, replacerVars>>

Decided ==
    /\ phase = "decide"
    /\ UNCHANGED <<fs, duplicates, hashFailed, walkVars, args, host, wasted, fs0, envVars>>

\* --dry-run wins over --link.
DryRun == Decided /\ args.dryRun /\ CallReplacer(TRUE)

\* --link with --yes, or with "yes" typed at the prompt.
LinkConfirmed ==
    /\ Decided /\ ~args.dryRun /\ args.link
    /\ CallReplacer(FALSE)

\* --link without --yes and an answer other than "yes": exit(0).
LinkAborted ==
    /\ Decided /\ ~args.dryRun /\ args.link /\ ~args.yes
    /\ Exit(0)
    /\ UNCHANGED <<mode, replacerVars>>

\* Neither flag: report only, then the end of main.
ReportOnly ==
    /\ Decided /\ ~args.dryRun /\ ~args.link
    /\ Exit(0)
    /\ UNCHANGED <<mode, replacerVars>>

ReplaceStep ==
    /\ phase = "replace"
    /\ R!Step(mode = "dry")
    /\ UNCHANGED <<duplicates, hashFailed, walkVars, phase, args, host, mode, exitCode, wasted,
                   fs0, envVars>>

\* The replacement loop is over; the summary is printed and main ends.
Finish ==
    /\ phase = "replace" /\ R!Idle
    /\ Exit(0)
    /\ UNCHANGED <<fs, duplicates, hashFailed, walkVars, replacerVars, args, host, mode, wasted,
                   fs0, envVars>>

\* A looping kept path is a link, so the resolve(strict=True) of the note
\* at line 161 raises first (ResolveLoopRaises); its handlers catch only
\* FileNotFoundError and OSError.  The RuntimeError escapes
\* replace_duplicates_with_links and main: a traceback and exit status 1.
ReplaceAborts ==
    /\ phase = "replace" /\ ResolveLoopRaises /\ R!Between
    /\ \E g \in pending : Cardinality(g) >= 2 /\ R!KeptLoops(fs, g)
    /\ Exit(1)
    /\ UNCHANGED <<fs, duplicates, hashFailed, walkVars, replacerVars, args, host, mode, wasted,
                   fs0, envVars>>

\* The process is killed (signal, power loss) during the replacement phase.
Crash ==
    /\ phase = "replace"
    /\ phase' = "crashed"
    /\ UNCHANGED <<fs, duplicates, hashFailed, walkVars, replacerVars, args, host, mode, exitCode,
                   wasted, fs0, envVars>>

\* Another process changes the tree while the scan runs, the prompt waits
\* or the Replacer runs.
External ==
    /\ phase \in {"scan", "decide", "replace"}
    /\ Env!Change
    /\ UNCHANGED <<duplicates, hashFailed, walkVars, replacerVars, phase, args, host, mode, exitCode,
                   wasted, fs0>>

\* The process has ended; the tree stays as it was left.
Ended == phase \in {"exited", "crashed"} /\ UNCHANGED vars

Next ==
    \/ ScanStep \/ Scan \/ Report
    \/ DryRun \/ LinkConfirmed \/ LinkAborted \/ ReportOnly
    \/ ReplaceStep \/ Finish \/ Crash
    \/ Ended

Spec == Init /\ [][Next]_vars

\* With other writers, and the uncaught exception they can provoke.
EnvSpec == Init /\ [][Next \/ External \/ ScanAborts \/ ReportAborts \/ ReplaceAborts]_vars

(***************************************************************************)
(* The program is one thread, and once the Replacer is called it never   *)
(* waits on anything but the file system calls, so its steps and the    *)
(* return to main are weakly fair.  The kill is not assumed.  The steps  *)
(* before the Replacer (scan, report, the prompt, which the user may     *)
(* never answer) are not made fair: the liveness property starts at the  *)
(* call of the Replacer.                                                 *)
(***************************************************************************)
FairSpec == Spec /\ WF_vars(ReplaceStep) /\ WF_vars(Finish)

-----------------------------------------------------------------------------
TypeOK ==
    /\ fs \in [Slots -> Entries]
    /\ fs0 \in [Slots -> Entries]
    /\ duplicates \subseteq SUBSET Matching
    /\ hashFailed \subseteq Matching
    /\ scanStage \in {"size", "hash", "done"}
    /\ unvisited \subseteq Matching /\ unhashed \subseteq Matching
    /\ DOMAIN bySize \subseteq Matching /\ DOMAIN byHash \subseteq Matching
    /\ pending \subseteq duplicates
    /\ kept \in Matching \cup {R!NoPath}
    /\ origAbs \in Slots \cup {R!NoPath}
    /\ todo \in Seq(Matching)
    /\ inFlight \in Matching \cup {R!NoPath}
    /\ linksCreated \in Nat /\ errors \in Nat
    /\ lost \subseteq Matching
    /\ phase \in {"scan", "report", "decide", "replace", "exited", "crashed"}
    /\ mode \in {"none", "dry", "live"}
    /\ exitCode \in {-1, 0, 1}
    /\ wasted \in Nat
    /\ fsExt \in [Slots -> Entries]
    /\ extChanges \in 0..MaxExternalChanges

(***************************************************************************)
(* The scan's groups are exactly the classes of equal content among the  *)
(* matching paths that resolve to a non-empty file and were read: no two *)
(* paths with different contents share a group (no false positive), and  *)
(* two readable paths with the same content always do, although only    *)
(* paths whose size is shared were hashed.                               *)
(***************************************************************************)
Readable ==
    {p \in Matching : IsFile(fs0, p) /\ Size[ContentOf(fs0, p)] > 0} \ hashFailed

ScanGroupsAreContentClasses ==
    phase \notin {"scan"} /\ host.rootIsDir =>
        duplicates =
            {g \in {{p \in Readable : ContentOf(fs0, p) = c} : c \in Contents} :
                Cardinality(g) >= 2}

(***************************************************************************)
(* No content is ever lost: every content held by a regular file of the  *)
(* tree as it would be without the program (the start tree, with other  *)
(* writers' changes applied) is still held by some regular file, whatever *)
(* the Replacer has done, failed to do, or was killed in the middle of.  *)
(* It rests on the scanner grouping only equal files and on the sort key *)
(* keeping a real file ahead of links to it, so the file a group's links *)
(* end at is never the one unlinked; with other writers it also needs    *)
(* the hashes taken at the scan to be current when the Replacer unlinks. *)
(***************************************************************************)
NoContentLoss == StoredContents(fsExt) \subseteq StoredContents(fs)

(***************************************************************************)
(* Every path that resolved to a file at the start still resolves to a   *)
(* file with the same content, or its resolution now stops at a path the *)
(* Replacer unlinked and has not (yet) relinked.  This is the relative   *)
(* target computed by os.path.relpath from the link's directory to the   *)
(* kept file's real path, checked for links made, for links that pointed *)
(* at replaced paths, and for the kept path itself.                      *)
(***************************************************************************)
BrokenOnlyAtLost ==
    \A p \in Slots :
        IsFile(fs0, p) =>
            LET r == Resolve(fs, p)
            IN  IF r.ok THEN fs[r.at].content = ContentOf(fs0, p) ELSE r.at \in lost

(***************************************************************************)
(* When the Replacer returns, every duplicate of every group (all paths  *)
(* but the kept one) was counted once, as a link made or as an error;   *)
(* in a dry run none is an error, so the dry-run count is the number of  *)
(* links a live run makes when nothing fails.                            *)
(***************************************************************************)
DuplicatesAccountedFor ==
    phase = "exited" /\ mode # "none" =>
        /\ linksCreated + errors = MapThenSumSet(LAMBDA g : Cardinality(g) - 1, duplicates)
        /\ mode = "dry" => errors = 0

(***************************************************************************)
(* A dry run leaves the tree exactly as it found it.                     *)
(***************************************************************************)
DryRunMutatesNothing == mode = "dry" => fs = fs0

(***************************************************************************)
(* The spec (section 8): the Replacer run on a tree already deduplicated, *)
(* where each group has exactly one path that is not a link, makes no new *)
(* link.                                                                  *)
(***************************************************************************)
AlreadyDeduplicated ==
    \A g \in duplicates : Cardinality({p \in g : ~IsLink(fs0, p)}) = 1

RerunCreatesNoLinks ==
    phase = "exited" /\ mode = "live" /\ AlreadyDeduplicated => linksCreated = 0

(***************************************************************************)
(* The spec (section 4.2, step 4): a crash between the unlink and the    *)
(* symlink leaves that single path missing.  Every path that stopped     *)
(* resolving is one the Replacer unlinked and did not relink.            *)
(***************************************************************************)
OnlyUnlinkedPathsMissing ==
    \A p \in Slots : IsFile(fs0, p) /\ ~IsFile(fs, p) => p \in lost

(***************************************************************************)
(* The spec (sections 6 and 7): a scan root that is not a directory is a *)
(* fatal error that the command line turns into a non-zero exit status.  *)
(***************************************************************************)
MissingRootFails == phase = "exited" /\ ~host.rootIsDir => exitCode # 0

(***************************************************************************)
(* The space the run freed: the sizes of the regular files of the start  *)
(* tree that are no longer regular files.                                 *)
(***************************************************************************)
FreedSpace ==
    MapThenSumSet(LAMBDA p : Size[fs0[p].content],
                  {p \in Slots : fs0[p].type = "file" /\ fs[p].type # "file"})

NoLinkInGroups == \A g \in duplicates : \A p \in g : ~IsLink(fs0, p)

(***************************************************************************)
(* When no path of any group was a link, the "Estimated space potentially *)
(* recoverable" the report printed is exactly the space a live run that  *)
(* met no error frees: the report's per-group size times paths-beyond-  *)
(* the-first agrees with what the Replacer's unlinks remove.             *)
(***************************************************************************)
EstimateIsFreedSpace ==
    phase = "exited" /\ mode = "live" /\ errors = 0 /\ NoLinkInGroups => wasted = FreedSpace

(***************************************************************************)
(* The spec (section 1): the report gives the recoverable space.  Checked *)
(* without NoLinkInGroups: the space a clean live run frees is what the  *)
(* report estimated.                                                      *)
(***************************************************************************)
ReportedSpaceRecovered ==
    phase = "exited" /\ mode = "live" /\ errors = 0 => wasted = FreedSpace

(***************************************************************************)
(* The spec (section 7): the only fatal error is a scan root that is not *)
(* a directory.  A broken or vanished entry during the scan, and a       *)
(* resolution failure of a chosen canonical file, are per-entry          *)
(* recoverable errors that never stop the run: with a directory as root, *)
(* the run exits normally.                                                *)
(***************************************************************************)
OnlyBadRootIsFatal == phase = "exited" /\ host.rootIsDir => exitCode = 0

(***************************************************************************)
(* Once the Replacer is called, the run ends with every group taken      *)
(* (pending empty), unless the process is killed: the group loop and the *)
(* per-duplicate loop always progress and stop only when both are done.  *)
(***************************************************************************)
AllGroupsProcessed ==
    phase = "replace" ~> (phase = "crashed" \/ (phase = "exited" /\ pending = {}))

(***************************************************************************)
(* The refinement mapping onto DedupAbstract.  Between the unlink and the *)
(* symlink of a duplicate the abstract tree still shows what the path    *)
(* held before the unlink (fs0, since no path is replaced twice): the    *)
(* two calls are one abstract Replace or Fail, and the window becomes    *)
(* visible only when the process is killed in it.                         *)
(***************************************************************************)
AbsFs ==
    IF phase = "replace" /\ inFlight # R!NoPath
       THEN [fs EXCEPT ![inFlight] = fs0[inFlight]]
       ELSE fs

AbsStage ==
    CASE phase \in {"scan", "report", "decide"} -> "idle"
      [] phase = "replace"                      -> mode
      [] phase = "exited"                       -> "done"
      [] phase = "crashed"                      -> "crashed"

Abs == INSTANCE DedupAbstract
         WITH fs <- AbsFs, groups <- pending, rest <- Range(todo), target <- origAbs,
              links <- linksCreated, errs <- errors, stage <- AbsStage

(***************************************************************************)
(* The program implements DedupAbstract: every step of scan, prompt and  *)
(* Replacer is a step of the abstract replacement or leaves its view     *)
(* unchanged.  In particular the kept path's real file is never one of   *)
(* the paths of its group that get replaced, and every link made names   *)
(* that real file through a relative target.                             *)
(***************************************************************************)
ImplementsAbstract == Abs!Spec
=============================================================================
