# TLA+ models of the duplicate-file linker and the CI scripts

This directory holds TLA+ models of `src/deduplicate_with_links.py`, the repository's one algorithmic component. The script finds `.aar`, `.pom` and `.jar` files with identical content under a folder. It can then replace all but one file of each group with relative symbolic links. The two CI scripts under `src/scripts/` are modelled too, as small state machines. All models are checked with TLC.

## 1. Inventory

### Components

| Component | Source | State it keeps | Operations |
|---|---|---|---|
| Scanner | `find_duplicate_files`, `hash_file` (lines 12-114) | `files_by_size`, `files_by_hash`; local to one call | the `rglob` walk with the size pass, the hash pass over sizes shared by two or more paths, the buckets of two or more |
| Replacer | `replace_duplicates_with_links` (lines 116-225) | `links_created`, `errors`, the current group's kept path and its real path, the position in the list of duplicates | the platform guard; per group: sort, keep the first path, resolve it; per duplicate: `relpath`, then the dry-run count or `unlink` + `os.symlink`; OSError handling |
| Command line and report | `__main__` (lines 228-337) | parsed flags, the report's totals | scan, report, the `--dry-run` / `--link` / `--yes` decision, the confirmation prompt, the exit |
| CI performance capture | `scripts/capture_ci_performance.py` | a row in table `ci_data` | argparse, validation, environment, connect, CREATE TABLE, INSERT, commit, exit status |
| CI performance insert | `scripts/insert-ci-perf-data.py` | a row in table `ci_perf` | argparse, password check, connect, INSERT, commit, catch-all handler |
| Keystore password | `scripts/debug-keystore/make_password.py` | none | 16 random characters from a fixed alphabet |

### How the components interact

`__main__` calls the Scanner. It receives `hash -> [paths]`, prints the report, and on `--dry-run`, or on `--link` after a confirmation, passes the same groups to the Replacer. The Scanner and the Replacer share only the directory tree: the Scanner reads it, and the Replacer reads it again (`is_symlink`, `resolve`) and writes it. The program is single-threaded. What makes it hard:

- **Failure in the middle of a two-step mutation.** A duplicate is replaced by `unlink` and then `os.symlink`. The process may be killed between them, or `os.symlink` may fail after `unlink` succeeded.
- **Links inside the tree.** Group members may be links, link chains, or links to files outside the matching set, and the kept path may be a link. The sort key `(is_symlink, str)` and the single resolution of the kept path decide whether the only real copy survives.
- **Other writers.** The spec (section 5) accepts that other processes change the tree during the run. Between hashing and unlinking there is an interactive prompt.

The CI scripts do not interact with the linker. Each is one process that talks to PostgreSQL once, and its exit status is what the CI job sees.

### What makes each component correct

- Scanner: the groups are exactly the classes of equal non-empty content among matching, readable files.
- Replacer: no content disappears. Every path that resolved still resolves to the same content, except at a path left unlinked. Every duplicate is counted once, as a link or as an error. A dry run changes nothing. Every group is processed.
- Command line and report: exit statuses match the spec, and the report's recoverable space is what linking recovers.
- CI scripts: the exit status is 0 exactly when the row was written, and only valid rows are written.

## 2. Modules

| Module | Models | Contents |
|---|---|---|
| `FileTree` | the filesystem calls the program uses | paths as sequences of names; entries `NoEntry`, `File(c)`, `Link(target)`; `Resolve` (`resolve(strict=True)`, with ELOOP as a hop bound), `IsFile`, `IsLink`, `RelPath` (`os.path.relpath`), `PathLess` (`str` order) |
| `ScanWalk` | `find_duplicate_files`, one entry at a time | actions `VisitEntry` (one rglob entry of the size pass), `SizePassDone` (the buckets of two or more, or the early return), `HashEntry` (one path of the hash pass), `HashPassDone`; `HashRaises`, the uncaught RuntimeError of a path that loops |
| `Replacer` | `replace_duplicates_with_links` | `Sorted`, `OriginalAbs`, `KeptLoops`; actions `BeginGroup`, `DryRunReplace`, `Unlink`, `UnlinkFails`, `Symlink`, `SymlinkFails` |
| `Environment` | other processes writing the tree (not code of the repository) | `Rewrite`, `Delete` and `Retarget` of one entry; at most `MaxExternalChanges` changes |
| `Dedup` | `__main__`, composing ScanWalk, Replacer and Environment over the shared `fs` | actions `ScanStep`, `Scan` (the return), `ScanAborts`, `Report`, `ReportAborts`, `DryRun`, `LinkConfirmed`, `LinkAborted`, `ReportOnly`, `ReplaceStep`, `Finish`, `ReplaceAborts`, `Crash`, `External`; the specifications `Spec`, `EnvSpec` and `FairSpec`; the refinement mapping; all properties |
| `DedupAbstract` | what the replacement promises (spec section 4.2) | one step per duplicate: `Take` a group and any member whose real file is not being replaced, then `Replace`, `Count` or `Fail` each other member in any order; `Crash` |
| `MCDedup` | model constants | the tree `lib/`, `lib/sub/` with slots `a.jar`, `x.jar`, `sub/c.jar` and the non-matching `y.bin`; contents A, B (same size) and E (empty) |
| `CiCapture`, `MCCiCapture` | `capture_ci_performance.py` | one action per step of `main()`, each with its exception path |
| `CiInsert`, `MCCiInsert` | `insert-ci-perf-data.py` | one action per step of `insert_ci_perf`, the catch-all handler and `finally` |

How the model corresponds to the code:

- **The tree.** `fs` maps each slot to its entry. Directories are fixed, because the program never creates or removes one. Initial links are relative links to another slot, which covers chains, loops and dangling links. `fs0` is the tree at start. `fsExt` is the tree as other writers alone would have left it. Both are history variables used by the properties.
- **The scan is one step per entry.** `ScanStep` takes one `ScanWalk` step; scanning never writes. Other writers may act between any two entries (`EnvSpec`). A content stands for its SHA-256 digest. rglob's order is left open: groups are a set of sets, and the Replacer sorts each group.
- **The report** is one step after the scan. `wasted` is `total_wasted_space_found`. The report resolves `paths_str[0]`, rglob's first path of the group. The model does not keep rglob's order, so a fixed member (`FirstPath`) stands for it. When that path no longer resolves (another writer, during the scan), the size is -1 and the group adds nothing. Printing and formatting are left out.
- **Unlink and symlink are separate steps.** `Crash` (a kill) is enabled at every step of the replacement phase. `lost` holds the paths unlinked and not relinked.
- **OSError.** `UnlinkFails` covers a directory without write permission, or an entry already gone. `SymlinkFails` covers ENOSPC, EDQUOT and EIO after a successful unlink.
- **RuntimeError.** Before Python 3.13, `resolve(strict=True)` raises RuntimeError on a symlink loop, and no handler catches it. The constant `ResolveLoopRaises` selects this behaviour. When a bucketed path loops at the hash pass (line 92), `ScanAborts` ends the process with status 1; when a group's `paths_str[0]` loops at the report (line 269), `ReportAborts` does; when a group's kept path loops, `ReplaceAborts` does (the kept path is then a link, so the note's resolve at line 161 raises first).
- **The prompt.** The answer is a nondeterministic choice between `LinkConfirmed` and `LinkAborted`. The flags and host facts are chosen in `Init`.
- **CI scripts.** Each database call (connect, execute, commit) either succeeds or raises. Work that was not committed is discarded when the connection closes. argparse's rejection of a non-integer is exit status 2. For `capture`, the INTEGER column limit (2^31 - 1) and the largest timestamp `datetime.fromtimestamp` accepts are scaled constants. The INTEGER limit stays below the timestamp limit, as in reality.

## 3. Runs

| Run | cfg | Expect | Shows |
|---|---|---|---|
| `dedup_safety` | `MCDedup.cfg` | pass | The safety properties below hold over every tree, flag combination, failure and kill point: 629,737 distinct states, about 90 s. |
| `replacement_terminates` | `MCDedupLive.cfg` | pass | `AllGroupsProcessed` under `FairSpec`, on the three matching slots without symmetry: 104,932 states, about 25 s. |
| `implements_abstract` | `MCDedupRefines.cfg` | pass | The program refines `DedupAbstract` (`ImplementsAbstract`), with the entry-by-entry scan composed in: 629,737 states, about 60 s. |
| `ci_capture` | `MCCiCapture.cfg` | pass | `ExitMatchesRow` and `RecordedRowValid` for the capture script: 647 states. |
| `rerun_idempotence` | `MCDedupRerun.cfg` | violation | Re-running on a deduplicated tree recreates and counts every link; spec section 8 says zero. |
| `crash_window` | `MCDedupCrashWindow.cfg` | violation | In the unlink/symlink window, links that resolve through the unlinked path dangle too; the spec says only that path is missing. |
| `missing_root_exit` | `MCDedupMissingRoot.cfg` | violation | A root that is not a directory exits with status 0; the spec says non-zero. |
| `stale_hash` | `MCDedupStaleHash.cfg` | violation | Another writer rewrites a duplicate while the prompt waits. The Replacer deletes it, and the new content is lost with no error. |
| `loop_race_abort` | `MCDedupLoopAbort.cfg` | violation | `OnlyBadRootIsFatal`: a link that passed the size pass is pointed at itself before the hash pass. `resolve(strict=True)` at line 92 raises an uncaught RuntimeError and the run exits 1. The same error is reached at the report (line 269) and at a kept link (line 161) when the loop is made later; with `ScanAborts` taken out of `EnvSpec`, TLC finds the report case, which is shorter. The spec says only a bad root is fatal. |
| `report_estimate` | `MCDedupReportEstimate.cfg` | violation | A group of a file and a link to it is reported as recoverable space, but linking frees nothing. |
| `ci_insert_exit` | `MCCiInsert.cfg` | violation | `insert-ci-perf-data.py` exits 0 without writing a row. |
| `ci_insert_build_time` | `MCCiInsertBuildTime.cfg` | violation | `insert-ci-perf-data.py` commits a negative build time when the times are swapped; `capture_ci_performance.py` rejects them. |

Properties of the passing runs:

- `ScanGroupsAreContentClasses`: the scan's groups equal the classes of equal content among matching files that are non-empty and readable, with at least two members. This reference is written without size buckets.
- `NoContentLoss`: every content held by a regular file of `fsExt` is still held by one. Without other writers, `fsExt` is the start tree. This depends on the `is_symlink` part of the sort key.
- `BrokenOnlyAtLost`: a path that resolved at start resolves to the same content, or its resolution stops at a path in `lost`.
- `DuplicatesAccountedFor`: when the Replacer returns, links plus errors equal the sum over groups of the group size minus one. A dry run has no errors.
- `DryRunMutatesNothing`: in a dry run the tree equals `fs0`.
- `EstimateIsFreedSpace`: when no group member was a link, the reported recoverable space equals the space a live run without errors frees.
- `AllGroupsProcessed` (liveness): once the Replacer is called, the run ends with no group pending, unless the process is killed.
- `ImplementsAbstract` (refinement): `Abs!Spec`, with `DedupAbstract` instantiated by `fs <- AbsFs`, `groups <- pending`, `rest <- Range(todo)`, `target <- origAbs`, `links <- linksCreated`, `errs <- errors`, `stage <- AbsStage`. `AbsFs` shows the path in flight as it was before its unlink, so unlink and symlink together are one abstract `Replace`, or one `Fail` when the symlink fails. The window shows only when a kill lands in it: the abstract `Crash` may remove the one member being replaced. The mapping relies on no path being replaced twice, so it is checked without other writers.
- `ExitMatchesRow`: the capture script exits 0 exactly when its row is committed.
- `RecordedRowValid`: a committed row has a duration in 1..IntegerMax, from a run whose APK existed.

Every property of a passing run has a mutant in `PROJECT.json`: a variant of one mapped definition that the property catches. Examples are a report counting every path, a group loop that breaks early, an unresolved kept path used as the link target, an insert without its commit, and `>=` for `>` in `validate_arguments`.

### Bounds

- **Four slots over two directory levels.** Relative targets with `..` occur. A non-matching file (`y.bin`) can be the real file behind an all-link group. Groups of up to three occur, so a kept link can have another member in its chain.
- **Three contents.** A and B share a size, which exercises the hash pass. E is empty, which exercises `MIN_FILE_SIZE_TO_HASH`.
- **`MaxHops = 4`.** Four slots allow at most three distinct links in a chain, so four hops separate every chain from a loop.
- **One change by other writers** (`MaxExternalChanges = 1`). One change is enough for all three race findings: a rewritten duplicate, a kept link pointed at itself, and a scanned link pointed at itself between the two passes.
- **Three slots for liveness and for the two scan-race runs.** The liveness tableau over the full instance does not finish in reasonable time. `stale_hash` and `loop_race_abort` let other writers act from the first scan step, which multiplies the full instance beyond minutes. The three matching slots still give groups of two and three, kept links, failures, and a scanned link looped before the hash pass.
- **CI times -1..4.** This covers negative, zero, equal and consecutive times, with `IntegerMax = 1` and `TimestampMax = 3`. So a duration can pass validation and still be rejected by the column, and a time can pass validation and still fail in `fromtimestamp`.
- **Symmetry.** A and B are told apart only by equality, so permuting them is sound for the invariants and the refinement. The liveness run does not use symmetry.

### Fairness

`FairSpec` makes `ReplaceStep` and `Finish` weakly fair. Once the Replacer is called, the program is a single thread that waits only on file system calls, so it always takes its next step. Nothing before the Replacer is assumed fair: the user may never answer the prompt. The kill is not assumed either.

## 4. Not modelled

- Other writers inside one scanned entry. Other writers act between entries, so a race between `is_file()` (line 42) and `resolve(strict=True)` (line 48) is not produced; it would raise the same uncaught RuntimeError as line 92.
- Liveness of `DedupAbstract` through the refinement. Its `Replace` leaves the new link's target to a condition on the primed tree, which TLC cannot enumerate for `ENABLED`. `AllGroupsProcessed` states the same progress on the program.
- The report's per-path listing, its sort and its formatting, which only print.
- A commit whose acknowledgment is lost (the server applied it, the client saw an error). `CiCapture` treats a failed commit as nothing committed; such a run would exit 1 with the row stored.
- Read failures per file rather than per path: `HashEntry` lets each path's read fail on its own, even for two links to one file. This allows more behaviours than the code has, and every property still holds.
- Hard links, absolute link targets, directories that are links (rglob does not descend into them), and Windows.
- `make_password.py`: random choice from a fixed alphabet. The only checkable facts restate lines 8-16.
- CI scripts: the APK disappearing between `os.path.exists` and `os.path.getsize`, and `conn.close()` failing. Nothing in CI does either. Concurrent CI jobs are not modelled either, because the scripts share no state except the database rows.

## 5. Plan

1. **Done:** `FileTree`, a one-step scanner (since replaced by `ScanWalk`), `Replacer`, `Dedup`, and the first four runs.
2. **Done:** the Environment actor, the report, liveness under `FairSpec`, `DedupAbstract` with the refinement, and both CI scripts.
3. **Done:** the entry-by-entry scanner `ScanWalk`, composed into `Dedup` with other writers between entries; the scan race at line 92 and the same RuntimeError at the report (line 269); the report's unknown-size branch; the insert script's build time.
4. **A larger tree** for the refinement (five slots, three directory levels), if TLC's time allows.
5. **Finer scan interleaving**: other writers between `is_file()` and `resolve()` of one entry (lines 42-48).
