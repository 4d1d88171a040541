------------------------------ MODULE ScanWalk ------------------------------
(***************************************************************************)
(* find_duplicate_files one entry at a time.  The size pass visits the   *)
(* matching entries rglob yields (the others fail the suffix test at    *)
(* once), in any order, and records each resolved size; the hash pass    *)
(* then resolves and reads again every path whose recorded size is      *)
(* shared.  The two passes read the tree at different moments, and other *)
(* writers may act between any two entries.  files_by_size and           *)
(* files_by_hash are functions from path to recorded size and digest (a  *)
(* content stands for its digest); the order inside a bucket is rglob's  *)
(* and plays no role.  Dedup runs these steps when the root is a         *)
(* directory.                                                             *)
(***************************************************************************)
EXTENDS Integers, FileTree, TLC

CONSTANTS
    MinFileSizeToHash,   \* MIN_FILE_SIZE_TO_HASH
    ResolveLoopRaises    \* resolve(strict=True) raises RuntimeError on a loop (Python < 3.13)

VARIABLES
    fs,
    stage,       \* "size", "hash" or "done" (returned)
    unvisited,   \* matching entries the rglob loop has not yet reached
    bySize,      \* files_by_size: recorded size of each path kept by the size pass
    unhashed,    \* paths of potential_duplicates_paths not yet hashed
    byHash,      \* files_by_hash: digest of each path hashed
    hashFailed,  \* paths hash_file could not read
    duplicates   \* actual_duplicates once returned

NoPaths == [p \in {} |-> 0]

\* The locals of a fresh call.
Start ==
    /\ stage = "size" /\ unvisited = Matching
    /\ bySize = NoPaths /\ unhashed = {} /\ byHash = NoPaths
    /\ hashFailed = {} /\ duplicates = {}

\* A size pass with an off-by-one at MIN_FILE_SIZE_TO_HASH.
QualifiesAboveThreshold(t, p) ==
    IsFile(t, p) /\ Size[ContentOf(t, p)] > MinFileSizeToHash

\* item.is_file() (following links), for a link resolve(strict=True) and
\* is_file() of its target, then st_size >= MIN_FILE_SIZE_TO_HASH.  One
\* entry is one step: is_file() succeeding means the resolve right after
\* it does too.
Qualifies(t, p) == IsFile(t, p) /\ Size[ContentOf(t, p)] >= MinFileSizeToHash

\* One iteration of the rglob loop (lines 40-69).
VisitEntry ==
    /\ stage = "size"
    /\ \E p \in unvisited :
         /\ unvisited' = unvisited \ {p}
         /\ bySize' = IF Qualifies(fs, p) THEN bySize @@ (p :> Size[ContentOf(fs, p)])
                                           ELSE bySize
    /\ UNCHANGED <<fs, stage, unhashed, byHash, hashFailed, duplicates>>

\* potential_duplicates_paths: the paths whose size bucket holds two or
\* more; none, and the function returns ({}, files_by_size) at once.
SizePassDone ==
    /\ stage = "size" /\ unvisited = {}
    /\ LET shared == {p \in DOMAIN bySize :
                        \E q \in DOMAIN bySize \ {p} : bySize[q] = bySize[p]}
       IN  /\ unhashed' = shared
           /\ stage' = IF shared = {} THEN "done" ELSE "hash"
    /\ UNCHANGED <<fs, unvisited, bySize, byHash, hashFailed, duplicates>>

(***************************************************************************)
(* One path of the hash pass (lines 87-104): resolve(strict=True) again, *)
(* is_file() of the result, hash_file.  A missing path (FileNotFoundError)*)
(* or any OSError, including ELOOP from Python 3.13 on, skips the path.  *)
(* hash_file returns None when the read fails.                           *)
(***************************************************************************)
HashEntry ==
    /\ stage = "hash"
    /\ \E p \in unhashed :
         /\ ~(ResolveLoopRaises /\ Loops(fs, p))
         /\ unhashed' = unhashed \ {p}
         /\ IF IsFile(fs, p)
               THEN \/ byHash' = byHash @@ (p :> ContentOf(fs, p)) /\ UNCHANGED hashFailed
                    \/ hashFailed' = hashFailed \cup {p} /\ UNCHANGED byHash
               ELSE UNCHANGED <<byHash, hashFailed>>
    /\ UNCHANGED <<fs, stage, unvisited, bySize, duplicates>>

\* Before Python 3.13 the resolve of a looping path (line 92) raises
\* RuntimeError, which no handler catches.  A path in a bucket resolved to
\* a file in the size pass, so only another writer can make it loop.
HashRaises == stage = "hash" /\ ResolveLoopRaises /\ \E p \in unhashed : Loops(fs, p)

\* actual_duplicates: the digests shared by two or more hashed paths.
HashPassDone ==
    /\ stage = "hash" /\ unhashed = {}
    /\ duplicates' = {g \in {{p \in DOMAIN byHash : byHash[p] = d} : d \in Range(byHash)} :
                        Cardinality(g) > 1}
    /\ stage' = "done"
    /\ UNCHANGED <<fs, unvisited, bySize, unhashed, byHash, hashFailed>>

Step == VisitEntry \/ SizePassDone \/ HashEntry \/ HashPassDone
=============================================================================
