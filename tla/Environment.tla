---------------------------- MODULE Environment -----------------------------
(***************************************************************************)
(* Other processes that write to the scanned tree while the program runs *)
(* (spec, section 5: the Replacer holds no lock, and concurrent external *)
(* modification is an accepted race).  This is not code of the           *)
(* repository: it over-approximates any other writer by a bounded number *)
(* of single-entry changes: a regular file rewritten, an entry removed,  *)
(* a symbolic link pointed elsewhere (possibly at itself).  fsExt is a   *)
(* history variable: the tree as the other writers alone would have left *)
(* it, i.e. the start tree with only their changes applied.              *)
(***************************************************************************)
EXTENDS Naturals, FileTree

CONSTANT MaxExternalChanges

VARIABLES fs, fsExt, extChanges

\* Apply one change at p to the tree and to the history.
Put(p, e) == fs' = [fs EXCEPT ![p] = e] /\ fsExt' = [fsExt EXCEPT ![p] = e]

\* A regular file is rewritten in place with content c.
Rewrite(p, c) == fs[p].type = "file" /\ Put(p, File(c))

\* The entry at p is deleted.
Delete(p) == fs[p].type # "none" /\ Put(p, NoEntry)

\* The symbolic link at p is replaced by a relative link to slot q.
Retarget(p, q) == fs[p].type = "link" /\ Put(p, Link(RelPath(q, Parent(p))))

Change ==
    /\ extChanges < MaxExternalChanges
    /\ extChanges' = extChanges + 1
    /\ \E p \in Slots :
          \/ \E c \in Contents : Rewrite(p, c)
          \/ Delete(p)
          \/ \E q \in Slots : Retarget(p, q)
=============================================================================
