--------------------------- MODULE DedupAbstract ----------------------------
(***************************************************************************)
(* What the replacement promises (spec, section 4.2), without the order  *)
(* in which the code does it.  It is called once, on groups of at least  *)
(* two paths of equal content.  One group at a time, any member that     *)
(* resolves to a file not itself to be replaced is kept, and its real    *)
(* file becomes the target; if some member no longer resolves, the whole *)
(* group may be given up and counted as errors.  Then each other member, *)
(* in any order and in one step, becomes a relative link that names the  *)
(* target directly, or is counted as an error, left in place or removed. *)
(* A dry run only counts.  A kill stops everything, and may take the one *)
(* member being replaced with it.                                        *)
(***************************************************************************)
EXTENDS Integers, FileTree

VARIABLES
    fs,       \* the tree
    groups,   \* groups not yet taken
    rest,     \* members of the current group still to replace
    target,   \* the real file the current group's links name
    links,    \* links made (or, in a dry run, intended)
    errs,     \* duplicates counted as errors
    stage     \* "idle", "dry", "live", "done" or "crashed"

vars == <<fs, groups, rest, target, links, errs, stage>>

NoTarget == <<>>

Init ==
    /\ fs \in [Slots -> Entries]
    /\ groups = {} /\ rest = {} /\ target = NoTarget
    /\ links = 0 /\ errs = 0
    /\ stage = "idle"

\* Groups of two or more paths, pairwise disjoint, that read equal files.
EqualGroups(gs) ==
    /\ \A g \in gs : Cardinality(g) >= 2
                     /\ \A p, q \in g : IsFile(fs, p) /\ IsFile(fs, q)
                                        /\ ContentOf(fs, p) = ContentOf(fs, q)
    /\ \A g, h \in gs : g # h => g \cap h = {}

Call ==
    /\ stage = "idle" /\ stage' \in {"dry", "live"}
    /\ EqualGroups(groups')
    /\ UNCHANGED <<fs, rest, target, links, errs>>

\* The program ends without calling the replacement.
Skip == stage = "idle" /\ stage' = "done" /\ UNCHANGED <<fs, groups, rest, target, links, errs>>

Take ==
    /\ stage \in {"dry", "live"} /\ rest = {}
    /\ \E g \in groups :
         /\ groups' = groups \ {g}
         /\ \/ \E k \in g :
                 /\ IsFile(fs, k) /\ Resolve(fs, k).at \notin g \ {k}
                 /\ target' = Resolve(fs, k).at /\ rest' = g \ {k}
                 /\ UNCHANGED errs
            \/ /\ \E k \in g : ~IsFile(fs, k)
               /\ errs' = errs + Cardinality(g) - 1
               /\ UNCHANGED <<rest, target>>
    /\ UNCHANGED <<fs, links, stage>>

Replace ==
    /\ stage = "live"
    /\ \E d \in rest :
         /\ rest' = rest \ {d}
         /\ fs' = [fs EXCEPT ![d] = fs'[d]]
         /\ fs'[d].type = "link" /\ Normalize(Parent(d) \o fs'[d].target) = target
    /\ links' = links + 1
    /\ UNCHANGED <<groups, target, errs, stage>>

Count ==
    /\ stage = "dry"
    /\ \E d \in rest : rest' = rest \ {d}
    /\ links' = links + 1
    /\ UNCHANGED <<fs, groups, target, errs, stage>>

Fail ==
    /\ stage = "live"
    /\ \E d \in rest :
         /\ rest' = rest \ {d}
         /\ fs' \in {fs, [fs EXCEPT ![d] = NoEntry]}
    /\ errs' = errs + 1
    /\ UNCHANGED <<groups, target, links, stage>>

Finish ==
    /\ stage \in {"dry", "live"} /\ groups = {} /\ rest = {}
    /\ stage' = "done"
    /\ UNCHANGED <<fs, groups, rest, target, links, errs>>

Crash ==
    /\ stage \in {"dry", "live"} /\ stage' = "crashed"
    /\ fs' \in {fs} \cup {[fs EXCEPT ![d] = NoEntry] : d \in rest}
    /\ UNCHANGED <<groups, rest, target, links, errs>>

Next == Call \/ Skip \/ Take \/ Replace \/ Count \/ Fail \/ Finish \/ Crash

Spec == Init /\ [][Next]_vars
=============================================================================
