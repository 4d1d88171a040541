------------------------------ MODULE FileTree ------------------------------
(***************************************************************************)
(* The directory tree that deduplicate_with_links.py reads and mutates.   *)
(* A path is a sequence of names; the scan root is <<>>.  Directories are *)
(* fixed for a run (the program never creates or removes one); at each   *)
(* slot of Slots there is nothing, a regular file holding a content, or  *)
(* a symbolic link whose target is a relative path (a sequence of names  *)
(* and "..").  The operators below are what the program gets from       *)
(* pathlib and os.path: is_symlink, is_file, resolve(strict=True) and    *)
(* os.path.relpath.                                                       *)
(***************************************************************************)
EXTENDS Naturals, Sequences, FiniteSets, SequencesExt

CONSTANTS
    Dirs,       \* directory paths, <<>> (the resolved scan root) among them
    Slots,      \* paths at which a file or a symbolic link may exist
    Matching,   \* the slots whose suffix.lower() is in ('.aar', '.pom', '.jar')
    Contents,   \* file contents; a content stands for its SHA-256 digest
    Size,       \* Size[c] is st_size of a file holding c
    NameOrder,  \* every path component once, in Python's str order
    MaxHops     \* symbolic links followed before resolution fails with ELOOP

Names == Range(NameOrder)

ASSUME
    /\ <<>> \in Dirs
    /\ Dirs \cap Slots = {}
    /\ Matching \subseteq Slots
    /\ Size \in [Contents -> Nat]
    /\ \A p \in Dirs \cup Slots : p \in Seq(Names)
    /\ MaxHops \in Nat \ {0}

NoEntry == [type |-> "none"]
File(c) == [type |-> "file", content |-> c]
Link(t) == [type |-> "link", target |-> t]

Entries ==
    {NoEntry} \cup [type : {"file"}, content : Contents]
      \cup [type : {"link"}, target : Seq(Names \cup {".."})]

Parent(p) == SubSeq(p, 1, Len(p) - 1)

(***************************************************************************)
(* Lexical normalisation of a path: ".." drops the previous component and *)
(* stays at the root.  Lexical and physical resolution agree because no   *)
(* directory of the tree is itself a symbolic link.                       *)
(***************************************************************************)
Normalize(p) ==
    FoldLeft(LAMBDA acc, n : IF n = ".." THEN IF acc = <<>> THEN acc ELSE Front(acc)
                                          ELSE Append(acc, n),
             <<>>, p)

(***************************************************************************)
(* Path.resolve(strict=True) followed by is_file(): the outcome records   *)
(* whether a regular file was reached, and the path where resolution     *)
(* stopped (the real file, or the missing, directory or looping path).   *)
(***************************************************************************)
RECURSIVE ResolveFrom(_, _, _)
ResolveFrom(fs, p, hops) ==
    CASE p \in Dirs                           -> [ok |-> FALSE, at |-> p]
      [] p \notin Slots                       -> [ok |-> FALSE, at |-> p]
      [] fs[p].type = "none"                  -> [ok |-> FALSE, at |-> p]
      [] fs[p].type = "file"                  -> [ok |-> TRUE,  at |-> p]
      [] hops = 0                             -> [ok |-> FALSE, at |-> p]
      [] OTHER -> ResolveFrom(fs, Normalize(Parent(p) \o fs[p].target), hops - 1)

Resolve(fs, p) == ResolveFrom(fs, p, MaxHops)

\* Path.is_file(): follows links, FALSE for broken links, loops, directories.
IsFile(fs, p) == Resolve(fs, p).ok

\* Path.is_symlink(): lstat, does not follow the link.
IsLink(fs, p) == fs[p].type = "link"

\* The content read through p (valid when IsFile(fs, p)).
ContentOf(fs, p) == fs[Resolve(fs, p).at].content

\* The contents held by the regular files of the tree.
StoredContents(fs) == {fs[p].content : p \in {q \in Slots : fs[q].type = "file"}}

(***************************************************************************)
(* os.path.relpath(target, start) for absolute paths: one ".." for every  *)
(* component of start below the common prefix, then the rest of target.  *)
(***************************************************************************)
RelPath(target, start) ==
    LET k == Len(LongestCommonPrefix({target, start}))
    IN  [i \in 1..(Len(start) - k) |-> ".."] \o SubSeq(target, k + 1, Len(target))

\* Resolution of p ends in a symbolic-link loop (ELOOP).
Loops(fs, p) ==
    LET r == Resolve(fs, p) IN ~r.ok /\ r.at \in Slots /\ fs[r.at].type = "link"

\* A slot initially holds nothing, a file, or a relative link to another slot.
EntriesAt(p) ==
    {NoEntry} \cup {File(c) : c \in Contents}
      \cup {Link(RelPath(q, Parent(p))) : q \in Slots \ {p}}

InitialTrees ==
    {t \in [Slots -> UNION {EntriesAt(p) : p \in Slots}] : \A p \in Slots : t[p] \in EntriesAt(p)}

(***************************************************************************)
(* str(p) < str(q): components compare in NameOrder, a proper prefix     *)
(* first.                                                                 *)
(***************************************************************************)
Rank(n) == CHOOSE i \in DOMAIN NameOrder : NameOrder[i] = n

RECURSIVE PathLess(_, _)
PathLess(p, q) ==
    CASE p = <<>>            -> q # <<>>
      [] q = <<>>            -> FALSE
      [] Head(p) = Head(q)   -> PathLess(Tail(p), Tail(q))
      [] OTHER               -> Rank(Head(p)) < Rank(Head(q))
=============================================================================
