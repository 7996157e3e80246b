------------------------------ MODULE PathGuard ------------------------------
(***************************************************************************)
(* guard_against_nested_keyspace, and what it is about: where a data       *)
(* directory really is.  A path is the sequence of the names of an         *)
(* absolute path (a relative one is joined to the working directory        *)
(* first).  A file tree is a function from the paths of its entries, links *)
(* resolved, to directories and symbolic links; the root is <<>>.          *)
(***************************************************************************)
EXTENDS Naturals, Sequences, SequencesExt

CONSTANTS MaxLinks,     \* links the kernel follows in one resolution (40)
          MaxHops,      \* MAX_SYMLINK_HOPS (40)
          Component     \* what a component of a path can be

\* The comment on MAX_SYMLINK_HOPS: it matches the kernel's bound.
ASSUME HopsAssumption == MaxLinks \in Nat /\ MaxHops \in Nat /\ MaxLinks <= MaxHops

ASSUME ComponentAssumption == {"..", "partitions"} \subseteq Component

Dir == [link |-> FALSE, absolute |-> FALSE, to |-> <<>>]
Link(abs, path) == [link |-> TRUE, absolute |-> abs, to |-> path]

Resolved(p) == [end |-> "found", at |-> p]
Failed(why) == [end |-> why, at |-> <<>>]

Names == Seq(Component)

\* A resolution under way: where it is, the names it has left, the links it followed.
Walks == [at : Names, path : Names, links : 0 .. MaxLinks]
Walking(at, path, links) == [at |-> at, path |-> path, links |-> links]
StartOf(path) == Walking(<<>>, path, 0)

Entry(w) == Append(w.at, Head(w.path))
Parent(p) == IF p = <<>> THEN p ELSE Front(p)
IsLink(fs, p) == p \in DOMAIN fs /\ fs[p].link
Absent(fs, p) == p # <<>> /\ p \notin DOMAIN fs

\* What stops the kernel at the first of these names.  One that doesn't exist: the call
\* "fails", or it is "made" a directory, or that too, and no ".." leads out ("oneway").
Obstacle(fs, w, absent) ==
    IF Head(w.path) = ".."
    THEN IF absent = "oneway" /\ Absent(fs, w.at) THEN "back" ELSE "none"
    ELSE IF absent = "fails" /\ Absent(fs, Entry(w)) THEN "missing"
    ELSE IF IsLink(fs, Entry(w)) /\ w.links = MaxLinks THEN "loop" ELSE "none"

Advance(fs, w) ==
    LET rest == Tail(w.path)
        e == fs[Entry(w)]
    IN IF Head(w.path) = ".." THEN Walking(Parent(w.at), rest, w.links)
       ELSE IF ~IsLink(fs, Entry(w)) THEN Walking(Entry(w), rest, w.links)
       ELSE Walking(IF e.absolute THEN <<>> ELSE w.at, e.to \o rest, w.links + 1)

\* Entries lie in directories, and <<>> needs none.
IsTree(fs) ==
    /\ DOMAIN fs \subseteq Names \ {<<>>}
    /\ \A p \in DOMAIN fs :
          /\ fs[p] \in [link : BOOLEAN, absolute : BOOLEAN, to : Names]
          /\ Len(p) > 1 => Front(p) \in DOMAIN fs /\ ~fs[Front(p)].link

\* The kernel's resolution of path from the root, following links as it goes.
Walk(fs, path, absent) ==
    LET go[w \in Walks] ==
            LET obstacle == Obstacle(fs, w, absent)
            IN IF w.path = <<>> THEN Resolved(w.at)
               ELSE IF obstacle # "none" THEN Failed(obstacle)
               ELSE go[Advance(fs, w)]
    IN go[StartOf(path)]

\* std::fs::canonicalize
Canonicalize(fs, path) == Walk(fs, path, "fails")

\* The entry a path names, its last link not followed.
EntryOf(fs, path) ==
    LET dir == Canonicalize(fs, Front(path))
    IN IF Last(path) = ".." THEN Canonicalize(fs, path)
       ELSE IF dir.end # "found" THEN dir
       ELSE IF Append(dir.at, Last(path)) \in DOMAIN fs
       THEN Resolved(Append(dir.at, Last(path))) ELSE Failed("missing")

\* symlink_metadata(path).is_ok()
LStat(fs, path) == path = <<>> \/ EntryOf(fs, path).end = "found"
-----------------------------------------------------------------------------
(* canonicalize_bounded                                                    *)

\* How many names the walk up to an existing entry takes off, and how many it keeps.
TakenOff(fs, path) ==
    CHOOSE n \in 0 .. Len(path) :
        /\ LStat(fs, SubSeq(path, 1, Len(path) - n))
        /\ \A m \in 0 .. n - 1 : ~LStat(fs, SubSeq(path, 1, Len(path) - m))

Kept(fs, path) == Len(path) - TakenOff(fs, path)

Existing(fs, path) == SubSeq(path, 1, Kept(fs, path))

\* The names taken off on the way; file_name() of a path that ends in ".." is none.
TailNames(fs, path) ==
    LET taken[n \in Kept(fs, path) .. Len(path)] ==
            IF n = Kept(fs, path) THEN <<>>
            ELSE IF path[n] = ".." THEN taken[n - 1] ELSE Append(taken[n - 1], path[n])
    IN taken[Len(path)]

WithTail_Dropped(canonical, tail) == canonical

WithTail(canonical, tail) ==
    IF canonical.end = "found" THEN Resolved(canonical.at \o tail) ELSE canonical

\* Where the link at the end of existing leads; its parent is taken as written.
LinkTarget(existing, entry) ==
    IF entry.absolute THEN entry.to ELSE Front(existing) \o entry.to

CanonicalizeWithNonexistent(fs, path) ==
    LET bounded[w \in [path : Names, hops : 0 .. MaxHops + 1]] ==
            LET existing == Existing(fs, w.path)
                direct == Canonicalize(fs, existing)
                target == LinkTarget(existing, fs[EntryOf(fs, existing).at])
            IN IF w.hops > MaxHops THEN Failed("loop")
               ELSE WithTail(IF direct.end = "found" THEN direct
                             ELSE bounded[[path |-> target, hops |-> w.hops + 1]],
                             TailNames(fs, w.path))
    IN bounded[[path |-> path, hops |-> 0]]

Nested(path) == \E i \in 1 .. Len(path) - 1 : path[i] = "partitions"

Verdict_Lexical(fs, path) == IF Nested(path) THEN "nested" ELSE "clear"

VerdictOn(canonical) ==
    IF canonical.end # "found" THEN "unresolved"
    ELSE IF Nested(canonical.at) THEN "nested" ELSE "clear"

\* guard_against_nested_keyspace
Verdict(fs, path) == VerdictOn(CanonicalizeWithNonexistent(fs, path))
-----------------------------------------------------------------------------
(* What the guard's answer is judged by                                    *)

\* Where data written under path ends up, once the missing directories exist.
Locate(fs, path) == Walk(fs, path, "made")

\* ".." out of a directory that doesn't exist yet: the guard drops it.
BackFromMissing(fs, path) == Walk(fs, path, "oneway").end = "back"

Missing(fs, path) ==
    [i \in 1 .. TakenOff(fs, path) |-> Locate(fs, SubSeq(path, 1, Kept(fs, path) + i)).at]

MakeDirs(fs, paths) ==
    [p \in (DOMAIN fs \cup paths) \ {<<>>} |-> IF p \in DOMAIN fs THEN fs[p] ELSE Dir]

\* mkdir makes the directory, or it is there.
MkDirWorks(fs, path) ==
    LET dir == Canonicalize(fs, Front(path))
    IN \/ Canonicalize(fs, path).end = "found"
       \/ /\ dir.end = "found" /\ Last(path) # ".."
          /\ Append(dir.at, Last(path)) \notin DOMAIN fs

\* fs::create_dir_all makes the missing directories in turn, and comes as far as the
\* n-th of them: what is behind a link that leads nowhere cannot be made.
ComesTo(fs, path, n) ==
    \A i \in 1 .. n :
        MkDirWorks(MakeDirs(fs, {Missing(fs, path)[j] : j \in 1 .. i - 1}),
                   SubSeq(path, 1, Kept(fs, path) + i))

Makeable(fs, path) ==
    {Missing(fs, path)[n] : n \in {m \in 1 .. TakenOff(fs, path) : ComesTo(fs, path, m)}}

Creatable(fs, path) ==
    /\ Canonicalize(fs, Existing(fs, path)).end = "found"
    /\ ComesTo(fs, path, TakenOff(fs, path))
=============================================================================
