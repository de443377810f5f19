---------------------------------- MODULE Paths ----------------------------------
(***************************************************************************)
(* Slash-separated paths as sequences of their components: a leading slash *)
(* is an empty first component, "a//b" has an empty one in the middle, and *)
(* a backslash is a letter of a component until it is made a slash.        *)
(***************************************************************************)
EXTENDS Integers, SequencesExt, Lists

IsAbs(p) == p # <<>> /\ Head(p) = ""

\* One more part of a path from "root" or from "here", after what is kept of those
\* before it.  At the root ".." stays there.
CleanStep(from, kept, part) ==
    IF part \in {"", "."} THEN kept
    ELSE IF part # ".." THEN Append(kept, part)
    ELSE IF kept # <<>> /\ Last(kept) # ".." THEN Front(kept)
    ELSE IF from = "root" THEN kept
    ELSE Append(kept, "..")

\* What is kept of the first n parts.
Kept(from, p) ==
    LET kept[n \in 0..Len(p)] ==
          IF n = 0 THEN <<>> ELSE CleanStep(from, kept[n - 1], p[n])
    IN  kept

\* path.Clean of a relative path; <<>> is ".".
Clean(p) == Kept("here", p)[Len(p)]

\* filepath.Clean of an absolute path, without its leading slash.
CleanAbs(p) == Kept("root", p)[Len(p)]

\* A cleaned path that leaves where it starts from does so first.
Escapes(p) == LET c == Clean(p) IN c # <<>> /\ Head(c) = ".."

\* fsx.Within, of clean absolute paths.
Within(p, dir) == IsPrefix(dir, p)

\* Components with a backslash in them, and what is on its two sides.
Backslashed == {"a\\b", "..\\a"}
Sides(part) == IF part = "a\\b" THEN <<"a", "b">> ELSE <<"..", "a">>

checkRepoRelPath(p) ==
    /\ ~IsAbs(p)
    /\ \A i \in DOMAIN p : p[i] \notin Backslashed
    /\ ~Escapes(p)

-----------------------------------------------------------------------------
(* Names in an archive. *)

\* Every backslash made a slash.
ToSlash(name) ==
    Concat([i \in DOMAIN name |-> IF name[i] \in Backslashed THEN Sides(name[i]) ELSE <<name[i]>>])

WithoutDot(name) == IF Len(name) > 1 /\ Head(name) = "." THEN Tail(name) ELSE name

\* Mutant of stripRoot: the name is cleaned first.
stripRoot_Cleans(name) ==
    LET c == Clean(ToSlash(name)) IN
    IF IsAbs(ToSlash(name)) \/ Len(c) < 2 THEN <<>> ELSE Tail(c)

\* What is left of a name without the archive's top directory, as it stands;
\* <<>> where nothing is.
stripRoot(name) ==
    LET n == WithoutDot(ToSlash(name)) IN
    IF IsAbs(n) \/ Len(n) < 2 \/ Tail(n) = <<"">> THEN <<>> ELSE Tail(n)

safeRelPath(rel) == rel # <<>> /\ ~IsAbs(rel) /\ ~Escapes(rel)

-----------------------------------------------------------------------------

\* How deep below its start each part of a path is, walked as it is written.
Depth(p, n) ==
    Cardinality({i \in 1..n : p[i] \notin {"", ".", ".."}})
        - Cardinality({i \in 1..n : p[i] = ".."})

\* A path that is never above its start, part by part.
NeverAbove(p) == \A n \in 0..Len(p) : Depth(p, n) >= 0

=============================================================================
