--------------------------------- MODULE Archive ---------------------------------
(***************************************************************************)
(* extractTarGz: the entries of an archive, one after another, into an     *)
(* empty directory, under limits on files and bytes.                       *)
(***************************************************************************)
EXTENDS Paths

CONSTANTS
    Parts,              \* what names in the archive are made of
    MaxDepth,           \* bound: how many parts a name has
    MaxEntries,         \* bound: how many entries an archive has
    MaxArchiveFiles, MaxArchiveBytes

ASSUME ArchiveAssumption == MaxArchiveBytes \in Nat /\ MaxDepth \in Nat

VARIABLES
    extracting,     \* running, done, or refused with an error
    entries,        \* how many entries were read
    files,
    totalBytes,
    dirs,           \* the directories below the destination, <<>> included
    written,        \* the files there, and how many bytes of each
    sizes,          \* how many the archive says
    strayed         \* an entry was taken whose name leaves the top directory

avars == <<extracting, entries, files, totalBytes, dirs, written, sizes, strayed>>

Names == UNION {[1..n -> Parts] : n \in 1..MaxDepth}

ATypeOK ==
    /\ extracting \in {"running", "done", "refused"}
    /\ entries \in 0..MaxEntries
    /\ files \in 0..(MaxArchiveFiles + 1)
    /\ totalBytes \in 0..(MaxArchiveBytes + 1)
    /\ DOMAIN written = DOMAIN sizes
    /\ DOMAIN written \cap dirs = {}

AInit ==
    /\ extracting = "running"
    /\ entries = 0 /\ files = 0 /\ totalBytes = 0
    /\ dirs = {<<>>}
    /\ written = <<>> /\ sizes = <<>>
    /\ strayed = FALSE

Parents(t)  == {SubSeq(t, 1, n) : n \in 0..(Len(t) - 1)}
Put(f, t, n) == [u \in DOMAIN f \cup {t} |-> IF u = t THEN n ELSE f[u]]
IsFile(t)   == t \in DOMAIN written

Refuse == /\ extracting' = "refused"
          /\ UNCHANGED <<totalBytes, dirs, written, sizes, strayed>>

\* The next entry that has a name below the top directory.
Entry(name) ==
    /\ extracting = "running" /\ entries < MaxEntries
    /\ stripRoot(name) # <<>>
    /\ entries' = entries + 1

Stray(name) == strayed' = (strayed \/ ~NeverAbove(Tail(WithoutDot(ToSlash(name)))))

\* The root's own entry, and links, devices and the rest.
Skip ==
    /\ extracting = "running" /\ entries < MaxEntries
    /\ entries' = entries + 1
    /\ UNCHANGED <<extracting, files, totalBytes, dirs, written, sizes, strayed>>

EntryEscapes(name) ==
    /\ Entry(name)
    /\ ~safeRelPath(stripRoot(name))
    /\ Refuse
    /\ UNCHANGED files

\* MkdirAll fails where a file is in the way.
Directory(name) ==
    LET target == Clean(stripRoot(name)) IN
    /\ Entry(name)
    /\ safeRelPath(stripRoot(name))
    /\ UNCHANGED files
    /\ IF \E u \in Parents(target) \cup {target} : IsFile(u)
         THEN Refuse
         ELSE /\ dirs' = dirs \cup Parents(target) \cup {target}
              /\ Stray(name)
              /\ UNCHANGED <<extracting, totalBytes, written, sizes>>

\* Mutant of Limit: not a byte more than is allowed is read.
Limit_Exact(size) ==
    IF size < MaxArchiveBytes - totalBytes THEN size ELSE MaxArchiveBytes - totalBytes

\* How much of a file the LimitReader lets through: one byte more than is
\* allowed, so that too much can be told from just enough.
Limit(size) ==
    IF size < MaxArchiveBytes - totalBytes + 1
      THEN size ELSE MaxArchiveBytes - totalBytes + 1

File(name, size) ==
    LET target == Clean(stripRoot(name)) IN
    /\ Entry(name)
    /\ safeRelPath(stripRoot(name))
    /\ files' = files + 1
    /\ IF \/ files' > MaxArchiveFiles
          \/ \E u \in Parents(target) : IsFile(u)
          \/ target \in dirs
         THEN Refuse
         ELSE /\ dirs' = dirs \cup Parents(target)
              /\ written' = Put(written, target, Limit(size))
              /\ sizes' = Put(sizes, target, size)
              /\ totalBytes' = totalBytes + Limit(size)
              /\ extracting' = IF totalBytes' > MaxArchiveBytes THEN "refused" ELSE "running"
              /\ Stray(name)

\* The archive ends, or is broken off.
EndOfArchive ==
    /\ extracting = "running"
    /\ extracting' \in {"done", "refused"}
    /\ UNCHANGED <<entries, files, totalBytes, dirs, written, sizes, strayed>>

ANext ==
    \/ Skip
    \/ \E name \in Names :
         \/ EntryEscapes(name) \/ Directory(name)
         \/ \E size \in 0..(MaxArchiveBytes + 1) : File(name, size)
    \/ EndOfArchive

ASpec == AInit /\ [][ANext]_avars

-----------------------------------------------------------------------------

\* An extraction that succeeds has written every file whole, the one that fills
\* the limit to the byte included: a snapshot is never short of what the
\* archive held (github.go:218-228).
WholeOrRefused ==
    extracting = "done" => written = sizes

\* No name is taken, however it is spelt, that leaves the archive's top
\* directory on its way, and everything lands below the destination
\* (github.go:256-261).
ArchiveStaysInside ==
    /\ ~strayed
    /\ \A t \in dirs \cup DOMAIN written : ".." \notin {t[i] : i \in DOMAIN t}

=============================================================================
