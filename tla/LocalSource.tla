------------------------------- MODULE LocalSource -------------------------------
(***************************************************************************)
(* The local source: a directory that may be edited at any moment, hashed  *)
(* and copied one file at a time.                                          *)
(*                                                                         *)
(* A directory gives each path a version of its file, 0 where there is     *)
(* none.  The hash of a directory is its content, without what skipDir and *)
(* the regular-file test leave out.                                        *)
(***************************************************************************)
EXTENDS Naturals, Sequences, FiniteSets

CONSTANTS
    Order,          \* the paths, in the order WalkDir takes them
    Skipped,        \* those in .git or .incoming-*, and those not regular
    Versions,       \* how many versions a file may have
    MaxSnapshots    \* bound: how many snapshots are made

ASSUME LocalAssumption ==
    /\ Order \in Seq({Order[i] : i \in DOMAIN Order})
    /\ Versions \in Nat

VARIABLES
    dir,        \* the directory
    pc,         \* idle, resolving, checking or copying
    seen,       \* what the walk under way has read
    ref,        \* the ref being fetched
    edited,     \* the directory has changed since the check of ref began
    store       \* the snapshots: ref, content and whether edited while made

lvars == <<dir, pc, seen, ref, edited, store>>

AllPaths == {Order[i] : i \in DOMAIN Order}
Contents == [DOMAIN Order -> 0..Versions]
Hash(d)  == [i \in DOMAIN Order |-> IF Order[i] \in Skipped THEN 0 ELSE d[Order[i]]]
Refs     == {Hash(d) : d \in [AllPaths -> 0..Versions]}

LTypeOK ==
    /\ dir \in [AllPaths -> 0..Versions]
    /\ pc \in {"idle", "resolving", "checking", "copying"}
    /\ seen \in UNION {[1..n -> 0..Versions] : n \in 0..Len(Order)}
    /\ ref \in Contents
    /\ edited \in BOOLEAN
    /\ \A s \in store : s.ref \in Contents /\ s.content \in Contents

LInit ==
    /\ dir \in [AllPaths -> 0..Versions]
    /\ pc = "idle"
    /\ seen = <<>>
    /\ ref = Hash(dir)
    /\ edited = FALSE
    /\ store = {}

Edit ==
    /\ \E f \in AllPaths, v \in 0..Versions : dir' = [dir EXCEPT ![f] = v]
    /\ edited' = (pc \in {"checking", "copying"})
    /\ UNCHANGED <<pc, seen, ref, store>>

Begin(step) ==
    /\ pc' = step
    /\ seen' = <<>>

Walked == Len(seen) = Len(Order)

\* Resolve, and Acquire with the ref it gave or with one from outside.
ResolveBegin ==
    /\ pc = "idle" /\ Cardinality(store) < MaxSnapshots
    /\ Begin("resolving")
    /\ UNCHANGED <<dir, ref, edited, store>>

Acquire(r) ==
    /\ ref' = r
    /\ edited' = FALSE
    /\ IF \E s \in store : s.ref = r
         THEN Begin("idle") ELSE Begin("checking")
    /\ UNCHANGED <<dir, store>>

Resolved == pc = "resolving" /\ Walked /\ Acquire(seen)

AcquireExplicit ==
    /\ pc = "idle" /\ Cardinality(store) < MaxSnapshots
    /\ \E r \in Refs : Acquire(r)

\* One file is hashed or copied; what the walk leaves out is not.
Visit ==
    /\ pc # "idle" /\ ~Walked
    /\ seen' = Append(seen, LET f == Order[Len(seen) + 1] IN
                            IF f \in Skipped THEN 0 ELSE dir[f])
    /\ UNCHANGED <<dir, pc, ref, edited, store>>

\* A file that was listed is gone or not readable, or the context is over.
VisitFails ==
    /\ pc # "idle"
    /\ Begin("idle")
    /\ UNCHANGED <<dir, ref, edited, store>>

\* Mutant of Checked: a resolved ref is not looked at again.
Checked_Trusts ==
    /\ pc = "checking" /\ Walked
    /\ Begin("copying")
    /\ UNCHANGED <<dir, ref, edited, store>>

\* The directory hashes to the ref that was asked for, or the fetch is refused.
Checked ==
    /\ pc = "checking" /\ Walked
    /\ IF seen = ref THEN Begin("copying") ELSE Begin("idle")
    /\ UNCHANGED <<dir, ref, edited, store>>

Copied ==
    /\ pc = "copying" /\ Walked
    /\ store' = store \cup {[ref |-> ref, content |-> seen, edited |-> edited]}
    /\ Begin("idle")
    /\ UNCHANGED <<dir, ref, edited>>

LNext ==
    \/ Edit
    \/ ResolveBegin \/ Resolved \/ AcquireExplicit
    \/ Visit \/ VisitFails
    \/ Checked \/ Copied

LSpec == LInit /\ [][LNext]_lvars

-----------------------------------------------------------------------------

\* A snapshot holds another content than its name says only if somebody edited
\* the directory between the start of the second hash and the end of the copy:
\* edits before that, and refs that are not the directory's, are refused
\* (local.go:75-82).
OnlyRacesMislabel ==
    \A s \in store : s.content # s.ref => s.edited

\* local.go:79-82, without the "only if": a snapshot is what its name says.
SnapshotIsItsRef ==
    \A s \in store : s.content = s.ref

=============================================================================
