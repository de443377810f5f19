------------------------------ MODULE UpdateRun ------------------------------
(***************************************************************************)
(* One update of a node-box root, from Execute to the snapshot cleanup:    *)
(* the state file, the two pointer files, the snapshot directories and the *)
(* output files, as one run after another changes them.  The update lock   *)
(* (module UpdateLock) lets one process run at a time, so a run is the     *)
(* whole of the concurrency here; what interleaves with it is the world:   *)
(* a crash, a full disk, a hand edit, a lost state file, a dead source.    *)
(*                                                                         *)
(* Data is abstracted to what the properties tell apart.  An output's      *)
(* content is the snapshot and the set of nodes it was assembled from; a   *)
(* snapshot is its ref and its age among those on disk, which is all that  *)
(* List and GC look at.                                                    *)
(***************************************************************************)
EXTENDS Integers, FiniteSets

CONSTANTS
    Refs,        \* snapshot names: commit shas, or hashes of a local directory
    NoRef,       \* the empty ref, and the content of a pointer file not there
    Unusable,    \* refs whose config.json does not load
    NodeSets,    \* what fetching the subscriptions can come back with
    NumFiles,    \* how many outputs config.json lists
    Keep,        \* source.DefaultKeep
    Foreign,     \* an output as no run wrote it: absent, or edited by hand
    Events       \* what the world does in this instance, of EventKinds

EventKinds == {"crash",    \* the process dies
               "write",    \* an output cannot be written
               "pointer",  \* a pointer file cannot be written
               "save",     \* the state file cannot be written
               "remove",   \* a snapshot directory cannot be removed
               "edit",     \* somebody edits or deletes an output
               "lose",     \* somebody deletes or damages the state file
               "pull"}     \* a process without the lock fetches a snapshot

ASSUME RefsAssumption  == NoRef \notin Refs /\ Unusable \subseteq Refs
ASSUME SizeAssumption  == NumFiles \in Nat \ {0} /\ Keep \in Nat \ {0}
ASSUME EventAssumption == Events \subseteq EventKinds

Files    == 1..NumFiles
Contents == [ref : Refs, nodes : NodeSets]

ASSUME ForeignAssumption == Foreign \notin Contents

MaybeRef == Refs \cup {NoRef}
Triggers == [ref : MaybeRef, force : BOOLEAN]
OnDisk   == Contents \cup {Foreign}

VARIABLES
    \* On disk
    age,         \* age[r]: r is the age[r]-th newest snapshot, 0 if not there
    current,     \* the two pointer files, NoRef if absent
    previous,
    state,       \* state.json as LoadState would read it
    disk,        \* the output files
    \* In the running process
    pc,
    trig,        \* the trigger being executed
    mem,         \* the State in memory
    snap,        \* the snapshot being applied
    nodes,       \* what its subscriptions answered
    next,        \* the first output not yet handled by Write
    sweep,       \* what GC has still to remove
    \* Ghosts, read by properties only
    edited,      \* outputs changed from outside since Write last handled them
    history,     \* the last two distinct refs whose outputs were all written
    refused      \* in this run the source named a snapshot that does not load

stored == <<age, current, previous, state, disk>>
local  == <<trig, mem, snap, nodes, next, sweep>>
ghosts == <<edited, history, refused>>
vars   == <<stored, pc, local, ghosts>>

States == [ref : MaybeRef, outputs : [Files -> OnDisk],
           updating : BOOLEAN, failed : BOOLEAN]

EmptyState == [ref |-> NoRef, outputs |-> [f \in Files |-> Foreign],
               updating |-> FALSE, failed |-> FALSE]

NoTrigger == [ref |-> NoRef, force |-> FALSE]

RunSteps == {"acquire", "build", "write", "previous", "current", "record",
             "gc", "sweep", "fail"}

\* The steps after the build: what is applied is known.
Applying == {"write", "previous", "current", "record", "gc", "sweep"}

TypeOK ==
    /\ age \in [Refs -> Nat]
    /\ current \in MaybeRef /\ previous \in MaybeRef
    /\ state \in States /\ mem \in States
    /\ disk \in [Files -> OnDisk]
    /\ pc \in RunSteps \cup {"idle"}
    /\ trig \in Triggers
    /\ snap \in MaybeRef
    /\ pc \in {"build"} \cup Applying => snap \in Refs
    /\ nodes \in NodeSets \cup {Foreign}
    /\ pc \in Applying => nodes \in NodeSets
    /\ next \in 1..(NumFiles + 1)
    /\ sweep \in SUBSET Refs
    /\ edited \in SUBSET Files
    /\ history \in [now : MaybeRef, past : MaybeRef]
    /\ refused \in BOOLEAN

Init ==
    /\ age = [r \in Refs |-> 0]
    /\ current = NoRef /\ previous = NoRef
    /\ state = EmptyState
    /\ disk = [f \in Files |-> Foreign]
    /\ pc = "idle"
    /\ trig = NoTrigger /\ mem = EmptyState
    /\ snap = NoRef /\ nodes = Foreign /\ next = 1 /\ sweep = {}
    /\ edited = {}
    /\ history = [now |-> NoRef, past |-> NoRef]
    /\ refused = FALSE

-----------------------------------------------------------------------------
(* The snapshot store. *)

Has(r) == r \in Refs /\ age[r] # 0

\* A pointer file that names no snapshot on disk reads as unset.
Pointer(p) == IF Has(p) THEN p ELSE NoRef

\* age after a fetch of r is committed: r is the newest.
Committed(r) ==
    [x \in Refs |-> IF x = r THEN 1
                    ELSE IF age[x] = 0 THEN 0 ELSE age[x] + 1]

\* age after the directory of r is removed.
Removed(r) ==
    [x \in Refs |-> IF x = r THEN 0
                    ELSE IF age[x] > age[r] THEN age[x] - 1 ELSE age[x]]

\* The value of pointer file p after SetPointer(p, r).  Callers only log a
\* failure, so a refused or a failed write leaves the file as it was.
PointerWrites(p, r) ==
    (IF Has(r) THEN {r} ELSE {p}) \cup (IF "pointer" \in Events THEN {p} ELSE {})

\* The state file after Save of s; callers only log a failure.
SaveWrites(s) == {s} \cup (IF "save" \in Events THEN {state} ELSE {})

-----------------------------------------------------------------------------
(* The steps of a run. *)

Goto(step) == pc' = step

\* A run that is over, or that died, leaves nothing in memory.
Forget ==
    /\ pc' = "idle"
    /\ trig' = NoTrigger /\ mem' = EmptyState
    /\ snap' = NoRef /\ nodes' = Foreign /\ next' = 1 /\ sweep' = {}
    /\ refused' = FALSE

RecordStart(s) == [s EXCEPT !.updating = TRUE]

\* Execute up to the call of execute.  A state file that cannot be read ends
\* the run here with nothing changed.
Start(t) ==
    /\ pc = "idle"
    /\ trig' = t
    /\ mem' = RecordStart(state)
    /\ state' \in SaveWrites(mem')
    /\ Goto("acquire")
    /\ UNCHANGED <<age, current, previous, disk, snap, nodes, next, sweep,
                   ghosts>>

Execute == \E t \in Triggers : Start(t)

\* Rollback executes the ref of the previous pointer, with Force.
Rollback ==
    /\ Pointer(previous) # NoRef
    /\ Start([ref |-> Pointer(previous), force |-> TRUE])

\* The refs acquire can be about: the one asked for, or whatever Resolve says.
Wanted == IF trig.ref = NoRef THEN Refs ELSE {trig.ref}

Use(r) ==
    /\ snap' = r
    /\ Goto("build")
    /\ UNCHANGED <<current, previous, state, disk, trig, mem, nodes, next,
                   sweep, edited, history>>

AcquireOnDisk ==
    /\ pc = "acquire"
    /\ \E r \in Wanted : Has(r) /\ Use(r)
    /\ UNCHANGED <<age, refused>>

\* Mutant of AcquireFetched: current moves at fetch time.
AcquireFetched_MovesCurrent ==
    /\ pc = "acquire"
    /\ \E r \in Wanted \ Unusable :
          /\ ~Has(r)
          /\ age' = Committed(r)
          /\ snap' = r /\ current' = r
    /\ Goto("build")
    /\ UNCHANGED <<previous, state, disk, trig, mem, nodes, next, sweep, ghosts>>

\* Not on disk: fetched into scratch, opened there, then renamed into place.
AcquireFetched ==
    /\ pc = "acquire"
    /\ \E r \in Wanted \ Unusable :
          /\ ~Has(r)
          /\ age' = Committed(r)
          /\ Use(r)
    /\ UNCHANGED refused

\* Mutant of AcquireFallback: an explicit ref falls back like any other.
AcquireFallback_AnyTrigger ==
    /\ pc = "acquire"
    /\ Pointer(current) # NoRef
    /\ Use(Pointer(current))
    /\ UNCHANGED <<age, refused>>

\* Mutant of AcquireFallback: an unset current is not noticed.
AcquireFallback_Unset ==
    /\ pc = "acquire"
    /\ trig.ref = NoRef
    /\ Use(Pointer(current))
    /\ UNCHANGED <<age, refused>>

\* Acquire failed - the source does not answer, or what it sent does not load -
\* and no ref was asked for: build again from what current names.
AcquireFallback ==
    /\ pc = "acquire"
    /\ trig.ref = NoRef
    /\ Pointer(current) # NoRef
    /\ Use(Pointer(current))
    /\ refused' \in {FALSE, \E r \in Unusable : ~Has(r)}
    /\ UNCHANGED age

\* No fallback: an explicit ref, no current snapshot, or the run's context is
\* over (update_timeout, shutdown).
AcquireFailed ==
    /\ pc = "acquire"
    /\ Goto("fail")
    /\ UNCHANGED <<stored, local, ghosts>>

\* The rest of BuildPlan: destinations, modules, subscriptions, assembly and
\* validation, then EnsureDirs.  Nothing of it touches what is modelled here.
BuildPlan ==
    /\ pc = "build"
    /\ nodes' \in NodeSets
    /\ next' = 1
    /\ Goto("write")
    /\ UNCHANGED <<stored, trig, mem, snap, sweep, ghosts>>

BuildFailed ==
    /\ pc = "build"
    /\ Goto("fail")
    /\ UNCHANGED <<stored, local, ghosts>>

Planned == [ref |-> snap, nodes |-> nodes]

\* Mutant of matchesDisk: the recorded content is compared, not the file.
matchesDisk_Recorded(f) == mem.outputs[f] = Planned

matchesDisk(f) == disk[f] = Planned

\* Write handles the outputs in order; each is replaced atomically.
WriteFile ==
    /\ pc = "write" /\ next \in Files
    /\ IF ~trig.force /\ matchesDisk(next)
         THEN UNCHANGED disk
         ELSE disk' = [disk EXCEPT ![next] = Planned]
    /\ edited' = edited \ {next}
    /\ next' = next + 1
    /\ UNCHANGED <<age, current, previous, state, pc, trig, mem, snap, nodes,
                   sweep, history, refused>>

\* Mutant of WriteFailed: the error is not returned.
WriteFailed_Ignored ==
    /\ pc = "write" /\ next \in Files
    /\ "write" \in Events
    /\ next' = next + 1
    /\ UNCHANGED <<stored, pc, trig, mem, snap, nodes, sweep, ghosts>>

WriteFailed ==
    /\ pc = "write" /\ next \in Files
    /\ "write" \in Events
    /\ trig.force \/ ~matchesDisk(next)
    /\ Goto("fail")
    /\ UNCHANGED <<stored, local, ghosts>>

WriteDone ==
    /\ pc = "write" /\ next \notin Files
    /\ history' = IF history.now = snap THEN history
                  ELSE [now |-> snap, past |-> history.now]
    /\ Goto("previous")
    /\ UNCHANGED <<stored, local, edited, refused>>

\* Mutant of MovePrevious: moved on every run, not only when the ref changes.
MovePrevious_Always ==
    /\ pc = "previous"
    /\ IF mem.ref # NoRef
         THEN previous' \in PointerWrites(previous, mem.ref)
         ELSE UNCHANGED previous
    /\ Goto("current")
    /\ UNCHANGED <<age, current, state, disk, local, ghosts>>

MovePrevious ==
    /\ pc = "previous"
    /\ IF mem.ref # NoRef /\ mem.ref # snap
         THEN previous' \in PointerWrites(previous, mem.ref)
         ELSE UNCHANGED previous
    /\ Goto("current")
    /\ UNCHANGED <<age, current, state, disk, local, ghosts>>

MoveCurrent ==
    /\ pc = "current"
    /\ current' \in PointerWrites(current, snap)
    /\ Goto("record")
    /\ UNCHANGED <<age, previous, state, disk, local, ghosts>>

RecordSuccess(ref, outputs) ==
    [ref |-> ref, outputs |-> outputs, updating |-> FALSE, failed |-> FALSE]

Succeed ==
    /\ pc = "record"
    /\ mem' = RecordSuccess(snap, [f \in Files |-> Planned])
    /\ state' \in SaveWrites(mem')
    /\ Goto("gc")
    /\ UNCHANGED <<age, current, previous, disk, trig, snap, nodes, next,
                   sweep, ghosts>>

RecordFailure(s) == [s EXCEPT !.updating = FALSE, !.failed = TRUE]

\* Mutant of Fail: a failed run tries again instead of returning.
Fail_Retries ==
    /\ pc = "fail"
    /\ state' \in SaveWrites(RecordFailure(mem))
    /\ Goto("acquire")
    /\ UNCHANGED <<age, current, previous, disk, local, ghosts>>

Fail ==
    /\ pc = "fail"
    /\ state' \in SaveWrites(RecordFailure(mem))
    /\ Forget
    /\ UNCHANGED <<age, current, previous, disk, edited, history>>

\* Mutants of GC: previous is not pinned; one snapshot too many is kept; the
\* pins are counted among those kept.
GC_PinsCurrentOnly ==
    /\ pc = "gc"
    /\ sweep' = {r \in Refs : age[r] > Keep} \ {Pointer(current)}
    /\ Goto("sweep")
    /\ UNCHANGED <<stored, trig, mem, snap, nodes, next, ghosts>>

GC_KeepsOneMore ==
    /\ pc = "gc"
    /\ sweep' = {r \in Refs : age[r] > Keep + 1}
                  \ {Pointer(current), Pointer(previous)}
    /\ Goto("sweep")
    /\ UNCHANGED <<stored, trig, mem, snap, nodes, next, ghosts>>

GC_CountsPins ==
    /\ pc = "gc"
    /\ LET pins == {Pointer(current), Pointer(previous)}
       IN  sweep' = {r \in Refs : age[r] > Keep - Cardinality(pins \ {NoRef})}
                      \ pins
    /\ Goto("sweep")
    /\ UNCHANGED <<stored, trig, mem, snap, nodes, next, ghosts>>

\* GC lists once, reads the pins once, then removes one directory at a time.
GC ==
    /\ pc = "gc"
    /\ sweep' = {r \in Refs : age[r] > Keep}
                  \ {Pointer(current), Pointer(previous)}
    /\ Goto("sweep")
    /\ UNCHANGED <<stored, trig, mem, snap, nodes, next, ghosts>>

\* The oldest first; a directory that cannot be removed is passed over.
GCRemove ==
    /\ pc = "sweep"
    /\ \E r \in sweep :
          /\ \A s \in sweep : age[s] <= age[r]
          /\ sweep' = sweep \ {r}
          /\ \/ age' = Removed(r)
             \/ "remove" \in Events /\ UNCHANGED age
    /\ UNCHANGED <<current, previous, state, disk, pc, trig, mem, snap, nodes,
                   next, ghosts>>

Finish ==
    /\ pc = "sweep" /\ sweep = {}
    /\ Forget
    /\ UNCHANGED <<stored, edited, history>>

-----------------------------------------------------------------------------
(* The world. *)

\* The process dies: what it has on disk stays as it is.
Crash ==
    /\ "crash" \in Events
    /\ pc # "idle"
    /\ Forget
    /\ UNCHANGED <<stored, edited, history>>

\* Somebody deletes or edits an output.
EditOutput ==
    /\ "edit" \in Events
    /\ \E f \in Files :
          /\ disk' = [disk EXCEPT ![f] = Foreign]
          /\ edited' = edited \cup {f}
    /\ UNCHANGED <<age, current, previous, state, pc, local, history, refused>>

\* The state file is deleted or damaged; LoadState reads both as empty.
LoseState ==
    /\ "lose" \in Events
    /\ state' = EmptyState
    /\ UNCHANGED <<age, current, previous, disk, pc, local, ghosts>>

\* `node-box pull` and `build` in another process: Acquire without the lock.
\* (Two processes fetching one ref at once are module SnapshotStore.)
Pull ==
    /\ "pull" \in Events
    /\ \E r \in Refs \ Unusable : ~Has(r) /\ age' = Committed(r)
    /\ UNCHANGED <<current, previous, state, disk, pc, local, ghosts>>

-----------------------------------------------------------------------------
Acquire == AcquireOnDisk \/ AcquireFetched \/ AcquireFallback \/ AcquireFailed
Build   == BuildPlan \/ BuildFailed
Write   == WriteFile \/ WriteFailed \/ WriteDone

\* One step of the run under way.
Proceed ==
    \/ Acquire \/ Build \/ Write
    \/ MovePrevious \/ MoveCurrent \/ Succeed \/ Fail
    \/ GC \/ GCRemove \/ Finish

Next ==
    \/ Execute \/ Rollback \/ Proceed
    \/ Crash \/ EditOutput \/ LoseState \/ Pull

Spec == Init /\ [][Next]_vars

\* A started run keeps going: update_timeout bounds every wait in it, and the
\* steps after the build wait for nothing.
FairSpec == Spec /\ WF_vars(Proceed)
-----------------------------------------------------------------------------
(* Properties. *)

Idle == pc = "idle"

\* Output f was assembled from ref.
Shows(f, ref) == disk[f] # Foreign /\ disk[f].ref = ref

\* A pointer file that is there names a snapshot that is there, whatever GC
\* removes, in whatever order writes fail and wherever a run dies: otherwise
\* Pointer reads it as unset and the fallback and the rollback are gone
\* without a word (Store.SetPointer, Store.GC, Store.Pointer).
PointersResolve ==
    /\ current # NoRef => Has(current)
    /\ previous # NoRef => Has(previous)

\* When the state file claims a settled success, the outputs nobody edited are
\* those it claims: a run that died or failed after changing one cannot leave
\* the claim of the run before it standing (Execute's RecordStart and
\* RecordFailure), and a success is never recorded for content that Write
\* skipped on the strength of something else than the file itself.
RecordIsTrue ==
    (state.ref # NoRef /\ ~state.updating /\ ~state.failed) =>
        \A f \in Files \ edited :
            disk[f] = state.outputs[f] /\ Shows(f, state.ref)

\* current names the snapshot that produced the files on disk at the moment it
\* moves: no step moves it while an output still has other content.
CurrentMovesLast ==
    [][current' # current => \A f \in Files \ edited : Shows(f, current')]_vars

\* A run asked for one ref that gets as far as recording success has written
\* that ref and nothing else: neither the fallback nor a skipped output stands
\* in for it (runner.acquire, Rollback).
ExplicitRefIsApplied ==
    (pc \in {"gc", "sweep"} /\ trig.ref # NoRef) =>
        \A f \in Files \ edited : Shows(f, trig.ref)

\* Between runs, previous is the ref applied before the one applied now, for
\* any sequence of updates, explicit refs, rollbacks, failed builds and failed
\* writes: a rollback always has somewhere else to go.
PreviousIsPredecessor ==
    (Idle /\ history.past # NoRef) => previous = history.past

\* Between runs, the current pointer and the state file name the same ref.
PointersAgree == Idle => current = state.ref

\* GC keeps Keep snapshots and the two that are pinned, and no more.
StoreBounded ==
    (pc = "sweep" /\ sweep = {}) =>
        Cardinality({r \in Refs : age[r] # 0}) <= Keep + 2

\* No snapshot among the Keep newest of its moment is ever removed, whoever
\* pulls others while GC is at work and whichever removals fail ("GC removes
\* all but the newest keep snapshots"): GC judges by a list it made once.
NewestStay ==
    [][\A r \in Refs : age[r] # 0 /\ age'[r] = 0 => age[r] > Keep]_vars

\* Between runs the outputs nobody edited are all of one run: a failed run
\* leaves them as they were.
OutputsOfOneRun ==
    (Idle /\ edited = {}) => \A f, g \in Files : disk[f] = disk[g]

\* A run whose source names a snapshot that does not load writes nothing.
UnusableAborts == refused => pc \notin {"previous", "current", "record", "gc"}

\* Every run that starts ends.
RunEnds == pc # "idle" ~> pc = "idle"
=============================================================================
