----------------------------- MODULE SnapshotStore -----------------------------
(***************************************************************************)
(* The snapshots directory as several processes share it, one directory    *)
(* entry at a time: readers (pull, build, validate) fetch and commit       *)
(* without a lock, a writer holds the update lock, cleans the scratch      *)
(* directories when it starts and collects old snapshots when it is done.  *)
(*                                                                         *)
(* A directory is the set of the files in it.  Which snapshots GC takes to *)
(* be the oldest is left open, because removing a file renews the mtime    *)
(* List sorts by; module UpdateRun has the order.                          *)
(***************************************************************************)
EXTENDS Integers, FiniteSets

CONSTANTS
    Refs,
    NoRef,
    Readers, Writers,   \* processes without and with the update lock
    NoProc,
    Scratch,            \* the names MkdirTemp may pick; bounds what is left over
    NoDir,
    Parts,              \* the files of a snapshot
    Config,             \* config.json, the one that Open reads
    NoPart,             \* in place of the files of a directory not there
    Keep,
    CrashSteps          \* the steps at which a process may die

Procs  == Readers \cup Writers
Absent == {NoPart}

ASSUME ProcAssumption == Readers \cap Writers = {} /\ NoProc \notin Procs
ASSUME PartAssumption == Config \in Parts /\ NoPart \notin Parts
ASSUME NameAssumption == NoRef \notin Refs /\ NoDir \notin Scratch /\ Keep \in Nat \ {0}

VARIABLES
    final,       \* final[r]: the directory of snapshot r
    scratch,     \* scratch[d]: the scratch directory named d
    current,     \* the pointers, NoRef when unset
    previous,
    applied,     \* the ref that the state file says is applied, or NoRef
    lock,        \* the writer that holds the update lock, or NoProc
    pc,          \* the step each process is at
    ref,         \* the ref each process is acquiring or using
    tmp,         \* its scratch directory
    todo,        \* the files Materialize has still to write there
    sweep,       \* the snapshots GC has still to remove
    refusedCommit \* ghost: processes told that a commit failed

vars == <<final, scratch, current, previous, applied, lock, pc, ref, tmp, todo, sweep,
          refusedCommit>>

Steps == {"off", "start", "acquire", "begin", "materialize", "open", "commit",
          "rename", "reopen", "abort", "using", "apply", "record", "gc", "sweep",
          "removing"}

ASSUME CrashAssumption == CrashSteps \subseteq Steps \ {"off"}

Dirs == (SUBSET Parts) \cup {Absent}

TypeOK ==
    /\ final \in [Refs -> Dirs] /\ scratch \in [Scratch -> Dirs]
    /\ current \in Refs \cup {NoRef} /\ previous \in Refs \cup {NoRef}
    /\ applied \in Refs \cup {NoRef}
    /\ lock \in Writers \cup {NoProc}
    /\ pc \in [Procs -> Steps]
    /\ ref \in [Procs -> Refs \cup {NoRef}]
    /\ tmp \in [Procs -> Scratch \cup {NoDir}]
    /\ todo \in [Procs -> SUBSET Parts]
    /\ sweep \in SUBSET Refs
    /\ refusedCommit \in SUBSET Procs
    /\ \A w \in Writers : pc[w] # "off" <=> lock = w
    /\ \A p \in Procs :
          /\ pc[p] \notin {"off", "start", "gc", "sweep"} => ref[p] # NoRef
          /\ pc[p] \in {"materialize", "open", "commit", "rename", "abort"}
                => tmp[p] # NoDir

Init ==
    /\ final = [r \in Refs |-> Absent]
    /\ scratch = [d \in Scratch |-> Absent]
    /\ current = NoRef /\ previous = NoRef /\ applied = NoRef
    /\ lock = NoProc
    /\ pc = [p \in Procs |-> "off"]
    /\ ref = [p \in Procs |-> NoRef]
    /\ tmp = [p \in Procs |-> NoDir]
    /\ todo = [p \in Procs |-> {}]
    /\ sweep = {}
    /\ refusedCommit = {}

At(p, step)   == pc[p] = step
Goto(p, step) == pc' = [pc EXCEPT ![p] = step]

Has(r)  == final[r] # Absent
Pinned  == {current, previous}
pointers == <<current, previous, applied>>

\* Open reads config.json and nothing else.
Loads(dir) == dir # Absent /\ Config \in dir

\* The process is over: one-shot commands exit, and the lock goes with them.
Exit(p) ==
    /\ Goto(p, "off")
    /\ ref' = [ref EXCEPT ![p] = NoRef]
    /\ tmp' = [tmp EXCEPT ![p] = NoDir]
    /\ todo' = [todo EXCEPT ![p] = {}]
    /\ lock' = IF lock = p THEN NoProc ELSE lock
    /\ sweep' = IF lock = p THEN {} ELSE sweep

-----------------------------------------------------------------------------
(* Starting: runner.New. *)

StartReader(p) ==
    /\ p \in Readers /\ At(p, "off")
    /\ Goto(p, "acquire")
    /\ \E r \in Refs : ref' = [ref EXCEPT ![p] = r]
    /\ UNCHANGED <<final, scratch, pointers, lock, tmp, todo, sweep,
                   refusedCommit>>

\* Mutant of StartWriter: the lock is taken whoever holds it.
StartWriter_Unlocked(p) ==
    /\ p \in Writers /\ At(p, "off")
    /\ lock' = p
    /\ Goto(p, "start")
    /\ UNCHANGED <<final, scratch, pointers, ref, tmp, todo, sweep,
                   refusedCommit>>

StartWriter(p) ==
    /\ p \in Writers /\ At(p, "off") /\ lock = NoProc
    /\ lock' = p
    /\ Goto(p, "start")
    /\ UNCHANGED <<final, scratch, pointers, ref, tmp, todo, sweep,
                   refusedCommit>>

\* Everything whose name begins with .incoming- goes.
CleanScratch(p) ==
    /\ At(p, "start")
    /\ scratch' = [d \in Scratch |-> Absent]
    /\ Goto(p, "acquire")
    /\ \E r \in Refs : ref' = [ref EXCEPT ![p] = r]
    /\ UNCHANGED <<final, pointers, lock, tmp, todo, sweep, refusedCommit>>

-----------------------------------------------------------------------------
(* source.Acquire. *)

\* The snapshot is there, and is opened if config.json can be read.
AcquireOnDisk(p) ==
    /\ At(p, "acquire")
    /\ Has(ref[p])
    /\ IF Loads(final[ref[p]])
         THEN /\ Goto(p, "using")
              /\ UNCHANGED <<ref, tmp, todo, lock, sweep>>
         ELSE Exit(p)
    /\ UNCHANGED <<final, scratch, pointers, refusedCommit>>

AcquireMissing(p) ==
    /\ At(p, "acquire")
    /\ ~Has(ref[p])
    /\ Goto(p, "begin")
    /\ UNCHANGED <<final, scratch, pointers, lock, ref, tmp, todo, sweep,
                   refusedCommit>>

\* MkdirTemp never hands out one name twice while anybody remembers it.
Begin(p) ==
    /\ At(p, "begin")
    /\ \E d \in Scratch :
          /\ scratch[d] = Absent
          /\ \A q \in Procs : tmp[q] # d
          /\ scratch' = [scratch EXCEPT ![d] = {}]
          /\ tmp' = [tmp EXCEPT ![p] = d]
    /\ todo' = [todo EXCEPT ![p] = Parts]
    /\ Goto(p, "materialize")
    /\ UNCHANGED <<final, pointers, lock, ref, sweep, refusedCommit>>

\* The scratch directory cannot be made.
BeginFailed(p) ==
    /\ At(p, "begin")
    /\ Exit(p)
    /\ UNCHANGED <<final, scratch, pointers, refusedCommit>>

\* One file is copied or extracted; MkdirAll makes its directory again if need
\* be.  Files come in the source's order, which puts some before config.json.
Materialize(p) ==
    /\ At(p, "materialize")
    /\ \E f \in todo[p] :
          /\ scratch' = [scratch EXCEPT ![tmp[p]] =
                           (IF @ = Absent THEN {} ELSE @) \cup {f}]
          /\ todo' = [todo EXCEPT ![p] = @ \ {f}]
          /\ IF todo'[p] = {} THEN Goto(p, "open") ELSE UNCHANGED pc
    /\ UNCHANGED <<final, pointers, lock, ref, tmp, sweep, refusedCommit>>

\* Mutants of MaterializeFailed: the error is lost; the fetch starts over.
MaterializeFailed_Ignored(p) ==
    /\ At(p, "materialize")
    /\ Goto(p, "open")
    /\ UNCHANGED <<final, scratch, pointers, lock, ref, tmp, todo, sweep,
                   refusedCommit>>

MaterializeFailed_Retries(p) ==
    /\ At(p, "materialize")
    /\ todo' = [todo EXCEPT ![p] = Parts]
    /\ UNCHANGED <<final, scratch, pointers, lock, pc, ref, tmp, sweep,
                   refusedCommit>>

\* The download or the copy fails half way.
MaterializeFailed(p) ==
    /\ At(p, "materialize")
    /\ Goto(p, "abort")
    /\ UNCHANGED <<final, scratch, pointers, lock, ref, tmp, todo, sweep,
                   refusedCommit>>

OpenScratch(p) ==
    /\ At(p, "open")
    /\ Goto(p, IF Loads(scratch[tmp[p]]) THEN "commit" ELSE "abort")
    /\ UNCHANGED <<final, scratch, pointers, lock, ref, tmp, todo, sweep,
                   refusedCommit>>

Abort(p) ==
    /\ At(p, "abort")
    /\ scratch' = [scratch EXCEPT ![tmp[p]] = Absent]
    /\ Exit(p)
    /\ UNCHANGED <<final, pointers, refusedCommit>>

\* Commit looks first and renames second.
CommitLook(p) ==
    /\ At(p, "commit")
    /\ IF Has(ref[p])
         THEN /\ scratch' = [scratch EXCEPT ![tmp[p]] = Absent]
              /\ Goto(p, "reopen")
         ELSE /\ Goto(p, "rename")
              /\ UNCHANGED scratch
    /\ UNCHANGED <<final, pointers, lock, ref, tmp, todo, sweep, refusedCommit>>

\* Mutant of CommitRename: a failed rename leaves the scratch directory.
CommitRename_LeavesScratch(p) ==
    /\ At(p, "rename")
    /\ IF Has(ref[p]) \/ scratch[tmp[p]] = Absent
         THEN /\ refusedCommit' = refusedCommit \cup {p}
              /\ Exit(p)
              /\ UNCHANGED <<final, scratch>>
         ELSE /\ final' = [final EXCEPT ![ref[p]] = scratch[tmp[p]]]
              /\ scratch' = [scratch EXCEPT ![tmp[p]] = Absent]
              /\ Goto(p, "reopen")
              /\ UNCHANGED <<refusedCommit, ref, tmp, todo, lock, sweep>>
    /\ UNCHANGED pointers

\* Rename fails when the target has appeared meanwhile, or the scratch
\* directory has gone.
CommitRename(p) ==
    /\ At(p, "rename")
    /\ scratch' = [scratch EXCEPT ![tmp[p]] = Absent]
    /\ IF Has(ref[p]) \/ scratch[tmp[p]] = Absent
         THEN /\ refusedCommit' = refusedCommit \cup {p}
              /\ Exit(p)
              /\ UNCHANGED final
         ELSE /\ final' = [final EXCEPT ![ref[p]] = scratch[tmp[p]]]
              /\ Goto(p, "reopen")
              /\ UNCHANGED <<refusedCommit, ref, tmp, todo, lock, sweep>>
    /\ UNCHANGED pointers

OpenCommitted(p) ==
    /\ At(p, "reopen")
    /\ IF Loads(final[ref[p]])
         THEN /\ Goto(p, "using")
              /\ tmp' = [tmp EXCEPT ![p] = NoDir]
              /\ UNCHANGED <<ref, todo, lock, sweep>>
         ELSE Exit(p)
    /\ UNCHANGED <<final, scratch, pointers, refusedCommit>>

-----------------------------------------------------------------------------
(* Using a snapshot, and what follows. *)

\* A reader, or a run that failed: nothing moves.
UseAndExit(p) ==
    /\ At(p, "using")
    /\ Exit(p)
    /\ UNCHANGED <<final, scratch, pointers, refusedCommit>>

\* A pointer file after SetPointer, which callers only log a failure of.
PointerWrites(p, r) == {p} \cup (IF Has(r) THEN {r} ELSE {})

\* A writer's run succeeded: previous takes the ref that is being replaced.
MovePrevious(p) ==
    /\ At(p, "using") /\ p \in Writers
    /\ IF applied \notin {NoRef, ref[p]}
         THEN previous' \in PointerWrites(previous, applied)
         ELSE UNCHANGED previous
    /\ Goto(p, "apply")
    /\ UNCHANGED <<final, scratch, current, applied, lock, ref, tmp, todo,
                   sweep, refusedCommit>>

MoveCurrent(p) ==
    /\ At(p, "apply")
    /\ current' \in PointerWrites(current, ref[p])
    /\ Goto(p, "record")
    /\ UNCHANGED <<final, scratch, previous, applied, lock, ref, tmp, todo,
                   sweep, refusedCommit>>

\* The state file is written, or its failure is logged.
Record(p) ==
    /\ At(p, "record")
    /\ applied' \in {applied, ref[p]}
    /\ Goto(p, "gc")
    /\ ref' = [ref EXCEPT ![p] = NoRef]
    /\ UNCHANGED <<final, scratch, current, previous, lock, tmp, todo, sweep,
                   refusedCommit>>

\* Mutant of GC: only current is pinned.
GC_PinsCurrentOnly(p) ==
    /\ At(p, "gc")
    /\ LET stored == {r \in Refs : Has(r)} IN
         \E old \in SUBSET stored :
            /\ Cardinality(old) =
                 IF Cardinality(stored) > Keep THEN Cardinality(stored) - Keep ELSE 0
            /\ sweep' = old \ {current}
    /\ Goto(p, "sweep")
    /\ UNCHANGED <<final, scratch, pointers, lock, ref, tmp, todo,
                   refusedCommit>>

\* One look at the directory and at the pins; all but Keep are to go.
GC(p) ==
    /\ At(p, "gc")
    /\ LET stored == {r \in Refs : Has(r)} IN
         \E old \in SUBSET stored :
            /\ Cardinality(old) =
                 IF Cardinality(stored) > Keep THEN Cardinality(stored) - Keep ELSE 0
            /\ sweep' = old \ Pinned
    /\ Goto(p, "sweep")
    /\ UNCHANGED <<final, scratch, pointers, lock, ref, tmp, todo,
                   refusedCommit>>

GCNext(p) ==
    /\ At(p, "sweep")
    /\ \E r \in sweep :
          /\ ref' = [ref EXCEPT ![p] = r]
          /\ sweep' = sweep \ {r}
    /\ Goto(p, "removing")
    /\ UNCHANGED <<final, scratch, pointers, lock, tmp, todo, refusedCommit>>

\* RemoveAll unlinks the files one by one, the directory last.
RemovePart(p) ==
    /\ At(p, "removing")
    /\ LET dir == final[ref[p]] IN
         /\ dir # Absent
         /\ \/ \E f \in dir :
                  /\ final' = [final EXCEPT ![ref[p]] = dir \ {f}]
                  /\ UNCHANGED <<pc, ref>>
            \/ /\ dir = {}
               /\ final' = [final EXCEPT ![ref[p]] = Absent]
               /\ Goto(p, "sweep")
               /\ ref' = [ref EXCEPT ![p] = NoRef]
    /\ UNCHANGED <<scratch, pointers, lock, tmp, todo, sweep, refusedCommit>>

\* RemoveAll fails before it is through: logged, and on to the next snapshot.
RemoveFailed(p) ==
    /\ At(p, "removing")
    /\ Goto(p, "sweep")
    /\ ref' = [ref EXCEPT ![p] = NoRef]
    /\ UNCHANGED <<final, scratch, pointers, lock, tmp, todo, sweep,
                   refusedCommit>>

GCDone(p) ==
    /\ At(p, "sweep") /\ sweep = {}
    /\ Exit(p)
    /\ UNCHANGED <<final, scratch, pointers, refusedCommit>>

\* A process dies where it stands; its lock is released, its files stay.
Crash(p) ==
    /\ pc[p] \in CrashSteps
    /\ Exit(p)
    /\ UNCHANGED <<final, scratch, pointers, refusedCommit>>

-----------------------------------------------------------------------------
Acquire(p) ==
    \/ AcquireOnDisk(p) \/ AcquireMissing(p)
    \/ Begin(p) \/ BeginFailed(p)
    \/ Materialize(p) \/ MaterializeFailed(p) \/ OpenScratch(p) \/ Abort(p)
    \/ CommitLook(p) \/ CommitRename(p) \/ OpenCommitted(p)

Proceed(p) ==
    \/ CleanScratch(p) \/ Acquire(p)
    \/ UseAndExit(p) \/ MovePrevious(p) \/ MoveCurrent(p) \/ Record(p)
    \/ GC(p) \/ GCNext(p) \/ RemovePart(p) \/ RemoveFailed(p) \/ GCDone(p)

Next ==
    \E p \in Procs : StartReader(p) \/ StartWriter(p) \/ Proceed(p) \/ Crash(p)

Spec == Init /\ [][Next]_vars

FairSpec == Spec /\ \A p \in Procs : WF_vars(Proceed(p))

-----------------------------------------------------------------------------
(* Properties. *)

\* A snapshot that a process has opened is all there, for as long as the
\* process works from it: Has and Open take a directory that is there, with a
\* config.json in it, for a complete one.
OpenedIsWhole ==
    \A p \in Procs : At(p, "using") => final[ref[p]] = Parts

\* A snapshot appears under its own name with everything in it: an interrupted
\* fetch, or one whose scratch was cleaned away, is never taken for one.
CommittedWhole ==
    [][\A r \in Refs : final[r] = Absent => final'[r] \in {Absent, Parts}]_vars

\* Fetching without a lock disturbs nobody: a fetch of which nothing failed is
\* not refused because somebody else committed the same ref first.
CommitNeverRefused == refusedCommit = {}

\* With nobody dying, every scratch directory is that of a fetch in progress:
\* no error path of Acquire or Commit leaves one behind.
ScratchIsOwned ==
    \A d \in Scratch : scratch[d] # Absent => \E p \in Procs : tmp[p] = d

\* A snapshot that current or previous names is never being removed.
PinnedNotRemoved ==
    \A p \in Writers : At(p, "removing") => ref[p] \notin Pinned

\* No snapshot is removed under a process that works from it.
UsedNotRemoved ==
    \A p \in Procs, w \in Writers :
        At(p, "using") /\ At(w, "removing") => ref[p] # ref[w]

\* Every process that starts ends, whatever the others do.
ProcessEnds == \A p \in Procs : pc[p] # "off" ~> pc[p] = "off"

\* To its users every directory with files missing is alike, the empty one
\* standing for all, and a process that uses a snapshot has it open.
Remains == {}
Stored == [r \in Refs |-> IF final[r] \in {Absent, Parts} THEN final[r] ELSE Remains]
InUse  == [p \in Procs |-> IF At(p, "using") THEN ref[p] ELSE NoRef]

Promise == INSTANCE ImmutableStore WITH
    Whole <- Parts, Torn <- Remains, Nothing <- NoRef, content <- Stored, opened <- InUse

\* Whatever fails and whoever dies, snapshots appear whole, only a removal takes
\* anything from them, and nothing changes while somebody works from it.
KeepsPromise == Promise!Spec
=============================================================================
