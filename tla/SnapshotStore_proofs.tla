-------------------------- MODULE SnapshotStore_proofs --------------------------
(***************************************************************************)
(* Theorems about the shared snapshots directory, for any number of        *)
(* processes, snapshots and files.                                         *)
(***************************************************************************)
EXTENDS SnapshotStore, TLAPS

LEMMA Constants ==
    /\ Readers \cap Writers = {} /\ NoProc \notin Procs
    /\ Config \in Parts /\ NoPart \notin Parts
    /\ NoRef \notin Refs /\ NoDir \notin Scratch
    /\ "off" \notin CrashSteps
BY ProcAssumption, PartAssumption, NameAssumption, CrashAssumption
   DEF ProcAssumption, PartAssumption, NameAssumption, CrashAssumption

\* A directory that is not there is none of files.
LEMMA AbsentIsNoDir == Absent # Parts /\ Absent # {} /\ Absent \notin SUBSET Parts
BY Constants DEF Absent

-----------------------------------------------------------------------------
(* Types. *)

\* A process that exits forgets everything and frees the lock it has.
LEMMA ExitType ==
    ASSUME TypeOK, NEW p \in Procs, pc[p] # "off", Exit(p),
           final' \in [Refs -> Dirs], scratch' \in [Scratch -> Dirs],
           UNCHANGED <<current, previous, applied>>, refusedCommit' \in SUBSET Procs
    PROVE  TypeOK'
<1>1. /\ pc' \in [Procs -> Steps] /\ ref' \in [Procs -> Refs \cup {NoRef}]
      /\ tmp' \in [Procs -> Scratch \cup {NoDir}] /\ todo' \in [Procs -> SUBSET Parts]
  BY DEF TypeOK, Exit, Goto, Steps
<1>2. lock' \in Writers \cup {NoProc} /\ sweep' \in SUBSET Refs
  BY DEF TypeOK, Exit
<1>3. \A w \in Writers : pc'[w] # "off" <=> lock' = w
  BY Constants DEF TypeOK, Exit, Goto, Procs
<1>4. \A q \in Procs :
        /\ pc'[q] \notin {"off", "start", "gc", "sweep"} => ref'[q] # NoRef
        /\ pc'[q] \in {"materialize", "open", "commit", "rename", "abort"} => tmp'[q] # NoDir
  BY DEF TypeOK, Exit, Goto
<1> QED
  BY <1>1, <1>2, <1>3, <1>4 DEF TypeOK

\* A process that goes on to another step, with the lock as it was.
LEMMA GotoType ==
    ASSUME TypeOK, NEW p \in Procs, pc[p] # "off", NEW step \in Steps \ {"off"}, Goto(p, step),
           lock' = lock,
           final' \in [Refs -> Dirs], scratch' \in [Scratch -> Dirs],
           current' \in Refs \cup {NoRef}, previous' \in Refs \cup {NoRef},
           applied' \in Refs \cup {NoRef},
           sweep' \in SUBSET Refs, refusedCommit' = refusedCommit,
           NEW r \in Refs \cup {NoRef}, ref' = [ref EXCEPT ![p] = r],
           NEW d \in Scratch \cup {NoDir}, tmp' = [tmp EXCEPT ![p] = d],
           NEW t \in SUBSET Parts, todo' = [todo EXCEPT ![p] = t],
           step \notin {"start", "gc", "sweep"} => r # NoRef,
           step \in {"materialize", "open", "commit", "rename", "abort"} => d # NoDir
    PROVE  TypeOK'
<1>1. /\ pc' \in [Procs -> Steps] /\ ref' \in [Procs -> Refs \cup {NoRef}]
      /\ tmp' \in [Procs -> Scratch \cup {NoDir}] /\ todo' \in [Procs -> SUBSET Parts]
  BY DEF TypeOK, Goto
<1>2. \A w \in Writers : pc'[w] # "off" <=> lock' = w
  BY DEF TypeOK, Goto, Procs
<1>3. \A q \in Procs :
        /\ pc'[q] \notin {"off", "start", "gc", "sweep"} => ref'[q] # NoRef
        /\ pc'[q] \in {"materialize", "open", "commit", "rename", "abort"} => tmp'[q] # NoDir
  BY DEF TypeOK, Goto
<1> QED
  BY <1>1, <1>2, <1>3 DEF TypeOK

\* The same for a step that leaves ref, tmp and todo alone.
LEMMA StepType ==
    ASSUME TypeOK, NEW p \in Procs, pc[p] # "off", NEW step \in Steps \ {"off"}, Goto(p, step),
           final' \in [Refs -> Dirs], scratch' \in [Scratch -> Dirs],
           UNCHANGED <<lock, current, previous, applied, ref, tmp, todo, refusedCommit>>,
           sweep' \in SUBSET Refs,
           step \notin {"start", "gc", "sweep"} => ref[p] # NoRef,
           step \in {"materialize", "open", "commit", "rename", "abort"} => tmp[p] # NoDir
    PROVE  TypeOK'
<1>1. /\ ref[p] \in Refs \cup {NoRef} /\ tmp[p] \in Scratch \cup {NoDir} /\ todo[p] \in SUBSET Parts
      /\ current \in Refs \cup {NoRef} /\ previous \in Refs \cup {NoRef}
      /\ applied \in Refs \cup {NoRef}
  BY DEF TypeOK
<1>2. /\ ref' = [ref EXCEPT ![p] = ref[p]] /\ tmp' = [tmp EXCEPT ![p] = tmp[p]]
      /\ todo' = [todo EXCEPT ![p] = todo[p]]
  BY DEF TypeOK
<1> QED
  BY <1>1, <1>2, GotoType

\* A step of a process, whichever it is, keeps every variable's type.
LEMMA ProceedType ==
    ASSUME TypeOK, NEW p \in Procs, Proceed(p)
    PROVE  TypeOK'
<1>0. /\ final \in [Refs -> Dirs] /\ scratch \in [Scratch -> Dirs] /\ sweep \in SUBSET Refs
      /\ current \in Refs \cup {NoRef} /\ previous \in Refs \cup {NoRef}
      /\ applied \in Refs \cup {NoRef}
      /\ ref[p] \in Refs \cup {NoRef} /\ tmp[p] \in Scratch \cup {NoDir}
      /\ todo[p] \in SUBSET Parts /\ refusedCommit \in SUBSET Procs
  BY DEF TypeOK
<1>a. /\ ref = [ref EXCEPT ![p] = ref[p]] /\ tmp = [tmp EXCEPT ![p] = tmp[p]]
      /\ todo = [todo EXCEPT ![p] = todo[p]]
  BY DEF TypeOK
<1>b. Absent \in Dirs /\ {} \in Dirs
  BY DEF Dirs
<1> USE DEF At, pointers
<1>1. CASE CleanScratch(p)
  <2>1. scratch' \in [Scratch -> Dirs]
    BY <1>1, <1>b DEF CleanScratch
  <2>2. PICK r \in Refs : ref' = [ref EXCEPT ![p] = r]
    BY <1>1 DEF CleanScratch
  <2> QED
    <3>1. /\ pc[p] # "off" /\ Goto(p, "acquire") /\ "acquire" \in Steps \ {"off"}
          /\ UNCHANGED <<final, current, previous, applied, lock, tmp, todo, sweep, refusedCommit>>
      BY <1>1 DEF CleanScratch, Steps
    <3>2. tmp' = [tmp EXCEPT ![p] = tmp[p]] /\ todo' = [todo EXCEPT ![p] = todo[p]]
      BY <1>a, <3>1
    <3>3. r # NoRef
      BY Constants
    <3> QED
      BY <1>0, <2>1, <2>2, <3>1, <3>2, <3>3 DEF TypeOK, Goto, Procs
<1>2. CASE AcquireOnDisk(p)
  <2>1. CASE Loads(final[ref[p]])
    BY <1>0, <1>2, <2>1, StepType DEF AcquireOnDisk, Steps, TypeOK
  <2>2. CASE ~Loads(final[ref[p]])
    BY <1>0, <1>2, <2>2, ExitType DEF AcquireOnDisk
  <2> QED
    BY <2>1, <2>2
<1>3. CASE AcquireMissing(p)
  BY <1>0, <1>3, StepType DEF AcquireMissing, Steps, TypeOK
<1>4. CASE Begin(p)
  <2>1. PICK d \in Scratch : scratch' = [scratch EXCEPT ![d] = {}] /\ tmp' = [tmp EXCEPT ![p] = d]
    BY <1>4 DEF Begin
  <2>2. scratch' \in [Scratch -> Dirs]
    BY <1>0, <1>b, <2>1
  <2>3. ref[p] # NoRef /\ d # NoDir
    BY <1>4, Constants DEF Begin, TypeOK
  <2> QED
    <3>1. /\ pc[p] # "off" /\ Goto(p, "materialize") /\ "materialize" \in Steps \ {"off"}
          /\ UNCHANGED <<final, current, previous, applied, lock, ref, sweep, refusedCommit>>
          /\ todo' = [todo EXCEPT ![p] = Parts] /\ Parts \in SUBSET Parts
      BY <1>4 DEF Begin, Steps
    <3>2. ref' = [ref EXCEPT ![p] = ref[p]]
      BY <1>a, <3>1
    <3> QED
      BY <1>0, <2>1, <2>2, <2>3, <3>1, <3>2 DEF TypeOK, Goto, Procs
<1>5. CASE BeginFailed(p)
  BY <1>0, <1>5, ExitType DEF BeginFailed
<1>6. CASE Materialize(p)
  <2>1. PICK f \in todo[p] :
          /\ scratch' = [scratch EXCEPT ![tmp[p]] = (IF @ = Absent THEN {} ELSE @) \cup {f}]
          /\ todo' = [todo EXCEPT ![p] = todo[p] \ {f}]
          /\ IF todo'[p] = {} THEN Goto(p, "open") ELSE UNCHANGED pc
    BY <1>6 DEF Materialize
  <2>2. scratch' \in [Scratch -> Dirs]
    BY <1>0, <2>1 DEF Dirs
  <2>3. ref[p] # NoRef /\ tmp[p] # NoDir /\ pc[p] = "materialize"
    BY <1>6 DEF Materialize, TypeOK
  <2>4. Goto(p, "open") \/ Goto(p, "materialize")
    BY <2>1, <2>3 DEF Goto, TypeOK
  <2>5. todo[p] \ {f} \in SUBSET Parts
    BY <1>0
  <2> QED
    <3>1. /\ "open" \in Steps \ {"off"} /\ "materialize" \in Steps \ {"off"}
          /\ UNCHANGED <<final, current, previous, applied, lock, ref, tmp, sweep, refusedCommit>>
      BY <1>6 DEF Materialize, Steps
    <3>2. tmp' = [tmp EXCEPT ![p] = tmp[p]] /\ ref' = [ref EXCEPT ![p] = ref[p]]
      BY <1>a, <3>1
    <3>3. PICK step \in {"open", "materialize"} : Goto(p, step)
      BY <2>4
    <3>4. step \in Steps \ {"off"} /\ pc[p] # "off" /\ todo' = [todo EXCEPT ![p] = todo[p] \ {f}]
      BY <2>1, <2>3, <3>1
    <3> QED
      BY <1>0, <2>2, <2>3, <2>5, <3>1, <3>2, <3>3, <3>4, GotoType
<1>7. CASE MaterializeFailed(p)
  BY <1>0, <1>7, StepType DEF MaterializeFailed, Steps, TypeOK
<1>8. CASE OpenScratch(p)
  BY <1>0, <1>8, StepType DEF OpenScratch, Steps, TypeOK
<1>9. CASE Abort(p)
  <2>1. scratch' \in [Scratch -> Dirs]
    BY <1>0, <1>9, <1>b DEF Abort
  <2> QED
    BY <1>0, <1>9, <2>1, ExitType DEF Abort
<1>10. CASE CommitLook(p)
  <2>1. scratch' \in [Scratch -> Dirs]
    BY <1>0, <1>10, <1>b DEF CommitLook
  <2>2. Goto(p, "reopen") \/ Goto(p, "rename")
    BY <1>10 DEF CommitLook
  <2> QED
    BY <1>0, <1>10, <2>1, <2>2, StepType DEF CommitLook, Steps, TypeOK
<1>11. CASE CommitRename(p)
  <2>1. scratch' \in [Scratch -> Dirs]
    BY <1>0, <1>11, <1>b DEF CommitRename
  <2>2. CASE Has(ref[p]) \/ scratch[tmp[p]] = Absent
    BY <1>0, <1>11, <2>1, <2>2, ExitType DEF CommitRename
  <2>3. CASE ~(Has(ref[p]) \/ scratch[tmp[p]] = Absent)
    <3>1. final' = [final EXCEPT ![ref[p]] = scratch[tmp[p]]] /\ tmp[p] \in Scratch
      BY <1>0, <1>11, <2>3 DEF CommitRename, TypeOK
    <3>2. final' \in [Refs -> Dirs]
      BY <1>0, <3>1
    <3> QED
      BY <1>0, <1>11, <2>1, <2>3, <3>2, StepType DEF CommitRename, Steps, TypeOK
  <2> QED
    BY <2>2, <2>3
<1>12. CASE OpenCommitted(p)
  <2>1. CASE Loads(final[ref[p]])
    BY <1>0, <1>a, <1>12, <2>1, GotoType DEF OpenCommitted, Steps, TypeOK
  <2>2. CASE ~Loads(final[ref[p]])
    BY <1>0, <1>12, <2>2, ExitType DEF OpenCommitted
  <2> QED
    BY <2>1, <2>2
<1>13. CASE UseAndExit(p) \/ GCDone(p)
  BY <1>0, <1>13, ExitType DEF UseAndExit, GCDone
<1>14. CASE MovePrevious(p)
  <2>1. /\ current' \in Refs \cup {NoRef} /\ previous' \in Refs \cup {NoRef}
        /\ applied' \in Refs \cup {NoRef}
    BY <1>0, <1>14 DEF MovePrevious, PointerWrites, TypeOK
  <2> QED
    BY <1>0, <1>a, <1>14, <2>1, GotoType DEF MovePrevious, Steps, TypeOK
<1>20. CASE MoveCurrent(p)
  <2>1. /\ current' \in Refs \cup {NoRef} /\ previous' \in Refs \cup {NoRef}
        /\ applied' \in Refs \cup {NoRef}
    BY <1>0, <1>20 DEF MoveCurrent, PointerWrites, TypeOK
  <2> QED
    BY <1>0, <1>a, <1>20, <2>1, GotoType DEF MoveCurrent, Steps, TypeOK
<1>18. CASE Record(p)
  <2>1. applied' \in Refs \cup {NoRef}
    BY <1>0, <1>18 DEF Record, TypeOK
  <2> QED
    BY <1>0, <1>a, <1>18, <2>1, GotoType DEF Record, Steps
<1>19. CASE RemoveFailed(p)
  BY <1>0, <1>a, <1>19, GotoType DEF RemoveFailed, Steps
<1>15. CASE GC(p)
  <2>1. sweep' \in SUBSET Refs
    BY <1>15 DEF GC
  <2> QED
    BY <1>0, <1>15, <2>1, StepType DEF GC, Steps
<1>16. CASE GCNext(p)
  <2>1. PICK r \in sweep : ref' = [ref EXCEPT ![p] = r] /\ sweep' = sweep \ {r}
    BY <1>16 DEF GCNext
  <2>2. r \in Refs /\ r # NoRef /\ sweep' \in SUBSET Refs
    BY <1>0, <2>1, Constants
  <2> QED
    <3>1. /\ pc[p] # "off" /\ Goto(p, "removing") /\ "removing" \in Steps \ {"off"}
          /\ UNCHANGED <<final, scratch, current, previous, applied, lock, tmp, todo, refusedCommit>>
      BY <1>16 DEF GCNext, Steps
    <3>2. tmp' = [tmp EXCEPT ![p] = tmp[p]] /\ todo' = [todo EXCEPT ![p] = todo[p]]
      BY <1>a, <3>1
    <3> QED
      BY <1>0, <2>1, <2>2, <3>1, <3>2 DEF TypeOK, Goto, Procs
<1>17. CASE RemovePart(p)
  <2>0. ref[p] \in Refs /\ final[ref[p]] \in SUBSET Parts
    BY <1>0, <1>17 DEF RemovePart, TypeOK, Dirs
  <2>1. CASE UNCHANGED <<pc, ref>>
    <3>1. final' \in [Refs -> Dirs]
      BY <1>0, <1>17, <1>b, <2>0, <2>1 DEF RemovePart, Dirs
    <3>2. Goto(p, "removing")
      BY <1>17, <2>1 DEF RemovePart, Goto, TypeOK
    <3> QED
      BY <1>0, <1>17, <2>1, <3>1, <3>2, StepType DEF RemovePart, Steps, TypeOK
  <2>2. CASE Goto(p, "sweep") /\ final' = [final EXCEPT ![ref[p]] = Absent]
             /\ ref' = [ref EXCEPT ![p] = NoRef]
    <3>1. final' \in [Refs -> Dirs]
      BY <1>0, <1>b, <2>2
    <3> QED
      BY <1>0, <1>a, <1>17, <2>2, <3>1, GotoType DEF RemovePart, Steps
  <2> QED
    BY <1>17, <2>1, <2>2 DEF RemovePart
<1> QED
  BY <1>1, <1>2, <1>3, <1>4, <1>5, <1>6, <1>7, <1>8, <1>9, <1>10, <1>11, <1>12,
     <1>13, <1>14, <1>15, <1>16, <1>17, <1>18, <1>19, <1>20 DEF Proceed, Acquire

\* Every variable keeps its type, and a writer at work is the lock's holder,
\* for any number of processes and crashes anywhere.
THEOREM TypeCorrect == Spec => []TypeOK
<1>1. Init => TypeOK
  BY Constants DEF Init, TypeOK, Dirs, Steps, Procs
<1>2. TypeOK /\ [Next]_vars => TypeOK'
  <2> SUFFICES ASSUME TypeOK, [Next]_vars PROVE TypeOK'
    OBVIOUS
  <2>1. ASSUME NEW p \in Procs, StartReader(p) PROVE TypeOK'
    <3>1. p \in Readers /\ p \notin Writers
      BY <2>1, Constants DEF StartReader
    <3> QED
      BY <2>1, <3>1, Constants DEF StartReader, At, Goto, pointers, TypeOK, Steps, Procs
  <2>2. ASSUME NEW p \in Procs, StartWriter(p) PROVE TypeOK'
    BY <2>2, Constants DEF StartWriter, At, Goto, pointers, TypeOK, Steps, Procs
  <2>3. ASSUME NEW p \in Procs, Proceed(p) PROVE TypeOK'
    BY <2>3, ProceedType
  <2>4. ASSUME NEW p \in Procs, Crash(p) PROVE TypeOK'
    BY <2>4, ExitType, Constants DEF Crash, pointers, TypeOK
  <2>5. CASE UNCHANGED vars
    BY <2>5 DEF vars, TypeOK
  <2> QED
    BY <2>1, <2>2, <2>3, <2>4, <2>5 DEF Next
<1> QED
  BY <1>1, <1>2, PTL DEF Spec

-----------------------------------------------------------------------------
(* What GC removes. *)

\* The steps only a writer is at, and those at which it collects.
WriterSteps == {"start", "apply", "record", "gc", "sweep", "removing"}
Collecting  == {"sweep", "removing"}

\* GC is a writer's, and what it has still to remove is not pinned.
PinInv ==
    /\ \A p \in Procs : pc[p] \in WriterSteps => p \in Writers
    /\ sweep # {} => \E w \in Writers : pc[w] \in Collecting
    /\ sweep \cap Pinned = {}
    /\ PinnedNotRemoved

\* There is one writer at work.
LEMMA OneWriter ==
    ASSUME TypeOK, NEW v \in Writers, NEW w \in Writers, pc[v] # "off", pc[w] # "off"
    PROVE  v = w
BY DEF TypeOK

\* Who exits takes its collection along.
LEMMA PinExit ==
    ASSUME TypeOK, PinInv, NEW p \in Procs, pc[p] # "off", Exit(p),
           UNCHANGED <<current, previous>>
    PROVE  PinInv'
<1>1. pc'[p] = "off" /\ \A q \in Procs : q # p => pc'[q] = pc[q] /\ ref'[q] = ref[q]
  BY DEF Exit, Goto, TypeOK
<1>2. sweep' \subseteq sweep
  BY DEF Exit
<1>3. sweep' # {} => \E w \in Writers : pc'[w] \in Collecting
  <2> SUFFICES ASSUME sweep' # {} PROVE \E w \in Writers : pc'[w] \in Collecting
    OBVIOUS
  <2>1. lock # p /\ sweep # {}
    BY DEF Exit
  <2>2. p \notin Writers
    BY <2>1 DEF TypeOK
  <2>3. PICK w \in Writers : pc[w] \in Collecting
    BY <2>1 DEF PinInv
  <2> QED
    BY <1>1, <2>2, <2>3 DEF Procs
<1> QED
  BY <1>1, <1>2, <1>3 DEF PinInv, PinnedNotRemoved, Pinned, WriterSteps, At, Procs

\* Who goes on outside the collection leaves it alone.
LEMMA PinStep ==
    ASSUME TypeOK, PinInv, NEW p \in Procs, pc[p] \notin Collecting,
           NEW step \in Steps, Goto(p, step), step \notin WriterSteps \/ (p \in Writers /\ step = "gc"),
           \A q \in Procs : q # p => ref'[q] = ref[q],
           UNCHANGED <<sweep, current, previous>>
    PROVE  PinInv'
<1>1. pc'[p] = step /\ \A q \in Procs : q # p => pc'[q] = pc[q]
  BY DEF Goto, TypeOK
<1>2. \A w \in Writers : pc[w] \in Collecting => pc'[w] \in Collecting
  BY <1>1 DEF Procs
<1> QED
  BY <1>1, <1>2 DEF PinInv, PinnedNotRemoved, Pinned, WriterSteps, Collecting, At, Procs

\* A snapshot that current or previous names is never being removed, for any
\* number of processes and crashes anywhere.
THEOREM PinInvariant == Spec => []PinInv
<1>1. Init => PinInv
  BY DEF Init, PinInv, PinnedNotRemoved, WriterSteps, At, Procs
<1>2. TypeOK /\ PinInv /\ [Next]_vars => PinInv'
  <2> SUFFICES ASSUME TypeOK, PinInv, [Next]_vars PROVE PinInv'
    OBVIOUS
  <2> USE DEF At, pointers
  <2>1. ASSUME NEW p \in Procs, StartReader(p) \/ CleanScratch(p) PROVE PinInv'
    <3>1. PICK r \in Refs : ref' = [ref EXCEPT ![p] = r]
      BY <2>1 DEF StartReader, CleanScratch
    <3>2. \A q \in Procs : q # p => ref'[q] = ref[q]
      BY <3>1 DEF TypeOK
    <3> QED
      BY <2>1, <3>2, PinStep DEF StartReader, CleanScratch, Steps, WriterSteps, Collecting
  <2>2. ASSUME NEW p \in Procs, StartWriter(p) PROVE PinInv'
    BY <2>2 DEF StartWriter, Goto, TypeOK, PinInv, PinnedNotRemoved, Pinned,
                WriterSteps, Collecting, Procs
  <2>3. ASSUME NEW p \in Procs, Acquire(p) PROVE PinInv'
    <3>1. pc[p] \notin Collecting /\ pc[p] # "off" /\ UNCHANGED <<current, previous>>
      BY <2>3 DEF Acquire, AcquireOnDisk, AcquireMissing, Begin, BeginFailed, Materialize,
         MaterializeFailed, OpenScratch, Abort, CommitLook, CommitRename, OpenCommitted, Collecting
    <3>2. \/ Exit(p)
          \/ UNCHANGED <<ref, sweep>> /\ \E step \in Steps \ WriterSteps : Goto(p, step)
      <4>1. CASE Materialize(p)
        <5>1. pc' = pc => Goto(p, "materialize")
          BY <4>1 DEF Materialize, Goto, TypeOK
        <5> QED
          BY <4>1, <5>1 DEF Materialize, Steps, WriterSteps
      <4>2. CASE ~Materialize(p)
        BY <2>3, <4>2 DEF Acquire, AcquireOnDisk, AcquireMissing, Begin, BeginFailed,
           MaterializeFailed, OpenScratch, Abort, CommitLook, CommitRename, OpenCommitted,
           Steps, WriterSteps
      <4> QED
        BY <4>1, <4>2
    <3> QED
      BY <3>1, <3>2, PinExit, PinStep
  <2>4. ASSUME NEW p \in Procs, UseAndExit(p) \/ GCDone(p) \/ Crash(p) PROVE PinInv'
    <3>1. pc[p] # "off" /\ Exit(p) /\ UNCHANGED <<current, previous>>
      BY <2>4, Constants DEF UseAndExit, GCDone, Crash
    <3> QED
      BY <3>1, PinExit
  <2>5. ASSUME NEW p \in Procs, MovePrevious(p) \/ MoveCurrent(p) \/ Record(p) PROVE PinInv'
    <3>1. pc[p] \in {"using", "apply", "record"} /\ lock' = lock /\ sweep' = sweep
      BY <2>5 DEF MovePrevious, MoveCurrent, Record
    <3>2. p \in Writers
      BY <2>5, <3>1 DEF MovePrevious, MoveCurrent, Record, PinInv, WriterSteps
    <3>3. \A w \in Writers : pc[w] \notin Collecting
      BY <3>1, <3>2, OneWriter DEF Collecting
    <3>4. sweep = {} /\ sweep' = {}
      BY <3>1, <3>3 DEF PinInv
    <3>5. pc'[p] \in {"apply", "record", "gc"} /\ \A q \in Procs : q # p => pc'[q] = pc[q]
      BY <2>5 DEF MovePrevious, MoveCurrent, Record, Goto, TypeOK
    <3> QED
      BY <3>2, <3>3, <3>4, <3>5 DEF PinInv, PinnedNotRemoved, WriterSteps, Collecting, Procs
  <2>6. ASSUME NEW p \in Procs, GC(p) PROVE PinInv'
    <3>1. sweep' \cap Pinned = {} /\ Pinned' = Pinned
      BY <2>6 DEF GC, Pinned
    <3>2. p \in Writers /\ pc'[p] = "sweep" /\ \A q \in Procs : q # p => pc'[q] = pc[q]
      BY <2>6 DEF GC, Goto, TypeOK, PinInv, WriterSteps
    <3> QED
      BY <2>6, <3>1, <3>2 DEF GC, PinInv, PinnedNotRemoved, WriterSteps, Collecting, Procs
  <2>7. ASSUME NEW p \in Procs, GCNext(p) PROVE PinInv'
    <3>1. PICK r \in sweep : ref' = [ref EXCEPT ![p] = r] /\ sweep' = sweep \ {r}
      BY <2>7 DEF GCNext
    <3>2. r \notin Pinned /\ Pinned' = Pinned
      BY <2>7, <3>1 DEF GCNext, PinInv, Pinned
    <3>3. /\ p \in Writers /\ pc'[p] = "removing" /\ ref'[p] = r
          /\ \A q \in Procs : q # p => pc'[q] = pc[q] /\ ref'[q] = ref[q]
      BY <2>7, <3>1 DEF GCNext, Goto, TypeOK, PinInv, WriterSteps
    <3> QED
      BY <3>1, <3>2, <3>3 DEF PinInv, PinnedNotRemoved, WriterSteps, Collecting, Procs
  <2>8. ASSUME NEW p \in Procs, RemovePart(p) \/ RemoveFailed(p) PROVE PinInv'
    <3>1. p \in Writers
      BY <2>8 DEF RemovePart, RemoveFailed, PinInv, WriterSteps
    <3>2. /\ pc'[p] \in Collecting
          /\ pc'[p] = "removing" => ref'[p] = ref[p] /\ pc[p] = "removing"
          /\ \A q \in Procs : q # p => pc'[q] = pc[q] /\ ref'[q] = ref[q]
      BY <2>8 DEF RemovePart, RemoveFailed, Goto, TypeOK, Collecting
    <3>3. UNCHANGED <<sweep, current, previous>> /\ Pinned' = Pinned
      BY <2>8 DEF RemovePart, RemoveFailed, Pinned
    <3>4. PinnedNotRemoved'
      BY <3>2, <3>3 DEF PinInv, PinnedNotRemoved, Procs
    <3>5. \A q \in Procs : pc'[q] \in WriterSteps => q \in Writers
      BY <3>1, <3>2 DEF PinInv
    <3> QED
      BY <3>1, <3>2, <3>3, <3>4, <3>5 DEF PinInv
  <2>9. CASE UNCHANGED vars
    BY <2>9 DEF vars, PinInv, PinnedNotRemoved, Pinned
  <2> QED
    BY <2>1, <2>2, <2>3, <2>4, <2>5, <2>6, <2>7, <2>8, <2>9 DEF Next, Proceed
<1> QED
  BY <1>1, <1>2, TypeCorrect, PTL DEF Spec

\* So GC never takes a snapshot that a pointer names.
THEOREM PinnedNeverRemoved == Spec => []PinnedNotRemoved
<1>1. PinInv => PinnedNotRemoved
  BY DEF PinInv
<1> QED
  BY <1>1, PinInvariant, PTL

-----------------------------------------------------------------------------
(* Scratch directories. *)

\* The steps at which a process has a scratch directory's name.
Holding == {"materialize", "open", "commit", "rename", "abort", "reopen"}

\* No two processes have the same.
TmpInv ==
    /\ \A p, q \in Procs : tmp[p] = tmp[q] /\ tmp[p] # NoDir => p = q
    /\ \A p \in Procs : pc[p] \notin Holding => tmp[p] = NoDir

\* A process that keeps its name, or gives it back.
LEMMA TmpFrame ==
    ASSUME TypeOK, TmpInv, NEW p \in Procs, NEW step \in Steps, Goto(p, step),
           \/ tmp' = tmp /\ (pc[p] \in Holding => step \in Holding)
           \/ tmp' = [tmp EXCEPT ![p] = NoDir]
    PROVE  TmpInv'
BY DEF TypeOK, TmpInv, Goto

\* MkdirTemp's names are nobody else's, whoever dies and cleans.
THEOREM TmpInvariant == Spec => []TmpInv
<1>1. Init => TmpInv
  BY DEF Init, TmpInv
<1>2. TypeOK /\ TmpInv /\ [Next]_vars => TmpInv'
  <2> SUFFICES ASSUME TypeOK, TmpInv, [Next]_vars PROVE TmpInv'
    OBVIOUS
  <2> USE DEF At
  <2>0. ASSUME NEW p \in Procs, Exit(p) PROVE TmpInv'
    BY <2>0, TmpFrame DEF Exit, Steps
  <2>1. ASSUME NEW p \in Procs, StartReader(p) \/ StartWriter(p) \/ CleanScratch(p) PROVE TmpInv'
    BY <2>1, TmpFrame DEF StartReader, StartWriter, CleanScratch, Steps, Holding
  <2>2. ASSUME NEW p \in Procs, AcquireOnDisk(p) \/ AcquireMissing(p) \/ BeginFailed(p)
        PROVE  TmpInv'
    <3>1. \/ Exit(p)
          \/ tmp' = tmp /\ pc[p] = "acquire" /\ \E step \in Steps : Goto(p, step)
      BY <2>2 DEF AcquireOnDisk, AcquireMissing, BeginFailed, Steps
    <3> QED
      BY <2>0, <3>1, TmpFrame DEF Holding
  <2>3. ASSUME NEW p \in Procs, Begin(p) PROVE TmpInv'
    <3>1. PICK d \in Scratch : tmp' = [tmp EXCEPT ![p] = d] /\ \A q \in Procs : tmp[q] # d
      BY <2>3 DEF Begin
    <3>2. pc' = [pc EXCEPT ![p] = "materialize"]
      BY <2>3 DEF Begin, Goto
    <3> QED
      BY <3>1, <3>2 DEF TypeOK, TmpInv, Holding
  <2>4. ASSUME NEW p \in Procs, Materialize(p) PROVE TmpInv'
    BY <2>4 DEF Materialize, Goto, TypeOK, TmpInv, Holding
  <2>5. ASSUME NEW p \in Procs, MaterializeFailed(p) \/ OpenScratch(p) \/ CommitLook(p)
        PROVE  TmpInv'
    <3>1. tmp' = tmp /\ \E step \in Holding : Goto(p, step)
      BY <2>5 DEF MaterializeFailed, OpenScratch, CommitLook, Holding
    <3> QED
      BY <3>1, TmpFrame DEF Holding, Steps
  <2>6. ASSUME NEW p \in Procs, Abort(p) \/ CommitRename(p) \/ OpenCommitted(p) PROVE TmpInv'
    <3>1. \/ Exit(p)
          \/ tmp' = tmp /\ Goto(p, "reopen")
          \/ tmp' = [tmp EXCEPT ![p] = NoDir] /\ Goto(p, "using")
      BY <2>6 DEF Abort, CommitRename, OpenCommitted
    <3> QED
      BY <2>0, <3>1, TmpFrame DEF Holding, Steps
  <2>7. ASSUME NEW p \in Procs, UseAndExit(p) \/ GCDone(p) \/ Crash(p) PROVE TmpInv'
    BY <2>0, <2>7 DEF UseAndExit, GCDone, Crash
  <2>8. ASSUME NEW p \in Procs, MovePrevious(p) \/ MoveCurrent(p) \/ Record(p) PROVE TmpInv'
    BY <2>8, TmpFrame DEF MovePrevious, MoveCurrent, Record, Steps, Holding
  <2>9. ASSUME NEW p \in Procs, RemovePart(p) PROVE TmpInv'
    BY <2>9 DEF RemovePart, Goto, TypeOK, TmpInv, Holding
  <2>11. ASSUME NEW p \in Procs, GC(p) \/ GCNext(p) \/ RemoveFailed(p) PROVE TmpInv'
    BY <2>11, TmpFrame DEF GC, GCNext, RemoveFailed, Steps, Holding
  <2>10. CASE UNCHANGED vars
    BY <2>10 DEF vars, TmpInv
  <2> QED
    BY <2>1, <2>2, <2>3, <2>4, <2>5, <2>6, <2>7, <2>8, <2>9, <2>10, <2>11
       DEF Next, Proceed, Acquire
<1> QED
  BY <1>1, <1>2, TypeCorrect, PTL DEF Spec

\* What a process has committed it has no more in scratch, and what is in
\* scratch is somebody's.
OwnedInv ==
    /\ \A p \in Procs, d \in Scratch : pc[p] = "reopen" /\ tmp[p] = d => scratch[d] = Absent
    /\ ScratchIsOwned

\* A step that leaves nothing new in scratch but for the process that takes it.
LEMMA OwnedStep ==
    ASSUME OwnedInv, TmpInv', NEW p \in Procs,
           \A q \in Procs : q # p => pc'[q] = pc[q] /\ tmp'[q] = tmp[q],
           \A d \in Scratch :
              scratch'[d] # Absent => \/ tmp'[p] = d /\ pc'[p] # "reopen"
                                      \/ tmp[p] # d /\ tmp'[p] # d /\ scratch[d] # Absent
    PROVE  OwnedInv'
<1>1. ASSUME NEW q \in Procs, NEW d \in Scratch, pc'[q] = "reopen", tmp'[q] = d
      PROVE  scratch'[d] = Absent
  <2>1. CASE q = p
    BY <1>1, <2>1
  <2>2. CASE q # p
    <3>1. scratch[d] = Absent
      BY <1>1, <2>2 DEF OwnedInv
    <3>2. tmp'[p] # d
      BY <1>1, <2>2, Constants DEF TmpInv
    <3> QED
      BY <3>1, <3>2
  <2> QED
    BY <2>1, <2>2
<1>2. ASSUME NEW d \in Scratch, scratch'[d] # Absent
      PROVE  \E q \in Procs : tmp'[q] = d
  BY <1>2 DEF OwnedInv, ScratchIsOwned
<1> QED
  BY <1>1, <1>2 DEF OwnedInv, ScratchIsOwned

\* With nobody dying no error path of Acquire or Commit leaves a scratch
\* directory behind, for any number of processes, with a writer's cleaning in
\* between.
THEOREM OwnedInvariant ==
    ASSUME CrashSteps = {}
    PROVE  Spec => []OwnedInv
<1>1. Init => OwnedInv
  BY DEF Init, OwnedInv, ScratchIsOwned
<1>2. TypeOK /\ TmpInv /\ TmpInv' /\ OwnedInv /\ [Next]_vars => OwnedInv'
  <2> SUFFICES ASSUME TypeOK, TmpInv, TmpInv', OwnedInv, [Next]_vars PROVE OwnedInv'
    OBVIOUS
  <2> USE DEF At
  <2>0. ASSUME NEW p \in Procs, Exit(p), pc[p] \notin Holding \/ pc[p] = "reopen",
               UNCHANGED scratch
        PROVE  OwnedInv'
    <3>1. \A q \in Procs : q # p => pc'[q] = pc[q] /\ tmp'[q] = tmp[q]
      BY <2>0 DEF Exit, Goto, TypeOK
    <3>2. tmp'[p] = NoDir
      BY <2>0 DEF Exit, TypeOK
    <3>3. \A d \in Scratch : scratch[d] # Absent => tmp[p] # d
      BY <2>0, Constants DEF TmpInv, OwnedInv
    <3> QED
      BY <2>0, <3>1, <3>2, <3>3, OwnedStep, Constants
  <2>1. ASSUME NEW p \in Procs, UNCHANGED scratch, tmp' = tmp,
               pc' = pc \/ \E step \in Steps \ {"reopen"} : Goto(p, step)
        PROVE  OwnedInv'
    BY <2>1 DEF OwnedInv, ScratchIsOwned, Goto, TypeOK
  <2>2. ASSUME NEW p \in Procs,
               StartReader(p) \/ StartWriter(p) \/ AcquireMissing(p) \/ MaterializeFailed(p)
                 \/ OpenScratch(p) \/ GC(p) \/ GCNext(p) \/ RemovePart(p) \/ RemoveFailed(p)
                 \/ MovePrevious(p) \/ MoveCurrent(p) \/ Record(p)
        PROVE  OwnedInv'
    <3>1. UNCHANGED scratch /\ tmp' = tmp
      BY <2>2 DEF StartReader, StartWriter, AcquireMissing, MaterializeFailed, OpenScratch,
                  GC, GCNext, RemovePart, RemoveFailed, MovePrevious, MoveCurrent, Record
    <3>2. pc' = pc \/ \E step \in Steps \ {"reopen"} : Goto(p, step)
      BY <2>2 DEF StartReader, StartWriter, AcquireMissing, MaterializeFailed, OpenScratch,
                  GC, GCNext, RemovePart, RemoveFailed, MovePrevious, MoveCurrent, Record, Steps
    <3> QED
      BY <2>1, <3>1, <3>2
  <2>3. ASSUME NEW p \in Procs, CleanScratch(p) PROVE OwnedInv'
    BY <2>3 DEF CleanScratch, OwnedInv, ScratchIsOwned
  <2>4. ASSUME NEW p \in Procs, AcquireOnDisk(p) PROVE OwnedInv'
    <3>1. CASE Exit(p)
      BY <2>0, <2>4, <3>1 DEF AcquireOnDisk, Holding
    <3>2. CASE Goto(p, "using") /\ tmp' = tmp
      BY <2>1, <2>4, <3>2 DEF AcquireOnDisk, Steps
    <3> QED
      BY <2>4, <3>1, <3>2 DEF AcquireOnDisk
  <2>5. ASSUME NEW p \in Procs, BeginFailed(p) \/ UseAndExit(p) \/ GCDone(p) PROVE OwnedInv'
    BY <2>0, <2>5 DEF BeginFailed, UseAndExit, GCDone, Holding
  <2>6. ASSUME NEW p \in Procs, Begin(p) PROVE OwnedInv'
    <3>1. PICK d \in Scratch : scratch' = [scratch EXCEPT ![d] = {}] /\ tmp' = [tmp EXCEPT ![p] = d]
      BY <2>6 DEF Begin
    <3>2. tmp'[p] = d /\ pc'[p] = "materialize" /\ tmp[p] = NoDir
      BY <2>6, <3>1 DEF Begin, Goto, TypeOK, TmpInv, Holding
    <3>3. \A q \in Procs : q # p => pc'[q] = pc[q] /\ tmp'[q] = tmp[q]
      BY <2>6, <3>1 DEF Begin, Goto, TypeOK
    <3>4. \A e \in Scratch : e # d => scratch'[e] = scratch[e]
      BY <3>1 DEF TypeOK
    <3> QED
      BY <3>2, <3>3, <3>4, OwnedStep, Constants
  <2>7. ASSUME NEW p \in Procs, Materialize(p) PROVE OwnedInv'
    <3>1. tmp[p] \in Scratch /\ tmp' = tmp /\ pc[p] = "materialize"
      BY <2>7 DEF Materialize, TypeOK
    <3>2. pc'[p] # "reopen" /\ \A q \in Procs : q # p => pc'[q] = pc[q]
      BY <2>7 DEF Materialize, Goto, TypeOK
    <3>3. \A e \in Scratch : e # tmp[p] => scratch'[e] = scratch[e]
      BY <2>7 DEF Materialize, TypeOK
    <3> QED
      BY <3>1, <3>2, <3>3, OwnedStep
  <2>8. ASSUME NEW p \in Procs, Abort(p) \/ CommitLook(p) \/ CommitRename(p) PROVE OwnedInv'
    <3>1. \/ scratch' = [scratch EXCEPT ![tmp[p]] = Absent]
          \/ UNCHANGED <<scratch, tmp>> /\ Goto(p, "rename")
      BY <2>8 DEF Abort, CommitLook, CommitRename
    <3>2. CASE scratch' = [scratch EXCEPT ![tmp[p]] = Absent]
      <4>1. \/ Exit(p)
            \/ tmp' = tmp /\ \E step \in {"reopen", "rename"} : Goto(p, step)
        BY <2>8 DEF Abort, CommitLook, CommitRename
      <4>2. \A q \in Procs : q # p => pc'[q] = pc[q] /\ tmp'[q] = tmp[q]
        BY <4>1 DEF Exit, Goto, TypeOK
      <4>3. tmp'[p] \in {tmp[p], NoDir}
        BY <4>1 DEF Exit, TypeOK
      <4>4. \A d \in Scratch : scratch'[d] # Absent => tmp[p] # d /\ scratch[d] # Absent
        BY <3>2 DEF TypeOK
      <4> QED
        BY <4>2, <4>3, <4>4, OwnedStep, Constants
    <3>3. CASE UNCHANGED <<scratch, tmp>> /\ Goto(p, "rename")
      BY <2>1, <3>3 DEF Steps
    <3> QED
      BY <3>1, <3>2, <3>3
  <2>9. ASSUME NEW p \in Procs, OpenCommitted(p) PROVE OwnedInv'
    <3>1. CASE Exit(p)
      BY <2>0, <2>9, <3>1 DEF OpenCommitted
    <3>2. CASE Goto(p, "using") /\ tmp' = [tmp EXCEPT ![p] = NoDir]
      <4>1. \A d \in Scratch : scratch[d] # Absent => tmp[p] # d
        BY <2>9 DEF OpenCommitted, OwnedInv
      <4>2. tmp'[p] = NoDir /\ \A q \in Procs : q # p => pc'[q] = pc[q] /\ tmp'[q] = tmp[q]
        BY <3>2 DEF Goto, TypeOK
      <4>3. UNCHANGED scratch
        BY <2>9 DEF OpenCommitted
      <4> QED
        BY <4>1, <4>2, <4>3, OwnedStep, Constants
    <3> QED
      BY <2>9, <3>1, <3>2 DEF OpenCommitted
  <2>10. ASSUME NEW p \in Procs, Crash(p) PROVE OwnedInv'
    BY <2>10 DEF Crash
  <2>11. CASE UNCHANGED vars
    BY <2>11 DEF vars, OwnedInv, ScratchIsOwned
  <2> QED
    BY <2>2, <2>3, <2>4, <2>5, <2>6, <2>7, <2>8, <2>9, <2>10, <2>11 DEF Next, Proceed, Acquire
<1> QED
  BY <1>1, <1>2, TypeCorrect, TmpInvariant, PTL DEF Spec

\* Every scratch directory is that of a fetch in progress.
THEOREM ScratchAlwaysOwned ==
    ASSUME CrashSteps = {}
    PROVE  Spec => []ScratchIsOwned
<1>1. OwnedInv => ScratchIsOwned
  BY DEF OwnedInv
<1> QED
  BY <1>1, OwnedInvariant, PTL

-----------------------------------------------------------------------------
(* The promise of ImmutableStore. *)

\* Either everybody fetches without the lock or everybody takes it: the README
\* names the runs that break the promise where some do and some do not.
Orderly == Readers = {} \/ Writers = {}

\* A fetch has written just what it has no more to write, and has all of it from
\* Open to Commit.
CopyInv ==
    /\ \A p \in Procs : At(p, "materialize") => scratch[tmp[p]] = Parts \ todo[p]
    /\ \A p \in Procs : pc[p] \in {"open", "commit", "rename"} => scratch[tmp[p]] = Parts

\* Who collects or cleans is the only process at work.
LEMMA WriterAlone ==
    ASSUME Orderly, TypeOK, PinInv, NEW p \in Procs, NEW q \in Procs,
           pc[p] \in WriterSteps, pc[q] # "off"
    PROVE  p = q
<1>1. p \in Writers
  BY DEF PinInv
<1>2. Readers = {}
  BY <1>1 DEF Orderly
<1>3. q \in Writers
  BY <1>2 DEF Procs
<1> QED
  BY <1>1, <1>3, OneWriter DEF WriterSteps

\* A step of a process that touches nobody else's scratch.
LEMMA CopyStep ==
    ASSUME TypeOK, CopyInv, NEW p \in Procs,
           \A q \in Procs : q # p => pc'[q] = pc[q] /\ tmp'[q] = tmp[q] /\ todo'[q] = todo[q],
           \A q \in Procs : q # p /\ pc[q] \in {"materialize", "open", "commit", "rename"}
                               => scratch'[tmp[q]] = scratch[tmp[q]],
           pc'[p] = "materialize" => scratch'[tmp'[p]] = Parts \ todo'[p],
           pc'[p] \in {"open", "commit", "rename"} => scratch'[tmp'[p]] = Parts
    PROVE  CopyInv'
<1> USE DEF At
<1>1. \A q \in Procs : pc'[q] = "materialize" => scratch'[tmp'[q]] = Parts \ todo'[q]
  BY DEF CopyInv
<1>2. \A q \in Procs : pc'[q] \in {"open", "commit", "rename"} => scratch'[tmp'[q]] = Parts
  BY DEF CopyInv
<1> QED
  BY <1>1, <1>2 DEF CopyInv

\* A process that is over.
LEMMA CopyExit ==
    ASSUME TypeOK, TmpInv, CopyInv, NEW p \in Procs, Exit(p),
           scratch' = scratch
             \/ (tmp[p] # NoDir /\ scratch' = [scratch EXCEPT ![tmp[p]] = Absent])
    PROVE  CopyInv'
<1>1. \A q \in Procs : q # p => pc'[q] = pc[q] /\ tmp'[q] = tmp[q] /\ todo'[q] = todo[q]
  BY DEF Exit, Goto, TypeOK
<1>2. pc'[p] = "off"
  BY DEF Exit, Goto, TypeOK
<1>3. \A q \in Procs : q # p /\ pc[q] \in {"materialize", "open", "commit", "rename"}
                         => scratch'[tmp[q]] = scratch[tmp[q]]
  BY DEF TypeOK, TmpInv
<1> QED
  BY <1>1, <1>2, <1>3, CopyStep

\* The steps of a fetch keep what they have written apart from everybody
\* else's.
LEMMA CopyAcquire ==
    ASSUME TypeOK, TmpInv, CopyInv, NEW p \in Procs, Acquire(p)
    PROVE  CopyInv'
<1> USE DEF At
<1>a. ASSUME NEW step \in Steps, Goto(p, step)
      PROVE  pc'[p] = step /\ \A q \in Procs : q # p => pc'[q] = pc[q]
  BY <1>a DEF Goto, TypeOK
<1>1. CASE AcquireOnDisk(p)
  <2>1. CASE Loads(final[ref[p]])
    <3>1. Goto(p, "using") /\ "using" \in Steps /\ UNCHANGED <<scratch, tmp, todo>>
      BY <1>1, <2>1 DEF AcquireOnDisk, Steps
    <3> QED
      BY <1>a, <3>1, CopyStep
  <2>2. CASE ~Loads(final[ref[p]])
    BY <1>1, <2>2, CopyExit DEF AcquireOnDisk
  <2> QED
    BY <2>1, <2>2
<1>2. CASE AcquireMissing(p)
  <2>1. Goto(p, "begin") /\ "begin" \in Steps /\ UNCHANGED <<scratch, tmp, todo>>
    BY <1>2 DEF AcquireMissing, Steps
  <2> QED
    BY <1>a, <2>1, CopyStep
<1>3. CASE Begin(p)
  <2>1. PICK d \in Scratch : /\ scratch' = [scratch EXCEPT ![d] = {}]
                             /\ tmp' = [tmp EXCEPT ![p] = d]
                             /\ \A q \in Procs : tmp[q] # d
    BY <1>3 DEF Begin
  <2>2. Goto(p, "materialize") /\ "materialize" \in Steps
    BY <1>3 DEF Begin, Steps
  <2>3. todo' = [todo EXCEPT ![p] = Parts]
    BY <1>3 DEF Begin
  <2>4. scratch'[tmp'[p]] = Parts \ todo'[p]
    BY <2>1, <2>3 DEF TypeOK
  <2>5. \A q \in Procs : q # p => tmp'[q] = tmp[q] /\ todo'[q] = todo[q]
    BY <2>1, <2>3 DEF TypeOK
  <2>6. \A q \in Procs : scratch'[tmp[q]] = scratch[tmp[q]]
    BY <2>1 DEF TypeOK
  <2> QED
    BY <1>a, <2>2, <2>3, <2>4, <2>5, <2>6, CopyStep
<1>4. CASE BeginFailed(p)
  BY <1>4, CopyExit DEF BeginFailed
<1>5. CASE Materialize(p)
  <2>1. PICK f \in todo[p] :
          /\ scratch' = [scratch EXCEPT ![tmp[p]] = (IF @ = Absent THEN {} ELSE @) \cup {f}]
          /\ todo' = [todo EXCEPT ![p] = todo[p] \ {f}]
          /\ IF todo'[p] = {} THEN Goto(p, "open") ELSE UNCHANGED pc
    BY <1>5 DEF Materialize
  <2>2. tmp[p] \in Scratch /\ pc[p] = "materialize" /\ tmp' = tmp
    BY <1>5 DEF Materialize, TypeOK
  <2>3. scratch[tmp[p]] = Parts \ todo[p] /\ todo[p] \in SUBSET Parts
    BY <2>2 DEF CopyInv, TypeOK
  <2>4. scratch[tmp[p]] # Absent
    BY <2>3, AbsentIsNoDir
  <2>5. scratch'[tmp[p]] = Parts \ todo'[p]
    <3>1. scratch'[tmp[p]] = scratch[tmp[p]] \cup {f}
      BY <2>1, <2>2, <2>4 DEF TypeOK
    <3>2. todo'[p] = todo[p] \ {f} /\ f \in Parts
      BY <2>1, <2>3 DEF TypeOK
    <3> QED
      BY <2>3, <3>1, <3>2
  <2>6. pc'[p] \in {"open", "materialize"} /\ (pc'[p] = "open" => todo'[p] = {})
    BY <2>1, <2>2 DEF Goto, TypeOK
  <2>7. \A q \in Procs : q # p => pc'[q] = pc[q] /\ todo'[q] = todo[q]
    BY <2>1 DEF Goto, TypeOK
  <2>8. \A q \in Procs : q # p => tmp[q] # tmp[p]
    BY <2>2, Constants DEF TmpInv
  <2>9. \A q \in Procs : q # p /\ pc[q] \in {"materialize", "open", "commit", "rename"}
                           => scratch'[tmp[q]] = scratch[tmp[q]]
    BY <2>1, <2>8 DEF TypeOK
  <2>10. scratch'[tmp'[p]] = Parts \ todo'[p] /\ (todo'[p] = {} => scratch'[tmp'[p]] = Parts)
    BY <2>2, <2>5
  <2> QED
    BY <2>2, <2>6, <2>7, <2>9, <2>10, CopyStep
<1>6. CASE MaterializeFailed(p)
  <2>1. Goto(p, "abort") /\ "abort" \in Steps /\ UNCHANGED <<scratch, tmp, todo>>
    BY <1>6 DEF MaterializeFailed, Steps
  <2> QED
    BY <1>a, <2>1, CopyStep
<1>7. CASE OpenScratch(p)
  <2>1. /\ Goto(p, "commit") \/ Goto(p, "abort")
        /\ UNCHANGED <<scratch, tmp, todo>>
    BY <1>7 DEF OpenScratch
  <2>2. scratch[tmp[p]] = Parts
    BY <1>7 DEF OpenScratch, CopyInv
  <2> QED
    BY <1>a, <2>1, <2>2, CopyStep DEF Steps
<1>8. CASE Abort(p)
  <2>1. tmp[p] # NoDir
    BY <1>8 DEF Abort, TypeOK
  <2> QED
    BY <1>8, <2>1, CopyExit DEF Abort
<1>9. CASE CommitLook(p)
  <2>0. scratch[tmp[p]] = Parts /\ tmp[p] # NoDir /\ UNCHANGED <<tmp, todo>>
    BY <1>9 DEF CommitLook, CopyInv, TypeOK
  <2>1. CASE Has(ref[p])
    <3>1. Goto(p, "reopen") /\ "reopen" \in Steps /\ scratch' = [scratch EXCEPT ![tmp[p]] = Absent]
      BY <1>9, <2>1 DEF CommitLook, Steps
    <3>2. \A q \in Procs : q # p => tmp[q] # tmp[p]
      BY <2>0 DEF TmpInv
    <3>3. \A q \in Procs : q # p /\ pc[q] \in {"materialize", "open", "commit", "rename"}
                             => scratch'[tmp[q]] = scratch[tmp[q]]
      BY <3>1, <3>2 DEF TypeOK
    <3> QED
      BY <1>a, <2>0, <3>1, <3>3, CopyStep
  <2>2. CASE ~Has(ref[p])
    <3>1. Goto(p, "rename") /\ "rename" \in Steps /\ scratch' = scratch
      BY <1>9, <2>2 DEF CommitLook, Steps
    <3> QED
      BY <1>a, <2>0, <3>1, CopyStep
  <2> QED
    BY <2>1, <2>2
<1>10. CASE CommitRename(p)
  <2>0. /\ scratch[tmp[p]] = Parts /\ tmp[p] # NoDir
        /\ scratch' = [scratch EXCEPT ![tmp[p]] = Absent]
    BY <1>10 DEF CommitRename, CopyInv, TypeOK
  <2>1. CASE Has(ref[p]) \/ scratch[tmp[p]] = Absent
    BY <1>10, <2>0, <2>1, CopyExit DEF CommitRename
  <2>2. CASE ~(Has(ref[p]) \/ scratch[tmp[p]] = Absent)
    <3>1. Goto(p, "reopen") /\ "reopen" \in Steps /\ UNCHANGED <<tmp, todo>>
      BY <1>10, <2>2 DEF CommitRename, Steps
    <3>2. \A q \in Procs : q # p => tmp[q] # tmp[p]
      BY <2>0 DEF TmpInv
    <3>3. \A q \in Procs : q # p /\ pc[q] \in {"materialize", "open", "commit", "rename"}
                             => scratch'[tmp[q]] = scratch[tmp[q]]
      BY <2>0, <3>2 DEF TypeOK
    <3> QED
      BY <1>a, <3>1, <3>3, CopyStep
  <2> QED
    BY <2>1, <2>2
<1>11. CASE OpenCommitted(p)
  <2>1. CASE Loads(final[ref[p]])
    <3>1. /\ Goto(p, "using") /\ "using" \in Steps /\ UNCHANGED <<scratch, todo>>
          /\ tmp' = [tmp EXCEPT ![p] = NoDir]
      BY <1>11, <2>1 DEF OpenCommitted, Steps
    <3>2. \A q \in Procs : q # p => tmp'[q] = tmp[q]
      BY <3>1 DEF TypeOK
    <3> QED
      BY <1>a, <3>1, <3>2, CopyStep
  <2>2. CASE ~Loads(final[ref[p]])
    BY <1>11, <2>2, CopyExit DEF OpenCommitted
  <2> QED
    BY <2>1, <2>2
<1> QED
  BY <1>1, <1>2, <1>3, <1>4, <1>5, <1>6, <1>7, <1>8, <1>9, <1>10, <1>11 DEF Acquire

\* Where Orderly holds, what a fetch has written stays as it is until it is
\* renamed, for any number of processes, files and failing fetches, with
\* writers cleaning scratch directories and dying anywhere.
THEOREM CopyInvariant ==
    ASSUME Orderly
    PROVE  Spec => []CopyInv
<1>1. Init => CopyInv
  BY DEF Init, CopyInv, At
<1>2. TypeOK /\ PinInv /\ TmpInv /\ CopyInv /\ [Next]_vars => CopyInv'
  <2> SUFFICES ASSUME TypeOK, PinInv, TmpInv, CopyInv, [Next]_vars PROVE CopyInv'
    OBVIOUS
  <2> USE DEF At
  <2>a. ASSUME NEW p \in Procs, NEW step \in Steps, Goto(p, step)
        PROVE  pc'[p] = step /\ \A q \in Procs : q # p => pc'[q] = pc[q]
    BY <2>a DEF Goto, TypeOK
  <2>1. ASSUME NEW p \in Procs, StartReader(p) \/ StartWriter(p) PROVE CopyInv'
    <3>1. UNCHANGED <<scratch, tmp, todo>> /\ (Goto(p, "acquire") \/ Goto(p, "start"))
      BY <2>1 DEF StartReader, StartWriter
    <3> QED
      BY <2>a, <3>1, CopyStep DEF Steps
  <2>2. ASSUME NEW p \in Procs, CleanScratch(p) PROVE CopyInv'
    <3>1. /\ pc[p] = "start" /\ Goto(p, "acquire") /\ "acquire" \in Steps
          /\ UNCHANGED <<tmp, todo>>
      BY <2>2 DEF CleanScratch, Steps
    <3>2. \A q \in Procs : q # p => pc[q] = "off"
      BY <3>1, WriterAlone DEF WriterSteps
    <3> QED
      BY <2>a, <3>1, <3>2, CopyStep
  <2>3. ASSUME NEW p \in Procs, Acquire(p) PROVE CopyInv'
    BY <2>3, CopyAcquire
  <2>4. ASSUME NEW p \in Procs, UseAndExit(p) \/ GCDone(p) \/ Crash(p) PROVE CopyInv'
    <3>1. Exit(p) /\ UNCHANGED scratch
      BY <2>4 DEF UseAndExit, GCDone, Crash
    <3> QED
      BY <3>1, CopyExit
  <2>5. ASSUME NEW p \in Procs,
               \/ MovePrevious(p) \/ MoveCurrent(p) \/ Record(p)
               \/ GC(p) \/ GCNext(p) \/ RemovePart(p) \/ RemoveFailed(p)
        PROVE  CopyInv'
    <3>1. /\ UNCHANGED <<scratch, tmp, todo>>
          /\ \E step \in {"apply", "record", "gc", "sweep", "removing"} : Goto(p, step)
      <4>1. CASE RemovePart(p)
        BY <4>1 DEF RemovePart, Goto, TypeOK
      <4>2. CASE ~RemovePart(p)
        BY <2>5, <4>2 DEF MovePrevious, MoveCurrent, Record, GC, GCNext, RemoveFailed
      <4> QED
        BY <4>1, <4>2
    <3> QED
      BY <2>a, <3>1, CopyStep DEF Steps
  <2>6. CASE UNCHANGED vars
    BY <2>6 DEF vars, CopyInv
  <2> QED
    BY <2>1, <2>2, <2>3, <2>4, <2>5, <2>6 DEF Next, Proceed
<1> QED
  BY <1>1, <1>2, TypeCorrect, PinInvariant, TmpInvariant, PTL DEF Spec

\* A step that no user of the store sees.
LEMMA Unseen ==
    ASSUME NEW p \in Procs, UNCHANGED final, pc[p] # "using", pc'[p] # "using",
           \A q \in Procs : q # p => pc'[q] = pc[q] /\ ref'[q] = ref[q]
    PROVE  Stored' = Stored /\ InUse' = InUse
BY DEF Stored, InUse, At

\* A process opens a snapshot, or what a removal has left of it.
LEMMA Opens ==
    ASSUME TypeOK, NEW p \in Procs, pc[p] # "using", pc'[p] = "using",
           UNCHANGED <<final, ref>>, ref[p] \in Refs, final[ref[p]] # Absent,
           \A q \in Procs : q # p => pc'[q] = pc[q]
    PROVE  Promise!Open(p, ref[p])
<1>1. Stored' = Stored /\ Stored[ref[p]] # Absent
  BY AbsentIsNoDir DEF Stored, Remains
<1>2. InUse[p] = NoRef /\ InUse' = [InUse EXCEPT ![p] = ref[p]]
  BY DEF InUse, At
<1> QED
  BY <1>1, <1>2 DEF Promise!Open

\* A process lets go of the snapshot it has used.
LEMMA Closes ==
    ASSUME TypeOK, NEW p \in Procs, pc[p] = "using", pc'[p] # "using", UNCHANGED final,
           \A q \in Procs : q # p => pc'[q] = pc[q] /\ ref'[q] = ref[q]
    PROVE  Promise!Close(p)
<1>1. Stored' = Stored
  BY DEF Stored
<1>2. InUse[p] # NoRef /\ InUse' = [InUse EXCEPT ![p] = NoRef]
  BY DEF InUse, TypeOK, At
<1> QED
  BY <1>1, <1>2 DEF Promise!Close

\* What a fetch shows to the users of the store: nothing, its snapshot when it
\* is renamed into place, and that it has been opened.
LEMMA AcquireMaps ==
    ASSUME TypeOK, CopyInv, NEW p \in Procs, Acquire(p)
    PROVE  [Promise!Next]_Promise!vars
<1> USE DEF At
<1>0. pc[p] # "using" /\ ref[p] \in Refs
  <2>1. pc[p] \notin {"off", "using", "start", "gc", "sweep"}
    BY DEF Acquire, AcquireOnDisk, AcquireMissing, Begin, BeginFailed, Materialize,
           MaterializeFailed, OpenScratch, Abort, CommitLook, CommitRename, OpenCommitted
  <2> QED
    BY <2>1 DEF TypeOK
<1>1. CASE /\ UNCHANGED final
           /\ Exit(p) \/ (ref' = ref /\ \E step \in Steps \ {"using"} : Goto(p, step))
  <2>1. pc'[p] # "using" /\ \A q \in Procs : q # p => pc'[q] = pc[q] /\ ref'[q] = ref[q]
    BY <1>1 DEF Exit, Goto, TypeOK
  <2> QED
    BY <1>0, <1>1, <2>1, Unseen DEF Promise!vars
<1>2. CASE UNCHANGED <<final, ref>> /\ Goto(p, "using") /\ Loads(final[ref[p]])
  <2>1. pc'[p] = "using" /\ \A q \in Procs : q # p => pc'[q] = pc[q]
    BY <1>2 DEF Goto, TypeOK
  <2>2. final[ref[p]] # Absent
    BY <1>2 DEF Loads
  <2> QED
    BY <1>0, <1>2, <2>1, <2>2, Opens DEF Promise!Next
<1>3. CASE CommitRename(p) /\ final' # final
  <2>1. /\ final[ref[p]] = Absent /\ final' = [final EXCEPT ![ref[p]] = Parts]
        /\ Goto(p, "reopen") /\ ref' = ref
    BY <1>3 DEF CommitRename, Has, CopyInv
  <2>2. pc'[p] # "using" /\ \A q \in Procs : q # p => pc'[q] = pc[q]
    BY <2>1 DEF Goto, TypeOK
  <2>3. Stored' = [Stored EXCEPT ![ref[p]] = Parts] /\ Stored[ref[p]] = Absent
    BY <1>0, <2>1 DEF Stored, TypeOK
  <2>4. InUse' = InUse
    BY <1>0, <2>1, <2>2 DEF InUse
  <2> QED
    BY <1>0, <2>3, <2>4 DEF Promise!Add, Promise!Next
<1>4. \/ /\ UNCHANGED final
         /\ Exit(p) \/ (ref' = ref /\ \E step \in Steps \ {"using"} : Goto(p, step))
      \/ UNCHANGED <<final, ref>> /\ Goto(p, "using") /\ Loads(final[ref[p]])
      \/ CommitRename(p) /\ final' # final
  <2>1. CASE AcquireOnDisk(p) \/ OpenCommitted(p)
    BY <2>1 DEF AcquireOnDisk, OpenCommitted
  <2>2. CASE AcquireMissing(p) \/ Begin(p) \/ BeginFailed(p) \/ MaterializeFailed(p)
               \/ OpenScratch(p) \/ Abort(p) \/ CommitLook(p)
    BY <2>2 DEF AcquireMissing, Begin, BeginFailed, MaterializeFailed, OpenScratch, Abort,
                CommitLook, Steps
  <2>3. CASE Materialize(p)
    <3>1. Goto(p, "materialize") \/ Goto(p, "open")
      BY <2>3 DEF Materialize, Goto, TypeOK
    <3> QED
      BY <2>3, <3>1 DEF Materialize, Steps
  <2>4. CASE CommitRename(p)
    BY <2>4 DEF CommitRename, Steps
  <2> QED
    BY <2>1, <2>2, <2>3, <2>4 DEF Acquire
<1> QED
  BY <1>1, <1>2, <1>3, <1>4

\* A removal shows when it takes the first file and when it takes the directory.
LEMMA RemovalMaps ==
    ASSUME Orderly, TypeOK, PinInv, NEW p \in Procs, RemovePart(p)
    PROVE  [Promise!Next]_Promise!vars
<1> USE DEF At
<1> DEFINE r == ref[p]
<1>0. pc[p] = "removing" /\ r \in Refs /\ final[r] \in SUBSET Parts
  BY DEF RemovePart, TypeOK, Dirs
<1>1. \A q \in Procs : pc[q] # "using" /\ pc'[q] # "using"
  <2>1. \A q \in Procs : q # p => pc[q] = "off"
    BY <1>0, WriterAlone DEF WriterSteps
  <2> QED
    BY <1>0, <2>1 DEF RemovePart, Goto, TypeOK
<1>2. InUse' = InUse /\ Promise!Unused(r)
  BY <1>0, <1>1, Constants DEF InUse, Promise!Unused
<1>3. CASE final' = [final EXCEPT ![r] = Absent] /\ final[r] = {}
  <2>1. Stored[r] = Remains /\ Stored' = [Stored EXCEPT ![r] = Absent]
    BY <1>0, <1>3, AbsentIsNoDir, Constants DEF Stored, Remains, TypeOK
  <2> QED
    BY <1>0, <1>2, <2>1 DEF Promise!Clear, Promise!Next
<1>4. ASSUME NEW f \in final[r], final' = [final EXCEPT ![r] = final[r] \ {f}]
      PROVE  [Promise!Next]_Promise!vars
  <2>1. final[r] \ {f} \notin {Absent, Parts}
    BY <1>0, <1>4, AbsentIsNoDir
  <2>2. CASE final[r] = Parts
    <3>1. Stored[r] = Parts /\ Stored' = [Stored EXCEPT ![r] = Remains]
      BY <1>0, <1>4, <2>1, <2>2 DEF Stored, TypeOK
    <3> QED
      BY <1>0, <1>2, <3>1 DEF Promise!Tear, Promise!Next
  <2>3. CASE final[r] # Parts
    <3>1. final[r] # Absent
      BY <1>0, AbsentIsNoDir
    <3>2. Stored' = Stored
      BY <1>0, <1>4, <2>1, <2>3, <3>1 DEF Stored, TypeOK
    <3> QED
      BY <1>2, <3>2 DEF Promise!vars
  <2> QED
    BY <2>2, <2>3
<1> QED
  BY <1>3, <1>4 DEF RemovePart

\* The snapshots directory implements ImmutableStore: a snapshot appears whole,
\* loses something to a removal only, and does not change while somebody works
\* from it, for any number of processes that all fetch without the lock or all
\* hold it in turn, whatever fails, a removal included, and wherever they die.
THEOREM AlwaysKeepsPromise ==
    ASSUME Orderly
    PROVE  Spec => KeepsPromise
<1>1. Init => Promise!Init
  BY DEF Init, Promise!Init, Stored, InUse, At
<1>2. TypeOK /\ PinInv /\ CopyInv /\ [Next]_vars => [Promise!Next]_Promise!vars
  <2> SUFFICES ASSUME TypeOK, PinInv, CopyInv, [Next]_vars
               PROVE  [Promise!Next]_Promise!vars
    OBVIOUS
  <2> USE DEF At
  <2>1. ASSUME NEW p \in Procs,
               \/ StartReader(p) \/ StartWriter(p) \/ CleanScratch(p) \/ MoveCurrent(p)
               \/ Record(p) \/ GC(p) \/ GCNext(p) \/ RemoveFailed(p) \/ GCDone(p)
               \/ Crash(p) /\ pc[p] # "using"
        PROVE  [Promise!Next]_Promise!vars
    <3>1. UNCHANGED final /\ pc[p] # "using"
      BY <2>1 DEF StartReader, StartWriter, CleanScratch, MoveCurrent, Record, GC, GCNext,
                  RemoveFailed, GCDone, Crash
    <3>2. \A q \in Procs : q # p => ref'[q] = ref[q]
      BY <2>1 DEF StartReader, StartWriter, CleanScratch, MoveCurrent, Record, GC, GCNext,
                  RemoveFailed, GCDone, Crash, Exit, TypeOK
    <3>3. \E step \in Steps \ {"using"} : Goto(p, step)
      BY <2>1 DEF StartReader, StartWriter, CleanScratch, MoveCurrent, Record, GC, GCNext,
                  RemoveFailed, GCDone, Crash, Exit, Steps
    <3>4. pc'[p] # "using" /\ \A q \in Procs : q # p => pc'[q] = pc[q]
      BY <3>3 DEF Goto, TypeOK
    <3> QED
      BY <3>1, <3>2, <3>4, Unseen DEF Promise!vars
  <2>2. ASSUME NEW p \in Procs, Acquire(p) PROVE [Promise!Next]_Promise!vars
    BY <2>2, AcquireMaps
  <2>3. ASSUME NEW p \in Procs,
               UseAndExit(p) \/ MovePrevious(p) \/ (Crash(p) /\ pc[p] = "using")
        PROVE  [Promise!Next]_Promise!vars
    <3>1. UNCHANGED final /\ pc[p] = "using"
      BY <2>3 DEF UseAndExit, MovePrevious, Crash
    <3>2. \A q \in Procs : q # p => ref'[q] = ref[q]
      BY <2>3 DEF UseAndExit, MovePrevious, Crash, Exit, TypeOK
    <3>3. Goto(p, "off") \/ Goto(p, "apply")
      BY <2>3 DEF UseAndExit, MovePrevious, Crash, Exit
    <3>4. pc'[p] # "using" /\ \A q \in Procs : q # p => pc'[q] = pc[q]
      BY <3>3 DEF Goto, TypeOK
    <3> QED
      BY <3>1, <3>2, <3>4, Closes DEF Promise!Next
  <2>4. ASSUME NEW p \in Procs, RemovePart(p) PROVE [Promise!Next]_Promise!vars
    BY <2>4, RemovalMaps
  <2>5. CASE UNCHANGED vars
    BY <2>5 DEF vars, Promise!vars, Stored, InUse
  <2> QED
    BY <2>1, <2>2, <2>3, <2>4, <2>5 DEF Next, Proceed
<1> QED
  BY <1>1, <1>2, TypeCorrect, PinInvariant, CopyInvariant, PTL DEF Spec, KeepsPromise, Promise!Spec

=============================================================================
