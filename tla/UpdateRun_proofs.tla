--------------------------- MODULE UpdateRun_proofs ---------------------------
(***************************************************************************)
(* What holds of UpdateRun for every set of refs, any number of outputs,   *)
(* any Keep and any of the events: proofs that TLAPS checks.               *)
(***************************************************************************)
EXTENDS UpdateRun, FiniteSetTheorems, FunctionTheorems, TLAPS

\* Each constant assumption under the names the proofs cite.
LEMMA Constants ==
    /\ NoRef \notin Refs
    /\ NumFiles \in Nat /\ NumFiles >= 1
    /\ Keep \in Nat /\ Keep >= 1
    /\ Foreign \notin Contents
BY RefsAssumption, SizeAssumption, ForeignAssumption DEF RefsAssumption, SizeAssumption, ForeignAssumption

\* SaveWrites only ever yields a State, and Committed and Removed an age.
LEMMA SaveType ==
    ASSUME state \in States, NEW s \in States, NEW t \in SaveWrites(s)
    PROVE  t \in States
BY DEF SaveWrites

LEMMA AgeType ==
    ASSUME age \in [Refs -> Nat], NEW r \in Refs
    PROVE  Committed(r) \in [Refs -> Nat] /\ Removed(r) \in [Refs -> Nat]
BY DEF Committed, Removed

\* Removing a snapshot that is on disk leaves every other one there, and
\* committing one leaves all of them there.
LEMMA OthersStay ==
    ASSUME age \in [Refs -> Nat], NEW r \in Refs, NEW x \in Refs, age[x] # 0
    PROVE  /\ Committed(r)[x] # 0
           /\ x # r /\ age[r] # 0 => Removed(r)[x] # 0
BY DEF Committed, Removed

LEMMA EmptyStateType == EmptyState \in States
BY DEF EmptyState, States, OnDisk, MaybeRef

\* A process with no run in it: what Forget leaves in memory is well typed.
LEMMA EmptyLocalType ==
    /\ NoTrigger \in Triggers
    /\ 1 \in 1..(NumFiles + 1)
    /\ "idle" \notin Applying \cup {"build"}
<1>1. NoTrigger \in Triggers
  BY DEF NoTrigger, Triggers, MaybeRef
<1>2. 1 \in 1..(NumFiles + 1)
  BY Constants
<1>3. "idle" \notin Applying \cup {"build"}
  BY DEF Applying
<1> QED
  BY <1>1, <1>2, <1>3

-----------------------------------------------------------------------------
\* Every variable keeps its type in every reachable state, with whatever
\* events: in particular a run never goes on to build without a snapshot.
THEOREM TypeCorrect == Spec => []TypeOK
<1>1. Init => TypeOK
  <2> SUFFICES ASSUME Init PROVE TypeOK
    OBVIOUS
  <2>1. history \in [now : MaybeRef, past : MaybeRef]
    BY DEF Init, MaybeRef
  <2>2. age \in [Refs -> Nat] /\ disk \in [Files -> OnDisk]
    BY DEF Init, OnDisk
  <2> QED
    BY <2>1, <2>2, EmptyStateType, EmptyLocalType DEF Init, TypeOK, MaybeRef
<1>2. TypeOK /\ [Next]_vars => TypeOK'
  <2> SUFFICES ASSUME TypeOK, [Next]_vars PROVE TypeOK'
    OBVIOUS
  <2> USE DEF TypeOK, stored, local, ghosts, Goto, Applying
  <2>1. ASSUME NEW t \in Triggers, Start(t) PROVE TypeOK'
    <3>1. mem' \in States
      BY <2>1 DEF Start, RecordStart, States
    <3>2. state' \in States
      BY <2>1, <3>1, SaveType DEF Start
    <3> QED
      BY <2>1, <3>1, <3>2 DEF Start, RunSteps
  <2>2. CASE Rollback
    <3>1. [ref |-> Pointer(previous), force |-> TRUE] \in Triggers
      BY DEF Pointer, Triggers, MaybeRef
    <3> QED
      BY <2>2, <3>1, <2>1 DEF Rollback
  <2>3. CASE AcquireOnDisk
    BY <2>3 DEF AcquireOnDisk, Use, Has, RunSteps, MaybeRef
  <2>4. CASE AcquireFetched
    <3>1. PICK r \in Refs : age' = Committed(r) /\ Use(r)
      BY <2>4 DEF AcquireFetched, Wanted, Triggers, MaybeRef, Has
    <3> QED
      BY <2>4, <3>1, AgeType DEF AcquireFetched, Use, RunSteps, MaybeRef
  <2>5. CASE AcquireFallback
    BY <2>5, Constants DEF AcquireFallback, Use, Pointer, Has, RunSteps, MaybeRef
  <2>6. CASE AcquireFailed
    BY <2>6 DEF AcquireFailed, RunSteps
  <2>7. CASE BuildPlan
    BY <2>7, Constants DEF BuildPlan, RunSteps
  <2>8. CASE BuildFailed
    BY <2>8 DEF BuildFailed, RunSteps
  <2>9. CASE WriteFile
    <3>1. disk' \in [Files -> OnDisk]
      BY <2>9 DEF WriteFile, Planned, OnDisk, Contents
    <3>2. next' \in 1..(NumFiles + 1)
      BY <2>9, Constants DEF WriteFile, Files
    <3> QED
      BY <2>9, <3>1, <3>2 DEF WriteFile
  <2>10. CASE WriteFailed
    BY <2>10 DEF WriteFailed, RunSteps
  <2>11. CASE WriteDone
    BY <2>11 DEF WriteDone, RunSteps, MaybeRef
  <2>12. CASE MovePrevious
    <3>1. previous' \in MaybeRef
      BY <2>12 DEF MovePrevious, PointerWrites, Has, States, MaybeRef
    <3> QED
      BY <2>12, <3>1 DEF MovePrevious, RunSteps
  <2>13. CASE MoveCurrent
    <3>1. current' \in MaybeRef
      BY <2>13 DEF MoveCurrent, PointerWrites, Has, MaybeRef
    <3> QED
      BY <2>13, <3>1 DEF MoveCurrent, RunSteps
  <2>14. CASE Succeed
    <3>1. mem' \in States
      BY <2>14 DEF Succeed, RecordSuccess, Planned, States, OnDisk, Contents, MaybeRef
    <3>2. state' \in States
      BY <2>14, <3>1, SaveType DEF Succeed
    <3> QED
      BY <2>14, <3>1, <3>2 DEF Succeed, RunSteps
  <2>15. CASE Fail
    <3>1. RecordFailure(mem) \in States
      BY DEF RecordFailure, States
    <3>2. state' \in States
      BY <2>15, <3>1, SaveType DEF Fail
    <3> QED
      BY <2>15, <3>2, EmptyStateType, EmptyLocalType
         DEF Fail, Forget, MaybeRef
  <2>16. CASE GC
    BY <2>16 DEF GC, RunSteps
  <2>17. CASE GCRemove
    BY <2>17, AgeType DEF GCRemove
  <2>18. CASE Finish
    BY <2>18, EmptyStateType, EmptyLocalType
       DEF Finish, Forget, MaybeRef
  <2>19. CASE Crash
    BY <2>19, EmptyStateType, EmptyLocalType
       DEF Crash, Forget, MaybeRef
  <2>20. CASE EditOutput
    BY <2>20 DEF EditOutput, OnDisk
  <2>21. CASE LoseState
    BY <2>21, EmptyStateType DEF LoseState
  <2>22. CASE Pull
    BY <2>22, AgeType DEF Pull
  <2>23. CASE UNCHANGED vars
    BY <2>23 DEF vars
  <2> QED
    BY <2>1, <2>2, <2>3, <2>4, <2>5, <2>6, <2>7, <2>8, <2>9, <2>10, <2>11,
       <2>12, <2>13, <2>14, <2>15, <2>16, <2>17, <2>18, <2>19, <2>20, <2>21,
       <2>22, <2>23
       DEF Next, Execute, Proceed, Acquire, Build, Write
<1> QED
  BY <1>1, <1>2, PTL DEF Spec

-----------------------------------------------------------------------------
\* What keeps the pointers resolvable: between GC's one look at the pointers
\* and its last removal nothing moves them, so what it has still to remove is
\* on disk and pinned by neither.
PinInv ==
    /\ PointersResolve
    /\ pc # "sweep" => sweep = {}
    /\ \A r \in sweep : age[r] # 0 /\ r # current /\ r # previous

\* A step that changes neither pointers nor sweep, and removes no snapshot,
\* preserves PinInv.
LEMMA PinFrame ==
    ASSUME TypeOK, PinInv,
           UNCHANGED <<current, previous, sweep>>,
           pc' # "sweep" => pc # "sweep",
           \A r \in Refs : age[r] # 0 => age'[r] # 0
    PROVE  PinInv'
BY DEF PinInv, PointersResolve, Has, TypeOK

\* A step that empties memory and changes neither pointers nor snapshots does.
LEMMA PinForget ==
    ASSUME PinInv, Forget, UNCHANGED <<age, current, previous>>
    PROVE  PinInv'
BY DEF PinInv, PointersResolve, Has, Forget

\* A step that writes one pointer with PointerWrites does.
LEMMA PinPoint ==
    ASSUME TypeOK, PinInv, NEW p \in MaybeRef, NEW r \in MaybeRef,
           p # NoRef => Has(p), NEW q \in PointerWrites(p, r)
    PROVE  q # NoRef => Has(q)
BY DEF PointerWrites

\* Nothing on disk that a pointer names is swept, with crashes, failed writes
\* and failed removals anywhere and other processes adding snapshots.
THEOREM PinInvariant == Spec => []PinInv
<1>1. Init => PinInv
  BY DEF Init, PinInv, PointersResolve
<1>2. TypeOK /\ PinInv /\ [Next]_vars => PinInv'
  <2> SUFFICES ASSUME TypeOK, PinInv, [Next]_vars PROVE PinInv'
    OBVIOUS
  <2> USE DEF stored, local, ghosts, Goto
  <2>1. ASSUME NEW t \in Triggers, Start(t) PROVE PinInv'
    BY <2>1, PinFrame DEF Start
  <2>2. CASE Rollback
    <3>1. [ref |-> Pointer(previous), force |-> TRUE] \in Triggers
      BY DEF Pointer, Triggers, MaybeRef, TypeOK
    <3> QED
      BY <2>2, <3>1, <2>1 DEF Rollback
  <2>3. CASE Acquire
    <3>1. CASE AcquireOnDisk
      BY <3>1, PinFrame DEF AcquireOnDisk, Use
    <3>2. CASE AcquireFetched
      <4>1. PICK r \in Refs : age' = Committed(r) /\ Use(r)
        BY <3>2 DEF AcquireFetched, Wanted, Triggers, MaybeRef, Has, TypeOK
      <4>2. \A x \in Refs : age[x] # 0 => age'[x] # 0
        BY <4>1, OthersStay DEF TypeOK
      <4> QED
        BY <3>2, <4>1, <4>2, PinFrame DEF AcquireFetched, Use
    <3>3. CASE AcquireFallback
      BY <3>3, PinFrame DEF AcquireFallback, Use
    <3>4. CASE AcquireFailed
      BY <3>4, PinFrame DEF AcquireFailed
    <3> QED
      BY <2>3, <3>1, <3>2, <3>3, <3>4 DEF Acquire
  <2>4. CASE Build
    BY <2>4, PinFrame DEF Build, BuildPlan, BuildFailed
  <2>5. CASE Write
    BY <2>5, PinFrame DEF Write, WriteFile, WriteFailed, WriteDone
  <2>6. CASE MovePrevious
    <3>1. previous' # NoRef => Has(previous')
      BY <2>6, PinPoint DEF MovePrevious, TypeOK, States, PinInv, PointersResolve
    <3> QED
      BY <2>6, <3>1 DEF MovePrevious, PinInv, PointersResolve, Has
  <2>7. CASE MoveCurrent
    <3>1. current' # NoRef => Has(current')
      BY <2>7, PinPoint DEF MoveCurrent, TypeOK, PinInv, PointersResolve
    <3> QED
      BY <2>7, <3>1 DEF MoveCurrent, PinInv, PointersResolve, Has
  <2>8. CASE Succeed
    BY <2>8, PinFrame DEF Succeed
  <2>9. CASE Fail
    BY <2>9, PinForget DEF Fail
  <2>10. CASE GC
    <3>1. \A r \in sweep' : age[r] # 0 /\ r # current /\ r # previous
      BY <2>10, Constants DEF GC, Pointer, PinInv, PointersResolve, TypeOK
    <3> QED
      BY <2>10, <3>1 DEF GC, PinInv, PointersResolve, Has
  <2>11. CASE GCRemove
    <3>1. PICK r \in sweep : /\ sweep' = sweep \ {r}
                             /\ age' = Removed(r) \/ UNCHANGED age
      BY <2>11 DEF GCRemove
    <3>2. r \in Refs /\ age[r] # 0 /\ r # current /\ r # previous
      BY <3>1 DEF PinInv, TypeOK
    <3>3. \A x \in Refs : x # r /\ age[x] # 0 => age'[x] # 0
      BY <3>1, <3>2, OthersStay DEF TypeOK
    <3> QED
      BY <2>11, <3>1, <3>2, <3>3
         DEF GCRemove, PinInv, PointersResolve, Has, TypeOK
  <2>12. CASE Finish
    BY <2>12, PinForget DEF Finish
  <2>13. CASE Crash
    BY <2>13, PinForget DEF Crash
  <2>14. CASE EditOutput
    BY <2>14, PinFrame DEF EditOutput
  <2>15. CASE LoseState
    BY <2>15, PinFrame DEF LoseState
  <2>16. CASE Pull
    <3>1. \A x \in Refs : age[x] # 0 => age'[x] # 0
      BY <2>16, OthersStay DEF Pull, TypeOK
    <3> QED
      BY <2>16, <3>1, PinFrame DEF Pull
  <2>17. CASE UNCHANGED vars
    BY <2>17, PinFrame DEF vars
  <2> QED
    BY <2>1, <2>2, <2>3, <2>4, <2>5, <2>6, <2>7, <2>8, <2>9, <2>10, <2>11,
       <2>12, <2>13, <2>14, <2>15, <2>16, <2>17
       DEF Next, Execute, Proceed
<1> QED
  BY <1>1, <1>2, TypeCorrect, PTL DEF Spec

\* A pointer file that is there always names a snapshot that is there, in every
\* reachable state and with whatever events (Store.SetPointer, Store.GC).
THEOREM PointersAlwaysResolve == Spec => []PointersResolve
<1>1. PinInv => PointersResolve
  BY DEF PinInv
<1> QED
  BY <1>1, PinInvariant, PTL

-----------------------------------------------------------------------------
\* What Write has established of the outputs, as far as it has come, and what
\* acquire has established of the snapshot.
ApplyInv ==
    /\ pc = "write" =>
          \A f \in 1..(next - 1) : f \notin edited => disk[f] = Planned
    /\ pc \in Applying \ {"write"} =>
          \A f \in Files \ edited : disk[f] = Planned
    /\ (trig.ref # NoRef /\ pc \in {"build"} \cup Applying) => snap = trig.ref

\* A step that leaves the run where it is in the outputs preserves ApplyInv.
LEMMA ApplyFrame ==
    ASSUME ApplyInv, UNCHANGED <<disk, edited, trig, snap, nodes, next>>,
           \/ pc' = pc
           \/ pc' \notin {"build"} \cup Applying
           \/ pc \in Applying \ {"write"} /\ pc' \in Applying \ {"write"}
    PROVE  ApplyInv'
BY DEF ApplyInv, Planned, Applying

LEMMA ApplyForget == ASSUME Forget PROVE ApplyInv'
BY DEF ApplyInv, Forget, Applying

\* While a run applies what it planned, every output that Write has handled and
\* nobody has edited since shows it, and what is planned is the ref asked for:
\* the inductive form of the three properties below.
THEOREM ApplyInvariant == Spec => []ApplyInv
<1>1. Init => ApplyInv
  BY DEF Init, ApplyInv, Applying
<1>2. TypeOK /\ ApplyInv /\ [Next]_vars => ApplyInv'
  <2> SUFFICES ASSUME TypeOK, ApplyInv, [Next]_vars PROVE ApplyInv'
    OBVIOUS
  <2> USE DEF stored, local, ghosts, Goto
  <2>1. ASSUME NEW t \in Triggers, Start(t) PROVE ApplyInv'
    BY <2>1 DEF Start, ApplyInv, Applying
  <2>2. CASE Rollback
    <3>1. [ref |-> Pointer(previous), force |-> TRUE] \in Triggers
      BY DEF Pointer, Triggers, MaybeRef, TypeOK
    <3> QED
      BY <2>2, <3>1, <2>1 DEF Rollback
  <2>3. CASE Acquire
    <3>1. CASE AcquireOnDisk
      BY <3>1 DEF AcquireOnDisk, Use, Wanted, ApplyInv, Applying
    <3>2. CASE AcquireFetched
      BY <3>2 DEF AcquireFetched, Use, Wanted, ApplyInv, Applying
    <3>3. CASE AcquireFallback
      BY <3>3 DEF AcquireFallback, Use, ApplyInv, Applying
    <3>4. CASE AcquireFailed
      BY <3>4, ApplyFrame DEF AcquireFailed, Applying
    <3> QED
      BY <2>3, <3>1, <3>2, <3>3, <3>4 DEF Acquire
  <2>4. CASE BuildPlan
    BY <2>4, Constants DEF BuildPlan, ApplyInv, Applying
  <2>5. CASE BuildFailed
    BY <2>5, ApplyFrame DEF BuildFailed, Applying
  <2>6. CASE WriteFile
    <3>1. next \in Files /\ next' = next + 1 /\ edited' = edited \ {next}
      BY <2>6 DEF WriteFile
    <3>2. disk'[next] = Planned
      BY <2>6, <3>1 DEF WriteFile, matchesDisk, TypeOK
    <3>3. \A f \in Files : f # next => disk'[f] = disk[f]
      BY <2>6 DEF WriteFile, TypeOK
    <3>4. \A f \in 1..(next' - 1) :
             f \in Files /\ (f = next \/ f \in 1..(next - 1))
      BY <3>1, Constants DEF Files
    <3>5. Planned' = Planned
      BY <2>6 DEF WriteFile, Planned
    <3>6. \A f \in 1..(next' - 1) : f \notin edited' => disk'[f] = Planned'
      BY <2>6, <3>1, <3>2, <3>3, <3>4, <3>5 DEF WriteFile, ApplyInv
    <3> QED
      BY <2>6, <3>6 DEF WriteFile, ApplyInv, Applying
  <2>7. CASE WriteFailed
    BY <2>7, ApplyFrame DEF WriteFailed, Applying
  <2>8. CASE WriteDone
    <3>1. \A f \in Files : f \in 1..(next - 1)
      BY <2>8, Constants DEF WriteDone, TypeOK, Files
    <3> QED
      BY <2>8, <3>1 DEF WriteDone, ApplyInv, Applying, Planned
  <2>9. CASE MovePrevious
    BY <2>9, ApplyFrame DEF MovePrevious, Applying
  <2>10. CASE MoveCurrent
    BY <2>10, ApplyFrame DEF MoveCurrent, Applying
  <2>11. CASE Succeed
    BY <2>11, ApplyFrame DEF Succeed, Applying
  <2>12. CASE Fail \/ Finish \/ Crash
    BY <2>12, ApplyForget DEF Fail, Finish, Crash
  <2>13. CASE GC
    BY <2>13, ApplyFrame DEF GC, Applying
  <2>14. CASE GCRemove
    BY <2>14, ApplyFrame DEF GCRemove
  <2>15. CASE EditOutput
    <3>1. PICK f \in Files : /\ disk' = [disk EXCEPT ![f] = Foreign]
                             /\ edited' = edited \cup {f}
      BY <2>15 DEF EditOutput
    <3>2. \A g \in Files : g \notin edited' => g \notin edited /\ disk'[g] = disk[g]
      BY <3>1 DEF TypeOK
    <3>3. pc = "write" => \A g \in 1..(next - 1) : g \in Files
      BY Constants DEF TypeOK, Files
    <3> QED
      BY <2>15, <3>2, <3>3 DEF EditOutput, ApplyInv, Planned
  <2>16. CASE LoseState
    BY <2>16, ApplyFrame DEF LoseState
  <2>17. CASE Pull
    BY <2>17, ApplyFrame DEF Pull
  <2>18. CASE UNCHANGED vars
    BY <2>18, ApplyFrame DEF vars
  <2> QED
    BY <2>1, <2>2, <2>3, <2>4, <2>5, <2>6, <2>7, <2>8, <2>9, <2>10, <2>11,
       <2>12, <2>13, <2>14, <2>15, <2>16, <2>17, <2>18
       DEF Next, Execute, Proceed, Build, Write
<1> QED
  BY <1>1, <1>2, TypeCorrect, PTL DEF Spec

\* With Write's work done, each output nobody edited was assembled from snap.
LEMMA AllShow ==
    ASSUME TypeOK, ApplyInv, pc \in Applying \ {"write"}, NEW f \in Files \ edited
    PROVE  Shows(f, snap) /\ disk[f] = Planned
BY Constants DEF TypeOK, ApplyInv, Applying, Shows, Planned, Contents

\* A run asked for one ref has applied that ref when it records success.
THEOREM ExplicitRefAlwaysApplied == Spec => []ExplicitRefIsApplied
<1>1. TypeOK /\ ApplyInv => ExplicitRefIsApplied
  <2> SUFFICES ASSUME TypeOK, ApplyInv, pc \in {"gc", "sweep"},
                      trig.ref # NoRef, NEW f \in Files \ edited
               PROVE  Shows(f, trig.ref)
    BY DEF ExplicitRefIsApplied
  <2>1. Shows(f, snap)
    BY AllShow DEF Applying
  <2>2. snap = trig.ref
    BY DEF ApplyInv, Applying
  <2> QED
    BY <2>1, <2>2
<1> QED
  BY <1>1, TypeCorrect, ApplyInvariant, PTL

\* No step moves current while an output still has other content: the pointer
\* only ever comes to name a snapshot whose outputs are all on disk.
THEOREM CurrentAlwaysMovesLast == Spec => CurrentMovesLast
<1>1. TypeOK /\ ApplyInv /\ [Next]_vars =>
        [current' # current => \A f \in Files \ edited : Shows(f, current')]_vars
  <2> SUFFICES ASSUME TypeOK, ApplyInv, [Next]_vars, current' # current,
                      NEW f \in Files \ edited
               PROVE  Shows(f, current')
    OBVIOUS
  <2> USE DEF stored, local, ghosts
  <2>1. CASE MoveCurrent
    <3>1. current' = snap
      BY <2>1 DEF MoveCurrent, PointerWrites
    <3>2. Shows(f, snap)
      BY <2>1, AllShow DEF MoveCurrent, Applying
    <3> QED
      BY <3>1, <3>2
  <2>2. ASSUME ~MoveCurrent PROVE FALSE
    BY <2>2 DEF Next, Execute, Rollback, Start, Proceed, Acquire, AcquireOnDisk,
       AcquireFetched, AcquireFallback, AcquireFailed, Use, Build, BuildPlan,
       BuildFailed, Write, WriteFile, WriteFailed, WriteDone, MovePrevious,
       Succeed, Fail, GC, GCRemove, Finish, Crash, EditOutput, LoseState, Pull,
       vars
  <2> QED
    BY <2>1, <2>2
<1> QED
  BY <1>1, TypeCorrect, ApplyInvariant, PTL DEF Spec, CurrentMovesLast

-----------------------------------------------------------------------------
\* The steps between the start a run records and the outcome it records.
Unrecorded == {"acquire", "build", "write", "previous", "current", "record",
               "fail"}

\* While a run has not recorded an outcome the state file claims no success:
\* it says updating, or it was lost and says nothing at all.
RecordInv ==
    /\ RecordIsTrue
    /\ pc \in Unrecorded => state.updating \/ state.ref = NoRef

LEMMA RecordFrame ==
    ASSUME RecordInv, UNCHANGED <<state, disk, edited>>,
           pc' \in Unrecorded => pc \in Unrecorded
    PROVE  RecordInv'
BY DEF RecordInv, RecordIsTrue, Shows

\* When the state file can be written, a success it claims is true of every
\* output nobody edited, wherever a run died or failed and whenever the file
\* was lost: RecordStart is saved before the first output changes.
THEOREM RecordAlwaysTrue ==
    ASSUME "save" \notin Events
    PROVE  Spec => []RecordIsTrue
<1>1. Init => RecordInv
  BY DEF Init, RecordInv, RecordIsTrue, EmptyState, Unrecorded
<1>2. TypeOK /\ ApplyInv /\ RecordInv /\ [Next]_vars => RecordInv'
  <2> SUFFICES ASSUME TypeOK, ApplyInv, RecordInv, [Next]_vars PROVE RecordInv'
    OBVIOUS
  <2> USE DEF stored, local, ghosts, Goto
  <2>1. ASSUME NEW t \in Triggers, Start(t) PROVE RecordInv'
    <3>1. state' = RecordStart(state)
      BY <2>1 DEF Start, SaveWrites
    <3>2. state'.updating
      BY <3>1 DEF RecordStart, TypeOK, States
    <3> QED
      BY <3>2 DEF RecordInv, RecordIsTrue
  <2>2. CASE Rollback
    <3>1. [ref |-> Pointer(previous), force |-> TRUE] \in Triggers
      BY DEF Pointer, Triggers, MaybeRef, TypeOK
    <3> QED
      BY <2>2, <3>1, <2>1 DEF Rollback
  <2>3. CASE Acquire
    BY <2>3, RecordFrame
       DEF Acquire, AcquireOnDisk, AcquireFetched, AcquireFallback,
           AcquireFailed, Use, Unrecorded
  <2>4. CASE Build
    BY <2>4, RecordFrame DEF Build, BuildPlan, BuildFailed, Unrecorded
  <2>5. CASE Write
    <3>1. CASE WriteFile
      BY <3>1 DEF WriteFile, RecordInv, RecordIsTrue, Unrecorded
    <3>2. CASE WriteFailed \/ WriteDone
      BY <3>2, RecordFrame DEF WriteFailed, WriteDone, Unrecorded
    <3> QED
      BY <2>5, <3>1, <3>2 DEF Write
  <2>6. CASE MovePrevious \/ MoveCurrent
    BY <2>6, RecordFrame DEF MovePrevious, MoveCurrent, Unrecorded
  <2>7. CASE Succeed
    <3>1. state' = RecordSuccess(snap, [f \in Files |-> Planned])
      BY <2>7 DEF Succeed, SaveWrites
    <3>2. state'.ref = snap /\ \A f \in Files : state'.outputs[f] = Planned
      BY <3>1 DEF RecordSuccess
    <3>3. \A f \in Files \ edited : Shows(f, snap) /\ disk[f] = Planned
      BY <2>7, AllShow DEF Succeed, Applying
    <3> QED
      BY <2>7, <3>2, <3>3
         DEF Succeed, RecordInv, RecordIsTrue, Shows, Unrecorded
  <2>8. CASE Fail
    <3>1. state' = RecordFailure(mem)
      BY <2>8 DEF Fail, SaveWrites
    <3>2. state'.failed
      BY <3>1 DEF RecordFailure, TypeOK, States
    <3> QED
      BY <2>8, <3>2 DEF Fail, Forget, RecordInv, RecordIsTrue, Unrecorded
  <2>9. CASE GC \/ GCRemove
    BY <2>9, RecordFrame DEF GC, GCRemove, Unrecorded
  <2>10. CASE Finish \/ Crash
    BY <2>10, RecordFrame DEF Finish, Crash, Forget, Unrecorded
  <2>11. CASE EditOutput
    BY <2>11 DEF EditOutput, RecordInv, RecordIsTrue, Shows, TypeOK
  <2>12. CASE LoseState
    BY <2>12 DEF LoseState, EmptyState, RecordInv, RecordIsTrue
  <2>13. CASE Pull
    BY <2>13, RecordFrame DEF Pull
  <2>14. CASE UNCHANGED vars
    BY <2>14, RecordFrame DEF vars
  <2> QED
    BY <2>1, <2>2, <2>3, <2>4, <2>5, <2>6, <2>7, <2>8, <2>9, <2>10, <2>11,
       <2>12, <2>13, <2>14
       DEF Next, Execute, Proceed
<1>3. RecordInv => RecordIsTrue
  BY DEF RecordInv
<1> QED
  BY <1>1, <1>2, <1>3, TypeCorrect, ApplyInvariant, PTL DEF Spec

-----------------------------------------------------------------------------
\* The steps at which a snapshot is in hand and its run is not recorded yet.
InHand == {"build", "write", "previous", "current", "record"}

\* A snapshot in hand is on disk: GC comes later.
InHandInv == pc \in InHand => Has(snap)

LEMMA InHandFrame ==
    ASSUME TypeOK, InHandInv, UNCHANGED snap, pc' \in InHand => pc \in InHand,
           \A r \in Refs : age[r] # 0 => age'[r] # 0
    PROVE  InHandInv'
BY DEF InHandInv, Has

\* The snapshot a run is about to point at is there, whoever else fetches.
THEOREM InHandInvariant == Spec => []InHandInv
<1>1. Init => InHandInv
  BY DEF Init, InHandInv, InHand
<1>2. TypeOK /\ PinInv /\ InHandInv /\ [Next]_vars => InHandInv'
  <2> SUFFICES ASSUME TypeOK, PinInv, InHandInv, [Next]_vars PROVE InHandInv'
    OBVIOUS
  <2> USE DEF stored, local, ghosts, Goto
  <2>1. CASE Execute \/ Rollback
    BY <2>1 DEF Execute, Rollback, Start, InHandInv, InHand
  <2>2. CASE Acquire
    <3>1. CASE AcquireOnDisk
      BY <3>1 DEF AcquireOnDisk, Use, InHandInv, Has
    <3>2. CASE AcquireFetched
      <4>1. PICK r \in Refs : age' = Committed(r) /\ Use(r)
        BY <3>2 DEF AcquireFetched, Wanted, Triggers, MaybeRef, Has, TypeOK
      <4>2. age'[r] # 0
        BY <4>1 DEF Committed
      <4> QED
        BY <4>1, <4>2 DEF Use, InHandInv, Has
    <3>3. CASE AcquireFallback
      BY <3>3, Constants DEF AcquireFallback, Use, Pointer, InHandInv, Has
    <3>4. CASE AcquireFailed
      BY <3>4 DEF AcquireFailed, InHandInv, InHand
    <3> QED
      BY <2>2, <3>1, <3>2, <3>3, <3>4 DEF Acquire
  <2>3. CASE Build
    BY <2>3, InHandFrame DEF Build, BuildPlan, BuildFailed, InHand
  <2>4. CASE Write
    BY <2>4, InHandFrame DEF Write, WriteFile, WriteFailed, WriteDone, InHand
  <2>5. CASE MovePrevious \/ MoveCurrent
    BY <2>5, InHandFrame DEF MovePrevious, MoveCurrent, InHand
  <2>6. CASE Succeed \/ GC \/ GCRemove
    BY <2>6 DEF Succeed, GC, GCRemove, InHandInv, InHand
  <2>7. CASE Fail \/ Finish \/ Crash
    BY <2>7 DEF Fail, Finish, Crash, Forget, InHandInv, InHand
  <2>8. CASE EditOutput \/ LoseState
    BY <2>8, InHandFrame DEF EditOutput, LoseState
  <2>9. CASE Pull
    <3>1. \A x \in Refs : age[x] # 0 => age'[x] # 0
      BY <2>9, OthersStay DEF Pull, TypeOK
    <3> QED
      BY <2>9, <3>1, InHandFrame DEF Pull
  <2>10. CASE UNCHANGED vars
    BY <2>10, InHandFrame DEF vars
  <2> QED
    BY <2>1, <2>2, <2>3, <2>4, <2>5, <2>6, <2>7, <2>8, <2>9, <2>10 DEF Next, Proceed
<1> QED
  BY <1>1, <1>2, TypeCorrect, PinInvariant, PTL DEF Spec

-----------------------------------------------------------------------------
\* The steps between the last output and the record of it.
Pointing == {"previous", "current", "record"}

\* previous is what history says, as far as there is one.
PreviousKept == history.past # NoRef => previous = history.past

\* Where no process dies and no pointer or state file is lost, the four places
\* that say which ref is applied agree outside Pointing, and inside it each has
\* moved or not according to the step: previous follows the ref that memory
\* had when the run began.
CalmInv ==
    /\ pc # "record" => current = state.ref
    /\ pc = "record" => current = snap
    /\ pc \notin {"idle", "gc", "sweep"} => mem.ref = state.ref
    /\ pc \notin Pointing => history.now = state.ref
    /\ pc \in Pointing => history.now = snap
    /\ pc = "previous" /\ mem.ref # snap => history.past = mem.ref
    /\ ~(pc = "previous" /\ mem.ref # snap) => PreviousKept

\* A step that leaves all of them alone, away from Pointing.
LEMMA CalmFrame ==
    ASSUME CalmInv,
           UNCHANGED <<current, previous, history, mem, snap>>, state'.ref = state.ref,
           \/ pc' = pc
           \/ {pc, pc'} \cap Pointing = {} /\ pc # "idle" /\ pc \notin {"gc", "sweep"}
           \/ pc = "gc" /\ pc' = "sweep"
    PROVE  CalmInv'
BY DEF CalmInv, PreviousKept, Pointing

\* A run that ends without a record, or after it.
LEMMA CalmForget ==
    ASSUME CalmInv, Forget, pc \notin Pointing,
           UNCHANGED <<current, previous, history>>, state'.ref = state.ref
    PROVE  CalmInv'
BY DEF CalmInv, PreviousKept, Pointing, Forget

\* Between runs the pointer files and the state file agree, and previous is the
\* ref before, for any sequence of updates, explicit refs, rollbacks, failed
\* builds and failed outputs.
THEOREM CalmInvariant ==
    ASSUME Events \cap {"crash", "pointer", "save", "lose"} = {}
    PROVE  Spec => []CalmInv
<1>1. Init => CalmInv
  BY DEF Init, CalmInv, PreviousKept, Pointing, EmptyState
<1>2. TypeOK /\ PinInv /\ InHandInv /\ CalmInv /\ [Next]_vars => CalmInv'
  <2> SUFFICES ASSUME TypeOK, PinInv, InHandInv, CalmInv, [Next]_vars PROVE CalmInv'
    OBVIOUS
  <2> USE DEF stored, local, ghosts, Goto
  <2>1. ASSUME NEW t \in Triggers, Start(t) PROVE CalmInv'
    <3>1. mem' = RecordStart(state) /\ state' = RecordStart(state)
      BY <2>1 DEF Start, SaveWrites
    <3>2. mem'.ref = state.ref /\ state'.ref = state.ref
      BY <3>1 DEF RecordStart, TypeOK, States
    <3> QED
      BY <2>1, <3>2 DEF Start, CalmInv, PreviousKept, Pointing
  <2>2. CASE Rollback
    <3>1. [ref |-> Pointer(previous), force |-> TRUE] \in Triggers
      BY DEF Pointer, Triggers, MaybeRef, TypeOK
    <3> QED
      BY <2>2, <3>1, <2>1 DEF Rollback
  <2>3. CASE Acquire
    <3>1. /\ pc = "acquire" /\ pc' \in {"build", "fail"}
          /\ UNCHANGED <<current, previous, history, mem, state>>
      BY <2>3 DEF Acquire, AcquireOnDisk, AcquireFetched, AcquireFallback, AcquireFailed, Use
    <3> QED
      BY <3>1 DEF CalmInv, PreviousKept, Pointing
  <2>4. CASE Build
    BY <2>4, CalmFrame DEF Build, BuildPlan, BuildFailed, Pointing
  <2>5. CASE WriteFile \/ WriteFailed
    BY <2>5, CalmFrame DEF WriteFile, WriteFailed, Pointing
  <2>6. CASE WriteDone
    <3>1. /\ pc = "write" /\ pc' = "previous"
          /\ UNCHANGED <<current, previous, mem, snap, state>>
      BY <2>6 DEF WriteDone
    <3>2. CASE history.now = snap
      BY <2>6, <3>1, <3>2 DEF WriteDone, CalmInv, PreviousKept, Pointing
    <3>3. CASE history.now # snap
      <4>1. history' = [now |-> snap, past |-> history.now]
        BY <2>6, <3>3 DEF WriteDone
      <4>2. history'.now = snap /\ history'.past = history.now
        BY <4>1
      <4> QED
        BY <3>1, <3>3, <4>2 DEF CalmInv, PreviousKept, Pointing
    <3> QED
      BY <3>2, <3>3
  <2>7. CASE MovePrevious
    <3>1. /\ pc = "previous" /\ pc' = "current"
          /\ UNCHANGED <<current, history, mem, snap, state>>
      BY <2>7 DEF MovePrevious
    <3>2. PreviousKept'
      <4>1. CASE mem.ref = snap
        BY <2>7, <3>1, <4>1 DEF MovePrevious, CalmInv, PreviousKept
      <4>2. CASE mem.ref = NoRef /\ mem.ref # snap
        BY <3>1, <4>2 DEF CalmInv, PreviousKept
      <4>3. CASE mem.ref # NoRef /\ mem.ref # snap
        <5>1. mem.ref = current
          BY <3>1 DEF CalmInv
        <5>2. Has(mem.ref)
          BY <4>3, <5>1 DEF PinInv, PointersResolve
        <5>3. previous' = mem.ref
          BY <2>7, <4>3, <5>2 DEF MovePrevious, PointerWrites
        <5> QED
          BY <3>1, <4>3, <5>3 DEF CalmInv, PreviousKept
      <4> QED
        BY <4>1, <4>2, <4>3
    <3> QED
      BY <3>1, <3>2 DEF CalmInv, Pointing
  <2>8. CASE MoveCurrent
    <3>1. Has(snap)
      BY <2>8 DEF MoveCurrent, InHandInv, InHand
    <3>2. current' = snap
      BY <2>8, <3>1 DEF MoveCurrent, PointerWrites
    <3> QED
      BY <2>8, <3>2 DEF MoveCurrent, CalmInv, PreviousKept, Pointing
  <2>9. CASE Succeed
    <3>1. state' = RecordSuccess(snap, [f \in Files |-> Planned])
      BY <2>9 DEF Succeed, SaveWrites
    <3>2. state'.ref = snap
      BY <3>1 DEF RecordSuccess
    <3> QED
      BY <2>9, <3>2 DEF Succeed, CalmInv, PreviousKept, Pointing
  <2>10. CASE Fail
    <3>1. state' = RecordFailure(mem)
      BY <2>10 DEF Fail, SaveWrites
    <3>2. state'.ref = mem.ref
      BY <3>1 DEF RecordFailure, TypeOK, States
    <3>3. mem.ref = state.ref /\ pc \notin Pointing
      BY <2>10 DEF Fail, CalmInv, Pointing
    <3> QED
      BY <2>10, <3>2, <3>3, CalmForget DEF Fail
  <2>11. CASE GC \/ GCRemove
    BY <2>11, CalmFrame DEF GC, GCRemove
  <2>12. CASE Finish
    BY <2>12, CalmForget DEF Finish, Pointing
  <2>13. CASE EditOutput \/ Pull
    BY <2>13, CalmFrame DEF EditOutput, Pull
  <2>14. CASE Crash \/ LoseState
    BY <2>14 DEF Crash, LoseState
  <2>15. CASE UNCHANGED vars
    BY <2>15, CalmFrame DEF vars
  <2> QED
    BY <2>1, <2>2, <2>3, <2>4, <2>5, <2>6, <2>7, <2>8, <2>9, <2>10, <2>11,
       <2>12, <2>13, <2>14, <2>15 DEF Next, Execute, Proceed, Write
<1> QED
  BY <1>1, <1>2, TypeCorrect, PinInvariant, InHandInvariant, PTL DEF Spec

\* Between runs previous is the ref applied before, unless a process died or a
\* file was lost: a rollback always has somewhere else to go.
THEOREM PreviousAlwaysPredecessor ==
    ASSUME Events \cap {"crash", "pointer", "save", "lose"} = {}
    PROVE  Spec => []PreviousIsPredecessor
<1>1. CalmInv => PreviousIsPredecessor
  BY DEF CalmInv, PreviousKept, PreviousIsPredecessor, Idle
<1> QED
  BY <1>1, CalmInvariant, PTL

\* And current is the ref that the state file records.
THEOREM PointersAlwaysAgree ==
    ASSUME Events \cap {"crash", "pointer", "save", "lose"} = {}
    PROVE  Spec => []PointersAgree
<1>1. CalmInv => PointersAgree
  BY DEF CalmInv, PointersAgree, Idle
<1> QED
  BY <1>1, CalmInvariant, PTL

-----------------------------------------------------------------------------
\* No two snapshots are of one age, and those older than the Keep newest that
\* GC has not still to remove are pinned.
KeepInv ==
    /\ \A x, y \in Refs : age[x] = age[y] /\ age[x] # 0 => x = y
    /\ pc = "sweep" => \A r \in Refs : age[r] > Keep => r \in sweep \cup {current, previous}

LEMMA KeepFrame ==
    ASSUME KeepInv, UNCHANGED <<age, current, previous, sweep>>, pc' = "sweep" => pc = "sweep"
    PROVE  KeepInv'
BY DEF KeepInv

\* Committing or removing a snapshot leaves ages distinct, and removing one
\* makes no other older.
LEMMA AgesDistinct ==
    ASSUME age \in [Refs -> Nat], NEW r \in Refs,
           \A x, y \in Refs : age[x] = age[y] /\ age[x] # 0 => x = y
    PROVE  /\ age[r] = 0 => \A x, y \in Refs :
                Committed(r)[x] = Committed(r)[y] /\ Committed(r)[x] # 0 => x = y
           /\ age[r] # 0 =>
                /\ \A x, y \in Refs :
                     Removed(r)[x] = Removed(r)[y] /\ Removed(r)[x] # 0 => x = y
                /\ \A x \in Refs : Removed(r)[x] <= age[x] /\ Removed(r)[r] = 0
<1>1. /\ \A x \in Refs : /\ age[x] \in Nat
                         /\ Committed(r)[x] = IF x = r THEN 1
                                              ELSE IF age[x] = 0 THEN 0 ELSE age[x] + 1
                         /\ Removed(r)[x] = IF x = r THEN 0
                                            ELSE IF age[x] > age[r] THEN age[x] - 1 ELSE age[x]
  BY DEF Committed, Removed
<1>2. age[r] = 0 => \A x, y \in Refs :
        Committed(r)[x] = Committed(r)[y] /\ Committed(r)[x] # 0 => x = y
  BY <1>1
<1>3. age[r] # 0 => \A x, y \in Refs :
        Removed(r)[x] = Removed(r)[y] /\ Removed(r)[x] # 0 => x = y
  BY <1>1
<1>4. \A x \in Refs : Removed(r)[x] <= age[x] /\ Removed(r)[r] = 0
  BY <1>1
<1> QED
  BY <1>2, <1>3, <1>4

\* A set of refs of different ages between 1 and n has n members at most.
LEMMA FewAges ==
    ASSUME age \in [Refs -> Nat], NEW n \in Nat,
           \A x, y \in Refs : age[x] = age[y] /\ age[x] # 0 => x = y
    PROVE  LET young == {r \in Refs : age[r] \in 1..n}
           IN  IsFiniteSet(young) /\ Cardinality(young) \in Nat /\ Cardinality(young) <= n
<1> DEFINE young == {r \in Refs : age[r] \in 1..n}
           rank == [r \in young |-> age[r]]
<1>1. rank \in [young -> 1..n] /\ \A x, y \in young : rank[x] = rank[y] => x = y
  OBVIOUS
<1>2. rank \in Injection(young, 1..n)
  <2> HIDE DEF rank, young
  <2> QED
    BY <1>1, Fun_IsInj
<1>3. IsFiniteSet(1..n) /\ Cardinality(1..n) = n
  BY FS_Interval
<1> HIDE DEF rank, young
<1>4. IsFiniteSet(young) /\ Cardinality(young) <= n
  BY <1>2, <1>3, FS_Injection
<1>5. Cardinality(young) \in Nat
  BY <1>4, FS_CardinalityType
<1> QED
  BY <1>4, <1>5 DEF young

\* One element more is one more at most.
LEMMA OneMore ==
    ASSUME NEW S, IsFiniteSet(S), NEW x, NEW n \in Nat, Cardinality(S) <= n
    PROVE  IsFiniteSet(S \cup {x}) /\ Cardinality(S \cup {x}) <= n + 1
<1>1. Cardinality(S) \in Nat
  BY FS_CardinalityType
<1> QED
  BY <1>1, FS_AddElement

\* What GC leaves behind is pinned or among the Keep newest, wherever runs die.
THEOREM KeepInvariant ==
    ASSUME Events \cap {"remove", "pull"} = {}
    PROVE  Spec => []KeepInv
<1>1. Init => KeepInv
  BY DEF Init, KeepInv
<1>2. TypeOK /\ PinInv /\ KeepInv /\ [Next]_vars => KeepInv'
  <2> SUFFICES ASSUME TypeOK, PinInv, KeepInv, [Next]_vars PROVE KeepInv'
    OBVIOUS
  <2> USE DEF stored, local, ghosts, Goto
  <2>1. CASE Execute \/ Rollback
    BY <2>1, KeepFrame DEF Execute, Rollback, Start
  <2>2. CASE AcquireOnDisk \/ AcquireFallback \/ AcquireFailed
    BY <2>2, KeepFrame DEF AcquireOnDisk, AcquireFallback, AcquireFailed, Use
  <2>3. CASE AcquireFetched
    <3>1. PICK r \in Refs : ~Has(r) /\ age' = Committed(r) /\ pc' = "build"
      BY <2>3 DEF AcquireFetched, Wanted, Triggers, MaybeRef, TypeOK, Use
    <3>2. age[r] = 0
      BY <3>1 DEF Has
    <3> QED
      BY <3>1, <3>2, AgesDistinct DEF TypeOK, KeepInv
  <2>4. CASE Build \/ Write
    BY <2>4, KeepFrame
       DEF Build, BuildPlan, BuildFailed, Write, WriteFile, WriteFailed, WriteDone
  <2>5. CASE MovePrevious \/ MoveCurrent \/ Succeed
    BY <2>5 DEF MovePrevious, MoveCurrent, Succeed, KeepInv
  <2>6. CASE Fail \/ Finish \/ Crash
    BY <2>6, KeepFrame DEF Fail, Finish, Crash, Forget, KeepInv
  <2>7. CASE GC
    BY <2>7, Constants DEF GC, Pointer, KeepInv
  <2>8. CASE GCRemove
    <3>1. PICK r \in sweep : /\ sweep' = sweep \ {r} /\ age' = Removed(r)
                             /\ UNCHANGED <<current, previous, pc>> /\ pc = "sweep"
      BY <2>8 DEF GCRemove
    <3>2. r \in Refs /\ age[r] # 0
      BY <3>1 DEF PinInv, TypeOK
    <3>3. /\ \A x, y \in Refs : age'[x] = age'[y] /\ age'[x] # 0 => x = y
          /\ \A x \in Refs : age'[x] <= age[x] /\ age'[r] = 0
      BY <3>1, <3>2, AgesDistinct DEF TypeOK, KeepInv
    <3>4. \A x \in Refs : age'[x] > Keep => x # r /\ age[x] > Keep
      <4>1. age' \in [Refs -> Nat]
        BY <3>1, <3>2, AgeType DEF TypeOK
      <4> QED
        BY <3>2, <3>3, <4>1, Constants DEF TypeOK
    <3> QED
      BY <3>1, <3>3, <3>4 DEF KeepInv
  <2>9. CASE EditOutput \/ LoseState
    BY <2>9, KeepFrame DEF EditOutput, LoseState
  <2>10. CASE Pull
    BY <2>10 DEF Pull
  <2>11. CASE UNCHANGED vars
    BY <2>11, KeepFrame DEF vars
  <2> QED
    BY <2>1, <2>2, <2>3, <2>4, <2>5, <2>6, <2>7, <2>8, <2>9, <2>10, <2>11
       DEF Next, Proceed, Acquire
<1> QED
  BY <1>1, <1>2, TypeCorrect, PinInvariant, PTL DEF Spec

\* GC keeps Keep snapshots and the two that are pinned, and no more, unless a
\* directory cannot be removed or another process adds one.
THEOREM StoreAlwaysBounded ==
    ASSUME Events \cap {"remove", "pull"} = {}
    PROVE  Spec => []StoreBounded
<1>1. TypeOK /\ KeepInv => StoreBounded
  <2> SUFFICES ASSUME TypeOK, KeepInv, pc = "sweep", sweep = {}
               PROVE  Cardinality({r \in Refs : age[r] # 0}) <= Keep + 2
    BY DEF StoreBounded
  <2> DEFINE young == {r \in Refs : age[r] \in 1..Keep}
             kept  == (young \cup {current}) \cup {previous}
             left  == {r \in Refs : age[r] # 0}
  <2>1. IsFiniteSet(young) /\ Cardinality(young) \in Nat /\ Cardinality(young) <= Keep
    BY FewAges, Constants DEF TypeOK, KeepInv
  <2>2. left \subseteq kept
    BY Constants DEF TypeOK, KeepInv
  <2> HIDE DEF young, left
  <2> DEFINE most == young \cup {current}
  <2>3. IsFiniteSet(most) /\ Cardinality(most) <= Keep + 1
    BY <2>1, OneMore, Constants
  <2> HIDE DEF most
  <2>4. IsFiniteSet(most \cup {previous}) /\ Cardinality(most \cup {previous}) <= Keep + 1 + 1
    <3>1. Keep + 1 \in Nat
      BY Constants
    <3> QED
      BY <2>3, <3>1, OneMore
  <2>5. IsFiniteSet(kept) /\ Cardinality(kept) \in Nat /\ Cardinality(kept) <= Keep + 2
    BY <2>4, FS_CardinalityType, Constants DEF most
  <2> HIDE DEF kept
  <2>6. IsFiniteSet(left) /\ Cardinality(left) <= Cardinality(kept)
    BY <2>2, <2>5, FS_Subset
  <2>7. Cardinality(left) \in Nat
    BY <2>6, FS_CardinalityType
  <2> QED
    BY <2>5, <2>6, <2>7, Constants DEF left
<1> QED
  BY <1>1, TypeCorrect, KeepInvariant, PTL

\* What GC has still to remove is older than the Keep newest: it removes the
\* oldest first, so none of the others becomes younger, and a fetch in another
\* process only makes them older.
SweepIsOld == pc = "sweep" => \A r \in sweep : r \in Refs /\ age[r] > Keep

LEMMA SweepFrame ==
    ASSUME SweepIsOld, pc' = "sweep" => pc = "sweep" /\ UNCHANGED <<age, sweep>>
    PROVE  SweepIsOld'
BY DEF SweepIsOld

\* Removing the oldest of some snapshots leaves the age of the others.
LEMMA OthersKeepAge ==
    ASSUME age \in [Refs -> Nat], NEW r \in Refs, NEW s \in Refs \ {r},
           age[s] <= age[r]
    PROVE  Removed(r)[s] = age[s]
BY DEF Removed

\* The one step that takes a snapshot away is GCRemove.
LEMMA OnlyGCRemoves ==
    ASSUME TypeOK, [Next]_vars, NEW r \in Refs, age[r] # 0, age'[r] = 0
    PROVE  GCRemove
<1> USE DEF stored, local, ghosts, Goto
<1>1. CASE \E x \in Refs : ~Has(x) /\ age' = Committed(x)
  <2>1. PICK x \in Refs : age' = Committed(x)
    BY <1>1
  <2>2. age'[r] # 0
    BY <2>1 DEF Committed, TypeOK
  <2> QED
    BY <2>2
<1>2. CASE AcquireFetched
  BY <1>1, <1>2 DEF AcquireFetched, Wanted, Triggers, MaybeRef, TypeOK
<1>3. CASE Pull
  BY <1>1, <1>3 DEF Pull
<1>4. CASE Execute \/ Rollback \/ AcquireOnDisk \/ AcquireFallback \/ AcquireFailed
  BY <1>4 DEF Execute, Rollback, Start, AcquireOnDisk, AcquireFallback,
              AcquireFailed, Use
<1>5. CASE Build \/ Write \/ MovePrevious \/ MoveCurrent \/ Succeed
  BY <1>5 DEF Build, BuildPlan, BuildFailed, Write, WriteFile, WriteFailed,
              WriteDone, MovePrevious, MoveCurrent, Succeed
<1>6. CASE Fail \/ Finish \/ Crash \/ GC
  BY <1>6 DEF Fail, Finish, Crash, GC
<1>7. CASE EditOutput \/ LoseState \/ UNCHANGED vars
  BY <1>7 DEF EditOutput, LoseState, vars
<1> QED
  BY <1>2, <1>3, <1>4, <1>5, <1>6, <1>7 DEF Next, Proceed, Acquire

\* With every crash, failed write, failed removal and pull, what GC still has
\* in hand stays older than the Keep newest.
THEOREM SweepInvariant == Spec => []SweepIsOld
<1>1. Init => SweepIsOld
  BY DEF Init, SweepIsOld
<1>2. TypeOK /\ SweepIsOld /\ [Next]_vars => SweepIsOld'
  <2> SUFFICES ASSUME TypeOK, SweepIsOld, [Next]_vars PROVE SweepIsOld'
    OBVIOUS
  <2> USE DEF stored, local, ghosts, Goto
  <2>1. CASE Execute \/ Rollback
    BY <2>1, SweepFrame DEF Execute, Rollback, Start
  <2>2. CASE Acquire
    BY <2>2, SweepFrame
       DEF Acquire, AcquireOnDisk, AcquireFetched, AcquireFallback, AcquireFailed, Use
  <2>3. CASE Build \/ Write
    BY <2>3, SweepFrame
       DEF Build, BuildPlan, BuildFailed, Write, WriteFile, WriteFailed, WriteDone
  <2>4. CASE MovePrevious \/ MoveCurrent \/ Succeed
    BY <2>4, SweepFrame DEF MovePrevious, MoveCurrent, Succeed
  <2>5. CASE Fail \/ Finish \/ Crash
    BY <2>5, SweepFrame DEF Fail, Finish, Crash, Forget
  <2>6. CASE GC
    BY <2>6 DEF GC, SweepIsOld
  <2>7. CASE GCRemove
    <3>1. PICK r \in sweep : /\ \A s \in sweep : age[s] <= age[r]
                             /\ sweep' = sweep \ {r}
                             /\ age' = Removed(r) \/ UNCHANGED age
      BY <2>7 DEF GCRemove
    <3>2. pc = "sweep" /\ \A s \in sweep : s \in Refs /\ age[s] > Keep
      BY <2>7 DEF GCRemove, SweepIsOld
    <3>3. ASSUME NEW s \in sweep' PROVE s \in Refs /\ age'[s] > Keep
      <4>1. s \in Refs \ {r} /\ r \in Refs /\ age[s] <= age[r] /\ age[s] > Keep
        BY <3>1, <3>2, <3>3
      <4>2. CASE age' = Removed(r)
        BY <4>1, <4>2, OthersKeepAge DEF TypeOK
      <4> QED
        BY <3>1, <4>1, <4>2
    <3> QED
      BY <3>3 DEF SweepIsOld
  <2>8. CASE EditOutput \/ LoseState
    BY <2>8, SweepFrame DEF EditOutput, LoseState
  <2>9. CASE Pull
    <3>1. PICK x \in Refs : ~Has(x) /\ age' = Committed(x)
      BY <2>9 DEF Pull
    <3>2. \A s \in Refs : age[s] > Keep => age'[s] > Keep
      BY <3>1, Constants DEF Has, Committed, TypeOK
    <3> QED
      BY <2>9, <3>2 DEF Pull, SweepIsOld
  <2>10. CASE UNCHANGED vars
    BY <2>10, SweepFrame DEF vars
  <2> QED
    BY <2>1, <2>2, <2>3, <2>4, <2>5, <2>6, <2>7, <2>8, <2>9, <2>10
       DEF Next, Proceed
<1> QED
  BY <1>1, <1>2, TypeCorrect, PTL DEF Spec

\* GC only takes what is older than the Keep newest, for any Keep, any number
\* of refs and every event (Store.GC).
THEOREM NewestAlwaysStay == Spec => NewestStay
<1>1. TypeOK /\ SweepIsOld /\ [Next]_vars
        => [\A r \in Refs : age[r] # 0 /\ age'[r] = 0 => age[r] > Keep]_vars
  <2> SUFFICES ASSUME TypeOK, SweepIsOld, [Next]_vars,
                      NEW r \in Refs, age[r] # 0, age'[r] = 0
               PROVE  age[r] > Keep
    OBVIOUS
  <2>1. GCRemove
    BY OnlyGCRemoves
  <2>2. PICK x \in sweep : age' = Removed(x) \/ UNCHANGED age
    BY <2>1 DEF GCRemove
  <2>3. x \in Refs /\ age[x] > Keep
    BY <2>1 DEF GCRemove, SweepIsOld
  <2>4. CASE x = r
    BY <2>3, <2>4
  <2>5. CASE x # r /\ age' = Removed(x)
    <3>1. age'[r] = IF age[r] > age[x] THEN age[r] - 1 ELSE age[r]
      BY <2>5 DEF Removed
    <3>2. age[r] \in Nat /\ age[x] \in Nat /\ age[x] > 1
      BY <2>3, Constants DEF TypeOK
    <3> QED
      BY <3>1, <3>2
  <2> QED
    BY <2>2, <2>4, <2>5
<1> QED
  BY <1>1, TypeCorrect, SweepInvariant, PTL DEF Spec, NewestStay
=============================================================================
