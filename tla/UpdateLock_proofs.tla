-------------------------- MODULE UpdateLock_proofs --------------------------
(***************************************************************************)
(* Theorems about the update lock, for any number of writers and of status *)
(* questions: the lock excludes, and what a status says of a run is true.   *)
(***************************************************************************)
EXTENDS UpdateLock, TLAPS

\* Nobody is not somebody, and no question is a writer.
LEMMA Distinct ==
    /\ None \notin Writers /\ None \notin Probes
    /\ \A w \in Writers : w \notin Probes
BY LockAssumption DEF LockAssumption

-----------------------------------------------------------------------------
(* The lock.  Types alone are not inductive: that Close frees the lock of  *)
(* no question rests on the closing writer being the holder.               *)

Holder == \A w \in Writers : writer[w] # "off" <=> lock = w

LockInv == TypeOK /\ Holder

\* Whatever writers and questions do and wherever writers die, the variables
\* keep their types, a live writer holds the lock and the lock's holder lives.
THEOREM LockInvariant == Spec => []LockInv
<1>1. Init => LockInv
  <2> SUFFICES ASSUME Init PROVE LockInv
    OBVIOUS
  <2>1. TypeOK
    BY Distinct DEF Init, TypeOK, Reports
  <2>2. Holder
    BY Distinct DEF Init, Holder
  <2> QED
    BY <2>1, <2>2 DEF LockInv
<1>2. LockInv /\ [Next]_vars => LockInv'
  <2> SUFFICES ASSUME LockInv, [Next]_vars PROVE LockInv'
    OBVIOUS
  <2> USE Distinct DEF LockInv, TypeOK, Holder, status, ghosts
  <2>1. ASSUME NEW w \in Writers, Start(w) PROVE LockInv'
    BY <2>1 DEF Start, Disturb
  <2>2. ASSUME NEW w \in Writers, StartRefused(w) PROVE LockInv'
    BY <2>2 DEF StartRefused
  <2>3. ASSUME NEW w \in Writers, BeginRun(w) PROVE LockInv'
    BY <2>3 DEF BeginRun, Save, Disturb
  <2>4. ASSUME NEW w \in Writers, EndRun(w) PROVE LockInv'
    BY <2>4 DEF EndRun, Save, Disturb
  <2>5. ASSUME NEW w \in Writers, Close(w) PROVE LockInv'
    BY <2>5 DEF Close, Disturb
  <2>6. ASSUME NEW w \in Writers, Crash(w) PROVE LockInv'
    BY <2>6 DEF Crash, Disturb
  <2>7. ASSUME NEW p \in Probes, Ask(p) PROVE LockInv'
    BY <2>7 DEF Ask, Running, Reports
  <2>8. ASSUME NEW p \in Probes, IsHeldTaken(p) PROVE LockInv'
    BY <2>8 DEF IsHeldTaken
  <2>9. ASSUME NEW p \in Probes, IsHeldFree(p) PROVE LockInv'
    BY <2>9 DEF IsHeldFree
  <2>10. ASSUME NEW p \in Probes, IsHeldRelease(p) PROVE LockInv'
    BY <2>10 DEF IsHeldRelease
  <2>11. ASSUME NEW p \in Probes, Read(p) PROVE LockInv'
    BY <2>11 DEF Read, Reports
  <2>12. ASSUME NEW p \in Probes, Answer(p) PROVE LockInv'
    BY <2>12 DEF Answer
  <2>13. ASSUME NEW p \in Probes, IsHeldFailed(p) PROVE LockInv'
    BY <2>13 DEF IsHeldFailed
  <2>14. ASSUME NEW p \in Probes, ReadFailed(p) PROVE LockInv'
    BY <2>14 DEF ReadFailed, Reports
  <2>15. CASE UNCHANGED vars
    BY <2>15 DEF vars
  <2> QED
    BY <2>1, <2>2, <2>3, <2>4, <2>5, <2>6, <2>7, <2>8, <2>9, <2>10, <2>11,
       <2>12, <2>13, <2>14, <2>15 DEF Next, WriterStep, ProbeStep
<1> QED
  BY <1>1, <1>2, PTL DEF Spec

\* Every variable keeps its type (TypeOK is the first half of LockInv).
THEOREM TypeCorrect == Spec => []TypeOK
<1>1. LockInv => TypeOK
  BY DEF LockInv
<1> QED
  BY <1>1, LockInvariant, PTL

\* No two processes ever run, update or roll back one root at a time, and only
\* a live process keeps others from it (lockfile.Acquire, Release, IsHeld).
THEOREM AlwaysExclusive == Spec => []MutualExclusion
<1>1. LockInv => MutualExclusion
  BY DEF LockInv, Holder, MutualExclusion
<1> QED
  BY <1>1, LockInvariant, PTL

-----------------------------------------------------------------------------
(* The status.  As long as Save works the flag in the state file tells the *)
(* truth about the past: it is up exactly while a run is under way or      *)
(* after one died.  A question that found the lock free and saw no writer  *)
(* move since knows that none is running, so the flag tells it which.      *)

Flag ==
    /\ saved => (updating <=> (Running \/ died))
    /\ ~(Running /\ died)

\* What question p knows at each of its steps: first of a run, whoever moves
\* meanwhile; then, while nobody does, of all writers.
Knows(p) ==
    /\ probe[p] \in {"ask", "release", "read"} => report[p] = "none"
    /\ probe[p] \in {"ask", "release", "read"} /\ Running => sawRun[p]
    /\ (saved /\ report[p] \in {"updating", "interrupted"}) => died \/ sawRun[p]

KnowsStill(p) ==
    undisturbed[p] =>
        /\ (probe[p] = "read" /\ ~active[p] /\ ~blind[p]) => ~Running
        /\ saved =>
            /\ report[p] = "idle" => ~Running /\ ~died
            /\ report[p] = "interrupted" => died \/ (blind[p] /\ Running)
            /\ report[p] = "updating" => active[p] /\ (Running \/ died)

StatusInv == LockInv /\ Flag /\ \A p \in Probes : Knows(p) /\ KnowsStill(p)

\* While p has the lock to give back, no writer is running.
LEMMA ProbeExcludes ==
    ASSUME LockInv, NEW p \in Probes, probe[p] = "release"
    PROVE  ~Running
BY Distinct DEF LockInv, TypeOK, Holder, Running

\* A writer's step that neither starts a run, nor saves, nor loses one that
\* died, leaves every question what it knows; one that does lets every
\* question see a run.  After either, none is undisturbed.
LEMMA DisturbKnows ==
    ASSUME LockInv, \A p \in Probes : Knows(p), UNCHANGED status,
           NEW b \in BOOLEAN, Disturb(b),
           b \/ ((Running' => Running) /\ saved' = saved /\ died' = died),
           NEW p \in Probes
    PROVE  Knows(p)' /\ KnowsStill(p)'
<1>1. KnowsStill(p)'
  BY DEF KnowsStill, Disturb
<1>2. CASE b
  <2>1. sawRun'[p]
    BY <1>2 DEF Disturb
  <2> QED
    BY <1>1, <2>1 DEF Knows, status
<1>3. CASE ~b
  <2>1. sawRun'[p] = sawRun[p]
    BY <1>3 DEF Disturb, LockInv, TypeOK
  <2> QED
    BY <1>1, <1>3, <2>1 DEF Knows, status
<1> QED
  BY <1>2, <1>3

\* Every step keeps the flag truthful and every question's knowledge true.
THEOREM StatusInvariant == Spec => []StatusInv
<1> DEFINE Known == \A p \in Probes : Knows(p) /\ KnowsStill(p)
<1>1. Init => Flag /\ Known
  BY DEF Init, Flag, Knows, KnowsStill, Running
<1>2. LockInv /\ Flag /\ Known /\ [Next]_vars => Flag' /\ Known'
  <2> SUFFICES ASSUME LockInv, Flag, Known, [Next]_vars
               PROVE  Flag' /\ Known'
    OBVIOUS
  <2> DEFINE Goal == Flag' /\ Known'
  <2>0. \A p \in Probes : Knows(p)
    OBVIOUS
  <2>1. ASSUME NEW w \in Writers, Start(w) PROVE Goal
    <3>1. Flag' /\ (Running' => Running)
      BY <2>1 DEF Start, Flag, Running, LockInv, TypeOK
    <3> QED
      BY <2>0, <2>1, <3>1, DisturbKnows DEF Start
  <2>2. ASSUME NEW w \in Writers, StartRefused(w) PROVE Goal
    BY <2>2 DEF StartRefused, Flag, Knows, KnowsStill, Running, status
  <2>3. ASSUME NEW w \in Writers, BeginRun(w) PROVE Goal
    <3>1. Flag'
      BY <2>3 DEF BeginRun, Save, Flag, Running, LockInv, TypeOK
    <3> QED
      BY <2>0, <2>3, <3>1, DisturbKnows DEF BeginRun
  <2>4. ASSUME NEW w \in Writers, EndRun(w) PROVE Goal
    <3>1. ~died /\ \A v \in Writers : v # w => writer[v] = "off"
      BY <2>4 DEF EndRun, Flag, Running, LockInv, Holder, TypeOK
    <3>2. Flag'
      BY <2>4, <3>1 DEF EndRun, Save, Flag, Running, LockInv, TypeOK
    <3> QED
      BY <2>0, <2>4, <3>2, DisturbKnows DEF EndRun
  <2>5. ASSUME NEW w \in Writers, Close(w) PROVE Goal
    <3>1. Flag' /\ (Running' => Running)
      BY <2>5 DEF Close, Flag, Running, LockInv, TypeOK
    <3> QED
      BY <2>0, <2>5, <3>1, DisturbKnows DEF Close
  <2>6. ASSUME NEW w \in Writers, Crash(w) PROVE Goal
    <3>1. \A v \in Writers : v # w => writer[v] = "off"
      BY <2>6 DEF Crash, LockInv, Holder, TypeOK
    <3>2. Flag' /\ (Running' => Running)
      BY <2>6, <3>1 DEF Crash, Flag, Running, LockInv, TypeOK
    <3>3. CASE writer[w] = "running"
      BY <2>0, <2>6, <3>2, <3>3, DisturbKnows DEF Crash
    <3>4. CASE writer[w] # "running"
      <4>1. died' = died /\ Disturb(FALSE)
        BY <2>6, <3>4 DEF Crash, Disturb, LockInv, TypeOK
      <4> QED
        BY <2>0, <2>6, <3>2, <4>1, DisturbKnows DEF Crash
    <3> QED
      BY <3>3, <3>4
  <2>7. ASSUME NEW p \in Probes, Ask(p) PROVE Goal
    <3>1. Flag'
      BY <2>7 DEF Ask, Flag, Running
    <3>2. ASSUME NEW q \in Probes PROVE (Knows(q) /\ KnowsStill(q))'
      BY <2>7 DEF Ask, Knows, KnowsStill, Running, LockInv, TypeOK
    <3> QED
      BY <3>1, <3>2
  <2>8. ASSUME NEW p \in Probes, IsHeldTaken(p) PROVE Goal
    <3>1. Flag'
      BY <2>8 DEF IsHeldTaken, Flag, Running, ghosts
    <3>2. ASSUME NEW q \in Probes PROVE (Knows(q) /\ KnowsStill(q))'
      BY <2>8 DEF IsHeldTaken, Knows, KnowsStill, Running, ghosts, LockInv, TypeOK
    <3> QED
      BY <3>1, <3>2
  <2>9. ASSUME NEW p \in Probes, IsHeldFree(p) PROVE Goal
    <3>1. Flag'
      BY <2>9 DEF IsHeldFree, Flag, Running, ghosts
    <3>2. ASSUME NEW q \in Probes PROVE (Knows(q) /\ KnowsStill(q))'
      BY <2>9 DEF IsHeldFree, Knows, KnowsStill, Running, ghosts, LockInv, TypeOK
    <3> QED
      BY <3>1, <3>2
  <2>10. ASSUME NEW p \in Probes, IsHeldRelease(p) PROVE Goal
    <3>1. ~Running
      BY <2>10, ProbeExcludes DEF IsHeldRelease
    <3>2. Flag'
      BY <2>10 DEF IsHeldRelease, Flag, Running, ghosts
    <3>3. ASSUME NEW q \in Probes PROVE (Knows(q) /\ KnowsStill(q))'
      BY <2>10, <3>1 DEF IsHeldRelease, Knows, KnowsStill, Running, ghosts,
                         LockInv, TypeOK
    <3> QED
      BY <3>2, <3>3
  <2>11. ASSUME NEW p \in Probes, Read(p) PROVE Goal
    <3>1. Flag'
      BY <2>11 DEF Read, Flag, Running, ghosts
    <3>2. ASSUME NEW q \in Probes PROVE Knows(q)'
      BY <2>11 DEF Read, Flag, Knows, Running, ghosts, LockInv, TypeOK
    <3>3. ASSUME NEW q \in Probes PROVE KnowsStill(q)'
      BY <2>11 DEF Read, Flag, KnowsStill, Running, ghosts, LockInv, TypeOK
    <3> QED
      BY <3>1, <3>2, <3>3
  <2>12. ASSUME NEW p \in Probes, Answer(p) PROVE Goal
    BY <2>12 DEF Answer, Flag, Knows, KnowsStill, Running, ghosts, LockInv, TypeOK
  <2>13. ASSUME NEW p \in Probes, IsHeldFailed(p) PROVE Goal
    <3>1. Flag'
      BY <2>13 DEF IsHeldFailed, Flag, Running
    <3>2. ASSUME NEW q \in Probes PROVE (Knows(q) /\ KnowsStill(q))'
      BY <2>13 DEF IsHeldFailed, Knows, KnowsStill, Running, LockInv, TypeOK
    <3> QED
      BY <3>1, <3>2
  <2>14. ASSUME NEW p \in Probes, ReadFailed(p) PROVE Goal
    BY <2>14 DEF ReadFailed, Flag, Knows, KnowsStill, Running, ghosts, LockInv,
                 TypeOK
  <2>15. CASE UNCHANGED vars
    BY <2>15 DEF vars, Flag, Knows, KnowsStill, Running
  <2> QED
    BY <2>1, <2>2, <2>3, <2>4, <2>5, <2>6, <2>7, <2>8, <2>9, <2>10, <2>11,
       <2>12, <2>13, <2>14, <2>15 DEF Next, WriterStep, ProbeStep
<1> QED
  BY <1>1, <1>2, LockInvariant, PTL DEF Spec, StatusInv

\* With nobody else moving meanwhile and every Save done, a status says idle,
\* updating and interrupted of just what is so, but for a question that could
\* not ask and one another question was in the way of (ReadStatus;
\* State.Updating paired with the lock).
THEOREM UndisturbedAlwaysExact == Spec => []UndisturbedIsExact
<1>1. StatusInv => UndisturbedIsExact
  BY DEF StatusInv, KnowsStill, UndisturbedIsExact
<1> QED
  BY <1>1, StatusInvariant, PTL

\* Whoever moves between the two looks of ReadStatus and whatever it could not
\* ask, a run it reports has died or was under way meanwhile.
THEOREM ReportedRunIsAlwaysThere == Spec => []ReportedRunIsThere
<1>1. StatusInv => ReportedRunIsThere
  BY DEF StatusInv, Knows, ReportedRunIsThere
<1> QED
  BY <1>1, StatusInvariant, PTL
=============================================================================
