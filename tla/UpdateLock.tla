------------------------------ MODULE UpdateLock ------------------------------
(***************************************************************************)
(* The update lock: writers (run, update, rollback) that take it for their *)
(* whole life, and status questions, which ask the kernel by taking it and *)
(* giving it back, then read the state file.  The daemon's own /status is  *)
(* a question like any other: flock belongs to the open file, so a second  *)
(* open in the holder's process finds it taken.                            *)
(***************************************************************************)
EXTENDS Naturals

CONSTANTS
    Writers,
    Probes,      \* status questions
    None,        \* nobody
    MayCrash,    \* whether writers die in this instance
    MayFail      \* whether file operations fail: Save, LoadState, Acquire's open

ASSUME LockAssumption ==
    /\ Writers \cap Probes = {}
    /\ None \notin Writers \cup Probes
    /\ MayCrash \in BOOLEAN /\ MayFail \in BOOLEAN

VARIABLES
    lock,       \* whose open file holds the flock
    writer,     \* where each writer is
    updating,   \* the flag in the state file
    probe,      \* where each status question is
    active,     \* what IsHeld told it: DaemonActive
    report,     \* its answer
    \* Ghosts
    died,       \* the last run to start died before it recorded an outcome
    saved,      \* the last Save of the state file succeeded
    blind,      \* IsHeld could not ask: Acquire failed, and not with ErrLocked
    undisturbed,\* no writer has moved since the question was asked
    sawRun,     \* a run was under way at some time since it was asked
    refused     \* whom each writer was refused the lock for

vars == <<lock, writer, updating, probe, active, report, died, saved, blind,
          undisturbed, sawRun, refused>>

ghosts == <<died, saved, blind, undisturbed, sawRun, refused>>
status == <<probe, active, report, blind>>

\* "blank" is a report without anything the state file says.
Reports == {"none", "blank", "idle", "updating", "interrupted"}

TypeOK ==
    /\ lock \in Writers \cup Probes \cup {None}
    /\ writer \in [Writers -> {"off", "holding", "running"}]
    /\ updating \in BOOLEAN
    /\ probe \in [Probes -> {"off", "ask", "release", "read", "done"}]
    /\ active \in [Probes -> BOOLEAN]
    /\ report \in [Probes -> Reports]
    /\ died \in BOOLEAN /\ saved \in BOOLEAN
    /\ blind \in [Probes -> BOOLEAN]
    /\ undisturbed \in [Probes -> BOOLEAN] /\ sawRun \in [Probes -> BOOLEAN]
    /\ refused \in [Writers -> Writers \cup Probes \cup {None}]
    /\ \A p \in Probes : probe[p] = "release" <=> lock = p

Init ==
    /\ lock = None
    /\ writer = [w \in Writers |-> "off"]
    /\ updating = FALSE
    /\ probe = [p \in Probes |-> "off"]
    /\ active = [p \in Probes |-> FALSE]
    /\ report = [p \in Probes |-> "none"]
    /\ died = FALSE /\ saved = TRUE
    /\ blind = [p \in Probes |-> FALSE]
    /\ undisturbed = [p \in Probes |-> TRUE]
    /\ sawRun = [p \in Probes |-> FALSE]
    /\ refused = [w \in Writers |-> None]

Running == \E w \in Writers : writer[w] = "running"

\* Ghost: a writer has moved; whoever is asking meanwhile is disturbed.
Disturb(running) ==
    /\ undisturbed' = [p \in Probes |-> FALSE]
    /\ sawRun' = [p \in Probes |-> sawRun[p] \/ running]

-----------------------------------------------------------------------------
(* Writers. *)

\* runner.New takes the lock, which never waits.  (A New that fails for
\* another reason starts nobody, as does an Execute whose LoadState fails.)
Start(w) ==
    /\ writer[w] = "off" /\ lock = None
    /\ lock' = w
    /\ writer' = [writer EXCEPT ![w] = "holding"]
    /\ refused' = [refused EXCEPT ![w] = None]
    /\ Disturb(FALSE)
    /\ UNCHANGED <<updating, status, died, saved>>

StartRefused(w) ==
    /\ writer[w] = "off" /\ lock # None
    /\ refused' = [refused EXCEPT ![w] = lock]
    /\ UNCHANGED <<lock, writer, updating, status, died, saved, undisturbed,
                   sawRun>>

\* Save with the flag as given; its failure is logged, and the file is as it
\* was.
Save(flag) ==
    \/ updating' = flag /\ saved' = TRUE
    \/ MayFail /\ updating' = updating /\ saved' = FALSE

\* Mutant of BeginRun: the start is recorded in memory only.
BeginRun_NotSaved(w) ==
    /\ writer[w] = "holding"
    /\ writer' = [writer EXCEPT ![w] = "running"]
    /\ died' = FALSE
    /\ Disturb(TRUE)
    /\ UNCHANGED <<lock, updating, status, saved, refused>>

\* Execute: RecordStart and Save.
BeginRun(w) ==
    /\ writer[w] = "holding"
    /\ writer' = [writer EXCEPT ![w] = "running"]
    /\ Save(TRUE)
    /\ died' = FALSE
    /\ Disturb(TRUE)
    /\ UNCHANGED <<lock, status, refused>>

\* Mutant of EndRun: the state is saved with the flag still up.
EndRun_LeavesFlag(w) ==
    /\ writer[w] = "running"
    /\ writer' = [writer EXCEPT ![w] = "holding"]
    /\ Save(TRUE)
    /\ Disturb(TRUE)
    /\ UNCHANGED <<lock, status, died, refused>>

\* RecordSuccess or RecordFailure, and Save.
EndRun(w) ==
    /\ writer[w] = "running"
    /\ writer' = [writer EXCEPT ![w] = "holding"]
    /\ Save(FALSE)
    /\ Disturb(TRUE)
    /\ UNCHANGED <<lock, status, died, refused>>

\* Runner.Close.
Close(w) ==
    /\ writer[w] = "holding"
    /\ writer' = [writer EXCEPT ![w] = "off"]
    /\ lock' = None
    /\ Disturb(FALSE)
    /\ UNCHANGED <<updating, status, died, saved, refused>>

\* Mutant of Crash: the lock outlives its holder, as a lock file would.
Crash_LeavesLock(w) ==
    /\ MayCrash /\ writer[w] # "off"
    /\ writer' = [writer EXCEPT ![w] = "off"]
    /\ died' = (died \/ writer[w] = "running")
    /\ Disturb(writer[w] = "running")
    /\ UNCHANGED <<lock, updating, status, saved, refused>>

\* The kernel closes the file of a process that dies.
Crash(w) ==
    /\ MayCrash /\ writer[w] # "off"
    /\ writer' = [writer EXCEPT ![w] = "off"]
    /\ lock' = None
    /\ died' = (died \/ writer[w] = "running")
    /\ Disturb(writer[w] = "running")
    /\ UNCHANGED <<updating, status, saved, refused>>

-----------------------------------------------------------------------------
(* ReadStatus. *)

Ask(p) ==
    /\ probe[p] = "off"
    /\ probe' = [probe EXCEPT ![p] = "ask"]
    /\ report' = [report EXCEPT ![p] = "none"]
    /\ undisturbed' = [undisturbed EXCEPT ![p] = TRUE]
    /\ blind' = [blind EXCEPT ![p] = FALSE]
    /\ sawRun' = [sawRun EXCEPT ![p] = Running]
    /\ UNCHANGED <<lock, writer, updating, active, died, saved, refused>>

\* IsHeld: Acquire, and Release if that worked.
IsHeldTaken(p) ==
    /\ probe[p] = "ask" /\ lock # None
    /\ active' = [active EXCEPT ![p] = TRUE]
    /\ probe' = [probe EXCEPT ![p] = "read"]
    /\ UNCHANGED <<lock, writer, updating, report, ghosts>>

IsHeldFree(p) ==
    /\ probe[p] = "ask" /\ lock = None
    /\ lock' = p
    /\ probe' = [probe EXCEPT ![p] = "release"]
    /\ UNCHANGED <<writer, updating, active, report, ghosts>>

\* Acquire fails with another error, whoever has the lock: IsHeld says no.
IsHeldFailed(p) ==
    /\ MayFail /\ probe[p] = "ask"
    /\ active' = [active EXCEPT ![p] = FALSE]
    /\ blind' = [blind EXCEPT ![p] = TRUE]
    /\ probe' = [probe EXCEPT ![p] = "read"]
    /\ UNCHANGED <<lock, writer, updating, report, died, saved, undisturbed,
                   sawRun, refused>>

\* Mutant of IsHeldRelease: the answer is returned and the lock kept.
IsHeldRelease_Keeps(p) ==
    /\ probe[p] = "release"
    /\ active' = [active EXCEPT ![p] = FALSE]
    /\ probe' = [probe EXCEPT ![p] = "read"]
    /\ UNCHANGED <<lock, writer, updating, report, ghosts>>

IsHeldRelease(p) ==
    /\ probe[p] = "release"
    /\ lock' = None
    /\ active' = [active EXCEPT ![p] = FALSE]
    /\ probe' = [probe EXCEPT ![p] = "read"]
    /\ UNCHANGED <<writer, updating, report, ghosts>>

\* LoadState, and what the flag and the lock say together.
Read(p) ==
    /\ probe[p] = "read"
    /\ report' = [report EXCEPT ![p] =
                    IF ~updating THEN "idle"
                    ELSE IF active[p] THEN "updating" ELSE "interrupted"]
    /\ probe' = [probe EXCEPT ![p] = "done"]
    /\ UNCHANGED <<lock, writer, updating, active, ghosts>>

\* LoadState cannot read the file: the report says nothing of a run.
ReadFailed(p) ==
    /\ MayFail /\ probe[p] = "read"
    /\ report' = [report EXCEPT ![p] = "blank"]
    /\ probe' = [probe EXCEPT ![p] = "done"]
    /\ UNCHANGED <<lock, writer, updating, active, ghosts>>

Answer(p) ==
    /\ probe[p] = "done"
    /\ probe' = [probe EXCEPT ![p] = "off"]
    /\ UNCHANGED <<lock, writer, updating, active, report, ghosts>>

WriterStep(w) ==
    Start(w) \/ StartRefused(w) \/ BeginRun(w) \/ EndRun(w) \/ Close(w) \/ Crash(w)

ProbeStep(p) ==
    Ask(p) \/ IsHeldTaken(p) \/ IsHeldFree(p) \/ IsHeldFailed(p)
      \/ IsHeldRelease(p) \/ Read(p) \/ ReadFailed(p) \/ Answer(p)

Next ==
    \/ \E w \in Writers : WriterStep(w)
    \/ \E p \in Probes : ProbeStep(p)

Spec == Init /\ [][Next]_vars

\* A question is a handful of system calls: it goes on to its end.
FairSpec == Spec /\ \A p \in Probes : WF_vars(ProbeStep(p))

-----------------------------------------------------------------------------
(* Properties. *)

\* At most one writer is alive, and it is the one the kernel says: a status
\* question can take the lock from nobody, and a dead writer keeps it from
\* nobody.
MutualExclusion ==
    /\ \A v, w \in Writers : writer[v] # "off" /\ writer[w] # "off" => v = w
    /\ \A w \in Writers : writer[w] # "off" <=> lock = w

\* What ReadStatus says while no writer moves is what State.Updating and the
\* lock say together, "exactly", with three reservations: Save must have
\* worked, a question that could not ask takes a run for a dead one, and one
\* that another question was in the way of takes a dead run for a live one.
UndisturbedIsExact ==
    \A p \in Probes :
        (undisturbed[p] /\ saved) =>
            /\ report[p] = "idle" => ~Running /\ ~died
            /\ report[p] = "interrupted" => died \/ (blind[p] /\ Running)
            /\ report[p] = "updating" => active[p] /\ (Running \/ died)

\* ReadStatus samples the lock and the file apart.  Whatever writers do in
\* between, updating and interrupted are said of a run that died, or that was
\* under way while the question was asked, as long as Save works: never of one
\* that ended before.
ReportedRunIsThere ==
    \A p \in Probes :
        (saved /\ report[p] \in {"updating", "interrupted"}) => died \/ sawRun[p]

\* The lock is never held for ever by those who only ask: from any moment on
\* it is some time free of them.
ProbesLetGo == []<>(lock \notin Probes)

\* Interrupted is only ever reported of a run that died (output/state.go,
\* "distinguishes them exactly").
InterruptedIsTrue == \A p \in Probes : report[p] = "interrupted" => died

\* A writer is only turned away for another writer, as the error it ends with
\* says (runner.New).
RefusedForWriter == \A w \in Writers : refused[w] \notin Probes
=============================================================================
