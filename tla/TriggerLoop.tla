------------------------------ MODULE TriggerLoop ------------------------------
(***************************************************************************)
(* The daemon, `node-box run`: the serial loop that executes triggers, the *)
(* goroutines that queue them - schedule, fallback poll, webhook server,   *)
(* SIGHUP - and the shutdown of all of them.                               *)
(*                                                                         *)
(* Commits are numbered in the order they reach the branch.  What a run    *)
(* does to the disk is module UpdateRun; here a run resolves a ref, builds *)
(* it and, if that worked, moves current.  A trigger is its ref: a daemon  *)
(* never sets Force, and Kind only names the run (module Coalesce has      *)
(* both).                                                                  *)
(***************************************************************************)
EXTENDS Integers, Sequences

CONSTANTS
    MaxRef,       \* bound: the last commit that is pushed
    Bad,          \* the commits that do not build
    QueueDepth,   \* the capacity of Runner.triggers
    MayStop,      \* whether this instance gets SIGTERM
    MaxEvents     \* bound: webhook deliveries, signals and transient failures

ASSUME BoundAssumption ==
    /\ MaxRef \in Nat \ {0} /\ QueueDepth \in Nat \ {0} /\ MaxEvents \in Nat
    /\ Bad \subseteq 1..MaxRef
    /\ MayStop \in BOOLEAN

Latest == 0              \* the empty ref: whatever the source points at
Unset  == 0              \* a pointer that is not set
Refs   == 1..MaxRef

VARIABLES
    head,         \* the branch
    current,      \* the current pointer
    queue,        \* Runner.triggers
    loop,         \* where Runner.Run is
    ref,          \* the ref of the trigger in hand
    target,       \* the ref the run is building
    poll,         \* where pollLoop is
    seen,         \* what its Resolve returned
    schedule,     \* where scheduleLoop is
    server,       \* the webhook server
    cancelled,    \* ctx.Done() is closed
    events,       \* what is left of MaxEvents
    fired,        \* the timers that fired while the loop is draining the queue
    dropped       \* ghost: refs dropped since the last run took the queue

vars == <<head, current, queue, loop, ref, target, poll, seen, schedule,
          server, cancelled, events, fired, dropped>>

world      == <<head, cancelled>>
goroutines == <<poll, seen, schedule, server>>
run        == <<loop, ref, target>>

LoopSteps == {"select", "coalesce", "resolve", "build", "apply", "wait", "returned"}

TypeOK ==
    /\ head \in Refs /\ current \in Refs \cup {Unset}
    /\ queue \in Seq(Refs \cup {Latest}) /\ Len(queue) <= QueueDepth
    /\ loop \in LoopSteps
    /\ ref \in Refs \cup {Latest}
    /\ target \in Refs \cup {Unset}
    /\ loop \in {"build", "apply"} => target \in Refs
    /\ poll \in {"off", "tick", "compare", "done"} /\ seen \in Refs \cup {Unset}
    /\ schedule \in {"sleep", "done"}
    /\ server \in {"up", "down"}
    /\ cancelled \in BOOLEAN
    /\ events \in 0..MaxEvents
    /\ fired \in SUBSET {"schedule", "poll"}
    /\ dropped \in SUBSET (Refs \cup {Latest})

\* Run queues the startup trigger before it does anything else.  poll_interval
\* may be 0, and the webhook server's port may be taken.
Init ==
    /\ head = 1 /\ current = Unset
    /\ queue = <<Latest>>
    /\ loop = "select" /\ ref = Latest /\ target = Unset
    /\ poll \in {"off", "tick"}
    /\ seen = Unset
    /\ schedule = "sleep" /\ server \in {"up", "down"}
    /\ cancelled = FALSE
    /\ events = MaxEvents
    /\ fired = {}
    /\ dropped = {}

Trigger(r) ==
    IF Len(queue) < QueueDepth
      THEN queue' = Append(queue, r) /\ UNCHANGED dropped
      ELSE dropped' = dropped \cup {r} /\ UNCHANGED queue

\* Bounds: something that goes wrong, or arrives, uses up one of MaxEvents.
Event == events > 0 /\ events' = events - 1

\* Bound: draining the queue takes microseconds and the periods are minutes, so
\* a timer fires at most once meanwhile.
Fires(timer) ==
    IF loop = "coalesce" THEN timer \notin fired /\ fired' = fired \cup {timer}
    ELSE UNCHANGED fired

-----------------------------------------------------------------------------
(* Runner.Run. *)

Receive ==
    /\ loop = "select" /\ queue # <<>>
    /\ ref' = Head(queue) /\ queue' = Tail(queue)
    /\ loop' = "coalesce"
    /\ UNCHANGED <<world, goroutines, current, target, events, dropped, fired>>

\* select takes either branch when both are ready.
Stop ==
    /\ loop = "select" /\ cancelled
    /\ loop' = "wait"
    /\ UNCHANGED <<world, goroutines, current, queue, ref, target, events,
                   dropped, fired>>

\* One trigger at a time, while there are any: others are queued meanwhile.
Coalesce ==
    /\ loop = "coalesce" /\ queue # <<>>
    /\ ref' = IF Head(queue) # Latest THEN Head(queue) ELSE ref
    /\ queue' = Tail(queue)
    /\ UNCHANGED <<world, goroutines, current, loop, target, events, dropped, fired>>

Execute ==
    /\ loop = "coalesce" /\ queue = <<>>
    /\ loop' = "resolve"
    /\ fired' = {} /\ dropped' = {}
    /\ UNCHANGED <<world, goroutines, current, queue, ref, target, events>>

Done == loop' = "select" /\ ref' = Latest /\ target' = Unset

\* Mutant of Acquire: current moves as soon as the commit is known.
Acquire_MovesCurrent ==
    /\ loop = "resolve"
    /\ target' = IF ref = Latest THEN head ELSE ref
    /\ current' = target'
    /\ loop' = "build"
    /\ UNCHANGED <<world, goroutines, queue, ref, events, dropped, fired>>

Acquire ==
    /\ loop = "resolve"
    /\ target' = IF ref = Latest THEN head ELSE ref
    /\ loop' = "build"
    /\ UNCHANGED <<world, goroutines, current, queue, ref, events, dropped, fired>>

\* The source does not answer: back to what was applied last, for a trigger
\* that named no ref.
AcquireFailed ==
    /\ loop = "resolve"
    /\ Event
    /\ IF ref = Latest /\ current # Unset
         THEN target' = current /\ loop' = "build" /\ UNCHANGED ref
         ELSE Done
    /\ UNCHANGED <<world, goroutines, current, queue, dropped, fired>>

Build ==
    /\ loop = "build" /\ target \notin Bad
    /\ loop' = "apply"
    /\ UNCHANGED <<world, goroutines, current, queue, ref, target, events,
                   dropped, fired>>

\* Mutant of BuildFailed: Run returns the error instead of logging it.
BuildFailed_EndsRun ==
    /\ loop = "build"
    /\ (target \in Bad /\ UNCHANGED events) \/ Event
    /\ loop' = "wait" /\ ref' = Latest /\ target' = Unset
    /\ UNCHANGED <<world, goroutines, current, queue, dropped, fired>>

BuildFailed ==
    /\ loop = "build"
    /\ (target \in Bad /\ UNCHANGED events) \/ Event
    /\ Done
    /\ UNCHANGED <<world, goroutines, current, queue, dropped, fired>>

\* A run that finds its context over stops.  (One that has got past its last
\* look at the context goes on and writes.)
Cancelled ==
    /\ loop \in {"resolve", "build"} /\ cancelled
    /\ Done
    /\ UNCHANGED <<world, goroutines, current, queue, events, dropped, fired>>

Apply ==
    /\ loop = "apply"
    /\ current' = target
    /\ Done
    /\ UNCHANGED <<world, goroutines, queue, events, dropped, fired>>

\* wg.Wait in Run and in cmdRun, then Close.
Return ==
    /\ loop = "wait" /\ poll \in {"off", "done"} /\ schedule = "done" /\ server = "down"
    /\ loop' = "returned"
    /\ UNCHANGED <<world, goroutines, current, queue, ref, target, events,
                   dropped, fired>>

-----------------------------------------------------------------------------
(* The goroutines beside it. *)

ScheduleTick ==
    /\ schedule = "sleep"
    /\ Trigger(Latest)
    /\ Fires("schedule")
    /\ UNCHANGED <<world, goroutines, current, run, events>>

ScheduleExit ==
    /\ schedule = "sleep" /\ cancelled
    /\ schedule' = "done"
    /\ UNCHANGED <<world, run, poll, seen, server, current, queue, events,
                   dropped, fired>>

\* pollOnce asks the source first (if it gets no answer the tick is lost, and
\* the next one comes) ...
PollResolve ==
    /\ poll = "tick"
    /\ seen' = head
    /\ poll' = "compare"
    /\ UNCHANGED <<world, run, schedule, server, current, queue, events,
                   dropped, fired>>

\* ... and looks at current second.
PollCompare ==
    /\ poll = "compare"
    /\ IF current = seen THEN UNCHANGED <<queue, dropped>> ELSE Trigger(seen)
    /\ poll' = "tick" /\ seen' = Unset
    /\ Fires("poll")
    /\ UNCHANGED <<world, run, schedule, server, current, events>>

\* Mutant of PollExit: the loop listens to its ticker only.
PollExit_Deaf == FALSE /\ UNCHANGED vars

PollExit ==
    /\ poll = "tick" /\ cancelled
    /\ poll' = "done"
    /\ UNCHANGED <<world, run, seen, schedule, server, current, queue, events,
                   dropped, fired>>

\* A webhook names any commit pushed so far: deliveries are delayed, repeated
\* and overtaken.  A body may also name none.
Webhook ==
    /\ server = "up"
    /\ Event
    /\ \E r \in 1..head \cup {Latest} : Trigger(r)
    /\ UNCHANGED <<world, run, goroutines, current, fired>>

\* The listener fails, or is shut down: nobody hears of it before the exit.
ServerDown ==
    /\ server = "up"
    /\ (cancelled /\ UNCHANGED events) \/ Event
    /\ server' = "down"
    /\ UNCHANGED <<world, run, poll, seen, schedule, current, queue, dropped, fired>>

SIGHUP ==
    /\ loop # "returned"
    /\ Event
    /\ Trigger(Latest)
    /\ UNCHANGED <<world, run, goroutines, current, fired>>

-----------------------------------------------------------------------------
(* The world. *)

Push ==
    /\ head < MaxRef
    /\ head' = head + 1
    /\ UNCHANGED <<run, goroutines, current, queue, cancelled, events, dropped, fired>>

SIGTERM ==
    /\ MayStop /\ ~cancelled
    /\ cancelled' = TRUE
    /\ UNCHANGED <<head, run, goroutines, current, queue, events, dropped, fired>>

\* The process has ended.
Ended == loop = "returned" /\ UNCHANGED vars

Run ==
    \/ Receive \/ Stop \/ Coalesce \/ Execute
    \/ Acquire \/ AcquireFailed \/ Build \/ BuildFailed \/ Cancelled \/ Apply
    \/ Return

Poll == PollResolve \/ PollCompare

Next ==
    \/ Run
    \/ ScheduleTick \/ ScheduleExit \/ Poll \/ PollExit
    \/ Webhook \/ ServerDown \/ SIGHUP
    \/ Push \/ SIGTERM
    \/ Ended

Spec == Init /\ [][Next]_vars

\* The loop never stands still with something to do, and select does not pass
\* over ctx.Done() for ever.
FairLoop ==
    /\ Spec
    /\ WF_vars(Run)
    /\ SF_vars(ScheduleExit) /\ SF_vars(PollExit)
    /\ WF_vars(cancelled /\ ServerDown)

\* The poll's timer fires.  The schedule's does too, but may be an hour or a
\* week away: it is only counted on where there is no poll.
DaemonSpec ==
    /\ FairLoop
    /\ WF_vars(Poll)
    /\ WF_vars(poll = "off" /\ ScheduleTick)

-----------------------------------------------------------------------------
(* Properties. *)

\* When the branch has come to rest at a commit that builds, that commit is
\* applied and stays applied: whatever was lost, repeated, overtaken, dropped
\* from a full queue, merged into another run or refused for a moment.
Converges == []~cancelled => <>[](current = head \/ head \in Bad)

\* A commit that does not build is tried again, for ever: the failed run left
\* current alone, so the poll does not take it for done.
BadHeadRetried ==
    ([]~cancelled /\ <>[](head \in Bad)) => []<>(loop = "build" /\ target = head)

\* A daemon that is told to stop stops, whatever is queued, running or failing.
Stops == cancelled ~> loop = "returned"

\* A trigger dropped because the queue was full is made good by the run that
\* is pending: that run is for the latest commit or for one no older.
DroppedIsCovered ==
    (loop = "coalesce" /\ queue = <<>>) =>
        \A r \in dropped : ref = Latest \/ (r # Latest /\ ref >= r)
=============================================================================
