---------------------------- MODULE SubscriptionFetch ----------------------------
(***************************************************************************)
(* FetchAll: one goroutine for each enabled subscription, a semaphore      *)
(* between them, retries inside each, a context that may be over at any    *)
(* moment, and what the run makes of the results.                          *)
(*                                                                         *)
(* A subscription is a file of the snapshot or a URL.  The nodes it gives  *)
(* are module Naming's subject; here it gives them or does not.            *)
(***************************************************************************)
EXTENDS Naturals, FiniteSets

CONSTANTS
    Subs,        \* the subscriptions of config.json
    FromFile,    \* those of them with a path
    Parallel,    \* DefaultParallel
    Attempts     \* DefaultRetry.Attempts

ASSUME FetchAssumption ==
    /\ IsFiniteSet(Subs)
    /\ FromFile \subseteq Subs
    /\ Parallel \in Nat \ {0} /\ Attempts \in Nat \ {0}

VARIABLES
    ctx,        \* the run's context: live, or why it is over
    run,        \* where BuildPlan and execute are
    fetcher,    \* where each goroutine is
    slots,      \* who has a slot of the semaphore
    attempt,    \* how many requests each has begun
    late,       \* those of them begun after the context was over
    result      \* results[i]

vars == <<ctx, run, fetcher, slots, attempt, late, result>>

Working == {"reading", "asking", "pausing"}
Over    == ctx # "live"
Enabled == {s \in Subs : fetcher[s] # "off"}

TypeOK ==
    /\ ctx \in {"live", "timeout", "cancelled"}
    /\ run \in {"fetching", "building", "writing", "written", "aborted"}
    /\ fetcher \in [Subs -> {"off", "waiting", "done"} \cup Working]
    /\ slots \in SUBSET Subs
    /\ attempt \in [Subs -> 0..Attempts]
    /\ late \in [Subs -> Nat]
    /\ result \in [Subs -> {"none", "nodes", "failed", "ended"}]

Init ==
    /\ ctx = "live"
    /\ run = "fetching"
    /\ fetcher \in [Subs -> {"off", "waiting"}]
    /\ slots = {}
    /\ attempt = [s \in Subs |-> 0]
    /\ late = [s \in Subs |-> 0]
    /\ result = [s \in Subs |-> "none"]

-----------------------------------------------------------------------------
(* A goroutine.  Its slot goes back with it, whichever way it returns. *)

Return(s, r) ==
    /\ fetcher' = [fetcher EXCEPT ![s] = "done"]
    /\ result' = [result EXCEPT ![s] = r]
    /\ slots' = slots \ {s}
    /\ UNCHANGED <<ctx, run, attempt, late>>

\* Client.Get goes out.
Ask(s) ==
    /\ fetcher' = [fetcher EXCEPT ![s] = "asking"]
    /\ attempt' = [attempt EXCEPT ![s] = @ + 1]
    /\ late' = [late EXCEPT ![s] = IF Over THEN @ + 1 ELSE @]
    /\ UNCHANGED <<ctx, run, result>>

\* A select with two ready branches takes either: a slot may be taken although
\* the context is over.
TakeSlot(s) ==
    /\ fetcher[s] = "waiting"
    /\ Cardinality(slots) < Parallel
    /\ slots' = slots \cup {s}
    /\ IF s \in FromFile
         THEN /\ fetcher' = [fetcher EXCEPT ![s] = "reading"]
              /\ UNCHANGED <<ctx, run, attempt, late, result>>
         ELSE Ask(s)

GiveUp(s) ==
    /\ fetcher[s] = "waiting" /\ Over
    /\ Return(s, "ended")

\* os.ReadFile does not know the context; the payload parses or does not.
ReadFile(s) ==
    /\ fetcher[s] = "reading"
    /\ \E r \in {"nodes", "failed"} : Return(s, r)

\* A body arrives, and parses or does not.  The transport looks at the context
\* before it sends anything, so a late request gets no answer at all.
Answered(s) ==
    /\ fetcher[s] = "asking" /\ late[s] = 0
    /\ \E r \in {"nodes", "failed"} : Return(s, r)

\* What another attempt would not change: a client error other than 408 and
\* 429, a body over the limit, and the client's own timeout, which to errors.Is
\* is a context.DeadlineExceeded like the run's.
Refused(s) ==
    /\ fetcher[s] = "asking" /\ late[s] = 0
    /\ Return(s, "failed")

\* Mutant of Failed: the count starts over.
Failed_StartsOver(s) ==
    /\ fetcher[s] = "asking" /\ late[s] = 0
    /\ fetcher' = [fetcher EXCEPT ![s] = "pausing"]
    /\ attempt' = [attempt EXCEPT ![s] = 0]
    /\ UNCHANGED <<ctx, run, slots, late, result>>

\* What it might: no connection, a server error, 408, 429.
Failed(s) ==
    /\ fetcher[s] = "asking" /\ late[s] = 0
    /\ IF attempt[s] < Attempts
         THEN /\ fetcher' = [fetcher EXCEPT ![s] = "pausing"]
              /\ UNCHANGED <<ctx, run, slots, attempt, late, result>>
         ELSE Return(s, "failed")

\* Mutant of Interrupted: retryable does not know a context error.
Interrupted_Retried(s) ==
    /\ fetcher[s] = "asking" /\ Over
    /\ IF attempt[s] < Attempts
         THEN /\ fetcher' = [fetcher EXCEPT ![s] = "pausing"]
              /\ UNCHANGED <<ctx, run, slots, attempt, late, result>>
         ELSE Return(s, "failed")

\* The request is cut off by the context, which is not retried.
Interrupted(s) ==
    /\ fetcher[s] = "asking" /\ Over
    /\ Return(s, "ended")

\* The timer of sleep, which may have fired by the time the context is over.
PauseOver(s) ==
    /\ fetcher[s] = "pausing"
    /\ Ask(s)
    /\ UNCHANGED slots

\* Mutant of PauseCut: the slot is given back on the way the code expects only.
PauseCut_KeepsSlot(s) ==
    /\ fetcher[s] = "pausing" /\ Over
    /\ fetcher' = [fetcher EXCEPT ![s] = "done"]
    /\ result' = [result EXCEPT ![s] = "ended"]
    /\ UNCHANGED <<ctx, run, slots, attempt, late>>

PauseCut(s) ==
    /\ fetcher[s] = "pausing" /\ Over
    /\ Return(s, "ended")

Fetch(s) ==
    \/ TakeSlot(s) \/ GiveUp(s)
    \/ ReadFile(s)
    \/ Answered(s) \/ Refused(s) \/ Failed(s) \/ Interrupted(s)
    \/ PauseOver(s) \/ PauseCut(s)

-----------------------------------------------------------------------------
(* The run around them. *)

Delivered == {s \in Subs : result[s] = "nodes"}
AllDone   == \A s \in Enabled : fetcher[s] = "done"

\* Mutant of Collect: a subscription given up for the context is not counted.
Collect_FailuresOnly ==
    /\ run = "fetching" /\ AllDone
    /\ run' = IF Enabled # {} /\ \A s \in Enabled : result[s] = "failed"
                THEN "aborted" ELSE "building"
    /\ UNCHANGED <<ctx, fetcher, slots, attempt, late, result>>

\* wg.Wait, then the count.  With nothing enabled there is nothing to fail.
Collect ==
    /\ run = "fetching" /\ AllDone
    /\ run' = IF Enabled # {} /\ Delivered = {} THEN "aborted" ELSE "building"
    /\ UNCHANGED <<ctx, fetcher, slots, attempt, late, result>>

\* Build and Write are given no context.
Build ==
    /\ run = "building"
    /\ run' \in {"writing", "aborted"}
    /\ UNCHANGED <<ctx, fetcher, slots, attempt, late, result>>

Write ==
    /\ run = "writing"
    /\ run' \in {"written", "aborted"}
    /\ UNCHANGED <<ctx, fetcher, slots, attempt, late, result>>

\* update_timeout, or the end of the process's own context.
End(why) ==
    /\ ctx = "live" /\ run \notin {"written", "aborted"}
    /\ ctx' = why
    /\ UNCHANGED <<run, fetcher, slots, attempt, late, result>>

Ended ==
    /\ run \in {"written", "aborted"}
    /\ UNCHANGED vars

Next ==
    \/ \E s \in Subs : Fetch(s)
    \/ Collect \/ Build \/ Write
    \/ \E why \in {"timeout", "cancelled"} : End(why)
    \/ Ended

Spec == Init /\ [][Next]_vars

\* A request is answered in the end: the HTTP client has a timeout of its own.
FetchSpec ==
    /\ Spec
    /\ \A s \in Subs : WF_vars(Fetch(s))
    /\ WF_vars(Collect) /\ WF_vars(Build) /\ WF_vars(Write)

-----------------------------------------------------------------------------

\* The semaphore is held by exactly the goroutines at work, never by more than
\* Parallel of them, and by nobody once FetchAll has returned: no way out of
\* fetchOne keeps a slot.
SlotsAreReturned ==
    /\ slots = {s \in Subs : fetcher[s] \in Working}
    /\ Cardinality(slots) <= Parallel
    /\ run # "fetching" => slots = {}

\* A run that goes on to build has the nodes of some subscription, unless none
\* is enabled: not even a context that ends under the last of them makes it
\* write configurations without nodes (runner.go:277).
NeverFromNothing ==
    run \in {"building", "writing", "written"} => Enabled = {} \/ Delivered # {}

\* A context that is over costs each subscription one more request at most:
\* however attempts, pauses and the deadline fall together, nothing is retried
\* after it (retry.go:57).
OneLateRequest ==
    \A s \in Subs : late[s] <= 1

\* Every update ends, whatever the servers do and whenever the context is over.
FetchEnds == <>(run \in {"written", "aborted"})

\* doc/configuration.md:328 says that update_timeout aborts the update: one that
\* was cut short in the middle of a subscription writes nothing.
TimeoutAborts ==
    run = "written" => ~(ctx = "timeout" /\ \E s \in Subs : result[s] = "ended")

=============================================================================
