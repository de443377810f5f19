------------------------- MODULE SubscriptionFetch_proofs -------------------------
(***************************************************************************)
(* Theorems about FetchAll, for any number of subscriptions, slots and     *)
(* attempts.                                                               *)
(***************************************************************************)
EXTENDS SubscriptionFetch, FiniteSetTheorems, TLAPS

\* Who has a slot, and how many have.
SlotsInv ==
    /\ slots = {s \in Subs : fetcher[s] \in Working}
    /\ Cardinality(slots) <= Parallel

\* Attempts are left before every request, and a late request is a goroutine's
\* last.
RequestsInv ==
    \A s \in Subs :
        /\ fetcher[s] = "waiting" => attempt[s] < Attempts
        /\ fetcher[s] = "pausing" => attempt[s] < Attempts
        /\ late[s] <= 1
        /\ late[s] = 1 => Over /\ fetcher[s] \in {"asking", "done"}

\* FetchAll returns when everybody has, and what is counted then stays.
ReturnInv == run # "fetching" => AllDone

FetchInv ==
    TypeOK /\ SlotsInv /\ RequestsInv /\ ReturnInv /\ NeverFromNothing

-----------------------------------------------------------------------------
(* One goroutine's step. *)

\* While a goroutine runs FetchAll has not returned.
LEMMA StillFetching ==
    ASSUME ReturnInv, NEW s \in Subs, fetcher[s] \in {"waiting"} \cup Working
    PROVE  run = "fetching"
BY DEF ReturnInv, AllDone, Enabled, Working

\* What a goroutine returns leaves the others as they are.
LEMMA ReturnPreserves ==
    ASSUME FetchInv, NEW s \in Subs, fetcher[s] \in {"waiting"} \cup Working,
           NEW r \in {"nodes", "failed", "ended"}, Return(s, r)
    PROVE  FetchInv'
<1>1. run = "fetching" /\ run' = run
  BY StillFetching DEF FetchInv, Return
<1>2. TypeOK'
  BY DEF FetchInv, TypeOK, Return, Working
<1>3. SlotsInv'
  <2>1. slots' = {t \in Subs : fetcher'[t] \in Working}
    BY DEF FetchInv, SlotsInv, TypeOK, Return, Working
  <2>2. IsFiniteSet(slots)
    BY FetchAssumption, FS_Subset DEF FetchInv, TypeOK, FetchAssumption
  <2>3. Cardinality(slots') <= Cardinality(slots)
    BY <2>2, FS_Subset DEF Return
  <2>4. Cardinality(slots) \in Nat /\ Cardinality(slots') \in Nat
    BY <2>2, FS_Subset, FS_CardinalityType DEF Return
  <2> QED
    BY <2>1, <2>3, <2>4, FetchAssumption DEF SlotsInv, FetchInv, FetchAssumption
<1>4. RequestsInv'
  BY DEF FetchInv, RequestsInv, TypeOK, Return, Working, Over
<1>5. ReturnInv' /\ NeverFromNothing'
  BY <1>1 DEF ReturnInv, NeverFromNothing
<1> QED
  BY <1>2, <1>3, <1>4, <1>5 DEF FetchInv

\* A request that goes out is the last one if it is late.
LEMMA AskPreserves ==
    ASSUME FetchInv, NEW s \in Subs, fetcher[s] \in {"waiting", "pausing"}, Ask(s)
    PROVE  /\ TypeOK /\ slots' \in SUBSET Subs => TypeOK'
           /\ RequestsInv' /\ ReturnInv' /\ NeverFromNothing'
<1>1. run = "fetching" /\ run' = run
  BY StillFetching DEF FetchInv, Ask, Working
<1>2. attempt[s] \in Nat /\ attempt[s] < Attempts /\ late[s] = 0
  BY DEF FetchInv, TypeOK, RequestsInv
<1>3. TypeOK /\ slots' \in SUBSET Subs => TypeOK'
  BY <1>2, FetchAssumption DEF TypeOK, Ask, Working, FetchAssumption
<1>4. RequestsInv'
  BY <1>2, FetchAssumption DEF FetchInv, TypeOK, RequestsInv, Ask, Over, FetchAssumption
<1>5. ReturnInv' /\ NeverFromNothing'
  BY <1>1 DEF ReturnInv, NeverFromNothing
<1> QED
  BY <1>3, <1>4, <1>5

\* A goroutine that stays at work keeps its slot.
LEMMA SlotKept ==
    ASSUME FetchInv, NEW s \in Subs, fetcher[s] \in Working, NEW at \in Working,
           fetcher' = [fetcher EXCEPT ![s] = at], slots' = slots
    PROVE  SlotsInv'
BY DEF FetchInv, SlotsInv, TypeOK

\* Whoever takes a slot is one more, and there was one left.
LEMMA SlotTaken ==
    ASSUME FetchInv, NEW s \in Subs, fetcher[s] = "waiting", NEW at \in Working,
           Cardinality(slots) < Parallel,
           fetcher' = [fetcher EXCEPT ![s] = at], slots' = slots \cup {s}
    PROVE  SlotsInv' /\ slots' \in SUBSET Subs
<1>1. slots' = {t \in Subs : fetcher'[t] \in Working} /\ s \notin slots
  BY DEF FetchInv, SlotsInv, TypeOK, Working
<1>2. IsFiniteSet(slots)
  BY FetchAssumption, FS_Subset DEF FetchInv, TypeOK, FetchAssumption
<1>3. Cardinality(slots') = Cardinality(slots) + 1 /\ Cardinality(slots) \in Nat
  BY <1>1, <1>2, FS_AddElement, FS_CardinalityType
<1> QED
  BY <1>1, <1>3, FetchAssumption DEF SlotsInv, FetchAssumption

-----------------------------------------------------------------------------

\* However goroutines, retries and the end of the context interleave: slots are
\* held by those at work, nothing is retried after the context's end, and what
\* is built is built from some subscription's nodes.
THEOREM FetchInvariant == Spec => []FetchInv
<1>1. Init => FetchInv
  <2> SUFFICES ASSUME Init PROVE FetchInv
    OBVIOUS
  <2>1. TypeOK /\ RequestsInv /\ ReturnInv /\ NeverFromNothing
    BY FetchAssumption
       DEF Init, TypeOK, RequestsInv, ReturnInv, NeverFromNothing, Working, FetchAssumption
  <2>2. {s \in Subs : fetcher[s] \in Working} = {}
    BY DEF Init, Working
  <2>3. Cardinality({}) <= Parallel
    BY FS_EmptySet, FetchAssumption DEF FetchAssumption
  <2> QED
    BY <2>1, <2>2, <2>3 DEF Init, FetchInv, SlotsInv
<1>2. FetchInv /\ [Next]_vars => FetchInv'
  <2> SUFFICES ASSUME FetchInv, [Next]_vars PROVE FetchInv'
    OBVIOUS
  <2>1. ASSUME NEW s \in Subs, TakeSlot(s) PROVE FetchInv'
    <3>0. fetcher[s] = "waiting" /\ Cardinality(slots) < Parallel /\ slots' = slots \cup {s}
      BY <2>1 DEF TakeSlot
    <3>1. CASE s \in FromFile
      <4>1. /\ fetcher' = [fetcher EXCEPT ![s] = "reading"]
            /\ UNCHANGED <<ctx, run, attempt, late, result>>
        BY <2>1, <3>1 DEF TakeSlot
      <4>2. SlotsInv' /\ slots' \in SUBSET Subs
        BY <3>0, <4>1, SlotTaken DEF Working
      <4>3. run = "fetching"
        BY <3>0, StillFetching DEF FetchInv
      <4>4. TypeOK' /\ RequestsInv'
        BY <3>0, <4>1, <4>2 DEF FetchInv, TypeOK, RequestsInv, Working, Over
      <4>5. ReturnInv' /\ NeverFromNothing'
        BY <4>1, <4>3 DEF ReturnInv, NeverFromNothing
      <4> QED
        BY <4>2, <4>4, <4>5 DEF FetchInv
    <3>2. CASE s \notin FromFile
      <4>1. Ask(s)
        BY <2>1, <3>2 DEF TakeSlot
      <4>2. SlotsInv' /\ slots' \in SUBSET Subs
        BY <3>0, <4>1, SlotTaken DEF Ask, Working
      <4> QED
        BY <3>0, <4>1, <4>2, AskPreserves DEF FetchInv
    <3> QED
      BY <3>1, <3>2
  <2>2. ASSUME NEW s \in Subs, GiveUp(s) \/ Interrupted(s) \/ PauseCut(s) PROVE FetchInv'
    <3>1. fetcher[s] \in {"waiting"} \cup Working /\ Return(s, "ended")
      BY <2>2 DEF GiveUp, Interrupted, PauseCut, Working
    <3> QED
      BY <3>1, ReturnPreserves
  <2>3. ASSUME NEW s \in Subs, ReadFile(s) \/ Answered(s) \/ Refused(s) PROVE FetchInv'
    <3>1. fetcher[s] \in {"waiting"} \cup Working /\ \E r \in {"nodes", "failed"} : Return(s, r)
      BY <2>3 DEF ReadFile, Answered, Refused, Working
    <3>2. PICK r \in {"nodes", "failed", "ended"} : Return(s, r)
      BY <3>1
    <3> QED
      BY <3>1, <3>2, ReturnPreserves
  <2>4. ASSUME NEW s \in Subs, Failed(s) PROVE FetchInv'
    <3>0. fetcher[s] = "asking" /\ late[s] = 0
      BY <2>4 DEF Failed
    <3>1. CASE attempt[s] < Attempts
      <4>1. /\ fetcher' = [fetcher EXCEPT ![s] = "pausing"]
            /\ UNCHANGED <<ctx, run, slots, attempt, late, result>>
        BY <2>4, <3>1 DEF Failed
      <4>2. SlotsInv'
        BY <3>0, <4>1, SlotKept DEF Working
      <4>3. run = "fetching"
        BY <3>0, StillFetching DEF FetchInv, Working
      <4>4. TypeOK' /\ RequestsInv'
        BY <3>0, <3>1, <4>1 DEF FetchInv, TypeOK, RequestsInv, Working, Over
      <4>5. ReturnInv' /\ NeverFromNothing'
        BY <4>1, <4>3 DEF ReturnInv, NeverFromNothing
      <4> QED
        BY <4>2, <4>4, <4>5 DEF FetchInv
    <3>2. CASE ~(attempt[s] < Attempts)
      <4>1. Return(s, "failed")
        BY <2>4, <3>2 DEF Failed
      <4> QED
        BY <3>0, <4>1, ReturnPreserves DEF Working
    <3> QED
      BY <3>1, <3>2
  <2>5. ASSUME NEW s \in Subs, PauseOver(s) PROVE FetchInv'
    <3>1. fetcher[s] = "pausing" /\ Ask(s) /\ slots' = slots
      BY <2>5 DEF PauseOver
    <3>2. SlotsInv'
      BY <3>1, SlotKept DEF Ask, Working
    <3>3. slots' \in SUBSET Subs
      BY <3>1 DEF FetchInv, TypeOK
    <3> QED
      BY <3>1, <3>2, <3>3, AskPreserves DEF FetchInv
  <2>6. CASE Collect
    <3>1. TypeOK' /\ SlotsInv' /\ RequestsInv'
      BY <2>6 DEF Collect, FetchInv, TypeOK, SlotsInv, RequestsInv, Over
    <3>2. AllDone' /\ (Enabled = {})' = (Enabled = {}) /\ Delivered' = Delivered
      BY <2>6 DEF Collect, AllDone, Enabled, Delivered
    <3>3. ReturnInv' /\ NeverFromNothing'
      BY <2>6, <3>2 DEF Collect, ReturnInv, NeverFromNothing
    <3> QED
      BY <3>1, <3>3 DEF FetchInv
  <2>7. CASE Build \/ Write
    <3>1. TypeOK' /\ SlotsInv' /\ RequestsInv'
      BY <2>7 DEF Build, Write, FetchInv, TypeOK, SlotsInv, RequestsInv, Over
    <3>2. Enabled' = Enabled /\ Delivered' = Delivered /\ AllDone' = AllDone
      BY <2>7 DEF Build, Write, Enabled, Delivered, AllDone
    <3>3. ReturnInv' /\ NeverFromNothing'
      BY <2>7, <3>2 DEF Build, Write, FetchInv, ReturnInv, NeverFromNothing
    <3> QED
      BY <3>1, <3>3 DEF FetchInv
  <2>8. ASSUME NEW why \in {"timeout", "cancelled"}, End(why) PROVE FetchInv'
    BY <2>8 DEF End, FetchInv, TypeOK, SlotsInv, RequestsInv, ReturnInv, NeverFromNothing,
                Over, AllDone, Enabled, Delivered
  <2>9. CASE UNCHANGED vars
    BY <2>9 DEF vars, FetchInv, TypeOK, SlotsInv, RequestsInv, ReturnInv, NeverFromNothing,
                Over, AllDone, Enabled, Delivered
  <2> QED
    BY <2>1, <2>2, <2>3, <2>4, <2>5, <2>6, <2>7, <2>8, <2>9 DEF Next, Fetch, Ended
<1> QED
  BY <1>1, <1>2, PTL DEF Spec

\* No way out of fetchOne keeps a slot, and no more than Parallel are at work.
THEOREM SlotsAlwaysReturned == Spec => []SlotsAreReturned
<1>1. FetchInv => SlotsAreReturned
  BY DEF FetchInv, SlotsInv, ReturnInv, SlotsAreReturned, AllDone, Enabled, Working
<1> QED
  BY <1>1, FetchInvariant, PTL

\* A run that builds has some subscription's nodes, unless none is enabled.
THEOREM AlwaysFromSomething == Spec => []NeverFromNothing
<1>1. FetchInv => NeverFromNothing
  BY DEF FetchInv
<1> QED
  BY <1>1, FetchInvariant, PTL

\* A context that is over costs a subscription one more request at most.
THEOREM AtMostOneLateRequest == Spec => []OneLateRequest
<1>1. FetchInv => OneLateRequest
  BY DEF FetchInv, RequestsInv, OneLateRequest
<1> QED
  BY <1>1, FetchInvariant, PTL

=============================================================================
