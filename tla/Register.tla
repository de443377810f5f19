-------------------------------- MODULE Register --------------------------------
(***************************************************************************)
(* What callers of Source.Resolve rely on: a value others change at any    *)
(* time, and readers each of whom is given a value it had while they were  *)
(* asking, or nothing.                                                     *)
(***************************************************************************)
CONSTANTS Values, Readers, Nothing

VARIABLES
    value,      \* what is read
    reading,    \* where each reader is: "idle", "open", "has"
    held,       \* the value a reader has and has not been given yet
    answer      \* the last answer each reader was given

rvars == <<value, reading, held, answer>>

Init ==
    /\ value \in Values
    /\ reading = [r \in Readers |-> "idle"]
    /\ held = [r \in Readers |-> Nothing]
    /\ answer = [r \in Readers |-> Nothing]

Write ==
    /\ value' \in Values
    /\ UNCHANGED <<reading, held, answer>>

Open(r) ==
    /\ reading[r] = "idle"
    /\ reading' = [reading EXCEPT ![r] = "open"]
    /\ answer' = [answer EXCEPT ![r] = Nothing]
    /\ UNCHANGED <<value, held>>

Take(r) ==
    /\ reading[r] = "open"
    /\ reading' = [reading EXCEPT ![r] = "has"]
    /\ held' = [held EXCEPT ![r] = value]
    /\ UNCHANGED <<value, answer>>

Give(r) ==
    /\ reading[r] = "has"
    /\ reading' = [reading EXCEPT ![r] = "idle"]
    /\ answer' = [answer EXCEPT ![r] = held[r]]
    /\ held' = [held EXCEPT ![r] = Nothing]
    /\ UNCHANGED value

Fail(r) ==
    /\ reading[r] = "open"
    /\ reading' = [reading EXCEPT ![r] = "idle"]
    /\ UNCHANGED <<value, held, answer>>

Next == Write \/ \E r \in Readers : Open(r) \/ Take(r) \/ Give(r) \/ Fail(r)

Spec == Init /\ [][Next]_rvars

=============================================================================
