---------------------------- MODULE ImmutableStore ----------------------------
(***************************************************************************)
(* What the snapshot store promises its users: a snapshot appears whole,   *)
(* and neither changes nor goes away under a process that has opened it.   *)
(* A removal may stop half way, and what it leaves can be opened; it is    *)
(* never added to, and nothing but a removal makes a snapshot less.        *)
(***************************************************************************)
CONSTANTS Refs, Procs, Whole, Torn, Absent, Nothing

VARIABLES
    content,   \* what is stored under each ref: Absent, Whole or Torn
    opened     \* the ref each process works from, or Nothing

vars == <<content, opened>>

Init ==
    /\ content = [r \in Refs |-> Absent]
    /\ opened = [p \in Procs |-> Nothing]

Add(r) ==
    /\ content[r] = Absent
    /\ content' = [content EXCEPT ![r] = Whole]
    /\ UNCHANGED opened

Open(p, r) ==
    /\ opened[p] = Nothing
    /\ content[r] # Absent
    /\ opened' = [opened EXCEPT ![p] = r]
    /\ UNCHANGED content

Close(p) ==
    /\ opened[p] # Nothing
    /\ opened' = [opened EXCEPT ![p] = Nothing]
    /\ UNCHANGED content

Unused(r) == \A p \in Procs : opened[p] # r

\* A removal takes the first file, and the last.
Tear(r) ==
    /\ content[r] = Whole /\ Unused(r)
    /\ content' = [content EXCEPT ![r] = Torn]
    /\ UNCHANGED opened

Clear(r) ==
    /\ content[r] = Torn /\ Unused(r)
    /\ content' = [content EXCEPT ![r] = Absent]
    /\ UNCHANGED opened

Next ==
    \/ \E r \in Refs : Add(r) \/ Tear(r) \/ Clear(r)
    \/ \E p \in Procs : Close(p) \/ \E r \in Refs : Open(p, r)

Spec == Init /\ [][Next]_vars
=============================================================================
