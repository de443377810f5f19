---------------------------------- MODULE Lists ----------------------------------
(***************************************************************************)
(* What loops over lists make of them: one that copies some elements and   *)
(* leaves out the rest, said by the positions it copies, and one that      *)
(* appends list to list.                                                   *)
(***************************************************************************)
EXTENDS Naturals, Sequences

\* Op(v), where TLC is to work v out once and not at each of its uses.
Once(Op(_), v) == CHOOSE r \in {Op(x) : x \in {v}} : TRUE

\* What of the first n elements stands at one of the positions.
Selected(list, positions) ==
    LET selected[n \in 0..Len(list)] ==
          IF n = 0 THEN <<>>
          ELSE IF n \in positions THEN Append(selected[n - 1], list[n])
          ELSE selected[n - 1]
    IN  selected

Select(list, positions) ==
    Once(LAMBDA v : Selected(v[1], v[2])[Len(v[1])], <<list, positions>>)

\* The first n of some lists, one behind the other.
Joined(lists) ==
    LET joined[n \in 0..Len(lists)] ==
          IF n = 0 THEN <<>> ELSE joined[n - 1] \o lists[n]
    IN  joined

Concat(lists) == Once(LAMBDA v : Joined(v)[Len(v)], lists)

=============================================================================
