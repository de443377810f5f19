-------------------------------- MODULE Library_proofs --------------------------------
(***************************************************************************)
(* Lemmas that the proofs of more than one module rest on: induction over  *)
(* the natural numbers, what path.Clean does to a path part by part, and    *)
(* what a loop copies of a list.                                           *)
(***************************************************************************)
EXTENDS Paths, Lists, WellFoundedInduction, SequenceTheorems, FiniteSetTheorems, TLAPS

\* A set of numbers that is not empty has a least one.
LEMMA LeastElement ==
    ASSUME NEW T, T \subseteq Nat, T # {}
    PROVE  \E x \in T : \A y \in T : x <= y
<1>1. PICK x \in T : \A y \in T : ~(<<y, x>> \in OpToRel(<, Nat))
  BY NatLessThanWellFounded, WFMin
<1>2. \A y \in T : ~(y < x)
  BY <1>1 DEF OpToRel
<1> QED
  BY <1>2

\* Induction over the numbers, for a set: what holds for 0 and goes from each number
\* to the next holds for all.  The set is that of the numbers a claim is true of.
LEMMA NaturalInduction ==
    ASSUME NEW T, 0 \in T, \A n \in Nat : n \in T => n + 1 \in T
    PROVE  \A n \in Nat : n \in T
<1> SUFFICES ASSUME Nat \ T # {} PROVE FALSE
  OBVIOUS
<1>1. PICK n \in Nat \ T : \A m \in Nat \ T : n <= m
  BY LeastElement
<1>2. n # 0 /\ n - 1 \in Nat
  BY <1>1
<1>3. n - 1 \in T
  BY <1>1, <1>2
<1> QED
  BY <1>1, <1>2, <1>3

\* One component put before a path, as filepath.Join does.
LEMMA Prefixed ==
    ASSUME NEW S, NEW a \in S, NEW c \in Seq(S), NEW d, d = <<a>> \o c
    PROVE  d \in Seq(S) /\ d # <<>> /\ Head(d) = a /\ Len(d) = Len(c) + 1
<1>1. <<a>> \in Seq(S) /\ Len(<<a>>) = 1 /\ <<a>>[1] = a
  OBVIOUS
<1>2. d \in Seq(S) /\ Len(d) = Len(c) + 1 /\ d[1] = a /\ Len(d) \in Nat \ {0}
  BY <1>1
<1>3. d # <<>>
  BY <1>2, EmptySeq
<1>4. Head(d) = d[1]
  BY <1>2, <1>3
<1> QED
  BY <1>2, <1>3, <1>4

\* What path.Clean keeps is defined for every path: the recursion over its parts has
\* a solution.
LEMMA KeptIsRecursive ==
    ASSUME NEW S, NEW p \in Seq(S), NEW r
    PROVE  Kept(r, p) = [k \in 0..Len(p) |->
                           IF k = 0 THEN <<>> ELSE CleanStep(r, Kept(r, p)[k - 1], p[k])]
<1> DEFINE Rec(f, n) == f = [k \in 0..n |-> IF k = 0 THEN <<>> ELSE CleanStep(r, f[k - 1], p[k])]
           T == {n \in Nat : \E f : Rec(f, n)}
<1>1. 0 \in T
  <2>1. Rec([k \in 0..0 |-> <<>>], 0)
    OBVIOUS
  <2> QED
    BY <2>1
<1>2. ASSUME NEW n \in Nat, n \in T PROVE n + 1 \in T
  <2>1. PICK f : Rec(f, n)
    BY <1>2
  <2> DEFINE g == [k \in 0..(n + 1) |-> IF k = n + 1 THEN CleanStep(r, f[n], p[n + 1]) ELSE f[k]]
  <2>2. \A k \in 0..n : f[k] = IF k = 0 THEN <<>> ELSE CleanStep(r, f[k - 1], p[k])
    BY <2>1
  <2>3. ASSUME NEW k \in 0..(n + 1) PROVE g[k] = IF k = 0 THEN <<>> ELSE CleanStep(r, g[k - 1], p[k])
    <3>1. CASE k = n + 1
      <4>1. k - 1 = n /\ k # 0 /\ g[n] = f[n]
        BY <3>1
      <4> QED
        BY <3>1, <4>1
    <3>2. CASE k # n + 1 /\ k # 0
      <4>1. k \in 0..n /\ k - 1 \in 0..n
        BY <3>2
      <4>2. g[k] = f[k] /\ g[k - 1] = f[k - 1]
        BY <4>1
      <4> QED
        BY <2>2, <3>2, <4>1, <4>2
    <3>3. CASE k = 0
      BY <2>2, <3>3
    <3> QED
      BY <3>1, <3>2, <3>3
  <2>4. Rec(g, n + 1)
    BY <2>3
  <2> HIDE DEF g, Rec
  <2>5. \E h : Rec(h, n + 1)
    BY <2>4
  <2> QED
    BY <2>5
<1> HIDE DEF T
<1>3. Len(p) \in T
  BY <1>1, <1>2, NaturalInduction
<1>4. \E f : Rec(f, Len(p))
  BY <1>3 DEF T
<1>5. Rec(Kept(r, p), Len(p))
  BY <1>4 DEF Kept
<1> QED
  BY <1>5

\* path.Clean reads a path part by part: what is kept of none, and of one part more.
LEMMA KeptDef ==
    ASSUME NEW S, NEW p \in Seq(S), NEW r
    PROVE  /\ DOMAIN Kept(r, p) = 0..Len(p)
           /\ Kept(r, p)[0] = <<>>
           /\ \A n \in 1..Len(p) : Kept(r, p)[n] = CleanStep(r, Kept(r, p)[n - 1], p[n])
<1> DEFINE K == Kept(r, p)
<1>1. K = [k \in 0..Len(p) |-> IF k = 0 THEN <<>> ELSE CleanStep(r, K[k - 1], p[k])]
  BY KeptIsRecursive
<1> HIDE DEF K
<1>2. /\ DOMAIN K = 0..Len(p) /\ K[0] = <<>>
      /\ \A n \in 1..Len(p) : K[n] = CleanStep(r, K[n - 1], p[n])
  BY <1>1
<1> QED
  BY <1>2 DEF K

\* A path without its last part, as ".." leaves it in path.Clean.
LEMMA FrontFacts ==
    ASSUME NEW S, NEW k \in Seq(S), k # <<>>
    PROVE  /\ Front(k) \in Seq(S)
           /\ Len(Front(k)) = Len(k) - 1
           /\ \A i \in 1..(Len(k) - 1) : Front(k)[i] = k[i]
           /\ Len(k) \in Nat \ {0}
<1>1. Len(k) \in Nat \ {0}
  BY EmptySeq
<1> DEFINE n == Len(k) - 1
<1>2. n \in Nat
  BY <1>1
<1>3. \A i \in 1..n : k[i] \in S
  BY <1>1
<1> HIDE DEF n
<1>4. /\ SubSeq(k, 1, n) \in Seq(S)
      /\ Len(SubSeq(k, 1, n)) = n
      /\ \A i \in 1..n - 1 + 1 : SubSeq(k, 1, n)[i] = k[1 + i - 1]
  BY <1>2, <1>3, SubSeqProperties
<1>5. \A i \in 1..n : 1 + i - 1 = i
  OBVIOUS
<1> QED
  BY <1>1, <1>2, <1>4, <1>5 DEF Front, n

\* path.Clean makes no part up: what it keeps is again a path of the same parts.
LEMMA KeptType ==
    ASSUME NEW S, NEW p \in Seq(S), NEW r
    PROVE  \A n \in 0..Len(p) : Kept(r, p)[n] \in Seq(S)
<1> DEFINE T == {n \in Nat : n <= Len(p) => Kept(r, p)[n] \in Seq(S)}
<1>1. 0 \in T
  BY KeptDef
<1>2. ASSUME NEW n \in Nat, n \in T PROVE n + 1 \in T
  <2> SUFFICES ASSUME n + 1 <= Len(p) PROVE Kept(r, p)[n + 1] \in Seq(S)
    OBVIOUS
  <2>1. Kept(r, p)[n] \in Seq(S) /\ p[n + 1] \in S
    BY <1>2
  <2>2. Kept(r, p)[n + 1] = CleanStep(r, Kept(r, p)[n], p[n + 1])
    BY KeptDef
  <2> DEFINE k == Kept(r, p)[n]
             part == p[n + 1]
  <2> HIDE DEF k, part
  <2>3. k \in Seq(S) /\ part \in S
    BY <2>1 DEF k, part
  <2>4. CleanStep(r, k, part) \in {k, Append(k, part)} \/ (CleanStep(r, k, part) = Front(k) /\ k # <<>>)
    BY DEF CleanStep
  <2>5. CleanStep(r, k, part) \in Seq(S)
    <3>1. Append(k, part) \in Seq(S)
      BY <2>3
    <3>2. k # <<>> => Front(k) \in Seq(S)
      BY <2>3, FrontFacts
    <3> QED
      BY <2>3, <2>4, <3>1, <3>2
  <2> QED
    BY <2>2, <2>5 DEF k, part
<1> HIDE DEF T
<1>3. \A n \in Nat : n \in T
  BY <1>1, <1>2, NaturalInduction
<1> QED
  BY <1>3 DEF T

\* A path that goes up.
Up(k) == Len(k) >= 1 /\ k[1] = ".."

\* A part more of a relative path leaves ".." only behind a ".." at the front, and
\* one at the front stays there (the dotdot index of path.Clean).
LEMMA StepUp ==
    ASSUME NEW S, NEW k \in Seq(S), NEW part \in S, NEW k2, k2 = CleanStep("here", k, part),
           \A i \in 1..Len(k) : k[i] = ".." => Up(k)
    PROVE  /\ \A i \in 1..Len(k2) : k2[i] = ".." => Up(k2)
           /\ Up(k) => Up(k2)
<1>1. CASE k2 = k
  BY <1>1
<1>2. CASE k2 = Append(k, part) /\ (part = ".." => (k = <<>> \/ Last(k) = ".."))
  <2>1. Len(k2) = Len(k) + 1 /\ k2[Len(k) + 1] = part /\ Len(k) \in Nat
    BY <1>2
  <2>2. \A i \in 1..Len(k) : k2[i] = k[i]
    BY <1>2
  <2>3. Up(k) => Up(k2)
    BY <2>1, <2>2 DEF Up
  <2>4. part = ".." => Up(k2)
    <3>1. CASE k = <<>>
      BY <2>1, <3>1, EmptySeq DEF Up
    <3>2. CASE k # <<>>
      BY <1>2, <2>3, <3>2, FrontFacts DEF Last
    <3> QED
      BY <3>1, <3>2
  <2> QED
    BY <2>1, <2>2, <2>3, <2>4
<1>3. CASE k2 = Front(k) /\ k # <<>> /\ Last(k) # ".."
  <2>1. /\ Len(k2) = Len(k) - 1 /\ Len(k) \in Nat \ {0}
        /\ \A i \in 1..(Len(k) - 1) : k2[i] = k[i]
    BY <1>3, FrontFacts
  <2>2. k[Len(k)] # ".."
    BY <1>3 DEF Last
  <2>3. Up(k) => Up(k2)
    BY <2>1, <2>2 DEF Up
  <2> QED
    BY <2>1, <2>3
<1>4. \/ k2 = k
      \/ k2 = Append(k, part) /\ (part = ".." => (k = <<>> \/ Last(k) = ".."))
      \/ k2 = Front(k) /\ k # <<>> /\ Last(k) # ".."
  BY DEF CleanStep
<1> QED
  BY <1>1, <1>2, <1>3, <1>4

\* A relative path path.Clean does not leave a ".." in front of was never above its
\* start in what was kept on the way.
LEMMA UpStays ==
    ASSUME NEW S, NEW p \in Seq(S), ~Escapes(p)
    PROVE  \A n \in 0..Len(p) : \A i \in 1..Len(Kept("here", p)[n]) : Kept("here", p)[n][i] # ".."
<1> DEFINE k(n) == Kept("here", p)[n]
           Front1(n) == \A i \in 1..Len(k(n)) : k(n)[i] = ".." => Up(k(n))
           T == {n \in Nat : n <= Len(p) => Front1(n)}
<1>a. Len(p) \in Nat
  OBVIOUS
<1>b. ASSUME NEW n \in Nat, n + 1 <= Len(p)
      PROVE  /\ k(n) \in Seq(S) /\ p[n + 1] \in S
             /\ k(n + 1) = CleanStep("here", k(n), p[n + 1])
  <2>1. n \in 0..Len(p) /\ n + 1 \in 1..Len(p) /\ n + 1 - 1 = n
    BY <1>a, <1>b
  <2> QED
    BY <2>1, KeptType, KeptDef
<1>1. 0 \in T
  BY KeptDef
<1> HIDE DEF k
<1>2. ASSUME NEW n \in Nat, n \in T PROVE n + 1 \in T
  <2> SUFFICES ASSUME n + 1 <= Len(p) PROVE Front1(n + 1)
    OBVIOUS
  <2>1. Front1(n)
    BY <1>2, <1>a
  <2>2. /\ k(n) \in Seq(S) /\ p[n + 1] \in S
        /\ k(n + 1) = CleanStep("here", k(n), p[n + 1])
    BY <1>b
  <2>3. \A i \in 1..Len(k(n + 1)) : k(n + 1)[i] = ".." => Up(k(n + 1))
    BY <2>1, <2>2, StepUp
  <2> QED
    BY <2>3
<1> HIDE DEF T
<1>3. ASSUME NEW n \in 0..Len(p) PROVE Front1(n)
  <2>1. n \in T
    BY <1>1, <1>2, NaturalInduction, <1>a
  <2> QED
    BY <2>1, <1>a DEF T
<1> DEFINE U == {d \in Nat : \A n \in 0..Len(p) : Up(k(n)) /\ n + d <= Len(p) => Up(k(n + d))}
<1>4. 0 \in U
  BY <1>a
<1>5. ASSUME NEW d \in Nat, d \in U PROVE d + 1 \in U
  <2> SUFFICES ASSUME NEW n \in 0..Len(p), Up(k(n)), n + (d + 1) <= Len(p) PROVE Up(k(n + (d + 1)))
    OBVIOUS
  <2>1. n + d \in Nat /\ n + d + 1 <= Len(p) /\ n + (d + 1) = n + d + 1 /\ n + d \in 0..Len(p)
    BY <1>a
  <2>2. Up(k(n + d))
    BY <1>5, <2>1, <1>a
  <2>3. Front1(n + d)
    BY <1>3, <2>1
  <2> HIDE DEF Front1
  <2> QED
    BY <2>1, <2>2, <2>3, <1>b, StepUp DEF Front1
<1> HIDE DEF U
<1>6. ASSUME NEW n \in 0..Len(p) PROVE ~Up(k(n))
  <2>1. Len(p) - n \in U /\ n + (Len(p) - n) = Len(p) /\ Len(p) - n \in Nat
    BY <1>4, <1>5, NaturalInduction, <1>a
  <2>2. Up(k(n)) => Up(k(Len(p)))
    BY <2>1 DEF U
  <2>3. ~Up(k(Len(p)))
    BY EmptySeq, KeptType, <1>a DEF Escapes, Clean, k, Up
  <2> QED
    BY <2>2, <2>3
<1> QED
  BY <1>3, <1>6 DEF k

\* Counting the parts of a kind among the first n + 1 by the one that is new.
LEMMA CountNext ==
    ASSUME NEW P, NEW n \in Nat
    PROVE  Cardinality((1..(n + 1)) \cap P) =
             Cardinality((1..n) \cap P) + (IF n + 1 \in P THEN 1 ELSE 0)
<1> DEFINE A == (1..n) \cap P
<1>1. IsFiniteSet(A)
  <2>1. IsFiniteSet(1..n)
    BY FS_Interval
  <2> QED
    BY <2>1, FS_Subset
<1>2. CASE n + 1 \in P
  <2>1. (1..(n + 1)) \cap P = A \cup {n + 1} /\ n + 1 \notin A
    BY <1>2
  <2>2. Cardinality(A \cup {n + 1}) = Cardinality(A) + 1
    BY <1>1, <2>1, FS_AddElement
  <2> QED
    BY <1>2, <2>1, <2>2
<1>3. CASE n + 1 \notin P
  <2>1. (1..(n + 1)) \cap P = A
    BY <1>3
  <2>2. Cardinality(A) \in Nat
    BY <1>1, FS_CardinalityType
  <2> QED
    BY <1>3, <2>1, <2>2
<1> QED
  BY <1>2, <1>3

\* How deep a path is, part by part: a name goes one down, ".." one up, and "" and
\* "." nowhere.
LEMMA DepthDef ==
    ASSUME NEW S, NEW p \in Seq(S)
    PROVE  /\ Depth(p, 0) = 0
           /\ \A n \in 0..(Len(p) - 1) :
                /\ Depth(p, n) \in Int
                /\ p[n + 1] \in {"", "."} => Depth(p, n + 1) = Depth(p, n)
                /\ p[n + 1] = ".." => Depth(p, n + 1) = Depth(p, n) - 1
                /\ p[n + 1] \notin {"", ".", ".."} => Depth(p, n + 1) = Depth(p, n) + 1
<1> DEFINE Down == {i \in Nat : p[i] \notin {"", ".", ".."}}
           Ups == {i \in Nat : p[i] = ".."}
           a(n) == Cardinality((1..n) \cap Down)
           b(n) == Cardinality((1..n) \cap Ups)
<1>1. ASSUME NEW n \in Nat PROVE Depth(p, n) = a(n) - b(n)
  <2>1. {i \in 1..n : p[i] \notin {"", ".", ".."}} = (1..n) \cap Down
    <3>1. \A i \in 1..n : i \in Nat
      OBVIOUS
    <3> QED
      BY <3>1, Zenon
  <2>2. {i \in 1..n : p[i] = ".."} = (1..n) \cap Ups
    OBVIOUS
  <2> QED
    BY <2>1, <2>2 DEF Depth
<1>2. a(0) = 0 /\ b(0) = 0
  <2>1. (1..0) \cap Down = {} /\ (1..0) \cap Ups = {}
    OBVIOUS
  <2> QED
    BY <2>1, FS_EmptySet
<1>3. ASSUME NEW n \in Nat PROVE a(n) \in Nat /\ b(n) \in Nat
  <2>1. IsFiniteSet(1..n)
    BY FS_Interval
  <2>2. IsFiniteSet((1..n) \cap Down) /\ IsFiniteSet((1..n) \cap Ups)
    BY <2>1, FS_Subset
  <2> QED
    BY <2>2, FS_CardinalityType
<1>4. ASSUME NEW n \in 0..(Len(p) - 1)
      PROVE  /\ a(n + 1) = a(n) + (IF p[n + 1] \notin {"", ".", ".."} THEN 1 ELSE 0)
             /\ b(n + 1) = b(n) + (IF p[n + 1] = ".." THEN 1 ELSE 0)
  <2>1. n \in Nat /\ n + 1 \in Nat
    OBVIOUS
  <2>2. n + 1 \in Down <=> p[n + 1] \notin {"", ".", ".."}
    BY <2>1
  <2>3. n + 1 \in Ups <=> p[n + 1] = ".."
    BY <2>1
  <2> HIDE DEF Down, Ups
  <2> QED
    BY <2>1, <2>2, <2>3, CountNext
<1> HIDE DEF a, b
<1>5. Depth(p, 0) = 0
  BY <1>1, <1>2
<1>6. ASSUME NEW n \in 0..(Len(p) - 1)
      PROVE  /\ Depth(p, n) \in Int
             /\ p[n + 1] \in {"", "."} => Depth(p, n + 1) = Depth(p, n)
             /\ p[n + 1] = ".." => Depth(p, n + 1) = Depth(p, n) - 1
             /\ p[n + 1] \notin {"", ".", ".."} => Depth(p, n + 1) = Depth(p, n) + 1
  <2>1. n \in Nat /\ n + 1 \in Nat
    OBVIOUS
  <2> DEFINE part == p[n + 1]
  <2>2. /\ a(n + 1) = a(n) + (IF part \notin {"", ".", ".."} THEN 1 ELSE 0)
        /\ b(n + 1) = b(n) + (IF part = ".." THEN 1 ELSE 0)
    BY <1>4
  <2>3. Depth(p, n) = a(n) - b(n) /\ Depth(p, n + 1) = a(n + 1) - b(n + 1)
    BY <1>1, <2>1
  <2>4. a(n) \in Nat /\ b(n) \in Nat
    BY <1>3, <2>1
  <2> HIDE DEF part
  <2>5. /\ Depth(p, n) \in Int
        /\ part \in {"", "."} => Depth(p, n + 1) = Depth(p, n)
        /\ part = ".." => Depth(p, n + 1) = Depth(p, n) - 1
        /\ part \notin {"", ".", ".."} => Depth(p, n + 1) = Depth(p, n) + 1
    <3> DEFINE x == a(n)
               y == b(n)
    <3>1. x \in Nat /\ y \in Nat /\ Depth(p, n) = x - y
      BY <2>3, <2>4
    <3>2. Depth(p, n + 1) = (x + (IF part \notin {"", ".", ".."} THEN 1 ELSE 0))
                              - (y + (IF part = ".." THEN 1 ELSE 0))
      BY <2>2, <2>3
    <3> HIDE DEF x, y
    <3>3. CASE part \in {"", "."}
      <4>1. Depth(p, n + 1) = (x + 0) - (y + 0)
        BY <3>2, <3>3
      <4>2. Depth(p, n) \in Int /\ Depth(p, n + 1) = Depth(p, n)
        BY <3>1, <4>1
      <4> QED
        BY <3>3, <4>2
    <3>4. CASE part = ".."
      <4>1. Depth(p, n + 1) = (x + 0) - (y + 1)
        BY <3>2, <3>4
      <4>2. Depth(p, n) \in Int /\ Depth(p, n + 1) = Depth(p, n) - 1
        BY <3>1, <4>1
      <4> QED
        BY <3>4, <4>2
    <3>5. CASE part \notin {"", ".", ".."}
      <4>1. Depth(p, n + 1) = (x + 1) - (y + 0)
        BY <3>2, <3>5
      <4>2. Depth(p, n) \in Int /\ Depth(p, n + 1) = Depth(p, n) + 1
        BY <3>1, <4>1
      <4> QED
        BY <3>5, <4>2
    <3> QED
      BY <3>3, <3>4, <3>5
  <2> QED
    BY <2>5 DEF part
<1> QED
  BY <1>5, <1>6

\* What ContainsDotDot, checkRepoRelPath and safeRelPath ask of a relative path, that
\* its cleaned form does not begin with "..", is enough: walked part by part it is
\* never above its start, and no ".." is left in its cleaned form anywhere.
THEOREM RelativeStaysBelow ==
    ASSUME NEW S, NEW p \in Seq(S), ~Escapes(p)
    PROVE  /\ NeverAbove(p)
           /\ Clean(p) \in Seq(S)
           /\ \A i \in 1..Len(Clean(p)) : Clean(p)[i] # ".."
<1> DEFINE k(n) == Kept("here", p)[n]
           T == {n \in Nat : n <= Len(p) => Depth(p, n) = Len(k(n))}
<1>a. Len(p) \in Nat
  OBVIOUS
<1>b. \A n \in 0..Len(p) : k(n) \in Seq(S) /\ \A i \in 1..Len(k(n)) : k(n)[i] # ".."
  BY KeptType, UpStays
<1>c. ASSUME NEW n \in Nat, n + 1 <= Len(p)
      PROVE  /\ n \in 0..Len(p) /\ n \in 0..(Len(p) - 1)
             /\ k(n + 1) \in Seq(S) /\ p[n + 1] \in S
             /\ k(n + 1) = CleanStep("here", k(n), p[n + 1])
             /\ \A i \in 1..Len(k(n + 1)) : k(n + 1)[i] # ".."
  <2>1. n \in 0..Len(p) /\ n \in 0..(Len(p) - 1) /\ n + 1 \in 1..Len(p) /\ n + 1 - 1 = n /\ n + 1 \in 0..Len(p)
    BY <1>a, <1>c
  <2> QED
    BY <2>1, <1>b, KeptDef
<1>1. 0 \in T
  BY KeptDef, DepthDef, EmptySeq
<1> HIDE DEF k
<1>2. ASSUME NEW n \in Nat, n \in T PROVE n + 1 \in T
  <2> SUFFICES ASSUME n + 1 <= Len(p) PROVE Depth(p, n + 1) = Len(k(n + 1))
    OBVIOUS
  <2> DEFINE part == p[n + 1]
             j == k(n)
             j2 == k(n + 1)
  <2>1. Depth(p, n) = Len(j)
    BY <1>2, <1>a
  <2>2. /\ j \in Seq(S) /\ j2 \in Seq(S) /\ part \in S
        /\ j2 = CleanStep("here", j, part)
        /\ \A i \in 1..Len(j) : j[i] # ".."
        /\ \A i \in 1..Len(j2) : j2[i] # ".."
    BY <1>b, <1>c
  <2>3. /\ part \in {"", "."} => Depth(p, n + 1) = Depth(p, n)
        /\ part = ".." => Depth(p, n + 1) = Depth(p, n) - 1
        /\ part \notin {"", ".", ".."} => Depth(p, n + 1) = Depth(p, n) + 1
    BY <1>c, DepthDef
  <2> HIDE DEF part, j, j2
  <2>4. CASE part \in {"", "."}
    BY <2>1, <2>2, <2>3, <2>4 DEF CleanStep, j2
  <2>5. CASE part \notin {"", ".", ".."}
    <3>1. j2 = Append(j, part)
      BY <2>2, <2>5 DEF CleanStep
    <3>2. Len(j2) = Len(j) + 1
      BY <2>2, <3>1
    <3> QED
      BY <2>1, <2>3, <2>5, <3>2 DEF j2
  <2>6. CASE part = ".."
    <3>1. ASSUME ~(j # <<>> /\ Last(j) # "..") PROVE FALSE
      <4>1. j2 = Append(j, "..")
        BY <2>2, <2>6, <3>1 DEF CleanStep
      <4>2. Len(j2) = Len(j) + 1 /\ j2[Len(j) + 1] = ".." /\ Len(j) \in Nat
        BY <2>2, <2>6, <4>1
      <4> QED
        BY <2>2, <4>2
    <3>2. j2 = Front(j) /\ j # <<>>
      BY <2>2, <2>6, <3>1 DEF CleanStep
    <3>3. Len(j2) = Len(j) - 1
      BY <2>2, <3>2, FrontFacts
    <3> QED
      BY <2>1, <2>3, <2>6, <3>3 DEF j2
  <2> QED
    BY <2>4, <2>5, <2>6
<1> HIDE DEF T
<1>3. \A n \in 0..Len(p) : Depth(p, n) = Len(k(n)) /\ Len(k(n)) >= 0
  <2>1. \A n \in 0..Len(p) : n \in T
    BY <1>1, <1>2, <1>a, NaturalInduction
  <2> QED
    BY <2>1, <1>a, <1>b DEF T
<1>4. Len(p) \in 0..Len(p)
  BY <1>a
<1> QED
  BY <1>3, <1>4, <1>b DEF NeverAbove, Clean, k

\* The first of some positions is one of them, and before the others.
LEMMA MinFacts ==
    ASSUME NEW T, T \subseteq Nat, T # {}
    PROVE  Min(T) \in T /\ \A x \in T : Min(T) <= x
<1>1. \E x \in T : \A y \in T : x <= y
  BY LeastElement
<1> QED
  BY <1>1 DEF Min

\* The last of some positions is one of them, and behind the others.
LEMMA MaxFacts ==
    ASSUME NEW n \in Nat, NEW T, T \subseteq 0..n, T # {}
    PROVE  Max(T) \in T /\ \A x \in T : x <= Max(T)
<1> DEFINE U == {m \in Nat : \A y \in T : y <= m}
<1>1. U # {} /\ U \subseteq Nat
  <2>1. n \in U
    OBVIOUS
  <2> QED
    BY <2>1
<1>2. PICK m \in U : \A y \in U : m <= y
  BY <1>1, LeastElement
<1>3. m \in T
  <2> SUFFICES ASSUME m \notin T PROVE FALSE
    OBVIOUS
  <2>1. \A y \in T : y <= m - 1
    BY <1>2
  <2>2. m - 1 \in Nat
    <3>1. PICK y : y \in T
      OBVIOUS
    <3>2. y \in Nat /\ y <= m - 1
      BY <2>1, <3>1
    <3> QED
      BY <3>2
  <2>3. m - 1 \in U
    BY <2>1, <2>2
  <2> QED
    BY <1>2, <2>3
<1>4. \E x \in T : \A y \in T : x >= y
  BY <1>2, <1>3
<1>5. Max(T) \in T /\ \A y \in T : Max(T) >= y
  BY <1>4 DEF Max
<1> QED
  BY <1>5

-----------------------------------------------------------------------------
(* Lists. *)

\* How often TLC works the list out is nothing to what is selected of it.
LEMMA SelectDef ==
    ASSUME NEW list, NEW I
    PROVE  Select(list, I) = Selected(list, I)[Len(list)]
BY DEF Select, Once

\* A loop over a list that copies some of its elements is defined for every list.
LEMMA SelectedIsRecursive ==
    ASSUME NEW S, NEW list \in Seq(S), NEW I
    PROVE  Selected(list, I) =
             [k \in 0..Len(list) |->
                IF k = 0 THEN <<>>
                ELSE IF k \in I THEN Append(Selected(list, I)[k - 1], list[k])
                ELSE Selected(list, I)[k - 1]]
<1> DEFINE Step(f, k) == IF k \in I THEN Append(f[k - 1], list[k]) ELSE f[k - 1]
           Rec(f, n) == f = [k \in 0..n |-> IF k = 0 THEN <<>> ELSE Step(f, k)]
           T == {n \in Nat : \E f : Rec(f, n)}
<1>1. 0 \in T
  <2>1. Rec([k \in 0..0 |-> <<>>], 0)
    OBVIOUS
  <2> QED
    BY <2>1
<1>2. ASSUME NEW n \in Nat, n \in T PROVE n + 1 \in T
  <2>1. PICK f : Rec(f, n)
    BY <1>2
  <2> DEFINE g == [k \in 0..(n + 1) |-> IF k = n + 1 THEN Step(f, n + 1) ELSE f[k]]
  <2>2. \A k \in 0..n : f[k] = IF k = 0 THEN <<>> ELSE Step(f, k)
    BY <2>1
  <2>3. ASSUME NEW k \in 0..(n + 1) PROVE g[k] = IF k = 0 THEN <<>> ELSE Step(g, k)
    <3>1. CASE k = n + 1
      <4>1. k - 1 = n /\ k # 0 /\ g[n] = f[n]
        BY <3>1
      <4> QED
        BY <3>1, <4>1
    <3>2. CASE k # n + 1 /\ k # 0
      <4>1. k \in 0..n /\ k - 1 \in 0..n
        BY <3>2
      <4>2. g[k] = f[k] /\ g[k - 1] = f[k - 1]
        BY <4>1
      <4> QED
        BY <2>2, <3>2, <4>1, <4>2
    <3>3. CASE k = 0
      BY <2>2, <3>3
    <3> QED
      BY <3>1, <3>2, <3>3
  <2>4. Rec(g, n + 1)
    BY <2>3
  <2> HIDE DEF g, Rec
  <2>5. \E h : Rec(h, n + 1)
    BY <2>4
  <2> QED
    BY <2>5
<1> HIDE DEF T
<1>3. Len(list) \in T
  BY <1>1, <1>2, NaturalInduction
<1>4. \E f : Rec(f, Len(list))
  BY <1>3 DEF T
<1>5. Rec(Selected(list, I), Len(list))
  BY <1>4 DEF Selected
<1> QED
  BY <1>5

\* Such a loop, element by element.
LEMMA SelectedDef ==
    ASSUME NEW S, NEW list \in Seq(S), NEW I
    PROVE  /\ Selected(list, I)[0] = <<>>
           /\ \A n \in 1..Len(list) :
                /\ n \in I => Selected(list, I)[n] = Append(Selected(list, I)[n - 1], list[n])
                /\ n \notin I => Selected(list, I)[n] = Selected(list, I)[n - 1]
<1> DEFINE K == Selected(list, I)
<1>1. K = [k \in 0..Len(list) |->
             IF k = 0 THEN <<>> ELSE IF k \in I THEN Append(K[k - 1], list[k]) ELSE K[k - 1]]
  BY SelectedIsRecursive
<1> HIDE DEF K
<1>2. K[0] = <<>>
  BY <1>1
<1>3. ASSUME NEW n \in 1..Len(list)
      PROVE  /\ n \in I => K[n] = Append(K[n - 1], list[n])
             /\ n \notin I => K[n] = K[n - 1]
  <2>1. n \in 0..Len(list) /\ n # 0
    OBVIOUS
  <2> QED
    BY <1>1, <2>1
<1> QED
  BY <1>2, <1>3 DEF K

\* What a loop copies is a list of elements it copies.
LEMMA SelectedType ==
    ASSUME NEW S, NEW list \in Seq(S), NEW I, NEW P,
           \A i \in 1..Len(list) : i \in I => list[i] \in P
    PROVE  \A n \in 0..Len(list) : Selected(list, I)[n] \in Seq(P)
<1> DEFINE K == Selected(list, I)
           T == {n \in Nat : n <= Len(list) => K[n] \in Seq(P)}
<1>a. Len(list) \in Nat
  OBVIOUS
<1>1. 0 \in T
  <2>1. K[0] = <<>>
    BY SelectedDef
  <2>2. K[0] \in Seq(P)
    BY <2>1
  <2> HIDE DEF K
  <2> QED
    BY <2>2
<1>2. ASSUME NEW n \in Nat, n \in T PROVE n + 1 \in T
  <2> SUFFICES ASSUME n + 1 <= Len(list) PROVE K[n + 1] \in Seq(P)
    OBVIOUS
  <2>1. K[n] \in Seq(P)
    BY <1>2, <1>a
  <2>2. n + 1 \in 1..Len(list) /\ (n + 1) - 1 = n
    BY <1>a
  <2>3. /\ n + 1 \in I => K[n + 1] = Append(K[n], list[n + 1])
        /\ n + 1 \notin I => K[n + 1] = K[n]
    BY <2>2, SelectedDef
  <2> HIDE DEF K
  <2>4. n + 1 \in I => list[n + 1] \in P
    BY <2>2
  <2>5. CASE n + 1 \in I
    <3>1. \A k \in Seq(P) : \A p \in P : Append(k, p) \in Seq(P)
      OBVIOUS
    <3> QED
      BY <2>1, <2>3, <2>4, <2>5, <3>1, Zenon
  <2>6. CASE n + 1 \notin I
    BY <2>1, <2>3, <2>6, Zenon
  <2> QED
    BY <2>5, <2>6
<1> HIDE DEF T
<1>3. \A n \in Nat : n \in T
  BY <1>1, <1>2, NaturalInduction
<1> QED
  BY <1>3 DEF T

\* The same of the whole list.
LEMMA SelectType ==
    ASSUME NEW S, NEW list \in Seq(S), NEW I, NEW P,
           \A i \in 1..Len(list) : i \in I => list[i] \in P
    PROVE  Select(list, I) \in Seq(P)
<1>1. Len(list) \in 0..Len(list)
  OBVIOUS
<1> QED
  BY <1>1, SelectedType, SelectDef

\* Only the elements a loop has read matter to what it has copied of them.
LEMMA SelectedSame ==
    ASSUME NEW S, NEW list \in Seq(S), NEW more \in Seq(S), NEW I, NEW J, Len(list) <= Len(more),
           \A i \in 1..Len(list) : list[i] = more[i] /\ (i \in I <=> i \in J)
    PROVE  Selected(more, J)[Len(list)] = Select(list, I)
<1> DEFINE K == Selected(list, I)
           L == Selected(more, J)
           T == {n \in Nat : n <= Len(list) => L[n] = K[n]}
<1>a. Len(list) \in Nat /\ Len(more) \in Nat
  OBVIOUS
<1>b. /\ K[0] = <<>>
      /\ \A n \in 1..Len(list) : /\ n \in I => K[n] = Append(K[n - 1], list[n])
                                 /\ n \notin I => K[n] = K[n - 1]
  BY SelectedDef
<1>c. /\ L[0] = <<>>
      /\ \A n \in 1..Len(more) : /\ n \in J => L[n] = Append(L[n - 1], more[n])
                                 /\ n \notin J => L[n] = L[n - 1]
  <2> HIDE DEF K
  <2> QED
    BY SelectedDef
<1>1. 0 \in T
  BY <1>b, <1>c
<1>2. ASSUME NEW n \in Nat, n \in T PROVE n + 1 \in T
  <2> SUFFICES ASSUME n + 1 <= Len(list) PROVE L[n + 1] = K[n + 1]
    OBVIOUS
  <2>1. L[n] = K[n]
    BY <1>2, <1>a
  <2>2. PICK m \in Nat : m = n + 1
    OBVIOUS
  <2>3. m \in 1..Len(list) /\ m \in 1..Len(more) /\ m - 1 = n
    BY <1>a, <2>2
  <2> HIDE DEF K, L
  <2>4. /\ m \in I => K[m] = Append(K[m - 1], list[m])
        /\ m \notin I => K[m] = K[m - 1]
    BY <1>b, <2>3
  <2>5. /\ m \in J => L[m] = Append(L[m - 1], more[m])
        /\ m \notin J => L[m] = L[m - 1]
    BY <1>c, <2>3
  <2>6. list[m] = more[m] /\ (m \in I <=> m \in J)
    BY <2>3
  <2>7. L[m] = K[m]
    BY <2>1, <2>3, <2>4, <2>5, <2>6
  <2> QED
    BY <2>2, <2>7
<1> HIDE DEF T
<1>3. Len(list) \in T
  BY <1>1, <1>2, <1>a, NaturalInduction
<1> QED
  BY <1>3, <1>a, SelectDef DEF T

\* Where the first n elements' copies stand: at increasing positions, all of I's.
PicksUpTo(list, I, n, at) ==
    /\ at \in [1..Len(Selected(list, I)[n]) -> Nat]
    /\ \A k \in DOMAIN at : /\ at[k] \in 1..n /\ at[k] \in I
                            /\ Selected(list, I)[n][k] = list[at[k]]
    /\ \A j, k \in DOMAIN at : j < k => at[j] < at[k]
    /\ \A i \in 1..n : i \in I => \E k \in DOMAIN at : at[k] = i

\* Where the elements of out stand in list: at increasing positions, all of I's.
Picks(list, I, out, at) ==
    /\ at \in [1..Len(out) -> 1..Len(list)]
    /\ \A k \in 1..Len(out) : at[k] \in I /\ out[k] = list[at[k]]
    /\ \A j, k \in 1..Len(out) : j < k => at[j] < at[k]
    /\ \A i \in 1..Len(list) : i \in I => \E k \in 1..Len(out) : at[k] = i

\* What a loop copies comes from increasing positions of its list, and from all that
\* it is to copy.
LEMMA SelectPositions ==
    ASSUME NEW S, NEW list \in Seq(S), NEW I
    PROVE  \E at : Picks(list, I, Select(list, I), at)
<1> DEFINE K == Selected(list, I)
           T == {n \in Nat : n <= Len(list) => \E at : PicksUpTo(list, I, n, at)}
<1>a. Len(list) \in Nat
  OBVIOUS
<1>b. \A n \in 0..Len(list) : K[n] \in Seq(S)
  BY SelectedType
<1>1. 0 \in T
  <2>1. K[0] = <<>>
    BY SelectedDef
  <2>2. PicksUpTo(list, I, 0, [k \in 1..0 |-> 0])
    BY <2>1 DEF PicksUpTo
  <2> QED
    BY <2>2
<1>2. ASSUME NEW n \in Nat, n \in T PROVE n + 1 \in T
  <2> SUFFICES ASSUME n + 1 <= Len(list) PROVE \E at : PicksUpTo(list, I, n + 1, at)
    OBVIOUS
  <2>1. PICK at : PicksUpTo(list, I, n, at)
    BY <1>2, <1>a
  <2>2. PICK m \in Nat : m = n + 1
    OBVIOUS
  <2>3. m \in 1..Len(list) /\ m - 1 = n /\ n \in 0..Len(list)
    BY <1>a, <2>2
  <2>4. /\ m \in I => K[m] = Append(K[n], list[m])
        /\ m \notin I => K[m] = K[n]
    BY <2>3, SelectedDef
  <2>5. K[n] \in Seq(S) /\ list[m] \in S
    BY <1>b, <2>3
  <2> HIDE DEF K
  <2>6. /\ at \in [1..Len(K[n]) -> Nat]
        /\ \A k \in DOMAIN at : at[k] \in 1..n /\ at[k] \in I /\ K[n][k] = list[at[k]]
        /\ \A j, k \in DOMAIN at : j < k => at[j] < at[k]
        /\ \A i \in 1..n : i \in I => \E k \in DOMAIN at : at[k] = i
    BY <2>1 DEF PicksUpTo, K
  <2> DEFINE l == Len(K[n])
             next == IF m \in I THEN [k \in 1..(l + 1) |-> IF k = l + 1 THEN m ELSE at[k]] ELSE at
  <2>7. CASE m \in I
    <3>1. l \in Nat /\ Len(K[m]) = l + 1 /\ K[m][l + 1] = list[m] /\ \A k \in 1..l : K[m][k] = K[n][k]
      BY <2>4, <2>5, <2>7
    <3> HIDE DEF l
    <3>2. /\ next \in [1..Len(K[m]) -> Nat]
          /\ next[l + 1] = m /\ \A k \in 1..l : next[k] = at[k]
      BY <2>6, <2>7, <3>1 DEF l
    <3>3. DOMAIN at = 1..l /\ DOMAIN next = 1..(l + 1)
      BY <2>6, <2>7, <3>1 DEF l
    <3> HIDE DEF next
    <3>4. ASSUME NEW k \in 1..(l + 1)
          PROVE next[k] \in 1..m /\ next[k] \in I /\ K[m][k] = list[next[k]]
      <4>1. CASE k = l + 1
        BY <2>7, <2>3, <3>1, <3>2, <4>1
      <4>2. CASE k # l + 1
        <5>1. k \in 1..l
          BY <3>1, <4>2
        <5> QED
          BY <2>2, <2>6, <3>1, <3>2, <3>3, <5>1
      <4> QED
        BY <4>1, <4>2
    <3>5. ASSUME NEW j \in 1..(l + 1), NEW k \in 1..(l + 1), j < k PROVE next[j] < next[k]
      <4>1. j \in 1..l
        BY <3>1, <3>5
      <4>2. CASE k = l + 1
        <5>1. at[j] \in 1..n
          BY <2>6, <3>3, <4>1
        <5> QED
          BY <2>2, <3>2, <4>1, <4>2, <5>1
      <4>3. CASE k # l + 1
        <5>1. k \in 1..l
          BY <3>1, <4>3
        <5> QED
          BY <2>6, <3>2, <3>3, <3>5, <4>1, <5>1
      <4> QED
        BY <4>2, <4>3
    <3>6. ASSUME NEW i \in 1..m, i \in I PROVE \E k \in 1..(l + 1) : next[k] = i
      <4>1. CASE i = m
        BY <3>1, <3>2, <4>1
      <4>2. CASE i # m
        <5>1. i \in 1..n
          BY <2>2, <4>2
        <5>2. PICK k \in 1..l : at[k] = i
          BY <2>6, <3>3, <3>6, <5>1
        <5> QED
          BY <3>1, <3>2, <5>2
      <4> QED
        BY <4>1, <4>2
    <3>7. PicksUpTo(list, I, m, next)
      BY <3>2, <3>3, <3>4, <3>5, <3>6 DEF PicksUpTo, K
    <3> QED
      BY <2>2, <3>7
  <2>8. CASE m \notin I
    <3>1. K[m] = K[n]
      BY <2>4, <2>8
    <3>2. ASSUME NEW i \in 1..m, i \in I PROVE \E k \in DOMAIN at : at[k] = i
      <4>1. i \in 1..n
        BY <2>2, <2>8, <3>2
      <4> QED
        BY <2>6, <3>2, <4>1
    <3>3. \A k \in DOMAIN at : at[k] \in 1..m
      BY <2>2, <2>6
    <3>4. PicksUpTo(list, I, m, at)
      BY <2>6, <3>1, <3>2, <3>3 DEF PicksUpTo, K
    <3> QED
      BY <2>2, <3>4
  <2> QED
    BY <2>7, <2>8
<1> HIDE DEF T
<1>3. Len(list) \in T
  BY <1>1, <1>2, <1>a, NaturalInduction
<1>4. PICK at : PicksUpTo(list, I, Len(list), at)
  BY <1>3, <1>a DEF T
<1>5. Select(list, I) = K[Len(list)]
  BY SelectDef
<1> DEFINE out == Select(list, I)
<1>6. /\ at \in [1..Len(out) -> 1..Len(list)]
      /\ \A k \in DOMAIN at : at[k] \in I /\ out[k] = list[at[k]]
      /\ \A j, k \in DOMAIN at : j < k => at[j] < at[k]
      /\ \A i \in 1..Len(list) : i \in I => \E k \in DOMAIN at : at[k] = i
  BY <1>4, <1>5 DEF PicksUpTo
<1> HIDE DEF out
<1>7. Picks(list, I, out, at)
  BY <1>6 DEF Picks
<1> QED
  BY <1>7 DEF out

\* What a loop copies is what stands at its positions.
LEMMA SelectElements ==
    ASSUME NEW S, NEW list \in Seq(S), NEW I
    PROVE  /\ Select(list, I) \in Seq(S)
           /\ \A k \in 1..Len(Select(list, I)) : \E i \in 1..Len(list) : i \in I /\ Select(list, I)[k] = list[i]
           /\ \A i \in 1..Len(list) : i \in I => \E k \in 1..Len(Select(list, I)) : Select(list, I)[k] = list[i]
<1>1. Select(list, I) \in Seq(S)
  BY SelectType
<1> DEFINE out == Select(list, I)
<1>2. PICK at : Picks(list, I, out, at)
  BY SelectPositions
<1> HIDE DEF out
<1>3. /\ at \in [1..Len(out) -> 1..Len(list)]
      /\ \A k \in 1..Len(out) : at[k] \in I /\ out[k] = list[at[k]]
      /\ \A i \in 1..Len(list) : i \in I => \E k \in 1..Len(out) : at[k] = i
  BY <1>2 DEF Picks
<1>5. \A k \in 1..Len(out) : \E i \in 1..Len(list) : i \in I /\ out[k] = list[i]
  BY <1>3
<1>6. \A i \in 1..Len(list) : i \in I => \E k \in 1..Len(out) : out[k] = list[i]
  BY <1>3
<1> QED
  BY <1>1, <1>5, <1>6 DEF out

\* How often TLC works the lists out is nothing to what they are together.
LEMMA ConcatDef ==
    ASSUME NEW lists
    PROVE  Concat(lists) = Joined(lists)[Len(lists)]
BY DEF Concat, Once

\* A loop that appends list to list is defined for every list of lists.
LEMMA JoinedIsRecursive ==
    ASSUME NEW S, NEW lists \in Seq(Seq(S))
    PROVE  Joined(lists) =
             [k \in 0..Len(lists) |-> IF k = 0 THEN <<>> ELSE Joined(lists)[k - 1] \o lists[k]]
<1> DEFINE Step(f, k) == f[k - 1] \o lists[k]
           Rec(f, n) == f = [k \in 0..n |-> IF k = 0 THEN <<>> ELSE Step(f, k)]
           T == {n \in Nat : \E f : Rec(f, n)}
<1>1. 0 \in T
  <2>1. Rec([k \in 0..0 |-> <<>>], 0)
    OBVIOUS
  <2> QED
    BY <2>1
<1>2. ASSUME NEW n \in Nat, n \in T PROVE n + 1 \in T
  <2>1. PICK f : Rec(f, n)
    BY <1>2
  <2> DEFINE g == [k \in 0..(n + 1) |-> IF k = n + 1 THEN Step(f, n + 1) ELSE f[k]]
  <2>2. \A k \in 0..n : f[k] = IF k = 0 THEN <<>> ELSE Step(f, k)
    BY <2>1
  <2>3. ASSUME NEW k \in 0..(n + 1) PROVE g[k] = IF k = 0 THEN <<>> ELSE Step(g, k)
    <3>1. CASE k = n + 1
      <4>1. k - 1 = n /\ k # 0 /\ g[n] = f[n]
        BY <3>1
      <4> QED
        BY <3>1, <4>1
    <3>2. CASE k # n + 1 /\ k # 0
      <4>1. k \in 0..n /\ k - 1 \in 0..n
        BY <3>2
      <4>2. g[k] = f[k] /\ g[k - 1] = f[k - 1]
        BY <4>1
      <4> QED
        BY <2>2, <3>2, <4>1, <4>2
    <3>3. CASE k = 0
      BY <2>2, <3>3
    <3> QED
      BY <3>1, <3>2, <3>3
  <2>4. Rec(g, n + 1)
    BY <2>3
  <2> HIDE DEF g, Rec
  <2>5. \E h : Rec(h, n + 1)
    BY <2>4
  <2> QED
    BY <2>5
<1> HIDE DEF T
<1>3. Len(lists) \in T
  BY <1>1, <1>2, NaturalInduction
<1>4. \E f : Rec(f, Len(lists))
  BY <1>3 DEF T
<1>5. Rec(Joined(lists), Len(lists))
  BY <1>4 DEF Joined
<1> QED
  BY <1>5

\* Such a loop, list by list.
LEMMA JoinedDef ==
    ASSUME NEW S, NEW lists \in Seq(Seq(S))
    PROVE  /\ Joined(lists)[0] = <<>>
           /\ \A n \in 1..Len(lists) : Joined(lists)[n] = Joined(lists)[n - 1] \o lists[n]
           /\ \A n \in 0..Len(lists) : Joined(lists)[n] \in Seq(S)
<1> DEFINE J == Joined(lists)
           T == {n \in Nat : n <= Len(lists) => J[n] \in Seq(S)}
<1>a. Len(lists) \in Nat
  OBVIOUS
<1>1. J = [k \in 0..Len(lists) |-> IF k = 0 THEN <<>> ELSE J[k - 1] \o lists[k]]
  BY JoinedIsRecursive
<1> HIDE DEF J
<1>2. J[0] = <<>>
  BY <1>1
<1>3. ASSUME NEW n \in 1..Len(lists) PROVE J[n] = J[n - 1] \o lists[n]
  <2>1. n \in 0..Len(lists) /\ n # 0
    OBVIOUS
  <2> QED
    BY <1>1, <2>1
<1>4. 0 \in T
  <2>1. <<>> \in Seq(S)
    OBVIOUS
  <2> QED
    BY <1>2, <2>1
<1>5. ASSUME NEW n \in Nat, n \in T PROVE n + 1 \in T
  <2> SUFFICES ASSUME n + 1 <= Len(lists) PROVE J[n + 1] \in Seq(S)
    OBVIOUS
  <2>1. PICK m \in Nat : m = n + 1
    OBVIOUS
  <2>2. m \in 1..Len(lists) /\ m - 1 = n /\ J[n] \in Seq(S)
    BY <1>5, <1>a, <2>1
  <2>3. lists[m] \in Seq(S)
    BY <2>2
  <2>4. J[m] = J[n] \o lists[m]
    BY <1>3, <2>2
  <2> QED
    BY <2>1, <2>2, <2>3, <2>4
<1> HIDE DEF T
<1>6. \A n \in Nat : n \in T
  BY <1>4, <1>5, NaturalInduction
<1>7. \A n \in 0..Len(lists) : J[n] \in Seq(S)
  BY <1>6, <1>a DEF T
<1> QED
  BY <1>2, <1>3, <1>7 DEF J

\* Where what the first n lists give together comes from: the list and the place in it,
\* in order, and each of them.
PlacesUpTo(lists, n, joined, row, col) ==
    /\ row \in [1..Len(joined) -> Nat] /\ col \in [1..Len(joined) -> Nat]
    /\ \A k \in 1..Len(joined) : /\ row[k] \in 1..n /\ col[k] \in 1..Len(lists[row[k]])
                                 /\ joined[k] = lists[row[k]][col[k]]
    /\ \A j, k \in 1..Len(joined) : j < k => row[j] < row[k] \/ (row[j] = row[k] /\ col[j] < col[k])
    /\ \A a \in 1..n : \A b \in 1..Len(lists[a]) : \E k \in 1..Len(joined) : row[k] = a /\ col[k] = b

\* Appending one more list puts its places behind the others.
LEMMA PlacesNext ==
    ASSUME NEW S, NEW lists \in Seq(Seq(S)), NEW n \in Nat, n + 1 <= Len(lists),
           NEW joined \in Seq(S), NEW row, NEW col, PlacesUpTo(lists, n, joined, row, col)
    PROVE  \E r, c : PlacesUpTo(lists, n + 1, joined \o lists[n + 1], r, c)
<1>1. PICK m \in Nat : m = n + 1
  OBVIOUS
<1>2. m \in 1..Len(lists) /\ lists[m] \in Seq(S)
  BY <1>1
<1> DEFINE new == lists[m]
           l == Len(joined)
           both == joined \o new
           r == [k \in 1..(l + Len(new)) |-> IF k <= l THEN row[k] ELSE m]
           c == [k \in 1..(l + Len(new)) |-> IF k <= l THEN col[k] ELSE k - l]
<1>3. l \in Nat /\ new \in Seq(S) /\ Len(new) \in Nat
  BY <1>2
<1>4. /\ both \in Seq(S) /\ Len(both) = l + Len(new)
      /\ \A k \in 1..(l + Len(new)) : both[k] = IF k <= l THEN joined[k] ELSE new[k - l]
  BY <1>3, ConcatProperties
<1> HIDE DEF new, l, both
<1>5. /\ row \in [1..l -> Nat] /\ col \in [1..l -> Nat]
      /\ \A k \in 1..l : row[k] \in 1..n /\ col[k] \in 1..Len(lists[row[k]]) /\ joined[k] = lists[row[k]][col[k]]
      /\ \A j, k \in 1..l : j < k => row[j] < row[k] \/ (row[j] = row[k] /\ col[j] < col[k])
      /\ \A a \in 1..n : \A b \in 1..Len(lists[a]) : \E k \in 1..l : row[k] = a /\ col[k] = b
  BY DEF PlacesUpTo, l
<1>6. /\ r \in [1..(l + Len(new)) -> Nat] /\ c \in [1..(l + Len(new)) -> Nat]
      /\ \A k \in 1..l : r[k] = row[k] /\ c[k] = col[k]
      /\ \A k \in 1..(l + Len(new)) : ~(k <= l) => r[k] = m /\ c[k] = k - l
  BY <1>3, <1>5
<1> HIDE DEF r, c
<1>7. ASSUME NEW k \in 1..(l + Len(new))
      PROVE  r[k] \in 1..m /\ c[k] \in 1..Len(lists[r[k]]) /\ both[k] = lists[r[k]][c[k]]
  <2>1. CASE k <= l
    <3>1. k \in 1..l
      BY <1>3, <2>1
    <3> QED
      BY <1>1, <1>4, <1>5, <1>6, <2>1, <3>1
  <2>2. CASE ~(k <= l)
    <3>1. r[k] = m /\ c[k] = k - l /\ both[k] = new[k - l]
      BY <1>4, <1>6, <2>2
    <3>2. k - l \in 1..Len(new) /\ m \in 1..m
      BY <1>2, <1>3, <2>2
    <3> QED
      BY <3>1, <3>2 DEF new
  <2> QED
    BY <2>1, <2>2
<1>8. ASSUME NEW j \in 1..(l + Len(new)), NEW k \in 1..(l + Len(new)), j < k
      PROVE  r[j] < r[k] \/ (r[j] = r[k] /\ c[j] < c[k])
  <2>1. CASE k <= l
    <3>1. j \in 1..l /\ k \in 1..l
      BY <1>3, <1>8, <2>1
    <3> QED
      BY <1>5, <1>6, <1>8, <3>1
  <2>2. CASE ~(k <= l) /\ j <= l
    <3>1. j \in 1..l
      BY <1>3, <2>2
    <3>2. r[j] \in 1..n /\ r[k] = m
      BY <1>5, <1>6, <2>2, <3>1
    <3> QED
      BY <1>1, <3>2
  <2>3. CASE ~(k <= l) /\ ~(j <= l)
    BY <1>3, <1>6, <1>8, <2>3
  <2> QED
    BY <2>1, <2>2, <2>3
<1>9. ASSUME NEW a \in 1..m, NEW b \in 1..Len(lists[a])
      PROVE  \E k \in 1..(l + Len(new)) : r[k] = a /\ c[k] = b
  <2>1. CASE a = m
    <3>1. b \in 1..Len(new)
      BY <2>1 DEF new
    <3>2. l + b \in 1..(l + Len(new)) /\ ~(l + b <= l) /\ (l + b) - l = b
      BY <1>3, <3>1
    <3> QED
      BY <1>6, <2>1, <3>2
  <2>2. CASE a # m
    <3>1. a \in 1..n
      BY <1>1, <2>2
    <3>2. PICK k \in 1..l : row[k] = a /\ col[k] = b
      BY <1>5, <3>1
    <3>3. k \in 1..(l + Len(new))
      BY <1>3
    <3> QED
      BY <1>6, <3>2, <3>3
  <2> QED
    BY <2>1, <2>2
<1>10. PlacesUpTo(lists, m, both, r, c)
  BY <1>4, <1>6, <1>7, <1>8, <1>9 DEF PlacesUpTo
<1>11. \E x, y : PlacesUpTo(lists, m, both, x, y)
  BY <1>10
<1> QED
  BY <1>1, <1>11 DEF both, new

\* What lists give together comes from their places, in order.
LEMMA ConcatPlaces ==
    ASSUME NEW S, NEW lists \in Seq(Seq(S))
    PROVE  /\ Concat(lists) \in Seq(S)
           /\ \E row, col : PlacesUpTo(lists, Len(lists), Concat(lists), row, col)
<1> DEFINE J == Joined(lists)
           T == {n \in Nat : n <= Len(lists) => \E row, col : PlacesUpTo(lists, n, J[n], row, col)}
<1>a. Len(lists) \in Nat /\ Len(lists) \in 0..Len(lists)
  OBVIOUS
<1>b. /\ J[0] = <<>>
      /\ \A n \in 1..Len(lists) : J[n] = J[n - 1] \o lists[n]
      /\ \A n \in 0..Len(lists) : J[n] \in Seq(S)
  BY JoinedDef
<1> HIDE DEF J
<1>1. 0 \in T
  <2>1. PlacesUpTo(lists, 0, J[0], [k \in 1..0 |-> 0], [k \in 1..0 |-> 0])
    BY <1>b DEF PlacesUpTo
  <2> QED
    BY <2>1
<1>2. ASSUME NEW n \in Nat, n \in T PROVE n + 1 \in T
  <2> SUFFICES ASSUME n + 1 <= Len(lists) PROVE \E row, col : PlacesUpTo(lists, n + 1, J[n + 1], row, col)
    OBVIOUS
  <2>1. PICK row, col : PlacesUpTo(lists, n, J[n], row, col)
    BY <1>2, <1>a
  <2>2. PICK m \in Nat : m = n + 1
    OBVIOUS
  <2>3. m \in 1..Len(lists) /\ m - 1 = n /\ n \in 0..Len(lists)
    BY <1>a, <2>2
  <2>4. J[m] = J[n] \o lists[m] /\ J[n] \in Seq(S)
    BY <1>b, <2>3
  <2>5. \E r, c : PlacesUpTo(lists, n + 1, J[n] \o lists[n + 1], r, c)
    BY <2>1, <2>4, PlacesNext
  <2> QED
    BY <2>2, <2>4, <2>5
<1> HIDE DEF T
<1>3. Len(lists) \in T
  BY <1>1, <1>2, <1>a, NaturalInduction
<1>4. \E row, col : PlacesUpTo(lists, Len(lists), J[Len(lists)], row, col)
  BY <1>3, <1>a DEF T
<1>5. Concat(lists) = J[Len(lists)]
  BY ConcatDef DEF J
<1> QED
  BY <1>a, <1>b, <1>4, <1>5

\* An element of the lists together is one of one of them.
LEMMA ConcatElements ==
    ASSUME NEW S, NEW lists \in Seq(Seq(S))
    PROVE  /\ Concat(lists) \in Seq(S)
           /\ \A k \in 1..Len(Concat(lists)) :
                \E a \in 1..Len(lists) : \E b \in 1..Len(lists[a]) : Concat(lists)[k] = lists[a][b]
           /\ \A a \in 1..Len(lists) : \A b \in 1..Len(lists[a]) :
                \E k \in 1..Len(Concat(lists)) : Concat(lists)[k] = lists[a][b]
<1> DEFINE out == Concat(lists)
<1>1. out \in Seq(S)
  BY ConcatPlaces
<1>2. PICK row, col : PlacesUpTo(lists, Len(lists), out, row, col)
  BY ConcatPlaces
<1> HIDE DEF out
<1>3. ASSUME NEW k \in 1..Len(out)
      PROVE  \E a \in 1..Len(lists) : \E b \in 1..Len(lists[a]) : out[k] = lists[a][b]
  <2>1. row[k] \in 1..Len(lists) /\ col[k] \in 1..Len(lists[row[k]]) /\ out[k] = lists[row[k]][col[k]]
    BY <1>2 DEF PlacesUpTo
  <2> DEFINE a == row[k]
             b == col[k]
  <2> HIDE DEF a, b
  <2>2. a \in 1..Len(lists) /\ b \in 1..Len(lists[a]) /\ out[k] = lists[a][b]
    BY <2>1 DEF a, b
  <2> QED
    BY <2>2
<1>4. ASSUME NEW a \in 1..Len(lists), NEW b \in 1..Len(lists[a])
      PROVE  \E k \in 1..Len(out) : out[k] = lists[a][b]
  <2>1. PICK k \in 1..Len(out) : row[k] = a /\ col[k] = b
    BY <1>2 DEF PlacesUpTo
  <2>2. out[k] = lists[row[k]][col[k]]
    BY <1>2 DEF PlacesUpTo
  <2> QED
    BY <2>1, <2>2
<1> QED
  BY <1>1, <1>3, <1>4 DEF out

\* One more list.
LEMMA ConcatAppend ==
    ASSUME NEW S, NEW lists \in Seq(Seq(S)), NEW list \in Seq(S), NEW more, more = Append(lists, list)
    PROVE  Concat(more) = Concat(lists) \o list
<1> DEFINE J == Joined(lists)
           L == Joined(more)
           T == {n \in Nat : n <= Len(lists) => L[n] = J[n]}
<1>a. /\ Len(lists) \in Nat /\ more \in Seq(Seq(S)) /\ Len(more) = Len(lists) + 1
      /\ more[Len(lists) + 1] = list /\ \A n \in 1..Len(lists) : more[n] = lists[n]
  OBVIOUS
<1>b. J[0] = <<>> /\ \A n \in 1..Len(lists) : J[n] = J[n - 1] \o lists[n]
  BY JoinedDef
<1>c. L[0] = <<>> /\ \A n \in 1..Len(more) : L[n] = L[n - 1] \o more[n]
  <2>1. more \in Seq(Seq(S))
    BY <1>a
  <2> QED
    BY <2>1, JoinedDef
<1> HIDE DEF J, L
<1>1. 0 \in T
  BY <1>b, <1>c
<1>2. ASSUME NEW n \in Nat, n \in T PROVE n + 1 \in T
  <2> SUFFICES ASSUME n + 1 <= Len(lists) PROVE L[n + 1] = J[n + 1]
    OBVIOUS
  <2>1. PICK m \in Nat : m = n + 1
    OBVIOUS
  <2>2. m \in 1..Len(lists) /\ m \in 1..Len(more) /\ m - 1 = n /\ L[n] = J[n]
    BY <1>2, <1>a, <2>1
  <2>3. L[m] = L[n] \o more[m] /\ J[m] = J[n] \o lists[m] /\ more[m] = lists[m]
    BY <1>a, <1>b, <1>c, <2>2
  <2> QED
    BY <2>1, <2>2, <2>3
<1> HIDE DEF T
<1>3. Len(lists) \in T
  BY <1>1, <1>2, <1>a, NaturalInduction
<1>4. L[Len(lists)] = J[Len(lists)]
  BY <1>3, <1>a DEF T
<1>5. PICK m \in Nat : m = Len(lists) + 1
  BY <1>a
<1>6. m \in 1..Len(more) /\ m - 1 = Len(lists) /\ m = Len(more) /\ more[m] = list
  BY <1>a, <1>5
<1>7. L[m] = L[m - 1] \o more[m]
  BY <1>c, <1>6
<1> QED
  BY <1>4, <1>6, <1>7, ConcatDef DEF J, L

=============================================================================
