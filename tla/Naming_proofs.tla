------------------------------ MODULE Naming_proofs ------------------------------
(***************************************************************************)
(* Theorems about the naming pipeline, for every alphabet, table of emoji, *)
(* configuration and list of names.                                        *)
(***************************************************************************)
EXTENDS Naming, Library_proofs

-----------------------------------------------------------------------------
(* Texts. *)

\* The characters of s that are no spaces, and what is left of it between the first
\* of them, m, and the last, n.
Words(s) == {i \in DOMAIN s : s[i] # Space}

Between(s, m, n, t) ==
    /\ m \in Words(s) /\ n \in Words(s) /\ m <= n
    /\ \A i \in Words(s) : m <= i /\ i <= n
    /\ Len(t) = n - m + 1
    /\ \A i \in 1..(n - m + 1) : t[i] = s[m + i - 1]

\* strings.TrimSpace: what is left of a text is a text of the same characters.
LEMMA TrimFacts ==
    ASSUME NEW S, NEW s \in Seq(S)
    PROVE  /\ TrimSpace(s) \in Seq(S)
           /\ Words(s) = {} => TrimSpace(s) = <<>>
           /\ Words(s) # {} => \E m, n \in Nat : Between(s, m, n, TrimSpace(s))
<1>a. Len(s) \in Nat /\ DOMAIN s = 1..Len(s)
  OBVIOUS
<1>1. Words(s) \subseteq 0..Len(s) /\ Words(s) \subseteq Nat
  BY <1>a DEF Words
<1>2. CASE Words(s) = {}
  <2>1. TrimSpace(s) = <<>>
    BY <1>2 DEF TrimSpace, Words
  <2>2. <<>> \in Seq(S)
    OBVIOUS
  <2> QED
    BY <1>2, <2>1, <2>2
<1>3. CASE Words(s) # {}
  <2> DEFINE m == Min(Words(s))
             n == Max(Words(s))
  <2>1. m \in Words(s) /\ \A i \in Words(s) : m <= i
    BY <1>1, <1>3, MinFacts
  <2>2. n \in Words(s) /\ \A i \in Words(s) : i <= n
    BY <1>1, <1>3, <1>a, MaxFacts
  <2>3. TrimSpace(s) = SubSeq(s, m, n)
    BY <1>3 DEF TrimSpace, Words
  <2>4. m \in 1..Len(s) /\ n \in 1..Len(s)
    BY <2>1, <2>2, <1>a DEF Words
  <2> HIDE DEF m, n
  <2>5. m <= n
    BY <2>1, <2>2
  <2>6. \A i \in m..n : s[i] \in S
    BY <2>4, <1>a
  <2>7. /\ SubSeq(s, m, n) \in Seq(S)
        /\ Len(SubSeq(s, m, n)) = n - m + 1
        /\ \A i \in 1..(n - m + 1) : SubSeq(s, m, n)[i] = s[m + i - 1]
    BY <2>4, <2>5, <2>6, SubSeqProperties
  <2>8. Between(s, m, n, TrimSpace(s))
    BY <2>1, <2>2, <2>3, <2>5, <2>7 DEF Between
  <2>9. m \in Nat /\ n \in Nat
    BY <2>4, <1>a
  <2> QED
    BY <1>3, <2>3, <2>7, <2>8, <2>9
<1> QED
  BY <1>2, <1>3

\* A space more at the front makes no difference to strings.TrimSpace.
LEMMA TrimLeading ==
    ASSUME NEW S, Space \in S, NEW t \in Seq(S), NEW d, d = <<Space>> \o t
    PROVE  TrimSpace(d) = TrimSpace(t)
<1>1. /\ <<Space>> \in Seq(S) /\ Len(<<Space>>) = 1 /\ <<Space>>[1] = Space
  OBVIOUS
<1>2. /\ d \in Seq(S) /\ Len(d) = Len(t) + 1 /\ Len(t) \in Nat
      /\ d[1] = Space /\ \A i \in 1..Len(t) : d[i + 1] = t[i]
  BY <1>1
<1> DEFINE kt == Words(t)
           kd == Words(d)
<1>3. /\ \A i \in kt : i \in 1..Len(t) /\ i + 1 \in kd
      /\ \A i \in kd : i \in 2..(Len(t) + 1) /\ i - 1 \in kt
  <2>1. DOMAIN t = 1..Len(t) /\ DOMAIN d = 1..(Len(t) + 1)
    BY <1>2
  <2>2. ASSUME NEW i \in kt PROVE i \in 1..Len(t) /\ i + 1 \in kd
    BY <1>2, <2>1 DEF Words
  <2>3. ASSUME NEW i \in kd PROVE i \in 2..(Len(t) + 1) /\ i - 1 \in kt
    <3>1. i \in 1..(Len(t) + 1) /\ i # 1
      BY <1>2, <2>1 DEF Words
    <3>2. i - 1 \in 1..Len(t) /\ (i - 1) + 1 = i
      BY <1>2, <3>1
    <3> QED
      BY <1>2, <2>1, <3>1, <3>2 DEF Words
  <2> QED
    BY <2>2, <2>3
<1>4. /\ TrimSpace(t) \in Seq(S)
      /\ kt = {} => TrimSpace(t) = <<>>
      /\ kt # {} => \E m, n \in Nat : Between(t, m, n, TrimSpace(t))
  BY TrimFacts
<1>5. /\ TrimSpace(d) \in Seq(S)
      /\ kd = {} => TrimSpace(d) = <<>>
      /\ kd # {} => \E m, n \in Nat : Between(d, m, n, TrimSpace(d))
  BY <1>2, TrimFacts
<1>6. CASE kt = {}
  <2>1. kd = {}
    BY <1>3, <1>6
  <2> QED
    BY <1>4, <1>5, <1>6, <2>1
<1>7. CASE kt # {}
  <2>1. kd # {}
    BY <1>3, <1>7
  <2>2. PICK m \in Nat, n \in Nat : Between(t, m, n, TrimSpace(t))
    BY <1>4, <1>7
  <2>3. PICK a \in Nat, b \in Nat : Between(d, a, b, TrimSpace(d))
    BY <1>5, <2>1
  <2>4. a = m + 1 /\ b = n + 1 /\ m \in 1..Len(t) /\ n \in 1..Len(t) /\ m <= n
    <3>1. m \in kt /\ n \in kt /\ a \in kd /\ b \in kd /\ m <= n
      BY <2>2, <2>3 DEF Between
    <3>2. m + 1 \in kd /\ n + 1 \in kd /\ a - 1 \in kt /\ b - 1 \in kt
      BY <1>3, <3>1
    <3>3. m \in 1..Len(t) /\ n \in 1..Len(t)
      BY <1>3, <3>1
    <3>4. a <= m + 1 /\ n + 1 <= b
      BY <2>3, <3>2 DEF Between
    <3>5. m <= a - 1 /\ b - 1 <= n
      BY <2>2, <3>2 DEF Between
    <3> QED
      BY <1>2, <3>1, <3>3, <3>4, <3>5
  <2> HIDE DEF kt, kd
  <2>5. /\ Len(TrimSpace(t)) = n - m + 1
        /\ \A i \in 1..(n - m + 1) : TrimSpace(t)[i] = t[m + i - 1]
    BY <2>2 DEF Between
  <2>6. /\ Len(TrimSpace(d)) = b - a + 1
        /\ \A i \in 1..(b - a + 1) : TrimSpace(d)[i] = d[a + i - 1]
    BY <2>3 DEF Between
  <2>7. b - a + 1 = n - m + 1
    BY <2>4
  <2>8. ASSUME NEW i \in 1..(n - m + 1) PROVE TrimSpace(d)[i] = TrimSpace(t)[i]
    <3>1. m + i - 1 \in 1..Len(t) /\ a + i - 1 = (m + i - 1) + 1
      BY <2>4, <1>2
    <3>2. d[a + i - 1] = t[m + i - 1]
      BY <1>2, <3>1
    <3>3. TrimSpace(d)[i] = d[a + i - 1]
      BY <2>6, <2>7
    <3> QED
      BY <2>5, <3>2, <3>3
  <2> QED
    BY <1>4, <1>5, <2>5, <2>6, <2>7, <2>8, SeqEqual
<1> QED
  BY <1>6, <1>7

-----------------------------------------------------------------------------
(* What the pipeline makes of a name is a name. *)

\* removeKeywords deletes the matches of one pattern after another, however many
\* there are.
LEMMA RemovedIsRecursive ==
    ASSUME NEW name, NEW patterns \in Seq(Names)
    PROVE  Removed(name, patterns) =
             [k \in 0..Len(patterns) |->
                IF k = 0 THEN name ELSE RemoveMatches(Removed(name, patterns)[k - 1], patterns[k])]
<1> DEFINE Rec(f, n) == f = [k \in 0..n |->
                               IF k = 0 THEN name ELSE RemoveMatches(f[k - 1], patterns[k])]
           T == {n \in Nat : \E f : Rec(f, n)}
<1>1. 0 \in T
  <2>1. Rec([k \in 0..0 |-> name], 0)
    OBVIOUS
  <2> QED
    BY <2>1
<1>2. ASSUME NEW n \in Nat, n \in T PROVE n + 1 \in T
  <2>1. PICK f : Rec(f, n)
    BY <1>2
  <2> DEFINE g == [k \in 0..(n + 1) |->
                     IF k = n + 1 THEN RemoveMatches(f[n], patterns[n + 1]) ELSE f[k]]
  <2>2. \A k \in 0..n : f[k] = IF k = 0 THEN name ELSE RemoveMatches(f[k - 1], patterns[k])
    BY <2>1
  <2>3. ASSUME NEW k \in 0..(n + 1)
        PROVE  g[k] = IF k = 0 THEN name ELSE RemoveMatches(g[k - 1], patterns[k])
    <3>1. CASE k = n + 1
      <4>1. k - 1 = n /\ k # 0 /\ g[n] = f[n]
        BY <3>1
      <4> QED
        BY <3>1, <4>1
    <3>2. CASE k # n + 1 /\ k # 0
      <4>1. k \in 0..n /\ k - 1 \in 0..n
        BY <3>2
      <4>2. g[k] = f[k] /\ g[k - 1] = f[k - 1]
        BY <4>1
      <4> QED
        BY <2>2, <3>2, <4>1, <4>2
    <3>3. CASE k = 0
      BY <2>2, <3>3
    <3> QED
      BY <3>1, <3>2, <3>3
  <2>4. Rec(g, n + 1)
    BY <2>3
  <2> HIDE DEF g, Rec
  <2>5. \E h : Rec(h, n + 1)
    BY <2>4
  <2> QED
    BY <2>5
<1> HIDE DEF T
<1>3. Len(patterns) \in T
  BY <1>1, <1>2, NaturalInduction
<1>4. \E f : Rec(f, Len(patterns))
  BY <1>3 DEF T
<1>5. Rec(Removed(name, patterns), Len(patterns))
  BY <1>4 DEF Removed
<1> QED
  BY <1>5

\* What is left of a name without some of its characters.
LEMMA SelectName ==
    ASSUME NEW S, NEW s \in Seq(S), NEW I
    PROVE  Select(s, I) \in Seq(S)
<1>1. \A i \in 1..Len(s) : i \in I => s[i] \in S
  OBVIOUS
<1> QED
  BY <1>1, SelectType

\* A name without what any number of patterns match is a name.
LEMMA RemovedType ==
    ASSUME NEW name \in Names, NEW patterns \in Seq(Names)
    PROVE  Removed(name, patterns)[Len(patterns)] \in Names
<1> DEFINE K == Removed(name, patterns)
           T == {n \in Nat : n <= Len(patterns) => K[n] \in Names}
<1>a. K = [k \in 0..Len(patterns) |->
             IF k = 0 THEN name ELSE RemoveMatches(K[k - 1], patterns[k])]
  BY RemovedIsRecursive
<1> HIDE DEF K
<1>b. K[0] = name /\ \A k \in 1..Len(patterns) : K[k] = RemoveMatches(K[k - 1], patterns[k])
  BY <1>a
<1>1. 0 \in T
  BY <1>b
<1>2. ASSUME NEW n \in Nat, n \in T PROVE n + 1 \in T
  <2> SUFFICES ASSUME n + 1 <= Len(patterns) PROVE K[n + 1] \in Names
    OBVIOUS
  <2>1. K[n] \in Names
    BY <1>2
  <2>2. PICK m \in Nat : m = n + 1
    OBVIOUS
  <2>3. m \in 1..Len(patterns) /\ m - 1 = n
    BY <2>2
  <2>4. K[m] = RemoveMatches(K[n], patterns[m])
    BY <1>b, <2>3
  <2>5. ASSUME NEW s \in Names, NEW p PROVE RemoveMatches(s, p) \in Names
    BY SelectName DEF RemoveMatches, Names
  <2> QED
    BY <2>1, <2>2, <2>4, <2>5
<1> HIDE DEF T
<1>3. Len(patterns) \in T
  BY <1>1, <1>2, NaturalInduction
<1> QED
  BY <1>3 DEF T, K

\* What removeKeywords leaves of a name is a name.
LEMMA RemoveType ==
    ASSUME NEW name \in Names, NEW keywords \in Seq(Names)
    PROVE  removeKeywords(name, keywords) \in Names
<1>1. compileRemovals(keywords) \in Seq(Names)
  BY SelectName DEF compileRemovals
<1>2. ASSUME NEW s \in Names PROVE collapseSpaces(s) \in Names
  BY SelectName, TrimFacts DEF collapseSpaces, Names
<1> QED
  BY <1>1, <1>2, RemovedType DEF removeKeywords

\* The name without emoji.
LEMMA StripType ==
    ASSUME NEW name \in Names
    PROVE  removeEmojiRunes(name) \in Names /\ TrimSpace(removeEmojiRunes(name)) \in Names
<1>1. removeEmojiRunes(name) \in Names
  BY SelectName DEF removeEmojiRunes, Names
<1> QED
  BY <1>1, TrimFacts DEF Names

\* The table is the operator's entries before the ones that are built in.
LEMMA TableType ==
    ASSUME NEW rules \in Seq(Rules)
    PROVE  newEmojiTable(rules) \in Seq(Rules)
<1>1. Builtin \in Seq(Rules)
  BY TableAssumption
<1> QED
  BY <1>1 DEF newEmojiTable

\* Whatever the table and the name, one emoji is chosen.
LEMMA EmojiType ==
    ASSUME NEW table \in Seq(Rules), NEW name
    PROVE  forTag(table, name) \in Chars
<1> DEFINE hits == {i \in DOMAIN table : \E j \in DOMAIN table[i].keywords :
                      /\ Upper(table[i].keywords[j]) # <<>>
                      /\ containsWord(Upper(name), Upper(table[i].keywords[j]))}
<1>1. forTag(table, name) = IF hits = {} THEN Unknown ELSE table[Min(hits)].emoji
  BY DEF forTag, ChooseEmoji
<1>2. hits \subseteq DOMAIN table /\ hits \subseteq Nat
  OBVIOUS
<1> HIDE DEF hits
<1>3. CASE hits = {}
  BY <1>1, <1>3, TableAssumption
<1>4. CASE hits # {}
  <2>1. Min(hits) \in DOMAIN table
    BY <1>2, <1>4, MinFacts
  <2>2. table[Min(hits)] \in Rules
    BY <2>1
  <2> QED
    BY <1>1, <1>4, <2>2 DEF Rules
<1> QED
  BY <1>3, <1>4

\* assignTagEmoji puts one emoji and a space before a name.
LEMMA AssignType ==
    ASSUME NEW name \in Names, NEW table \in Seq(Rules)
    PROVE  assignTagEmoji(name, table) \in Names
<1>1. TrimSpace(removeEmojiRunes(name)) \in Seq(Chars)
  BY StripType DEF Names
<1>2. \A n : forTag(table, n) \in Chars
  BY EmojiType
<1>3. Space \in Chars
  BY CharsAssumption
<1>4. \A a, b \in Chars : \A c \in Seq(Chars) : <<a, b>> \o c \in Seq(Chars)
  <2>1. \A a, b \in Chars : <<a, b>> \in Seq(Chars)
    OBVIOUS
  <2> QED
    BY <2>1
<1>5. <<forTag(table, TrimSpace(removeEmojiRunes(name))), Space>> \o TrimSpace(removeEmojiRunes(name))
        \in Seq(Chars)
  BY <1>1, <1>2, <1>3, <1>4
<1> QED
  BY <1>5 DEF assignTagEmoji, Names

\* fetchOne: a node is shown by a name with its subscription's prefix, or by none.
LEMMA NameType ==
    ASSUME NEW name \in Names, NEW sub \in Subscriptions, NEW rules \in Seq(Rules)
    PROVE  \/ NameNode(name, sub, rules) = <<>>
           \/ \E shown \in Names : NameNode(name, sub, rules) = Prefix(sub.name) \o shown
<1>1. removeKeywords(name, sub.remove_keywords) \in Names
  BY RemoveType DEF Subscriptions
<1>2. \A n \in Names : assignTagEmoji(n, newEmojiTable(rules)) \in Names /\ stripTagEmoji(n) \in Names
  BY AssignType, TableType, StripType DEF stripTagEmoji
<1> DEFINE removed == removeKeywords(name, sub.remove_keywords)
           shown == CASE sub.emoji = "on"  -> assignTagEmoji(removed, newEmojiTable(rules))
                      [] sub.emoji = "off" -> stripTagEmoji(removed)
                      [] OTHER             -> removed
<1>3. NameNode(name, sub, rules) = prefixTag(shown, sub.name)
  BY DEF NameNode
<1>4. shown \in Names
  BY <1>1, <1>2
<1> HIDE DEF shown
<1> QED
  BY <1>3, <1>4 DEF prefixTag

-----------------------------------------------------------------------------
(* The run. *)

\* Nothing is fetched before the configuration is accepted, and what is fetched is
\* what fetchOne makes of the names the subscription gives.
NamingInv ==
    /\ subs \in Seq(Subscriptions) /\ names \in Seq(Seq(Names)) /\ Len(names) = Len(subs)
    /\ overrides \in Seq(Rules)
    /\ accepted = "yes" => validNames(subs) /\ validOverrides(overrides)
    /\ DOMAIN fetched # {} => accepted = "yes"
    /\ DOMAIN fetched \subseteq DOMAIN subs
    /\ \A i \in DOMAIN fetched : fetched[i] = fetchOne(names[i], subs[i], exclude, overrides)

\* The subscriptions, the table and the names stay what they were, and every tag is
\* the work of fetchOne on an accepted configuration.
THEOREM NamingInvariant == Spec => []NamingInv
<1>1. Init => NamingInv
  <2> SUFFICES ASSUME Init PROVE NamingInv
    OBVIOUS
  <2>1. DOMAIN fetched = {}
    BY DEF Init
  <2> QED
    BY <2>1 DEF Init, NamingInv
<1>2. ASSUME NamingInv, [Next]_vars PROVE NamingInv'
  <2> USE <1>2
  <2>1. CASE Load
    BY <2>1 DEF Load, NamingInv
  <2>2. ASSUME NEW i \in DOMAIN subs, Fetch(i) PROVE NamingInv'
    <3>1. /\ UNCHANGED <<subs, names, exclude, overrides, accepted>> /\ accepted = "yes"
          /\ fetched' = [j \in DOMAIN fetched \cup {i} |->
                          IF j = i THEN fetchOne(names[i], subs[i], exclude, overrides) ELSE fetched[j]]
      BY <2>2 DEF Fetch
    <3>2. DOMAIN fetched' = DOMAIN fetched \cup {i}
      BY <3>1
    <3> QED
      BY <3>1, <3>2 DEF NamingInv
  <2>3. CASE UNCHANGED vars
    BY <2>3 DEF vars, NamingInv
  <2> QED
    BY <2>1, <2>2, <2>3 DEF Next, Done
<1> QED
  BY <1>1, <1>2, PTL DEF Spec

-----------------------------------------------------------------------------
(* A tag belongs to one subscription. *)

\* A text begins with another if it has the same characters as far as that goes.
LEMMA PrefixPoints ==
    ASSUME NEW S, NEW s \in Seq(S), NEW t \in Seq(S)
    PROVE  /\ IsPrefix(s, t) => Len(s) <= Len(t) /\ \A i \in 1..Len(s) : s[i] = t[i]
           /\ Len(s) <= Len(t) /\ (\A i \in 1..Len(s) : s[i] = t[i]) => IsPrefix(s, t)
<1>1. SubSeq(s, 1, Len(s)) = s
  BY SubSeqFull
<1>2. ASSUME Len(s) <= Len(t)
      PROVE  /\ SubSeq(t, 1, Len(s)) \in Seq(S) /\ Len(SubSeq(t, 1, Len(s))) = Len(s)
             /\ \A i \in 1..Len(s) : SubSeq(t, 1, Len(s))[i] = t[i]
  <2> DEFINE n == Len(s)
  <2>1. n \in Nat /\ n <= Len(t) /\ \A i \in 1..n : t[i] \in S
    BY <1>2
  <2> HIDE DEF n
  <2>2. /\ SubSeq(t, 1, n) \in Seq(S)
        /\ Len(SubSeq(t, 1, n)) = IF 1 <= n THEN n - 1 + 1 ELSE 0
        /\ \A i \in 1..(n - 1 + 1) : SubSeq(t, 1, n)[i] = t[1 + i - 1]
    BY <2>1, SubSeqProperties
  <2>3. n - 1 + 1 = n /\ \A i \in 1..n : 1 + i - 1 = i
    BY <2>1
  <2>4. Len(SubSeq(t, 1, n)) = n
    BY <2>1, <2>2, <2>3
  <2>5. \A i \in 1..n : SubSeq(t, 1, n)[i] = t[i]
    BY <2>2, <2>3
  <2> QED
    BY <2>2, <2>4, <2>5 DEF n
<1>3. ASSUME IsPrefix(s, t) PROVE Len(s) <= Len(t) /\ \A i \in 1..Len(s) : s[i] = t[i]
  BY <1>1, <1>2, <1>3 DEF IsPrefix
<1>4. ASSUME Len(s) <= Len(t), \A i \in 1..Len(s) : s[i] = t[i] PROVE IsPrefix(s, t)
  <2>1. SubSeq(t, 1, Len(s)) = s
    BY <1>2, <1>4, SeqEqual
  <2> QED
    BY <1>1, <1>4, <2>1 DEF IsPrefix
<1> QED
  BY <1>3, <1>4

\* "[name] " and what follows it, character by character.
LEMMA PrefixShape ==
    ASSUME NEW n \in Names
    PROVE  /\ Prefix(n) \in Seq(Chars)
           /\ Len(Prefix(n)) = Len(n) + 3 /\ Len(n) \in Nat
           /\ Prefix(n)[1] = Open /\ Prefix(n)[Len(n) + 2] = Close /\ Prefix(n)[Len(n) + 3] = Space
           /\ \A k \in 1..Len(n) : Prefix(n)[k + 1] = n[k]
<1>1. Open \in Chars /\ Close \in Chars /\ Space \in Chars /\ n \in Seq(Chars) /\ Len(n) \in Nat
  BY CharsAssumption DEF Names
<1>2. \A a, b \in Chars : /\ <<a>> \in Seq(Chars) /\ Len(<<a>>) = 1 /\ <<a>>[1] = a
                          /\ <<a, b>> \in Seq(Chars) /\ Len(<<a, b>>) = 2
                          /\ <<a, b>>[1] = a /\ <<a, b>>[2] = b
  OBVIOUS
<1> DEFINE o == <<Open>>
           c == <<Close, Space>>
           h == o \o n
<1>3. /\ o \in Seq(Chars) /\ Len(o) = 1 /\ o[1] = Open
      /\ c \in Seq(Chars) /\ Len(c) = 2 /\ c[1] = Close /\ c[2] = Space
  BY <1>1, <1>2
<1> HIDE DEF o, c
<1>4. /\ h \in Seq(Chars) /\ Len(h) = Len(n) + 1 /\ h[1] = Open
      /\ \A k \in 1..Len(n) : h[k + 1] = n[k]
  <2>1. /\ h \in Seq(Chars) /\ Len(h) = Len(o) + Len(n)
        /\ \A k \in 1..(Len(o) + Len(n)) : h[k] = IF k <= Len(o) THEN o[k] ELSE n[k - Len(o)]
    BY <1>1, <1>3, ConcatProperties
  <2> HIDE DEF h
  <2>2. \A k \in 1..Len(n) : k + 1 \in 1..(Len(o) + Len(n)) /\ ~(k + 1 <= Len(o)) /\ k + 1 - Len(o) = k
    BY <1>1, <1>3
  <2>3. 1 \in 1..(Len(o) + Len(n)) /\ 1 <= Len(o)
    BY <1>1, <1>3
  <2> QED
    BY <1>1, <1>3, <2>1, <2>2, <2>3
<1> HIDE DEF h
<1> DEFINE p == h \o c
<1>5. /\ p \in Seq(Chars) /\ Len(p) = Len(n) + 3
      /\ \A k \in 1..(Len(n) + 1) : p[k] = h[k]
      /\ p[Len(n) + 2] = c[1] /\ p[Len(n) + 3] = c[2]
  <2>1. /\ p \in Seq(Chars) /\ Len(p) = Len(h) + Len(c)
        /\ \A k \in 1..(Len(h) + Len(c)) : p[k] = IF k <= Len(h) THEN h[k] ELSE c[k - Len(h)]
    BY <1>3, <1>4, ConcatProperties
  <2> HIDE DEF p
  <2>2. \A k \in 1..(Len(n) + 1) : k \in 1..(Len(h) + Len(c)) /\ k <= Len(h)
    BY <1>1, <1>3, <1>4
  <2>3. \A k \in {1, 2} : /\ Len(h) + k \in 1..(Len(h) + Len(c)) /\ ~(Len(h) + k <= Len(h))
                         /\ (Len(h) + k) - Len(h) = k
    BY <1>1, <1>3, <1>4
  <2>4. p[Len(h) + 1] = c[1] /\ p[Len(h) + 2] = c[2]
    BY <2>1, <2>3
  <2>5. Len(h) + 1 = Len(n) + 2 /\ Len(h) + 2 = Len(n) + 3
    BY <1>1, <1>4
  <2> QED
    BY <1>1, <1>3, <1>4, <2>1, <2>2, <2>4, <2>5
<1>6. \A k \in 1..Len(n) : p[k + 1] = n[k]
  BY <1>1, <1>4, <1>5
<1>7. p = Prefix(n)
  BY DEF Prefix, p, h, o, c
<1> HIDE DEF p
<1> QED
  BY <1>1, <1>3, <1>4, <1>5, <1>6, <1>7

\* A name without brackets ends where the first closing one stands, so no tag has
\* the prefixes of two.
LEMMA PrefixTells ==
    ASSUME NEW m \in Names, NEW n \in Names, NEW shown \in Names,
           \A k \in 1..Len(m) : m[k] # Close, \A k \in 1..Len(n) : n[k] # Close,
           NEW tag, tag = Prefix(m) \o shown
    PROVE  /\ belongsTo(tag, m)
           /\ belongsTo(tag, n) => m = n
<1>1. tag \in Seq(Chars) /\ Len(tag) = Len(Prefix(m)) + Len(shown) /\ Len(shown) \in Nat
      /\ \A k \in 1..Len(Prefix(m)) : tag[k] = Prefix(m)[k]
  BY PrefixShape DEF Names
<1>2. belongsTo(tag, m)
  <2>1. Len(Prefix(m)) <= Len(tag)
    BY <1>1, PrefixShape
  <2> QED
    BY <1>1, <2>1, PrefixShape, PrefixPoints DEF belongsTo
<1>3. ASSUME belongsTo(tag, n) PROVE m = n
  <2>1. \A k \in 1..Len(Prefix(n)) : Prefix(n)[k] = tag[k]
    <3>1. IsPrefix(Prefix(n), tag) /\ Prefix(n) \in Seq(Chars) /\ tag \in Seq(Chars)
      BY <1>1, <1>3, PrefixShape DEF belongsTo
    <3> DEFINE p == Prefix(n)
    <3> HIDE DEF p
    <3>2. IsPrefix(p, tag) /\ p \in Seq(Chars) /\ tag \in Seq(Chars)
      BY <3>1 DEF p
    <3>3. \A k \in 1..Len(p) : p[k] = tag[k]
      BY <3>2, PrefixPoints
    <3> QED
      BY <3>3 DEF p
  <2>2. /\ Len(m) \in Nat /\ tag[Len(m) + 2] = Close /\ \A k \in 1..Len(m) : tag[k + 1] = m[k]
    <3>1. /\ Len(m) \in Nat /\ Len(Prefix(m)) = Len(m) + 3 /\ Prefix(m)[Len(m) + 2] = Close
          /\ \A k \in 1..Len(m) : Prefix(m)[k + 1] = m[k]
      BY PrefixShape
    <3> QED
      BY <1>1, <3>1
  <2>3. /\ Len(n) \in Nat /\ tag[Len(n) + 2] = Close /\ \A k \in 1..Len(n) : tag[k + 1] = n[k]
    <3>1. /\ Len(n) \in Nat /\ Len(Prefix(n)) = Len(n) + 3 /\ Prefix(n)[Len(n) + 2] = Close
          /\ \A k \in 1..Len(n) : Prefix(n)[k + 1] = n[k]
      BY PrefixShape
    <3>2. Len(n) + 2 \in 1..Len(Prefix(n)) /\ \A k \in 1..Len(n) : k + 1 \in 1..Len(Prefix(n))
      BY <3>1
    <3> QED
      BY <2>1, <3>1, <3>2
  <2>4. ~(Len(m) < Len(n))
    <3> SUFFICES ASSUME Len(m) < Len(n) PROVE FALSE
      OBVIOUS
    <3>1. Len(m) + 1 \in 1..Len(n) /\ (Len(m) + 1) + 1 = Len(m) + 2
      BY <2>2, <2>3
    <3>2. n[Len(m) + 1] = tag[(Len(m) + 1) + 1]
      BY <2>3, <3>1
    <3> QED
      BY <2>2, <3>1, <3>2
  <2>5. ~(Len(n) < Len(m))
    <3> SUFFICES ASSUME Len(n) < Len(m) PROVE FALSE
      OBVIOUS
    <3>1. Len(n) + 1 \in 1..Len(m) /\ (Len(n) + 1) + 1 = Len(n) + 2
      BY <2>2, <2>3
    <3>2. m[Len(n) + 1] = tag[(Len(n) + 1) + 1]
      BY <2>2, <3>1
    <3> QED
      BY <2>3, <3>1, <3>2
  <2>6. Len(m) = Len(n)
    BY <2>2, <2>3, <2>4, <2>5
  <2>7. \A k \in 1..Len(m) : m[k] = n[k]
    BY <2>2, <2>3, <2>6
  <2> QED
    BY <2>6, <2>7, SeqEqual DEF Names
<1> QED
  BY <1>2, <1>3

\* A selector takes a node for its own subscription's and for no other's, whatever
\* the subscriptions and the nodes are called: validateSubscriptions refuses names
\* with brackets and equal names, and fetchOne prefixes every tag that is shown.
THEOREM AttributionIsAlwaysExact == Spec => []AttributionIsExact
<1>1. NamingInv => AttributionIsExact
  <2> SUFFICES ASSUME NamingInv, NEW i \in DOMAIN fetched, NEW j \in DOMAIN subs,
                      NEW tag \in Range(fetched[i]) \ {<<>>}
               PROVE  belongsTo(tag, subs[j].name) <=> i = j
    BY DEF AttributionIsExact
  <2>1. /\ i \in DOMAIN subs /\ fetched[i] = fetchOne(names[i], subs[i], exclude, overrides)
        /\ validNames(subs)
    BY DEF NamingInv
  <2>2. subs \in Seq(Subscriptions) /\ names \in Seq(Seq(Names)) /\ i \in DOMAIN names
        /\ overrides \in Seq(Rules)
    BY <2>1 DEF NamingInv
  <2>3. subs[i] \in Subscriptions /\ subs[j] \in Subscriptions /\ names[i] \in Seq(Names)
    BY <2>1, <2>2
  <2> DEFINE sub == subs[i]
             given == names[i]
             Shown == {<<>>} \cup {Prefix(sub.name) \o shown : shown \in Names}
             tags == [k \in DOMAIN given |-> NameNode(given[k], sub, overrides)]
  <2>4. tags \in Seq(Shown)
    <3> HIDE DEF given, sub
    <3>1. given \in Seq(Names) /\ sub \in Subscriptions
      BY <2>3 DEF given, sub
    <3>2. ASSUME NEW k \in DOMAIN given PROVE NameNode(given[k], sub, overrides) \in Shown
      <4>1. given[k] \in Names
        BY <3>1
      <4> QED
        BY <2>2, <3>1, <4>1, NameType
    <3> HIDE DEF Shown
    <3> QED
      BY <3>1, <3>2
  <2>5. fetched[i] \in Seq(Shown)
    <3>1. fetched[i] = Select(tags, {k \in DOMAIN tags : tags[k] = <<>> \/ ~matchesAny(tags[k], exclude)})
      BY <2>1 DEF fetchOne, dropExcluded
    <3> HIDE DEF tags, Shown
    <3> QED
      BY <2>4, <3>1, SelectName
  <2>6. tag \in Shown /\ tag # <<>>
    <3> HIDE DEF Shown
    <3> QED
      BY <2>5 DEF Range
  <2>7. PICK shown \in Names : tag = Prefix(sub.name) \o shown
    BY <2>6
  <2>8. ASSUME NEW k \in DOMAIN subs
        PROVE  subs[k].name \in Names /\ \A x \in 1..Len(subs[k].name) : subs[k].name[x] # Close
    <3>1. subs[k] \in Subscriptions
      BY <2>2
    <3>2. subs[k].name \in Seq(Chars) /\ Close \notin Range(subs[k].name)
      BY <2>1, <3>1 DEF validNames, Subscriptions, Names
    <3> QED
      BY <3>2 DEF Range, Names
  <2>9. /\ belongsTo(tag, subs[i].name)
        /\ belongsTo(tag, subs[j].name) => subs[i].name = subs[j].name
    <3>1. /\ subs[i].name \in Names /\ \A x \in 1..Len(subs[i].name) : subs[i].name[x] # Close
          /\ subs[j].name \in Names /\ \A x \in 1..Len(subs[j].name) : subs[j].name[x] # Close
      BY <2>1, <2>8
    <3> DEFINE a == subs[i].name
               b == subs[j].name
    <3>2. tag = Prefix(a) \o shown
      BY <2>7
    <3> HIDE DEF a, b
    <3>3. /\ a \in Names /\ \A x \in 1..Len(a) : a[x] # Close
          /\ b \in Names /\ \A x \in 1..Len(b) : b[x] # Close
      BY <3>1 DEF a, b
    <3>4. belongsTo(tag, a) /\ (belongsTo(tag, b) => a = b)
      BY <3>2, <3>3, PrefixTells
    <3> QED
      BY <3>4 DEF a, b
  <2>10. subs[i].name = subs[j].name => i = j
    BY <2>1 DEF validNames
  <2> QED
    BY <2>9, <2>10
<1> QED
  BY <1>1, NamingInvariant, PTL

-----------------------------------------------------------------------------
(* The emoji of a region. *)

\* strings.ToUpper makes a name of a name, and an empty one of no other.
LEMMA UpperType ==
    ASSUME NEW s \in Names
    PROVE  Upper(s) \in Names /\ (s # <<>> <=> Upper(s) # <<>>)
<1>1. s \in Seq(Chars) /\ DOMAIN s = 1..Len(s) /\ Len(s) \in Nat
  BY DEF Names
<1>2. \A c \in Chars : Capital(c) \in Chars
  BY TableAssumption
<1>3. Upper(s) = [i \in 1..Len(s) |-> Capital(s[i])]
  BY <1>1 DEF Upper
<1>4. Upper(s) \in Seq(Chars) /\ Len(Upper(s)) = Len(s)
  BY <1>1, <1>2, <1>3
<1>5. s # <<>> <=> Len(s) # 0
  BY <1>1, EmptySeq
<1>6. Upper(s) = <<>> <=> Len(Upper(s)) = 0
  BY <1>4, EmptySeq
<1> QED
  BY <1>4, <1>5, <1>6 DEF Names

\* What containsWord and the property call a word of its own is the same.
LEMMA AloneIsBounded ==
    ASSUME NEW s \in Names, NEW k \in Names, NEW i \in Occurrences(s, k)
    PROVE  Alone(s, k, i) <=> Bounded(s, k, i)
<1>1. /\ DOMAIN s = 1..Len(s) /\ Len(s) \in Nat /\ Len(k) \in Nat
      /\ i \in 1..(Len(s) - Len(k) + 1)
  BY DEF Occurrences, Names
<1>2. i - 1 \in DOMAIN s <=> i > 1
  BY <1>1
<1>3. i + Len(k) \in DOMAIN s <=> i + Len(k) <= Len(s)
  BY <1>1
<1>4. Script(k) = IF Head(k) \in Ideographs THEN Ideographs ELSE Letters
  BY DEF Script
<1> QED
  BY <1>2, <1>3, <1>4 DEF Alone, Bounded

\* containsWord looks at the first place a keyword is found at: what it takes is a
\* word there, and it takes what is a word wherever it is found.
LEMMA FirstPlace ==
    ASSUME NEW s \in Names, NEW k \in Names
    PROVE  /\ containsWord(s, k) => \E i \in Occurrences(s, k) : Alone(s, k, i)
           /\ Occurrences(s, k) # {} /\ (\A i \in Occurrences(s, k) : Alone(s, k, i)) => containsWord(s, k)
<1>1. Occurrences(s, k) \subseteq Nat
  BY DEF Occurrences, Names
<1>2. Occurrences(s, k) # {} => Min(Occurrences(s, k)) \in Occurrences(s, k)
  BY <1>1, MinFacts
<1> QED
  BY <1>2, AloneIsBounded DEF containsWord, ContainsText

\* forTag on one rule.
HasWord(rule, name) ==
    \E j \in DOMAIN rule.keywords :
        Upper(rule.keywords[j]) # <<>> /\ containsWord(Upper(name), Upper(rule.keywords[j]))

\* forTag stops at a rule only for a keyword that stands alone somewhere, and does not
\* pass one with a keyword that stands alone wherever it is found.
LEMMA RuleHits ==
    ASSUME NEW rule \in Rules, NEW name \in Names
    PROVE  (ClearlyIn(rule, name) => HasWord(rule, name)) /\ (HasWord(rule, name) => WordIn(rule, name))
<1>1. rule.keywords \in Seq(Names)
  BY DEF Rules
<1>2. Upper(name) \in Names
  BY UpperType
<1>3. ASSUME ClearlyIn(rule, name) PROVE HasWord(rule, name)
  <2>1. PICK k \in Range(rule.keywords) \ {<<>>} :
          LET at == Occurrences(Upper(name), Upper(k))
          IN  at # {} /\ \A i \in at : Alone(Upper(name), Upper(k), i)
    BY <1>3 DEF ClearlyIn
  <2>2. PICK j \in DOMAIN rule.keywords : k = rule.keywords[j]
    BY DEF Range
  <2>3. k \in Names /\ k # <<>>
    BY <1>1, <2>2
  <2>4. Upper(k) \in Names /\ Upper(k) # <<>>
    BY <2>3, UpperType
  <2>5. containsWord(Upper(name), Upper(k))
    BY <1>2, <2>1, <2>4, FirstPlace
  <2> QED
    BY <2>2, <2>4, <2>5 DEF HasWord
<1>4. ASSUME HasWord(rule, name) PROVE WordIn(rule, name)
  <2>1. PICK j \in DOMAIN rule.keywords :
          Upper(rule.keywords[j]) # <<>> /\ containsWord(Upper(name), Upper(rule.keywords[j]))
    BY <1>4 DEF HasWord
  <2>2. rule.keywords[j] \in Names /\ rule.keywords[j] \in Range(rule.keywords)
    BY <1>1 DEF Range
  <2>3. Upper(rule.keywords[j]) \in Names /\ rule.keywords[j] # <<>>
    BY <2>1, <2>2, UpperType
  <2>4. \E i \in Occurrences(Upper(name), Upper(rule.keywords[j])) :
          Alone(Upper(name), Upper(rule.keywords[j]), i)
    BY <1>2, <2>1, <2>3, FirstPlace
  <2> QED
    BY <2>2, <2>3, <2>4 DEF WordIn
<1> QED
  BY <1>3, <1>4

\* The rule n of the table, or the end of it, accounts for an emoji of a name.
AccountsFor(table, n, emoji, name) ==
    /\ IF n \in DOMAIN table THEN emoji = table[n].emoji /\ WordIn(table[n], name)
                             ELSE emoji = Unknown
    /\ \A m \in 1..(n - 1) : ~ClearlyIn(table[m], name)

\* What forTag finds is accounted for.
LEMMA ForTagAccounts ==
    ASSUME NEW table \in Seq(Rules), NEW name \in Names
    PROVE  \E n \in 1..(Len(table) + 1) : AccountsFor(table, n, forTag(table, name), name)
<1> DEFINE hits == {i \in DOMAIN table : HasWord(table[i], name)}
<1>1. forTag(table, name) = IF hits = {} THEN Unknown ELSE table[Min(hits)].emoji
  BY DEF forTag, ChooseEmoji, HasWord
<1>2. DOMAIN table = 1..Len(table) /\ Len(table) \in Nat /\ hits \subseteq Nat
  OBVIOUS
<1>3. \A i \in DOMAIN table : /\ ClearlyIn(table[i], name) => i \in hits
                              /\ i \in hits => WordIn(table[i], name)
  BY RuleHits
<1>a. hits \subseteq DOMAIN table
  OBVIOUS
<1> HIDE DEF hits
<1>4. CASE hits = {}
  <2>1. AccountsFor(table, Len(table) + 1, forTag(table, name), name)
    BY <1>1, <1>2, <1>3, <1>4 DEF AccountsFor
  <2> QED
    BY <1>2, <2>1
<1>5. CASE hits # {}
  <2> DEFINE n == Min(hits)
  <2>1. n \in hits /\ \A i \in hits : n <= i
    BY <1>2, <1>5, MinFacts
  <2>2. forTag(table, name) = table[n].emoji
    BY <1>1, <1>5
  <2> HIDE DEF n
  <2>3. n \in DOMAIN table /\ n \in 1..(Len(table) + 1) /\ WordIn(table[n], name)
    BY <1>2, <1>3, <1>a, <2>1
  <2>4. ASSUME NEW m \in 1..(n - 1) PROVE ~ClearlyIn(table[m], name)
    <3>1. m \in DOMAIN table /\ m \notin hits
      BY <1>2, <2>1, <2>3
    <3> QED
      BY <1>3, <3>1
  <2>5. AccountsFor(table, n, forTag(table, name), name)
    BY <2>2, <2>3, <2>4 DEF AccountsFor
  <2> QED
    BY <2>3, <2>5
<1> QED
  BY <1>4, <1>5

\* What stands behind the first of two texts put together is the second.
LEMMA TailOfConcat ==
    ASSUME NEW S, NEW p \in Seq(S), NEW q \in Seq(S), NEW d, d = p \o q
    PROVE  SubSeq(d, Len(p) + 1, Len(d)) = q
<1>1. /\ d \in Seq(S) /\ Len(d) = Len(p) + Len(q) /\ Len(p) \in Nat /\ Len(q) \in Nat
      /\ \A k \in 1..(Len(p) + Len(q)) : d[k] = IF k <= Len(p) THEN p[k] ELSE q[k - Len(p)]
  BY ConcatProperties
<1> DEFINE m == Len(p) + 1
           n == Len(d)
<1>2. m \in Nat \ {0} /\ n \in Nat /\ n <= Len(d) /\ n - m + 1 = Len(q) /\ (m <= n <=> Len(q) # 0)
  BY <1>1
<1>3. \A i \in m..n : d[i] \in S
  BY <1>1
<1>4. \A i \in 1..Len(q) : m + i - 1 \in 1..(Len(p) + Len(q)) /\ d[m + i - 1] = q[i]
  BY <1>1
<1> HIDE DEF m, n
<1>5. /\ SubSeq(d, m, n) \in Seq(S)
      /\ Len(SubSeq(d, m, n)) = IF m <= n THEN n - m + 1 ELSE 0
      /\ \A i \in 1..(n - m + 1) : SubSeq(d, m, n)[i] = d[m + i - 1]
  BY <1>2, <1>3, SubSeqProperties
<1>6. Len(SubSeq(d, m, n)) = Len(q)
  BY <1>2, <1>5
<1>7. \A i \in 1..Len(q) : SubSeq(d, m, n)[i] = q[i]
  BY <1>2, <1>4, <1>5
<1>8. SubSeq(d, m, n) = q
  BY <1>5, <1>6, <1>7, SeqEqual
<1> QED
  BY <1>8 DEF m, n

\* What assignTagEmoji makes of a name: an emoji, a space and the name without emoji.
LEMMA Assigned ==
    ASSUME NEW name \in Names, name # <<>>, NEW table \in Seq(Rules),
           NEW text, text = assignTagEmoji(name, table),
           NEW clean, clean = TrimSpace(removeEmojiRunes(name))
    PROVE  /\ Len(text) >= 2 /\ text[1] = forTag(table, clean) /\ text[2] = Space
           /\ SubSeq(text, 3, Len(text)) = clean
           /\ clean \in Names /\ Range(clean) \cap Emoji = {}
<1>1. removeEmojiRunes(name) \in Seq(Chars \ Emoji)
  <2> DEFINE I == {i \in DOMAIN name : name[i] \notin Emoji}
  <2>1. \A i \in 1..Len(name) : i \in I => name[i] \in Chars \ Emoji
    BY DEF Names
  <2>2. removeEmojiRunes(name) = Select(name, I)
    BY DEF removeEmojiRunes
  <2> HIDE DEF I
  <2> QED
    BY <2>1, <2>2, SelectType DEF Names
<1>2. clean \in Seq(Chars \ Emoji)
  BY <1>1, TrimFacts
<1>3. clean \in Names /\ Range(clean) \cap Emoji = {}
  BY <1>2 DEF Names, Range
<1> DEFINE e == forTag(table, clean)
           front == <<e, Space>>
<1>4. text = front \o clean
  BY DEF assignTagEmoji
<1>5. e \in Chars /\ Space \in Chars
  BY EmojiType, CharsAssumption
<1> HIDE DEF e
<1>6. /\ front \in Seq(Chars) /\ Len(front) = 2 /\ front[1] = e /\ front[2] = Space
  BY <1>5
<1> HIDE DEF front
<1>7. /\ Len(text) = 2 + Len(clean) /\ Len(clean) \in Nat
      /\ text[1] = front[1] /\ text[2] = front[2]
  <2>1. clean \in Seq(Chars) /\ Len(clean) \in Nat
    BY <1>3 DEF Names
  <2>2. /\ Len(front \o clean) = Len(front) + Len(clean)
        /\ \A k \in 1..(Len(front) + Len(clean)) :
             (front \o clean)[k] = IF k <= Len(front) THEN front[k] ELSE clean[k - Len(front)]
    BY <1>6, <2>1, ConcatProperties
  <2>3. \A k \in {1, 2} : k \in 1..(Len(front) + Len(clean)) /\ k <= Len(front)
    BY <1>6, <2>1
  <2> QED
    BY <1>4, <1>6, <2>1, <2>2, <2>3
<1>8. SubSeq(text, 3, Len(text)) = clean
  <2>1. clean \in Seq(Chars)
    BY <1>3 DEF Names
  <2>2. SubSeq(text, Len(front) + 1, Len(text)) = clean
    BY <1>4, <1>6, <2>1, TailOfConcat
  <2>3. Len(front) + 1 = 3
    BY <1>6
  <2> QED
    BY <2>2, <2>3
<1> QED
  BY <1>3, <1>6, <1>7, <1>8 DEF e

\* fetchOne: what is shown behind the prefix is the work of assignTagEmoji.
LEMMA LabelledIsAssigned ==
    ASSUME NamingInv, NEW text \in Labelled
    PROVE  \E name \in Names \ {<<>>} : text = assignTagEmoji(name, newEmojiTable(overrides))
<1> DEFINE table == newEmojiTable(overrides)
<1>1. PICK i \in {j \in DOMAIN fetched : subs[j].emoji = "on"} :
        \E tag \in Range(fetched[i]) \ {<<>>} : text = SubSeq(tag, Len(subs[i].name) + 4, Len(tag))
  BY DEF Labelled
<1>2. PICK tag \in Range(fetched[i]) \ {<<>>} : text = SubSeq(tag, Len(subs[i].name) + 4, Len(tag))
  BY <1>1
<1>3. /\ i \in DOMAIN subs /\ fetched[i] = fetchOne(names[i], subs[i], exclude, overrides)
      /\ subs \in Seq(Subscriptions) /\ names \in Seq(Seq(Names)) /\ i \in DOMAIN names
      /\ overrides \in Seq(Rules) /\ subs[i].emoji = "on"
  BY DEF NamingInv
<1>4. subs[i] \in Subscriptions /\ names[i] \in Seq(Names) /\ table \in Seq(Rules)
  BY <1>3, TableType
<1> HIDE DEF table
<1> DEFINE sub == subs[i]
           given == names[i]
           Shown == {<<>>} \cup {Prefix(sub.name) \o assignTagEmoji(n, table) : n \in Names \ {<<>>}}
           tags == [k \in DOMAIN given |-> NameNode(given[k], sub, overrides)]
<1>5. tags \in Seq(Shown)
  <2> HIDE DEF given, sub
  <2>1. given \in Seq(Names) /\ sub \in Subscriptions /\ sub.emoji = "on"
    BY <1>3, <1>4 DEF given, sub
  <2>2. ASSUME NEW k \in DOMAIN given PROVE NameNode(given[k], sub, overrides) \in Shown
    <3> DEFINE removed == removeKeywords(given[k], sub.remove_keywords)
    <3>1. removed \in Names
      BY <2>1, RemoveType DEF Subscriptions
    <3>2. NameNode(given[k], sub, overrides) = prefixTag(assignTagEmoji(removed, table), sub.name)
      BY <2>1 DEF NameNode, table
    <3> HIDE DEF removed
    <3>3. CASE removed = <<>>
      BY <3>2, <3>3 DEF assignTagEmoji, prefixTag
    <3>4. CASE removed # <<>>
      BY <3>1, <3>2, <3>4 DEF prefixTag
    <3> QED
      BY <3>3, <3>4
  <2> HIDE DEF Shown
  <2> QED
    BY <2>1, <2>2
<1>6. fetched[i] \in Seq(Shown)
  <2>1. fetched[i] = Select(tags, {k \in DOMAIN tags : tags[k] = <<>> \/ ~matchesAny(tags[k], exclude)})
    BY <1>3 DEF fetchOne, dropExcluded
  <2> HIDE DEF tags, Shown
  <2> QED
    BY <1>5, <2>1, SelectName
<1>7. tag \in Shown /\ tag # <<>>
  <2> HIDE DEF Shown
  <2> QED
    BY <1>6 DEF Range
<1>8. PICK name \in Names \ {<<>>} : tag = Prefix(sub.name) \o assignTagEmoji(name, table)
  BY <1>7
<1>9. sub.name \in Names
  BY <1>4 DEF Subscriptions
<1> DEFINE p == Prefix(sub.name)
           q == assignTagEmoji(name, table)
<1>10. p \in Seq(Chars) /\ Len(p) = Len(sub.name) + 3 /\ Len(sub.name) \in Nat
  BY <1>9, PrefixShape
<1>11. q \in Seq(Chars)
  BY <1>4, AssignType DEF Names
<1>12. tag = p \o q
  BY <1>8
<1> HIDE DEF p, q
<1>13. SubSeq(tag, Len(p) + 1, Len(tag)) = q
  BY <1>10, <1>11, <1>12, TailOfConcat
<1>14. Len(p) + 1 = Len(subs[i].name) + 4
  BY <1>10
<1>15. text = q
  BY <1>2, <1>13, <1>14
<1> QED
  BY <1>15 DEF q, table

\* Every name shown with an emoji is accounted for by one that stands in front of it,
\* whatever the alphabet, the rules, the removals and the names: a short code in a
\* longer word does not count unless it stands alone elsewhere (containsWord), and the
\* operator's rules come first.
THEOREM EmojiAlwaysMatchesName == Spec => []EmojiMatchesName
<1>1. NamingInv => EmojiMatchesName
  <2> SUFFICES ASSUME NamingInv, NEW text \in Labelled
               PROVE  LET name == SubSeq(text, 3, Len(text)) IN
                      /\ Len(text) >= 2 /\ text[2] = Space
                      /\ Range(name) \cap Emoji = {}
                      /\ \E n \in 1..(Len(InForce) + 1) : AccountsFor(InForce, n, text[1], name)
    BY DEF EmojiMatchesName, AccountsFor
  <2>1. PICK given \in Names \ {<<>>} : text = assignTagEmoji(given, newEmojiTable(overrides))
    BY LabelledIsAssigned
  <2>2. newEmojiTable(overrides) = InForce
    BY DEF newEmojiTable, InForce
  <2>3. InForce \in Seq(Rules)
    BY <2>2, TableType DEF NamingInv
  <2> DEFINE clean == TrimSpace(removeEmojiRunes(given))
  <2>4. /\ Len(text) >= 2 /\ text[1] = forTag(InForce, clean) /\ text[2] = Space
        /\ SubSeq(text, 3, Len(text)) = clean
        /\ clean \in Names /\ Range(clean) \cap Emoji = {}
    BY <2>1, <2>2, <2>3, Assigned
  <2> HIDE DEF clean
  <2>5. \E n \in 1..(Len(InForce) + 1) : AccountsFor(InForce, n, forTag(InForce, clean), clean)
    BY <2>3, <2>4, ForTagAccounts
  <2> QED
    BY <2>4, <2>5
<1> QED
  BY <1>1, NamingInvariant, PTL

-----------------------------------------------------------------------------
(* Comparison that ignores emoji. *)

\* A name and the same name without its emoji, read side by side: rest is what is
\* left of what was read without emoji, seen what stripEmoji keeps of it, and same
\* what stripEmoji keeps of rest.
Alike(rest, seen, same) ==
    /\ rest = <<>> => seen = <<>> /\ same = <<>>
    /\ same = seen \/ same = <<Space>> \o seen

\* What stripEmoji keeps of a text without emoji and one character more.
LEMMA ComparedMore ==
    ASSUME NEW r \in Seq(Chars), NEW c \in Chars \ Emoji, \A i \in 1..Len(r) : r[i] \notin Emoji,
           NEW more, more = Append(r, c)
    PROVE  Select(more, Compared(more)) =
             IF c # Space \/ r = <<>> \/ r[Len(r)] # Space
               THEN Append(Select(r, Compared(r)), c) ELSE Select(r, Compared(r))
<1>1. /\ more \in Seq(Chars) /\ Len(more) = Len(r) + 1 /\ Len(r) \in Nat
      /\ \A i \in 1..Len(r) : more[i] = r[i]
      /\ more[Len(r) + 1] = c
  OBVIOUS
<1>2. \A i \in 1..Len(r) : r[i] = more[i] /\ (i \in Compared(r) <=> i \in Compared(more))
  <2> SUFFICES ASSUME NEW i \in 1..Len(r)
               PROVE  i \in Compared(r) <=> i \in Compared(more)
    BY <1>1
  <2>1. i \in DOMAIN r /\ i \in DOMAIN more /\ more[i] = r[i]
    BY <1>1
  <2>2. i # 1 => i - 1 \in 1..Len(r) /\ more[i - 1] = r[i - 1]
    BY <1>1
  <2> QED
    BY <2>1, <2>2 DEF Compared
<1> DEFINE A == Compared(r)
           B == Compared(more)
<1>3. Selected(more, B)[Len(r)] = Select(r, A)
  <2>1. Len(r) <= Len(more) /\ \A i \in 1..Len(r) : r[i] = more[i] /\ (i \in A <=> i \in B)
    BY <1>1, <1>2
  <2> HIDE DEF A, B
  <2> QED
    BY <1>1, <2>1, SelectedSame
<1> DEFINE n == Len(r) + 1
<1>4. n \in 1..Len(more) /\ n - 1 = Len(r) /\ Len(more) = n
  BY <1>1
<1>5. n \in Compared(more) <=> c # Space \/ r = <<>> \/ r[Len(r)] # Space
  <2>1. n \in DOMAIN more /\ more[n] = c
    BY <1>1
  <2>2. r = <<>> <=> Len(r) = 0
    BY EmptySeq
  <2>3. n # 1 => n - 1 \in 1..Len(r) /\ more[n - 1] = r[Len(r)] /\ r[Len(r)] \notin Emoji
    BY <1>1
  <2>4. n = 1 <=> r = <<>>
    BY <1>1, <2>2
  <2> HIDE DEF n
  <2> QED
    BY <2>1, <2>3, <2>4 DEF Compared
<1>6. /\ n \in B => Selected(more, B)[n] = Append(Selected(more, B)[n - 1], more[n])
      /\ n \notin B => Selected(more, B)[n] = Selected(more, B)[n - 1]
  <2> HIDE DEF n, A, B
  <2>1. ASSUME NEW list \in Seq(Chars), NEW m \in 1..Len(list)
        PROVE  /\ m \in B => Selected(list, B)[m] = Append(Selected(list, B)[m - 1], list[m])
               /\ m \notin B => Selected(list, B)[m] = Selected(list, B)[m - 1]
    BY SelectedDef
  <2> QED
    BY <1>1, <1>4, <2>1
<1>7. more[n] = c
  BY <1>1
<1> HIDE DEF n
<1> QED
  BY <1>3, <1>4, <1>5, <1>6, <1>7, SelectDef

\* A space at the front stays there when a character is appended.
LEMMA AlikeMore ==
    ASSUME NEW a \in Seq(Chars), NEW b \in Seq(Chars), NEW c \in Chars,
           b = a \/ b = <<Space>> \o a
    PROVE  Append(b, c) = Append(a, c) \/ Append(b, c) = <<Space>> \o Append(a, c)
<1>1. CASE b = a
  BY <1>1
<1>2. CASE b = <<Space>> \o a
  <2>1. <<Space>> \in Seq(Chars)
    BY CharsAssumption
  <2>2. \A x \in Seq(Chars) : Append(x \o a, c) = x \o Append(a, c)
    OBVIOUS
  <2> QED
    BY <1>2, <2>1, <2>2
<1> QED
  BY <1>1, <1>2

\* The last character read, by what has become of it: a space or a character that is
\* no emoji ends what is left, and before an emoji a space does, if anything is left.
Follows(s, n, rest) ==
    n > 0 => IF s[n] \in Emoji THEN rest = <<>> \/ rest[Len(rest)] = Space
                               ELSE rest # <<>> /\ rest[Len(rest)] = s[n]

\* The state of the two after n characters.
Level(s, n) ==
    LET rest == Selected(s, {i \in DOMAIN s : s[i] \notin Emoji})[n]
    IN  /\ Alike(rest, Selected(s, Compared(s))[n], Select(rest, Compared(rest)))
        /\ Follows(s, n, rest)

\* One character more keeps them level, where emoji are set apart.
LEMMA LevelStep ==
    ASSUME NEW s \in Seq(Chars), SetApart(s), NEW m \in 1..Len(s), Level(s, m - 1)
    PROVE  Level(s, m)
<1> DEFINE I == {i \in DOMAIN s : s[i] \notin Emoji}
           A == Compared(s)
           c == s[m]
           rest0 == Selected(s, I)[m - 1]
           rest1 == Selected(s, I)[m]
           seen0 == Selected(s, A)[m - 1]
           seen1 == Selected(s, A)[m]
           same0 == Select(rest0, Compared(rest0))
           same1 == Select(rest1, Compared(rest1))
<1>1. Alike(rest0, seen0, same0) /\ Follows(s, m - 1, rest0)
  BY DEF Level
<1>2. DOMAIN s = 1..Len(s) /\ m \in Nat \ {0} /\ m - 1 \in 0..Len(s) /\ m \in DOMAIN s /\ c \in Chars
  OBVIOUS
<1>3. /\ m \in I => rest1 = Append(rest0, c)
      /\ m \notin I => rest1 = rest0
  <2> HIDE DEF I
  <2> QED
    BY SelectedDef
<1>4. /\ m \in A => seen1 = Append(seen0, c)
      /\ m \notin A => seen1 = seen0
  <2> HIDE DEF A
  <2> QED
    BY SelectedDef
<1>5. rest0 \in Seq(Chars) /\ \A i \in 1..Len(rest0) : rest0[i] \notin Emoji
  <2>1. \A i \in 1..Len(s) : i \in I => s[i] \in Chars \ Emoji
    OBVIOUS
  <2> HIDE DEF I
  <2>2. \A n \in 0..Len(s) : Selected(s, I)[n] \in Seq(Chars \ Emoji)
    BY <2>1, SelectedType
  <2>3. rest0 \in Seq(Chars \ Emoji)
    BY <1>2, <2>2
  <2> HIDE DEF rest0
  <2> QED
    BY <2>3
<1>6. seen0 \in Seq(Chars)
  <2>1. \A i \in 1..Len(s) : i \in A => s[i] \in Chars
    OBVIOUS
  <2> HIDE DEF A
  <2>2. \A n \in 0..Len(s) : Selected(s, A)[n] \in Seq(Chars)
    BY <2>1, SelectedType
  <2> QED
    BY <1>2, <2>2
<1>7. same0 \in Seq(Chars)
  <2> HIDE DEF rest0
  <2> QED
    BY <1>5, SelectName
<1>8. m \in I <=> c \notin Emoji
  BY <1>2
<1>9. m \in A <=> c \notin Emoji /\ (c = Space => m = 1 \/ (s[m - 1] \notin Emoji /\ s[m - 1] # Space))
  BY <1>2 DEF Compared
<1>10. m > 1 /\ c \in Emoji => s[m - 1] \in Emoji \/ s[m - 1] = Space
  BY <1>2 DEF SetApart
<1>11. c \notin Emoji => same1 = IF c # Space \/ rest0 = <<>> \/ rest0[Len(rest0)] # Space
                                   THEN Append(same0, c) ELSE same0
  <2> SUFFICES ASSUME c \notin Emoji
               PROVE  same1 = IF c # Space \/ rest0 = <<>> \/ rest0[Len(rest0)] # Space
                                THEN Append(same0, c) ELSE same0
    OBVIOUS
  <2>1. rest1 = Append(rest0, c) /\ c \in Chars \ Emoji
    BY <1>2, <1>3, <1>8
  <2> HIDE DEF rest0, rest1, c
  <2> QED
    BY <1>5, <2>1, ComparedMore
<1>12. rest0 = <<>> => seen0 = <<>> /\ same0 = <<>>
  BY <1>1 DEF Alike
<1>13. same0 = seen0 \/ same0 = <<Space>> \o seen0
  BY <1>1 DEF Alike
<1>14. m = 1 => rest0 = <<>>
  <2> HIDE DEF I
  <2> QED
    BY SelectedDef
<1>15. m > 1 => IF s[m - 1] \in Emoji THEN rest0 = <<>> \/ rest0[Len(rest0)] = Space
                                      ELSE rest0 # <<>> /\ rest0[Len(rest0)] = s[m - 1]
  BY <1>1, <1>2 DEF Follows
<1>16. SUFFICES Alike(rest1, seen1, same1) /\ Follows(s, m, rest1)
  BY DEF Level
<1> HIDE DEF I, A, c, rest0, rest1, seen0, seen1, same0, same1
<1>17. CASE c \in Emoji
  <2>1. rest1 = rest0 /\ seen1 = seen0
    BY <1>3, <1>4, <1>8, <1>9, <1>17
  <2>2. same1 = same0
    BY <2>1 DEF same0, same1
  <2>3. Alike(rest1, seen1, same1)
    BY <1>1, <2>1, <2>2
  <2>4. rest0 = <<>> \/ rest0[Len(rest0)] = Space
    BY <1>2, <1>10, <1>14, <1>15, <1>17
  <2> QED
    BY <1>17, <2>1, <2>3, <2>4 DEF Follows, c
<1>18. CASE c \notin Emoji
  <2>1. rest1 = Append(rest0, c)
    BY <1>3, <1>8, <1>18
  <2>2. rest1 # <<>> /\ rest1[Len(rest1)] = c
    BY <1>2, <1>5, <2>1
  <2>3. Follows(s, m, rest1)
    BY <1>18, <2>2 DEF Follows, c
  <2>4. CASE c # Space \/ (rest0 # <<>> /\ rest0[Len(rest0)] # Space)
    <3>1. same1 = Append(same0, c)
      BY <1>11, <1>18, <2>4
    <3>2. seen1 = Append(seen0, c)
      BY <1>2, <1>4, <1>9, <1>14, <1>15, <1>18, <2>4
    <3>3. Append(same0, c) = Append(seen0, c) \/ Append(same0, c) = <<Space>> \o Append(seen0, c)
      BY <1>2, <1>6, <1>7, <1>13, AlikeMore
    <3> QED
      BY <2>2, <2>3, <3>1, <3>2, <3>3 DEF Alike
  <2>5. CASE c = Space /\ rest0 = <<>>
    <3>1. same1 = Append(same0, c) /\ same0 = <<>> /\ seen0 = <<>>
      BY <1>11, <1>12, <1>18, <2>5
    <3>2. seen1 = Append(seen0, c) \/ seen1 = seen0
      BY <1>4
    <3>3. Append(<<>>, c) = <<Space>> \o <<>>
      BY <1>2, <2>5
    <3> QED
      BY <2>2, <2>3, <3>1, <3>2, <3>3 DEF Alike
  <2>6. CASE c = Space /\ rest0 # <<>> /\ rest0[Len(rest0)] = Space
    <3>1. same1 = same0
      BY <1>11, <1>18, <2>6
    <3>2. seen1 = seen0
      BY <1>2, <1>4, <1>9, <1>14, <1>15, <1>18, <2>6
    <3> QED
      BY <1>13, <2>2, <2>3, <3>1, <3>2 DEF Alike
  <2> QED
    BY <2>4, <2>5, <2>6
<1> QED
  BY <1>17, <1>18

\* stripEmoji makes the same of a name and of the name without its emoji, where the
\* emoji are set apart.
LEMMA StrippedAlike ==
    ASSUME NEW s \in Seq(Chars), SetApart(s)
    PROVE  stripEmoji(s) = stripEmoji(removeEmojiRunes(s))
<1> DEFINE T == {n \in Nat : n <= Len(s) => Level(s, n)}
           I == {i \in DOMAIN s : s[i] \notin Emoji}
           rest == Select(s, I)
           seen == Select(s, Compared(s))
           same == Select(rest, Compared(rest))
<1>a. Len(s) \in Nat
  OBVIOUS
<1>1. 0 \in T
  <2>1. Selected(s, I)[0] = <<>> /\ Selected(s, Compared(s))[0] = <<>>
    <3> HIDE DEF I
    <3> QED
      BY SelectedDef
  <2>2. Select(<<>>, Compared(<<>>)) = <<>>
    <3> DEFINE J == Compared(<<>>)
    <3> HIDE DEF J
    <3>1. <<>> \in Seq(Chars) /\ Len(<<>>) = 0
      OBVIOUS
    <3>2. Selected(<<>>, J)[0] = <<>>
      BY <3>1, SelectedDef
    <3> QED
      BY <3>1, <3>2, SelectDef DEF J
  <2>3. Level(s, 0)
    BY <2>1, <2>2 DEF Level, Alike, Follows
  <2> QED
    BY <2>3
<1>2. ASSUME NEW n \in Nat, n \in T PROVE n + 1 \in T
  <2> SUFFICES ASSUME n + 1 <= Len(s) PROVE Level(s, n + 1)
    OBVIOUS
  <2>1. Level(s, n)
    BY <1>2, <1>a
  <2>2. PICK m \in Nat : m = n + 1
    OBVIOUS
  <2>3. m \in 1..Len(s) /\ m - 1 = n
    BY <1>a, <2>2
  <2>4. Level(s, m)
    BY <2>1, <2>3, LevelStep
  <2> QED
    BY <2>2, <2>4
<1> HIDE DEF T
<1>3. Len(s) \in T
  BY <1>1, <1>2, <1>a, NaturalInduction
<1>4. Level(s, Len(s))
  BY <1>3, <1>a DEF T
<1>5. Alike(rest, seen, same)
  BY <1>4, SelectDef DEF Level
<1>6. seen \in Seq(Chars)
  BY SelectName
<1>7. stripEmoji(s) = TrimSpace(seen) /\ stripEmoji(removeEmojiRunes(s)) = TrimSpace(same)
  BY DEF stripEmoji, removeEmojiRunes
<1> HIDE DEF rest, seen, same
<1>8. same = seen \/ same = <<Space>> \o seen
  BY <1>5 DEF Alike
<1>9. Space \in Chars
  BY CharsAssumption
<1> QED
  BY <1>6, <1>7, <1>8, <1>9, TrimLeading

\* A name and the same name without its emoji hold the same keywords, where the emoji
\* are set apart from the words: stripEmoji counts an emoji as a space, and so makes
\* the same of both but for a space at the front, which it trims.
THEOREM KeywordsSeePastSetApartEmoji == Spec => []KeywordsSeePastEmoji
<1>1. NamingInv => KeywordsSeePastEmoji
  <2> SUFFICES ASSUME NamingInv, NEW s \in AllNames, SetApart(s),
                      NEW k \in AllTexts, stripEmoji(k) # <<>>
               PROVE  ContainsIgnoreEmoji(s, k) = ContainsIgnoreEmoji(removeEmojiRunes(s), k)
    BY DEF KeywordsSeePastEmoji
  <2>1. names \in Seq(Seq(Names))
    BY DEF NamingInv
  <2>2. s \in Seq(Chars)
    BY <2>1 DEF AllNames, Range, Names
  <2>3. stripEmoji(s) = stripEmoji(removeEmojiRunes(s))
    BY <2>2, StrippedAlike
  <2> QED
    BY <2>3 DEF ContainsIgnoreEmoji
<1> QED
  BY <1>1, NamingInvariant, PTL

=============================================================================
