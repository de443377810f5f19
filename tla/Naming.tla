---------------------------------- MODULE Naming ----------------------------------
(***************************************************************************)
(* What becomes of the names subscriptions give their nodes: keyword       *)
(* removal, region emoji, prefix, exclusion, and the pool of all nodes.    *)
(*                                                                         *)
(* A name is a sequence of characters.  Only what the code asks of one     *)
(* matters: whether it is an emoji, an ASCII letter, an ideograph, a space *)
(* or a bracket, and which letter is its capital.                          *)
(***************************************************************************)
EXTENDS Naturals, SequencesExt, Lists

CONSTANTS
    Chars,                          \* every character
    Emoji, Letters, Ideographs,     \* those IsEmojiRune, ... are true of
    Capital(_),                     \* strings.ToUpper of a character
    Builtin,                        \* builtinEmojiRules
    Unknown                         \* unknownRegionEmoji

Space == " "
Open  == "["
Close == "]"

Names == Seq(Chars)

\* An entry of the emoji table, its emoji one character.
Rules == [emoji : Chars, keywords : Seq(Names)]

ASSUME CharsAssumption == {Space, Open, Close} \subseteq Chars

ASSUME SpaceAssumption == Space \notin Emoji

ASSUME TableAssumption ==
    /\ Emoji \subseteq Chars /\ Unknown \in Chars
    /\ \A c \in Chars : Capital(c) \in Chars
    /\ Builtin \in Seq(Rules)
    /\ \A i \in DOMAIN Builtin : \A j \in DOMAIN Builtin[i].keywords :
         Builtin[i].keywords[j] # <<>>

Upper(s) == [i \in DOMAIN s |-> Capital(s[i])]

TrimSpace(s) ==
    LET kept == {i \in DOMAIN s : s[i] # Space} IN
    IF kept = {} THEN <<>> ELSE SubSeq(s, Min(kept), Max(kept))

\* Where k begins in s.
Occurrences(s, k) ==
    {i \in 1..(Len(s) - Len(k) + 1) : SubSeq(s, i, i + Len(k) - 1) = k}

ContainsText(s, k) == Occurrences(s, k) # {}

-----------------------------------------------------------------------------
(* textutil: comparison that ignores emoji. *)

\* Mutant of Compared: an emoji ends a run of spaces.
Compared_EndsRun(s) ==
    {i \in DOMAIN s : s[i] \notin Emoji /\ (s[i] = Space => i = 1 \/ s[i - 1] # Space)}

\* The positions stripEmoji keeps: no emoji, and no space behind a space or, as
\* that counts as one, an emoji.
Compared(s) ==
    {i \in DOMAIN s : s[i] \notin Emoji /\ (s[i] = Space => i = 1 \/ s[i - 1] \notin Emoji \cup {Space})}

stripEmoji(s) == TrimSpace(Select(s, Compared(s)))

ContainsIgnoreEmoji(s, k) ==
    /\ k # <<>>
    /\ IF stripEmoji(k) = <<>> THEN ContainsText(s, k)
                               ELSE ContainsText(stripEmoji(s), stripEmoji(k))

matchesAny(s, keywords) == \E i \in DOMAIN keywords : ContainsIgnoreEmoji(s, keywords[i])

-----------------------------------------------------------------------------
(* Keyword removal. *)

\* The positions a glob can have reached after one more of its characters.
GlobStep(s, reached, ch) ==
    CASE ch = "*" -> {n \in 1..(Len(s) + 1) : \E m \in reached : m <= n}
      [] ch = "?" -> {n \in 2..(Len(s) + 1) : n - 1 \in reached}
      [] OTHER    -> {n \in 2..(Len(s) + 1) : n - 1 \in reached /\ s[n - 1] = ch}

\* Where a match of the pattern that begins at i ends; i where there is none.
\* A keyword without wildcards is such a pattern too.
MatchEnd(s, pattern, i) ==
    LET ends == FoldLeft(LAMBDA reached, ch : GlobStep(s, reached, ch), {i}, pattern)
    IN  Max(ends \cup {i})

\* All matches from left to right, each as long as it can be, are deleted: what
\* stays is where the last one before it or at it ends.
RemoveMatches(s, pattern) ==
    LET end[i \in 0..Len(s)] ==
          IF i = 0 THEN 1
          ELSE IF i < end[i - 1] THEN end[i - 1]
          ELSE Max({end[i - 1], MatchEnd(s, pattern, i)})
    IN  Select(s, {i \in DOMAIN s : end[i] <= i})

collapseSpaces(s) ==
    TrimSpace(Select(s, {i \in DOMAIN s : s[i] = Space => i = 1 \/ s[i - 1] # Space}))

compileRemovals(keywords) == Select(keywords, {i \in DOMAIN keywords : keywords[i] # <<>>})

\* The name after the first n patterns.
Removed(name, patterns) ==
    LET removed[n \in 0..Len(patterns)] ==
          IF n = 0 THEN name ELSE RemoveMatches(removed[n - 1], patterns[n])
    IN  removed

removeKeywords(name, keywords) ==
    LET patterns == compileRemovals(keywords) IN
    IF patterns = <<>> \/ name = <<>> THEN name
    ELSE collapseSpaces(Removed(name, patterns)[Len(patterns)])

-----------------------------------------------------------------------------
(* Region emoji. *)

removeEmojiRunes(s) == Select(s, {i \in DOMAIN s : s[i] \notin Emoji})

Script(k) == IF Head(k) \in Ideographs THEN Ideographs ELSE Letters

\* k at i is a word of its own: what is next to it is of another script.
Bounded(s, k, i) ==
    /\ i > 1 => s[i - 1] \notin Script(k)
    /\ i + Len(k) <= Len(s) => s[i + Len(k)] \notin Script(k)

\* Mutant of containsWord: what follows is not looked at.
containsWord_LeftOnly(s, k) ==
    /\ ContainsText(s, k)
    /\ LET i == Min(Occurrences(s, k)) IN i > 1 => s[i - 1] \notin Script(k)

\* Only the first occurrence is looked at.
containsWord(s, k) ==
    /\ ContainsText(s, k)
    /\ Bounded(s, k, Min(Occurrences(s, k)))

\* Mutant of newEmojiTable: the operator's entries come last.
newEmojiTable_OverridesLast(rules) == Builtin \o rules

newEmojiTable(rules) == rules \o Builtin

\* The first rule of the table with a keyword in the name.
ChooseEmoji(table, Hit(_)) ==
    LET hits == {i \in DOMAIN table : \E j \in DOMAIN table[i].keywords :
                                          Hit(Upper(table[i].keywords[j]))}
    IN  IF hits = {} THEN Unknown ELSE table[Min(hits)].emoji

forTag(table, name) ==
    LET s == Upper(name) IN
    ChooseEmoji(table, LAMBDA k : k # <<>> /\ containsWord(s, k))

assignTagEmoji(name, table) ==
    LET clean == TrimSpace(removeEmojiRunes(name)) IN
    IF name = <<>> THEN name ELSE <<forTag(table, clean), Space>> \o clean

stripTagEmoji(name) == TrimSpace(removeEmojiRunes(name))

-----------------------------------------------------------------------------
(* The whole of it for one subscription, and the pool. *)

Prefix(sub) == <<Open>> \o sub \o <<Close, Space>>

prefixTag(name, sub) == IF name = <<>> THEN name ELSE Prefix(sub) \o name

NameNode(name, sub, overrides) ==
    LET removed == removeKeywords(name, sub.remove_keywords)
        shown   == CASE sub.emoji = "on"  -> assignTagEmoji(removed, newEmojiTable(overrides))
                     [] sub.emoji = "off" -> stripTagEmoji(removed)
                     [] OTHER             -> removed
    IN  prefixTag(shown, sub.name)

dropExcluded(tags, keywords) ==
    Select(tags, {i \in DOMAIN tags : tags[i] = <<>> \/ ~matchesAny(tags[i], keywords)})

fetchOne(names, sub, exclude, overrides) ==
    dropExcluded([i \in DOMAIN names |-> NameNode(names[i], sub, overrides)], exclude)

belongsTo(tag, name) == IsPrefix(Prefix(name), tag)

\* Mutant of validNames: brackets are accepted.
validNames_AnyCharacter(subs) ==
    /\ \A i \in DOMAIN subs : subs[i].name # <<>>
    /\ \A i, j \in DOMAIN subs : subs[i].name = subs[j].name => i = j

\* What validateSubscriptions asks of names.
validNames(subs) ==
    /\ \A i \in DOMAIN subs : subs[i].name # <<>>
    /\ \A i, j \in DOMAIN subs : subs[i].name = subs[j].name => i = j
    /\ \A i \in DOMAIN subs : {Open, Close} \cap Range(subs[i].name) = {}

\* What validateEmojiOverrides asks of keywords.
validOverrides(rules) ==
    \A i \in DOMAIN rules :
        /\ rules[i].keywords # <<>>
        /\ \A j \in DOMAIN rules[i].keywords : rules[i].keywords[j] # <<>>

-----------------------------------------------------------------------------
(* The subscriptions of a run, named one after another in whatever order   *)
(* their fetches end.                                                      *)

VARIABLES
    subs,           \* name, emoji ("on", "off", "unset") and remove_keywords
    names,          \* what each gives, as it spells them
    exclude, overrides,
    accepted,       \* unknown, or whether the configuration was accepted
    fetched         \* the tags of each that is done

vars == <<subs, names, exclude, overrides, accepted, fetched>>

Subscriptions ==
    [name : Names, emoji : {"on", "off", "unset"}, remove_keywords : Seq(Names)]

Init ==
    /\ subs \in Seq(Subscriptions)
    /\ names \in Seq(Seq(Names)) /\ Len(names) = Len(subs)
    /\ exclude \in Seq(Names) /\ overrides \in Seq(Rules)
    /\ accepted = "unknown" /\ fetched = <<>>

Load ==
    /\ accepted = "unknown"
    /\ accepted' = IF validNames(subs) /\ validOverrides(overrides) THEN "yes" ELSE "no"
    /\ UNCHANGED <<subs, names, exclude, overrides, fetched>>

Fetch(i) ==
    /\ accepted = "yes" /\ i \notin DOMAIN fetched
    /\ fetched' = [j \in DOMAIN fetched \cup {i} |->
                    IF j = i THEN fetchOne(names[i], subs[i], exclude, overrides) ELSE fetched[j]]
    /\ UNCHANGED <<subs, names, exclude, overrides, accepted>>

Done ==
    /\ accepted = "no" \/ DOMAIN fetched = DOMAIN subs
    /\ UNCHANGED vars

Next == Load \/ (\E i \in DOMAIN subs : Fetch(i)) \/ Done

Spec == Init /\ [][Next]_vars

-----------------------------------------------------------------------------

\* A selector takes a node for its own subscription's and for no other's: a tag
\* carries the prefix of the subscription it came from and of that one only,
\* whatever the names and the nodes are called (transform.go:71-73).
AttributionIsExact ==
    \A i \in DOMAIN fetched, j \in DOMAIN subs :
        \A tag \in Range(fetched[i]) \ {<<>>} : belongsTo(tag, subs[j].name) <=> i = j

\* The rules in the order of their precedence: the operator's, then the others.
InForce == overrides \o Builtin

\* The shown names that are to have an emoji, without the prefix.
Labelled ==
    UNION {{SubSeq(tag, Len(subs[i].name) + 4, Len(tag)) : tag \in Range(fetched[i]) \ {<<>>}} :
             i \in {j \in DOMAIN fetched : subs[j].emoji = "on"}}

\* k at i in s stands alone: an ideograph next to it would make another word of
\* ideographs, a letter another word of letters.
Alone(s, k, i) ==
    \A j \in {i - 1, i + Len(k)} \cap DOMAIN s :
        s[j] \notin (IF Head(k) \in Ideographs THEN Ideographs ELSE Letters)

\* A keyword of the rule is in the name, and wherever it is it stands alone.
ClearlyIn(rule, name) ==
    \E k \in Range(rule.keywords) \ {<<>>} :
        LET at == Occurrences(Upper(name), Upper(k))
        IN  at # {} /\ \A i \in at : Alone(Upper(name), Upper(k), i)

\* A keyword of the rule stands alone somewhere in the name.
WordIn(rule, name) ==
    \E k \in Range(rule.keywords) \ {<<>>} :
        \E i \in Occurrences(Upper(name), Upper(k)) : Alone(Upper(name), Upper(k), i)

\* Every name shown with an emoji has it in front and no other one, and it is one
\* that what is shown behind it accounts for: it is the emoji of a rule with a
\* keyword that stands alone there, or the one for unknown regions, and no rule of
\* higher precedence has a keyword there that stands alone wherever it is found
\* (transform.go:93-106, 206-208, 228-238).  It is said of the name that comes out,
\* whatever was removed from it, so an emoji looked for before something else is
\* changed would not do.
EmojiMatchesName ==
    \A text \in Labelled :
        LET name == SubSeq(text, 3, Len(text)) IN
        /\ Len(text) >= 2 /\ text[2] = Space
        /\ Range(name) \cap Emoji = {}
        /\ \E n \in 1..(Len(InForce) + 1) :
             /\ IF n \in DOMAIN InForce THEN text[1] = InForce[n].emoji /\ WordIn(InForce[n], name)
                                         ELSE text[1] = Unknown
             /\ \A m \in 1..(n - 1) : ~ClearlyIn(InForce[m], name)

\* The emoji is that of the first rule with a keyword that stands alone somewhere in
\* the name, as the comment of containsWord has it (transform.go:241).
EmojiIsAlwaysRight ==
    \A text \in Labelled :
        LET hits == {n \in DOMAIN InForce : WordIn(InForce[n], SubSeq(text, 3, Len(text)))}
        IN  text[1] = IF hits = {} THEN Unknown ELSE InForce[Min(hits)].emoji

\* An emoji at the beginning of a name or after a space.
SetApart(s) ==
    \A i \in DOMAIN s : s[i] \in Emoji /\ i > 1 => s[i - 1] \in Emoji \cup {Space}

AllNames == UNION {Range(names[i]) : i \in DOMAIN names}
AllTexts == AllNames \cup Range(exclude)

\* A name and the same name without its emoji hold the same keywords, emoji in
\* the keywords or not, where the emoji are set apart from the words.
KeywordsSeePastEmoji ==
    \A s \in {n \in AllNames : SetApart(n)}, k \in {t \in AllTexts : stripEmoji(t) # <<>>} :
        ContainsIgnoreEmoji(s, k) = ContainsIgnoreEmoji(removeEmojiRunes(s), k)

\* The same for every name, as textutil/match.go:3-8 has it.
KeywordsAlwaysSeePastEmoji ==
    \A s \in AllNames, k \in {t \in AllTexts : stripEmoji(t) # <<>>} :
        ContainsIgnoreEmoji(s, k) = ContainsIgnoreEmoji(removeEmojiRunes(s), k)

=============================================================================
