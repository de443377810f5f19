------------------------------ MODULE Source_proofs ------------------------------
(***************************************************************************)
(* Theorems about the three parts of the sources, for any number of        *)
(* callers, commits, files and entries: what Resolve returns was the       *)
(* branch's head during the call, only an edit between the second hash and *)
(* the copy mislabels a snapshot of a directory, and what an archive is    *)
(* said to hold was written whole and below its destination.               *)
(***************************************************************************)
EXTENDS GitHubResolve, LocalSource, Archive, Library_proofs

-----------------------------------------------------------------------------
(* GitHub.Resolve. *)

\* A pair of ETag and sha as the cache or a request has it.  A server that
\* always sends ETags leaves no sha without one, so that one that answers 304
\* to a request without an ETag does so to an empty cache only.
Pair(tag, sha) ==
    /\ tag \in {Nothing, sha}
    /\ server # "no_etag" => tag = sha

\* A request is made from a pair, and an answer will be stored as one.
Sound(r) ==
    /\ Pair(r.etag, r.cached)
    /\ r.at = "served" /\ r.status = 200 => r.sha \in Commits /\ Pair(r.newTag, r.sha)

\* A caller that asks has no answer yet.
Unanswered(c) == call[c].at # "idle" => answer[c] = Nothing

ResolveInv ==
    /\ TypeOK
    /\ Pair(etag, cachedSHA)
    /\ \A c \in Callers : Sound(call[c]) /\ Unanswered(c)

-----------------------------------------------------------------------------
(* Requests and answers are records of their type. *)

\* Nothing is asked.
LEMMA IdleFields ==
    /\ Idle \in Calls
    /\ Idle.at = "idle" /\ Idle.etag = Nothing /\ Idle.cached = Nothing
BY DEF Idle, Request, Calls, Maybe

\* A request holds what it was made from.
LEMMA AskedFields ==
    ASSUME NEW tag \in Maybe, NEW sha \in Maybe, NEW again \in BOOLEAN
    PROVE  /\ Asked(tag, sha, again) \in Calls
           /\ Asked(tag, sha, again).at = "asked"
           /\ Asked(tag, sha, again).etag = tag
           /\ Asked(tag, sha, again).cached = sha
BY DEF Asked, Request, Calls, Maybe

\* An answer keeps what the request was made from.
LEMMA ServedFields ==
    ASSUME NEW q \in Calls, NEW code \in {200, 304}, NEW sha \in Maybe, NEW tag \in Maybe
    PROVE  /\ Served(q, code, sha, tag) \in Calls
           /\ Served(q, code, sha, tag).at = "served"
           /\ Served(q, code, sha, tag).etag = q.etag
           /\ Served(q, code, sha, tag).cached = q.cached
           /\ Served(q, code, sha, tag).again = q.again
           /\ Served(q, code, sha, tag).status = code
           /\ Served(q, code, sha, tag).sha = sha
           /\ Served(q, code, sha, tag).newTag = tag
BY DEF Served, Calls

\* What fields of a request are.
LEMMA FieldTypes ==
    ASSUME TypeOK, NEW c \in Callers
    PROVE  /\ call[c] \in Calls
           /\ call[c].etag \in Maybe /\ call[c].cached \in Maybe
           /\ call[c].sha \in Maybe /\ call[c].newTag \in Maybe
           /\ call[c].status \in {200, 304}
BY DEF TypeOK, Calls

-----------------------------------------------------------------------------

\* Whichever callers ask and store in whichever order, the cached ETag belongs
\* to the cached sha, and so does every pair in a request or an answer.
THEOREM ResolveInvariant == Spec => []ResolveInv
<1>1. Init => ResolveInv
  BY IdleFields DEF Init, ResolveInv, TypeOK, Pair, Sound, Unanswered, Maybe
<1>2. ResolveInv /\ [Next]_vars => ResolveInv'
  <2> SUFFICES ASSUME ResolveInv, [Next]_vars PROVE ResolveInv'
    OBVIOUS
  <2>0. TypeOK /\ \A c \in Callers : Sound(call[c]) /\ Unanswered(c)
    BY DEF ResolveInv
  <2>1. CASE Push
    BY <2>1 DEF Push, ResolveInv, TypeOK, Pair, Sound, Unanswered
  <2>2. ASSUME NEW c \in Callers, Resolve(c) PROVE ResolveInv'
    <3> DEFINE r == Asked(etag, cachedSHA, FALSE)
    <3>1. r \in Calls /\ r.at = "asked" /\ r.etag = etag /\ r.cached = cachedSHA
      BY <2>0, AskedFields DEF TypeOK
    <3>2. /\ call' \in [Callers -> Calls] /\ call'[c] = r
          /\ \A d \in Callers : d # c => call'[d] = call[d]
      BY <2>0, <2>2, <3>1 DEF Resolve, TypeOK
    <3> HIDE DEF r
    <3> QED
      BY <2>2, <3>1, <3>2 DEF Resolve, ResolveInv, TypeOK, Pair, Sound, Unanswered, Maybe
  <2>3. ASSUME NEW c \in Callers, ServeNotModified(c) PROVE ResolveInv'
    <3> DEFINE r == Served(call[c], 304, Nothing, Nothing)
    <3>1. /\ r \in Calls /\ r.at = "served" /\ r.status = 304
          /\ r.etag = call[c].etag /\ r.cached = call[c].cached
      <4>1. call[c] \in Calls /\ Nothing \in Maybe
        BY <2>0 DEF TypeOK, Maybe
      <4>2. 304 \in {200, 304}
        OBVIOUS
      <4> QED
        BY <4>1, <4>2, ServedFields
    <3>2. /\ call' \in [Callers -> Calls] /\ call'[c] = r
          /\ \A d \in Callers : d # c => call'[d] = call[d]
      BY <2>0, <2>3, <3>1 DEF ServeNotModified, TypeOK
    <3> HIDE DEF r
    <3> QED
      BY <2>3, <3>1, <3>2 DEF ServeNotModified, ResolveInv, TypeOK, Pair, Sound, Unanswered
  <2>4. ASSUME NEW c \in Callers, ServeSha(c) PROVE ResolveInv'
    <3>0. PICK tag \in {head} \cup IF server = "no_etag" THEN {Nothing} ELSE {} :
            call' = [call EXCEPT ![c] = Served(@, 200, head, tag)]
      BY <2>4 DEF ServeSha
    <3> DEFINE r == Served(call[c], 200, head, tag)
    <3>1. /\ r \in Calls /\ r.at = "served" /\ r.status = 200
          /\ r.etag = call[c].etag /\ r.cached = call[c].cached
          /\ r.sha = head /\ r.newTag = tag
      <4>1. call[c] \in Calls /\ head \in Maybe /\ tag \in Maybe
        BY <2>0 DEF TypeOK, Maybe
      <4> QED
        BY <4>1 DEF Served, Calls
    <3>2. /\ call' \in [Callers -> Calls] /\ call'[c] = r
          /\ \A d \in Callers : d # c => call'[d] = call[d]
      BY <2>0, <3>0, <3>1 DEF TypeOK
    <3> HIDE DEF r
    <3> QED
      BY <2>4, <3>0, <3>1, <3>2 DEF ServeSha, ResolveInv, TypeOK, Pair, Sound, Unanswered
  <2>5. ASSUME NEW c \in Callers, NEW sha \in Maybe, Finish(c, sha), Pair(etag, cachedSHA)',
               etag' \in Maybe, cachedSHA' \in Maybe
        PROVE  ResolveInv'
    <3>1. /\ call' \in [Callers -> Calls] /\ call'[c] = Idle
          /\ \A d \in Callers : d # c => call'[d] = call[d]
      BY <2>0, <2>5, IdleFields DEF Finish, TypeOK
    <3> QED
      BY <2>5, <3>1, IdleFields DEF Finish, ResolveInv, TypeOK, Pair, Sound, Unanswered
  <2>6. ASSUME NEW c \in Callers, Fails(c) PROVE ResolveInv'
    BY <2>5, <2>6 DEF Fails, Finish, ResolveInv, Pair, TypeOK, Maybe
  <2>7. ASSUME NEW c \in Callers, ReceiveSha(c) PROVE ResolveInv'
    <3>1. /\ Finish(c, call[c].sha) /\ call[c].sha \in Maybe
          /\ etag' \in Maybe /\ cachedSHA' \in Maybe
      BY <2>0, <2>7, FieldTypes DEF ReceiveSha
    <3>2. Pair(etag, cachedSHA)'
      BY <2>0, <2>7 DEF ReceiveSha, Finish, Sound, Pair
    <3> QED
      BY <2>5, <3>1, <3>2
  <2>8. ASSUME NEW c \in Callers, ReceiveNotModified(c) PROVE ResolveInv'
    <3>1. Finish(c, call[c].cached) /\ call[c].cached \in Maybe
      BY <2>0, <2>8, FieldTypes DEF ReceiveNotModified
    <3>2. Pair(etag, cachedSHA)' /\ etag' \in Maybe /\ cachedSHA' \in Maybe
      BY <2>8 DEF ReceiveNotModified, Finish, ResolveInv, Pair, TypeOK
    <3> QED
      BY <2>5, <3>1, <3>2
  <2>9. ASSUME NEW c \in Callers, ResolveUnconditional(c) PROVE ResolveInv'
    <3>1. CASE call[c].again
      BY <2>5, <2>9, <3>1 DEF ResolveUnconditional, Finish, ResolveInv, Pair, TypeOK, Maybe
    <3>2. CASE ~call[c].again
      <4> DEFINE r == Asked(Nothing, Nothing, TRUE)
      <4>1. r \in Calls /\ r.at = "asked" /\ r.etag = Nothing /\ r.cached = Nothing
        BY AskedFields DEF Maybe
      <4>2. /\ call' = [call EXCEPT ![c] = r] /\ call[c].at = "served"
            /\ UNCHANGED <<head, etag, cachedSHA, answer, server>>
        BY <2>9, <3>2 DEF ResolveUnconditional
      <4> HIDE DEF r
      <4>3. /\ call' \in [Callers -> Calls] /\ call'[c] = r
            /\ \A d \in Callers : d # c => call'[d] = call[d]
        BY <2>0, <4>1, <4>2 DEF TypeOK
      <4> QED
        BY <4>1, <4>2, <4>3 DEF ResolveInv, TypeOK, Pair, Sound, Unanswered
    <3> QED
      BY <3>1, <3>2
  <2>10. CASE UNCHANGED vars
    BY <2>10 DEF vars, ResolveInv, TypeOK, Pair, Sound, Unanswered
  <2> QED
    BY <2>1, <2>2, <2>3, <2>4, <2>6, <2>7, <2>8, <2>9, <2>10 DEF Next, Answer
<1> QED
  BY <1>1, <1>2, PTL DEF Spec

\* The cached ETag is the cached sha's, whichever answer was stored last.
THEOREM CacheAlwaysPaired == Spec => []CachePaired
<1>1. ResolveInv => CachePaired
  BY DEF ResolveInv, CachePaired, Sound, Pair
<1> QED
  BY <1>1, ResolveInvariant, PTL

-----------------------------------------------------------------------------
(* Resolve implements a reader of the branch: every step is a step of      *)
(* Register or leaves it as it is.                                         *)

\* Where a caller's request stays, so does the reader it stands for.
LEMMA OthersStay ==
    ASSUME NEW d \in Callers, call'[d] = call[d]
    PROVE  Has(d)' = Has(d) /\ Reading'[d] = Reading[d] /\ Held'[d] = Held[d]
<1>1. Has(d)' = Has(d)
  BY DEF Has
<1> QED
  BY <1>1 DEF Reading, Held

\* The two functions of the mapping, after a step of one caller.
LEMMA OneReader ==
    ASSUME NEW c \in Callers, \A d \in Callers : d # c => call'[d] = call[d]
    PROVE  /\ Reading' = [Reading EXCEPT ![c] = Reading'[c]]
           /\ Held' = [Held EXCEPT ![c] = Held'[c]]
           /\ Reading'[c] = Reading[c] => Reading' = Reading
           /\ Held'[c] = Held[c] => Held' = Held
<1>1. \A d \in Callers : d # c => Reading'[d] = Reading[d] /\ Held'[d] = Held[d]
  BY OthersStay
<1>2. Reading' = [d \in Callers |-> Reading'[d]] /\ Held' = [d \in Callers |-> Held'[d]]
  BY DEF Reading, Held
<1>3. Reading = [d \in Callers |-> Reading[d]] /\ Held = [d \in Callers |-> Held[d]]
  BY DEF Reading, Held
<1> HIDE DEF Reading, Held
<1> QED
  BY <1>1, <1>2, <1>3

\* A call that begins is a reader that has begun.
LEMMA OpenStep ==
    ASSUME ResolveInv, NEW c \in Callers, Resolve(c)
    PROVE  Read!Open(c)
<1>1. Asked(etag, cachedSHA, FALSE) \in Calls /\ Asked(etag, cachedSHA, FALSE).at = "asked"
  BY AskedFields DEF ResolveInv, TypeOK
<1>2. call'[c].at = "asked" /\ \A d \in Callers : d # c => call'[d] = call[d]
  BY <1>1 DEF Resolve, ResolveInv, TypeOK
<1>3. Reading[c] = "idle" /\ Reading'[c] = "open" /\ Held'[c] = Held[c]
  BY <1>2 DEF Resolve, Reading, Held, Has
<1>4. Reading' = [Reading EXCEPT ![c] = "open"] /\ Held' = Held
  BY <1>2, <1>3, OneReader
<1> QED
  BY <1>3, <1>4 DEF Resolve, Read!Open

\* The instant at which a request is served is the one at which it reads.
LEMMA TakeStep ==
    ASSUME ResolveInv, NEW c \in Callers, ServeNotModified(c) \/ ServeSha(c)
    PROVE  Read!Take(c) \/ UNCHANGED Read!rvars
<1>0. TypeOK /\ call[c] \in Calls /\ call[c].at = "asked" /\ Sound(call[c]) /\ head \in Maybe
  BY FieldTypes DEF ResolveInv, ServeNotModified, ServeSha, TypeOK, Maybe
<1>1. Reading[c] = "open" /\ Held[c] = Nothing
  BY <1>0 DEF Reading, Held, Has
<1>2. CASE ServeSha(c)
  <2>0. PICK tag \in {head} \cup IF server = "no_etag" THEN {Nothing} ELSE {} :
          call' = [call EXCEPT ![c] = Served(@, 200, head, tag)]
    BY <1>2 DEF ServeSha
  <2>1. /\ Served(call[c], 200, head, tag) \in Calls
        /\ Served(call[c], 200, head, tag).at = "served"
        /\ Served(call[c], 200, head, tag).status = 200
        /\ Served(call[c], 200, head, tag).sha = head
    BY <1>0, ServedFields DEF Maybe
  <2>2. /\ call'[c].at = "served" /\ call'[c].status = 200 /\ call'[c].sha = head
        /\ \A d \in Callers : d # c => call'[d] = call[d]
    BY <1>0, <2>0, <2>1 DEF TypeOK
  <2>3. Reading'[c] = "has" /\ Held'[c] = head
    BY <2>2 DEF Reading, Held, Has
  <2>4. Reading' = [Reading EXCEPT ![c] = "has"] /\ Held' = [Held EXCEPT ![c] = head]
    BY <2>2, <2>3, OneReader
  <2> QED
    BY <1>1, <1>2, <2>4 DEF ServeSha, Read!Take
<1>3. CASE ServeNotModified(c)
  <2>1. /\ Served(call[c], 304, Nothing, Nothing) \in Calls
        /\ Served(call[c], 304, Nothing, Nothing).at = "served"
        /\ Served(call[c], 304, Nothing, Nothing).status = 304
        /\ Served(call[c], 304, Nothing, Nothing).cached = call[c].cached
    <3>1. call[c] \in Calls /\ Nothing \in Maybe
      BY <1>0 DEF Maybe
    <3> QED
      BY <3>1 DEF Served, Calls
  <2>2. /\ call'[c].at = "served" /\ call'[c].status = 304 /\ call'[c].cached = call[c].cached
        /\ \A d \in Callers : d # c => call'[d] = call[d]
    BY <1>0, <1>3, <2>1 DEF ServeNotModified, TypeOK
  <2>3. CASE Has(c)'
    <3>1. call[c].cached # Nothing
      BY <2>2, <2>3 DEF Has
    <3>2. call[c].etag = head
      BY <1>0, <1>3, <3>1 DEF ServeNotModified, Sound, Pair
    <3>3. call[c].cached = head
      BY <1>0, <3>2, GitHubAssumption DEF Sound, Pair, TypeOK, GitHubAssumption
    <3>4. Reading'[c] = "has" /\ Held'[c] = head
      BY <2>2, <2>3, <3>3 DEF Reading, Held
    <3>5. Reading' = [Reading EXCEPT ![c] = "has"] /\ Held' = [Held EXCEPT ![c] = head]
      BY <2>2, <3>4, OneReader
    <3> QED
      BY <1>1, <1>3, <3>5 DEF ServeNotModified, Read!Take
  <2>4. CASE ~Has(c)'
    <3>1. Reading'[c] = Reading[c] /\ Held'[c] = Held[c]
      BY <1>1, <2>2, <2>4 DEF Reading, Held
    <3>2. Reading' = Reading /\ Held' = Held
      BY <2>2, <3>1, OneReader
    <3> QED
      BY <1>3, <3>2 DEF ServeNotModified, Read!rvars
  <2> QED
    BY <2>3, <2>4
<1> QED
  BY <1>2, <1>3

\* After Finish the caller is an idle reader with nothing in hand.
LEMMA FinishStep ==
    ASSUME ResolveInv, NEW c \in Callers, NEW sha, Finish(c, sha)
    PROVE  Reading' = [Reading EXCEPT ![c] = "idle"] /\ Held' = [Held EXCEPT ![c] = Nothing]
<1>1. call'[c].at = "idle" /\ \A d \in Callers : d # c => call'[d] = call[d]
  BY IdleFields DEF Finish, ResolveInv, TypeOK
<1>2. Reading'[c] = "idle" /\ Held'[c] = Nothing
  BY <1>1 DEF Reading, Held, Has
<1> QED
  BY <1>1, <1>2, OneReader

\* A call that returns a sha gives what it has read.
LEMMA GiveStep ==
    ASSUME ResolveInv, NEW c \in Callers, ReceiveSha(c) \/ ReceiveNotModified(c)
    PROVE  Read!Give(c)
<1>1. Has(c) /\ Reading[c] = "has"
  BY DEF ReceiveSha, ReceiveNotModified, Reading, Has
<1>2. Finish(c, Held[c])
  BY <1>1 DEF ReceiveSha, ReceiveNotModified, Held
<1>3. Reading' = [Reading EXCEPT ![c] = "idle"] /\ Held' = [Held EXCEPT ![c] = Nothing]
  BY <1>2, FinishStep
<1> QED
  BY <1>1, <1>2, <1>3 DEF Finish, Read!Give

\* A call that returns an error has read nothing and gives nothing.
LEMMA FailStep ==
    ASSUME ResolveInv, NEW c \in Callers,
           Fails(c) \/ (ResolveUnconditional(c) /\ call[c].again)
    PROVE  Read!Fail(c)
<1>1. Finish(c, Nothing)
  BY DEF Fails, ResolveUnconditional
<1>2. call[c].at # "idle" /\ ~Has(c)
  <2>1. CASE Fails(c)
    BY <2>1 DEF Fails, Has
  <2>2. CASE ResolveUnconditional(c) /\ call[c].again
    <3>1. call[c].at = "served" /\ call[c].status = 304
      BY <2>2 DEF ResolveUnconditional
    <3> QED
      BY <2>2, <3>1 DEF Has
  <2> QED
    BY <2>1, <2>2
<1>3. Reading[c] = "open" /\ Held[c] = Nothing
  BY <1>2 DEF Reading, Held
<1>4. Reading' = [Reading EXCEPT ![c] = "idle"] /\ Held' = Held
  <2>1. Reading' = [Reading EXCEPT ![c] = "idle"] /\ Held' = [Held EXCEPT ![c] = Nothing]
    BY <1>1, FinishStep
  <2>2. Held = [d \in Callers |-> Held[d]]
    BY DEF Held
  <2>3. [Held EXCEPT ![c] = Nothing] = Held
    <3> HIDE DEF Held
    <3> QED
      BY <1>3, <2>2
  <2> QED
    BY <2>1, <2>3
<1>5. answer' = answer
  BY <1>1, <1>2 DEF Finish, ResolveInv, Unanswered, TypeOK
<1> QED
  BY <1>1, <1>3, <1>4, <1>5 DEF Finish, Read!Fail

\* A second request is still the same call.
LEMMA AgainStep ==
    ASSUME ResolveInv, NEW c \in Callers, ResolveUnconditional(c), ~call[c].again
    PROVE  UNCHANGED Read!rvars
<1>1. Asked(Nothing, Nothing, TRUE) \in Calls /\ Asked(Nothing, Nothing, TRUE).at = "asked"
  BY AskedFields DEF Maybe
<1>2. call'[c].at = "asked" /\ \A d \in Callers : d # c => call'[d] = call[d]
  <2>1. call' = [call EXCEPT ![c] = Asked(Nothing, Nothing, TRUE)]
    BY DEF ResolveUnconditional
  <2> QED
    BY <1>1, <2>1 DEF ResolveInv, TypeOK
<1>3. Reading'[c] = Reading[c] /\ Held'[c] = Held[c]
  BY <1>2 DEF ResolveUnconditional, Reading, Held, Has
<1>4. Reading' = Reading /\ Held' = Held
  BY <1>2, <1>3, OneReader
<1> QED
  BY <1>4 DEF ResolveUnconditional, Read!rvars

\* What Resolve returns was the head of the branch at an instant of the call,
\* for any number of callers and however the branch moves.
THEOREM AlwaysReadsBranch == Spec => ReadsBranch
<1>1. Init => Read!Init
  BY IdleFields DEF Init, Read!Init, Reading, Held, Has
<1>2. ResolveInv /\ [Next]_vars => [Read!Next]_Read!rvars
  <2> SUFFICES ASSUME ResolveInv, [Next]_vars PROVE [Read!Next]_Read!rvars
    OBVIOUS
  <2>1. CASE Push
    <3>1. Reading' = Reading /\ Held' = Held
      BY <2>1 DEF Push, Reading, Held, Has
    <3>2. Read!Write
      BY <2>1, <3>1 DEF Push, Read!Write
    <3> QED
      BY <3>2 DEF Read!Next
  <2>2. ASSUME NEW c \in Callers, Resolve(c) PROVE Read!Next
    BY <2>2, OpenStep DEF Read!Next
  <2>3. ASSUME NEW c \in Callers, Answer(c) PROVE [Read!Next]_Read!rvars
    <3>1. CASE ServeNotModified(c) \/ ServeSha(c)
      BY <3>1, TakeStep DEF Read!Next
    <3>2. CASE ReceiveSha(c) \/ ReceiveNotModified(c)
      BY <3>2, GiveStep DEF Read!Next
    <3>3. CASE Fails(c) \/ (ResolveUnconditional(c) /\ call[c].again)
      BY <3>3, FailStep DEF Read!Next
    <3>4. CASE ResolveUnconditional(c) /\ ~call[c].again
      BY <3>4, AgainStep
    <3> QED
      BY <2>3, <3>1, <3>2, <3>3, <3>4 DEF Answer
  <2>4. CASE UNCHANGED vars
    <3>1. Reading' = Reading /\ Held' = Held
      BY <2>4 DEF vars, Reading, Held, Has
    <3> QED
      BY <2>4, <3>1 DEF vars, Read!rvars
  <2> QED
    BY <2>1, <2>2, <2>3, <2>4 DEF Next
<1> QED
  BY <1>1, <1>2, ResolveInvariant, PTL DEF Spec, ReadsBranch, Read!Spec

-----------------------------------------------------------------------------
(* The local source. *)

\* What the walk has read is what the directory holds.
ReadsDir == \A i \in DOMAIN seen : seen[i] = Hash(dir)[i]

\* A walk is never longer than the directory's order.
WalkOK == seen \in Seq(0..Versions) /\ Len(seen) <= Len(Order)

\* Unless the directory was edited since, a fetch under way has read what it
\* holds, and copies what the ref says.
FetchOK ==
    /\ pc \in {"checking", "copying"} /\ ~edited => ReadsDir
    /\ pc = "copying" /\ ~edited => ref = Hash(dir)

LocalInv ==
    /\ dir \in [AllPaths -> 0..Versions]
    /\ edited \in BOOLEAN
    /\ WalkOK /\ FetchOK
    /\ OnlyRacesMislabel

-----------------------------------------------------------------------------

\* A walk that has read the whole of an unedited directory has its hash.
LEMMA WholeWalk ==
    ASSUME WalkOK, Walked, ReadsDir
    PROVE  seen = Hash(dir)
<1>1. DOMAIN seen = DOMAIN Order
  BY LocalAssumption DEF WalkOK, Walked, LocalAssumption
<1>2. seen = [i \in DOMAIN seen |-> seen[i]]
  BY DEF WalkOK
<1>3. Hash(dir) = [i \in DOMAIN Order |-> Hash(dir)[i]]
  BY DEF Hash
<1> HIDE DEF Hash
<1> QED
  BY <1>1, <1>2, <1>3 DEF ReadsDir

\* A walk that begins has read nothing wrong.
LEMMA BeginsSound ==
    ASSUME NEW step, Begin(step)
    PROVE  WalkOK' /\ ReadsDir'
<1>1. Len(seen') = 0 /\ seen' \in Seq(0..Versions) /\ DOMAIN seen' = {}
  BY DEF Begin
<1>2. Len(Order) \in Nat
  BY LocalAssumption DEF LocalAssumption
<1> QED
  BY <1>1, <1>2 DEF WalkOK, ReadsDir

\* Acquire begins the check, or finds the snapshot and does nothing.
LEMMA AcquirePreserves ==
    ASSUME LocalInv, NEW r, Acquire(r)
    PROVE  LocalInv'
<1>1. PICK step \in {"idle", "checking"} : Begin(step)
  BY DEF Acquire
<1>2. WalkOK' /\ ReadsDir' /\ pc' # "copying"
  BY <1>1, BeginsSound DEF Begin
<1> QED
  BY <1>2 DEF Acquire, LocalInv, FetchOK, OnlyRacesMislabel

\* However edits and fetches interleave, an unedited fetch reads one directory.
THEOREM LocalInvariant == LSpec => []LocalInv
<1>1. LInit => LocalInv
  <2> SUFFICES ASSUME LInit PROVE LocalInv
    OBVIOUS
  <2>1. Len(seen) = 0 /\ seen \in Seq(0..Versions) /\ Len(Order) \in Nat
    BY LocalAssumption DEF LInit, LocalAssumption
  <2>2. WalkOK
    BY <2>1 DEF WalkOK
  <2>3. FetchOK /\ OnlyRacesMislabel
    BY DEF LInit, FetchOK, OnlyRacesMislabel
  <2> QED
    BY <2>2, <2>3 DEF LInit, LocalInv
<1>2. LocalInv /\ [LNext]_lvars => LocalInv'
  <2> SUFFICES ASSUME LocalInv, [LNext]_lvars PROVE LocalInv'
    OBVIOUS
  <2>1. CASE Edit
    <3>1. dir' \in [AllPaths -> 0..Versions]
      BY <2>1 DEF Edit, LocalInv
    <3>2. UNCHANGED <<pc, seen, ref, store>> /\ (edited' <=> pc \in {"checking", "copying"})
      BY <2>1 DEF Edit
    <3>3. edited' \in BOOLEAN
      BY <2>1 DEF Edit
    <3>4. WalkOK' /\ OnlyRacesMislabel'
      BY <3>2 DEF LocalInv, WalkOK, OnlyRacesMislabel
    <3>5. FetchOK'
      BY <3>2 DEF FetchOK
    <3> QED
      BY <3>1, <3>3, <3>4, <3>5 DEF LocalInv
  <2>2. CASE ResolveBegin
    <3>1. WalkOK'
      BY <2>2, BeginsSound DEF ResolveBegin
    <3> QED
      BY <2>2, <3>1 DEF ResolveBegin, Begin, LocalInv, FetchOK, OnlyRacesMislabel
  <2>3. CASE Resolved \/ AcquireExplicit
    BY <2>3, AcquirePreserves DEF Resolved, AcquireExplicit
  <2>4. CASE Visit
    <3> DEFINE n == Len(seen) + 1
               f == Order[n]
               v == IF f \in Skipped THEN 0 ELSE dir[f]
    <3>1. n \in DOMAIN Order
      BY <2>4, LocalAssumption DEF Visit, Walked, LocalInv, WalkOK, LocalAssumption
    <3>2. v \in 0..Versions /\ Hash(dir)[n] = v
      BY <3>1, LocalAssumption DEF LocalInv, Hash, AllPaths, LocalAssumption
    <3>3. seen' = Append(seen, v) /\ UNCHANGED <<dir, pc, ref, edited, store>>
      BY <2>4 DEF Visit
    <3> HIDE DEF v
    <3>4. WalkOK'
      BY <3>1, <3>2, <3>3, LocalAssumption DEF LocalInv, WalkOK, LocalAssumption
    <3>5. ReadsDir => ReadsDir'
      <4>1. Hash(dir)' = Hash(dir)
        BY <3>3 DEF Hash
      <4>2. \A i \in DOMAIN seen' : seen'[i] = IF i = n THEN v ELSE seen[i]
        BY <3>2, <3>3 DEF LocalInv, WalkOK
      <4>3. \A i \in DOMAIN seen' : i # n => i \in DOMAIN seen
        BY <3>2, <3>3 DEF LocalInv, WalkOK
      <4> HIDE DEF n
      <4> QED
        BY <3>2, <4>1, <4>2, <4>3 DEF ReadsDir
    <3> QED
      BY <3>3, <3>4, <3>5 DEF LocalInv, FetchOK, OnlyRacesMislabel
  <2>5. CASE VisitFails
    <3>1. WalkOK'
      BY <2>5, BeginsSound DEF VisitFails
    <3> QED
      BY <2>5, <3>1 DEF VisitFails, Begin, LocalInv, FetchOK, OnlyRacesMislabel
  <2>6. CASE Checked
    <3>1. CASE seen = ref
      <4>1. Begin("copying") /\ Walked /\ pc = "checking" /\ UNCHANGED <<dir, ref, edited, store>>
        BY <2>6, <3>1 DEF Checked
      <4>2. WalkOK' /\ ReadsDir'
        BY <4>1, BeginsSound
      <4>3. ~edited => ref = Hash(dir)
        BY <3>1, <4>1, WholeWalk DEF LocalInv, FetchOK
      <4>4. Hash(dir)' = Hash(dir)
        BY <4>1 DEF Hash
      <4> QED
        BY <4>1, <4>2, <4>3, <4>4 DEF LocalInv, FetchOK, OnlyRacesMislabel
    <3>2. CASE seen # ref
      <4>1. Begin("idle") /\ UNCHANGED <<dir, ref, edited, store>>
        BY <2>6, <3>2 DEF Checked
      <4>2. WalkOK' /\ pc' = "idle"
        BY <4>1, BeginsSound DEF Begin
      <4> QED
        BY <4>1, <4>2 DEF LocalInv, FetchOK, OnlyRacesMislabel
    <3> QED
      BY <3>1, <3>2
  <2>7. CASE Copied
    <3>1. Begin("idle") /\ Walked /\ pc = "copying" /\ UNCHANGED <<dir, ref, edited>>
      BY <2>7 DEF Copied
    <3>2. WalkOK' /\ pc' = "idle"
      BY <3>1, BeginsSound DEF Begin
    <3>3. ~edited => seen = ref
      BY <3>1, WholeWalk DEF LocalInv, FetchOK
    <3>4. OnlyRacesMislabel'
      <4> DEFINE made == [ref |-> ref, content |-> seen, edited |-> edited]
      <4>1. made.content # made.ref => made.edited
        BY <3>3 DEF LocalInv
      <4>2. store' = store \cup {made}
        BY <2>7 DEF Copied
      <4> HIDE DEF made
      <4> QED
        BY <4>1, <4>2 DEF LocalInv, OnlyRacesMislabel
    <3> QED
      BY <3>1, <3>2, <3>4 DEF LocalInv, FetchOK
  <2>8. CASE UNCHANGED lvars
    <3>1. Hash(dir)' = Hash(dir)
      BY <2>8 DEF lvars, Hash
    <3> QED
      BY <2>8, <3>1 DEF lvars, LocalInv, WalkOK, FetchOK, ReadsDir, OnlyRacesMislabel
  <2> QED
    BY <2>1, <2>2, <2>3, <2>4, <2>5, <2>6, <2>7, <2>8 DEF LNext
<1> QED
  BY <1>1, <1>2, PTL DEF LSpec

\* A snapshot holds another content than its name says only if the directory
\* was edited while it was made.
THEOREM MislabelledByRacesOnly == LSpec => []OnlyRacesMislabel
<1>1. LocalInv => OnlyRacesMislabel
  BY DEF LocalInv
<1> QED
  BY <1>1, LocalInvariant, PTL

-----------------------------------------------------------------------------
(* extractTarGz. *)

\* Until something is refused every file has been let through whole, and the
\* bytes of all of them are within the limit.
ArchiveInv ==
    extracting # "refused" =>
        /\ written = sizes
        /\ totalBytes \in 0..MaxArchiveBytes

-----------------------------------------------------------------------------

\* A file that does not exceed what is left is let through whole: the byte more
\* that the reader is given is what tells it from one that does.
LEMMA LimitWhole ==
    ASSUME totalBytes \in 0..MaxArchiveBytes, NEW size \in Nat,
           totalBytes + Limit(size) <= MaxArchiveBytes
    PROVE  Limit(size) = size
BY ArchiveAssumption DEF Limit, ArchiveAssumption

\* What is let through is a number of bytes.
LEMMA LimitType ==
    ASSUME totalBytes \in 0..MaxArchiveBytes, NEW size \in Nat
    PROVE  Limit(size) \in Nat
BY ArchiveAssumption DEF Limit, ArchiveAssumption

\* In whichever order files, directories and refusals come, nothing is short.
THEOREM ArchiveInvariant == ASpec => []ArchiveInv
<1>1. AInit => ArchiveInv
  BY ArchiveAssumption DEF AInit, ArchiveInv, ArchiveAssumption
<1>2. ArchiveInv /\ [ANext]_avars => ArchiveInv'
  <2> SUFFICES ASSUME ArchiveInv, [ANext]_avars PROVE ArchiveInv'
    OBVIOUS
  <2>1. CASE Skip
    BY <2>1 DEF Skip, ArchiveInv
  <2>2. ASSUME NEW name \in Names, EntryEscapes(name) PROVE ArchiveInv'
    BY <2>2 DEF EntryEscapes, Refuse, ArchiveInv
  <2>3. ASSUME NEW name \in Names, Directory(name) PROVE ArchiveInv'
    <3>1. \/ extracting' = "refused"
          \/ UNCHANGED <<extracting, totalBytes, written, sizes>>
      BY <2>3 DEF Directory, Refuse
    <3> QED
      BY <3>1 DEF ArchiveInv
  <2>4. ASSUME NEW name \in Names, NEW size \in 0..(MaxArchiveBytes + 1), File(name, size)
        PROVE  ArchiveInv'
    <3> DEFINE target == Clean(stripRoot(name))
    <3>1. extracting = "running" /\ size \in Nat
      BY <2>4, ArchiveAssumption DEF File, Entry, ArchiveAssumption
    <3>2. written = sizes /\ totalBytes \in 0..MaxArchiveBytes
      BY <3>1 DEF ArchiveInv
    <3>3. \/ extracting' = "refused"
          \/ /\ written' = Put(written, target, Limit(size))
             /\ sizes' = Put(sizes, target, size)
             /\ totalBytes' = totalBytes + Limit(size)
             /\ extracting' = IF totalBytes' > MaxArchiveBytes THEN "refused" ELSE "running"
      BY <2>4 DEF File, Refuse
    <3> HIDE DEF target
    <3>4. CASE extracting' = "refused"
      BY <3>4 DEF ArchiveInv
    <3>5. CASE extracting' # "refused"
      <4>1. totalBytes' = totalBytes + Limit(size) /\ Limit(size) \in Nat
        BY <3>1, <3>2, <3>3, <3>5, LimitType
      <4>2. totalBytes' \in 0..MaxArchiveBytes
        BY <3>2, <3>3, <3>5, <4>1, ArchiveAssumption DEF ArchiveAssumption
      <4>3. Limit(size) = size
        BY <3>1, <3>2, <4>1, <4>2, LimitWhole
      <4> QED
        BY <3>2, <3>3, <3>5, <4>2, <4>3 DEF ArchiveInv
    <3> QED
      BY <3>4, <3>5
  <2>5. CASE EndOfArchive
    BY <2>5 DEF EndOfArchive, ArchiveInv
  <2>6. CASE UNCHANGED avars
    BY <2>6 DEF avars, ArchiveInv
  <2> QED
    BY <2>1, <2>2, <2>3, <2>4, <2>5, <2>6 DEF ANext
<1> QED
  BY <1>1, <1>2, PTL DEF ASpec

\* An extraction that succeeds has written every file whole, the one that fills
\* the limit to the byte included.
THEOREM AlwaysWholeOrRefused == ASpec => []WholeOrRefused
<1>1. ArchiveInv => WholeOrRefused
  BY DEF ArchiveInv, WholeOrRefused
<1> QED
  BY <1>1, ArchiveInvariant, PTL

-----------------------------------------------------------------------------

\* The names an archive may have are paths.
LEMMA NamesType == Names \subseteq Seq(Parts)
<1> SUFFICES ASSUME NEW n \in 1..MaxDepth, NEW name \in [1..n -> Parts] PROVE name \in Seq(Parts)
  BY DEF Names
<1> QED
  BY ArchiveAssumption DEF ArchiveAssumption

\* What names are made of once their backslashes are slashes.
Pieces == Parts \cup {"a", "b", ".."}

\* Making slashes of backslashes makes a path of a path.
LEMMA SlashedType ==
    ASSUME NEW name \in Seq(Parts)
    PROVE  ToSlash(name) \in Seq(Pieces)
<1> DEFINE split(part) == IF part \in Backslashed THEN Sides(part) ELSE <<part>>
           lists == [i \in 1..Len(name) |-> split(name[i])]
<1>1. ASSUME NEW part \in Parts PROVE split(part) \in Seq(Pieces)
  <2>1. /\ <<"a", "b">> \in Seq(Pieces) /\ <<"..", "a">> \in Seq(Pieces)
        /\ <<part>> \in Seq(Pieces)
    BY DEF Pieces
  <2> QED
    BY <2>1 DEF Sides
<1>2. lists \in Seq(Seq(Pieces))
  <2> HIDE DEF split
  <2> QED
    BY <1>1
<1>3. DOMAIN name = 1..Len(name)
  OBVIOUS
<1>4. ToSlash(name) = Concat(lists)
  BY <1>3 DEF ToSlash
<1> HIDE DEF lists
<1> QED
  BY <1>2, <1>4, ConcatElements

\* A name that is taken never leaves the top directory on its way, and what it
\* is cleaned to is below it.
LEMMA TakenStaysBelow ==
    ASSUME NEW name \in Names, safeRelPath(stripRoot(name))
    PROVE  /\ NeverAbove(Tail(WithoutDot(ToSlash(name))))
           /\ Clean(stripRoot(name)) \in Seq(Pieces)
           /\ \A i \in 1..Len(Clean(stripRoot(name))) : Clean(stripRoot(name))[i] # ".."
<1> DEFINE slashed == ToSlash(name)
           n == WithoutDot(slashed)
<1>1. slashed \in Seq(Pieces)
  BY NamesType, SlashedType
<1>2. n \in Seq(Pieces)
  <2> HIDE DEF slashed
  <2>1. CASE n = slashed
    BY <1>1, <2>1
  <2>2. CASE n = Tail(slashed) /\ Len(slashed) > 1
    <3>1. slashed # <<>>
      BY <2>2, EmptySeq
    <3> QED
      BY <1>1, <2>2, <3>1, HeadTailProperties
  <2> QED
    BY <2>1, <2>2 DEF WithoutDot, slashed
<1>3. stripRoot(name) # <<>> /\ ~Escapes(stripRoot(name))
  BY DEF safeRelPath
<1>4. stripRoot(name) = Tail(n) /\ ~(Len(n) < 2)
  BY <1>3 DEF stripRoot
<1> HIDE DEF n
<1>5. n # <<>>
  BY <1>4, EmptySeq
<1>6. Tail(n) \in Seq(Pieces)
  BY <1>2, <1>5, HeadTailProperties
<1> QED
  BY <1>3, <1>4, <1>6, RelativeStaysBelow DEF n

\* The directories above a path that is below the destination are so too.
LEMMA ParentsStayBelow ==
    ASSUME NEW t \in Seq(Pieces), \A i \in 1..Len(t) : t[i] # "..",
           NEW u \in Parents(t) \cup {t}
    PROVE  ".." \notin {u[i] : i \in DOMAIN u}
<1>1. CASE u = t
  <2>1. DOMAIN u = 1..Len(t)
    BY <1>1
  <2> QED
    BY <1>1, <2>1
<1>2. CASE u \in Parents(t)
  <2>1. PICK n \in 0..(Len(t) - 1) : u = SubSeq(t, 1, n)
    BY <1>2 DEF Parents
  <2>2. n \in Nat /\ \A i \in 1..n : t[i] \in Pieces
    BY <2>1
  <2>3. u \in Seq(Pieces) /\ Len(u) = n /\ \A i \in 1..n : u[i] = t[i]
    <3>1. /\ SubSeq(t, 1, n) \in Seq(Pieces)
          /\ Len(SubSeq(t, 1, n)) = IF 1 <= n THEN n - 1 + 1 ELSE 0
          /\ \A i \in 1..n - 1 + 1 : SubSeq(t, 1, n)[i] = t[1 + i - 1]
      BY <2>2, SubSeqProperties
    <3>2. \A i \in 1..n : 1 + i - 1 = i
      OBVIOUS
    <3> QED
      BY <2>1, <2>2, <3>1, <3>2
  <2>4. DOMAIN u = 1..n /\ \A i \in 1..n : t[i] # ".."
    BY <2>2, <2>3
  <2> QED
    BY <2>3, <2>4
<1> QED
  BY <1>1, <1>2

\* No name is taken, however it is spelt, that leaves the archive's top
\* directory on its way, and everything lands below the destination.
THEOREM AlwaysStaysInside == ASpec => []ArchiveStaysInside
<1> DEFINE Below(t) == ".." \notin {t[i] : i \in DOMAIN t}
<1>1. AInit => ArchiveStaysInside
  BY DEF AInit, ArchiveStaysInside
<1>2. ArchiveStaysInside /\ [ANext]_avars => ArchiveStaysInside'
  <2> SUFFICES ASSUME ArchiveStaysInside, [ANext]_avars PROVE ArchiveStaysInside'
    OBVIOUS
  <2>1. CASE UNCHANGED <<strayed, dirs, written>>
    BY <2>1 DEF ArchiveStaysInside
  <2>2. CASE Skip \/ EndOfArchive \/ UNCHANGED avars
    BY <2>1, <2>2 DEF Skip, EndOfArchive, avars
  <2>3. ASSUME NEW name \in Names, EntryEscapes(name) PROVE ArchiveStaysInside'
    BY <2>1, <2>3 DEF EntryEscapes, Refuse
  <2>4. ASSUME NEW name \in Names, safeRelPath(stripRoot(name)), Stray(name),
               NEW target, target = Clean(stripRoot(name)),
               dirs' \cup DOMAIN written' \subseteq dirs \cup DOMAIN written \cup Parents(target) \cup {target}
        PROVE  ArchiveStaysInside'
    <3>1. ~strayed'
      BY <2>4, TakenStaysBelow DEF Stray, ArchiveStaysInside
    <3>2. \A u \in Parents(target) \cup {target} : Below(u)
      BY <2>4, TakenStaysBelow, ParentsStayBelow
    <3>3. \A u \in dirs \cup DOMAIN written : Below(u)
      BY DEF ArchiveStaysInside
    <3> HIDE DEF Below
    <3>4. \A u \in dirs' \cup DOMAIN written' : Below(u)
      BY <2>4, <3>2, <3>3
    <3> QED
      BY <3>1, <3>4 DEF ArchiveStaysInside, Below
  <2>5. ASSUME NEW name \in Names, Directory(name) PROVE ArchiveStaysInside'
    <3> DEFINE target == Clean(stripRoot(name))
    <3>1. CASE Refuse
      BY <2>1, <3>1 DEF Refuse
    <3>2. CASE ~Refuse
      <4>1. /\ dirs' = dirs \cup Parents(target) \cup {target}
            /\ Stray(name) /\ written' = written /\ safeRelPath(stripRoot(name))
        BY <2>5, <3>2 DEF Directory
      <4> QED
        BY <2>4, <4>1
    <3> QED
      BY <3>1, <3>2
  <2>6. ASSUME NEW name \in Names, NEW size, File(name, size) PROVE ArchiveStaysInside'
    <3> DEFINE target == Clean(stripRoot(name))
    <3>1. CASE Refuse
      BY <2>1, <3>1 DEF Refuse
    <3>2. CASE ~Refuse
      <4>1. /\ dirs' = dirs \cup Parents(target)
            /\ Stray(name) /\ written' = Put(written, target, Limit(size)) /\ safeRelPath(stripRoot(name))
        BY <2>6, <3>2 DEF File
      <4>2. DOMAIN written' = DOMAIN written \cup {target}
        BY <4>1 DEF Put
      <4> QED
        BY <2>4, <4>1, <4>2
    <3> QED
      BY <3>1, <3>2
  <2> QED
    BY <2>2, <2>3, <2>5, <2>6 DEF ANext
<1> QED
  BY <1>1, <1>2, PTL DEF ASpec

=============================================================================
