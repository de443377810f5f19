------------------------------ MODULE GitHubResolve ------------------------------
(***************************************************************************)
(* GitHub.Resolve: the head of the branch by conditional requests, with a  *)
(* cache that the runner and the poll share, while the branch moves.       *)
(*                                                                         *)
(* The ETag of an answer that holds a bare sha is as good as the sha, so   *)
(* here it is one.  GetWithRetry sends the ETag it was given in every      *)
(* attempt; a request is served at one instant or not at all.              *)
(***************************************************************************)
CONSTANTS
    Commits,    \* the commits the branch may point at
    Callers,    \* the runner, the poll
    Nothing     \* the empty sha, and the empty ETag

ASSUME GitHubAssumption == Nothing \notin Commits

VARIABLES
    head,       \* the commit the branch points at
    etag, cachedSHA,
    call,       \* each caller's request
    answer,     \* each caller's last answer, Nothing for an error
    server      \* "sound", or the one way in which it is odd

vars == <<head, etag, cachedSHA, call, answer, server>>

Maybe == Commits \cup {Nothing}

\* at: idle, asked, or served with a status, a sha and an ETag.
Calls == [at : {"idle", "asked", "served"}, etag : Maybe, cached : Maybe,
          again : BOOLEAN, status : {200, 304}, sha : Maybe, newTag : Maybe]

Request(at, tag, sha, again) ==
    [at |-> at, etag |-> tag, cached |-> sha, again |-> again,
     status |-> 200, sha |-> Nothing, newTag |-> Nothing]

Idle == Request("idle", Nothing, Nothing, FALSE)
Asked(tag, sha, again) == Request("asked", tag, sha, again)

Served(request, code, sha, tag) ==
    [at |-> "served", etag |-> request.etag, cached |-> request.cached,
     again |-> request.again, status |-> code, sha |-> sha, newTag |-> tag]

TypeOK ==
    /\ head \in Commits
    /\ etag \in Maybe /\ cachedSHA \in Maybe
    /\ call \in [Callers -> Calls]
    /\ answer \in [Callers -> Maybe]
    /\ server \in {"sound", "no_etag", "spurious"}

Init ==
    /\ head \in Commits
    /\ etag = Nothing /\ cachedSHA = Nothing
    /\ call = [c \in Callers |-> Idle]
    /\ answer = [c \in Callers |-> Nothing]
    /\ server \in {"sound", "no_etag", "spurious"}

Push ==
    /\ head' \in Commits
    /\ UNCHANGED <<etag, cachedSHA, call, answer, server>>

\* The cache is read under the mutex, and the request goes out without it.
Resolve(c) ==
    /\ call[c].at = "idle"
    /\ call' = [call EXCEPT ![c] = Asked(etag, cachedSHA, FALSE)]
    /\ answer' = [answer EXCEPT ![c] = Nothing]
    /\ UNCHANGED <<head, etag, cachedSHA, server>>

ServeNotModified(c) ==
    /\ call[c].at = "asked"
    /\ \/ call[c].etag = head
       \/ server = "spurious" /\ call[c].etag = Nothing
    /\ call' = [call EXCEPT ![c] = Served(@, 304, Nothing, Nothing)]
    /\ UNCHANGED <<head, etag, cachedSHA, answer, server>>

ServeSha(c) ==
    /\ call[c].at = "asked"
    /\ call[c].etag # head
    /\ \E tag \in {head} \cup IF server = "no_etag" THEN {Nothing} ELSE {} :
         call' = [call EXCEPT ![c] = Served(@, 200, head, tag)]
    /\ UNCHANGED <<head, etag, cachedSHA, answer, server>>

Finish(c, sha) ==
    /\ call' = [call EXCEPT ![c] = Idle]
    /\ answer' = [answer EXCEPT ![c] = sha]
    /\ UNCHANGED <<head, server>>

\* No attempt succeeded, the context is over, or the body is not a sha.
Fails(c) ==
    /\ call[c].at = "asked"
    /\ Finish(c, Nothing)
    /\ UNCHANGED <<etag, cachedSHA>>

\* Mutant of ReceiveNotModified: the answer is taken from the cache as it is by
\* now.
ReceiveNotModified_Rereads(c) ==
    /\ call[c].at = "served" /\ call[c].status = 304
    /\ call[c].cached # Nothing /\ ~call[c].again
    /\ Finish(c, cachedSHA)
    /\ UNCHANGED <<etag, cachedSHA>>

ReceiveSha(c) ==
    /\ call[c].at = "served" /\ call[c].status = 200
    /\ etag' = call[c].newTag
    /\ cachedSHA' = call[c].sha
    /\ Finish(c, call[c].sha)

ReceiveNotModified(c) ==
    /\ call[c].at = "served" /\ call[c].status = 304
    /\ call[c].cached # Nothing /\ ~call[c].again
    /\ Finish(c, call[c].cached)
    /\ UNCHANGED <<etag, cachedSHA>>

\* A 304 with nothing cached: the request is made once more, without an ETag,
\* and a 304 to that is an error.
ResolveUnconditional(c) ==
    /\ call[c].at = "served" /\ call[c].status = 304
    /\ call[c].cached = Nothing \/ call[c].again
    /\ IF call[c].again
         THEN Finish(c, Nothing)
         ELSE /\ call' = [call EXCEPT ![c] = Asked(Nothing, Nothing, TRUE)]
              /\ UNCHANGED <<head, answer, server>>
    /\ UNCHANGED <<etag, cachedSHA>>

Answer(c) ==
    \/ ServeNotModified(c) \/ ServeSha(c) \/ Fails(c)
    \/ ReceiveSha(c) \/ ReceiveNotModified(c) \/ ResolveUnconditional(c)

Next == Push \/ \E c \in Callers : Resolve(c) \/ Answer(c)

Spec == Init /\ [][Next]_vars

-----------------------------------------------------------------------------

\* The cached ETag is the cached sha's, and so is every pair a request was made
\* from, whichever caller's answer was stored last (github.go:122-124).
CachePaired ==
    /\ etag \in {Nothing, cachedSHA}
    /\ \A c \in Callers : call[c].etag \in {Nothing, call[c].cached}

\* A caller has its value from the instant it was served.
Has(c) == /\ call[c].at = "served"
          /\ call[c].status = 200 \/ (call[c].cached # Nothing /\ ~call[c].again)

Reading == [c \in Callers |-> IF call[c].at = "idle" THEN "idle"
                              ELSE IF Has(c) THEN "has" ELSE "open"]

Held == [c \in Callers |-> IF ~Has(c) THEN Nothing
                           ELSE IF call[c].status = 200 THEN call[c].sha
                           ELSE call[c].cached]

Read == INSTANCE Register WITH
    Values <- Commits, Readers <- Callers,
    value <- head, reading <- Reading, held <- Held

\* What Resolve returns was the branch's head at some instant of the call,
\* through whichever cache, 304 or second request it came.
ReadsBranch == Read!Spec

=============================================================================
