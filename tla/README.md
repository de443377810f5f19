# node-box: specification, model checking and proofs

node-box keeps the configuration files of sing-box nodes up to date.  It takes
a configuration snapshot from a GitHub repository or a local directory,
fetches the subscriptions the snapshot lists, assembles and validates the
output files in memory, and replaces the ones that changed.  It runs as a
daemon (`run`) or as one-shot commands (`update`, `pull`, `build`,
`validate`, `rollback`, `status`) that share one root directory with it.

What is hard about it is not what a run computes but what it leaves behind:
two pointer files, a state file, a directory of snapshots and the outputs have
to agree with each other although every step may fail or be the last, several
processes work on the same root, and commits, webhooks, timers and polls arrive
in any order.  That is what the core modules are about.  Around them stand the
parts that decide what a run writes: fetching from a branch, a directory and
subscriptions while each of them changes or fails, and the rules by which
names, references and paths become documents.

## Inventory

| Part | Source | State it keeps | Operations | What makes it correct |
|---|---|---|---|---|
| Update run | `runner/runner.go`, `runner/status.go` (Rollback), `output/*` | state file, `current` and `previous`, output files | Execute, BuildPlan, Write, Rollback | pointers resolve, the record is true, `current` moves last, an explicit ref is applied or the run fails, `previous` is the ref before |
| Snapshot store | `source/store.go`, `source/snapshot.go` | `snapshots/<ref>`, `.incoming-*` | Acquire, Begin, Commit, Abort, Open, GC, CleanScratch | a snapshot appears whole, stays so, and is kept while it is named or used |
| Sources | `source/github.go`, `source/local.go` | the ETag cache | Resolve, Materialize | what Resolve returns was the head, a snapshot is what its name says, an archive is extracted whole and inside |
| Daemon | `runner/loops.go`, `runner/coalesce.go`, `webhook/*`, `cmd/node-box/commands.go` | the trigger queue, the context | Trigger, coalesce, Run, scheduleLoop, pollOnce, handleHook, SIGHUP, shutdown | the last good commit is applied in the end, a bad one is retried, shutdown ends |
| Update lock and status | `lockfile/*`, `runner/status.go` | the lock file, the `updating` flag | Acquire, Release, IsHeld, ReadStatus | one writer at a time, the lock goes with its holder, a status tells the truth |
| Subscription fetch | `subscription/fetcher.go`, `fetch/*` | the semaphore, results of a run in progress | FetchAll, fetchOne, GetWithRetry | every slot comes back, no run is built from no subscription, nothing is retried after the deadline |
| Naming | `subscription/transform.go`, `textutil` | none | keyword removal, emoji, prefix, exclusion | a tag belongs to its own subscription, its emoji is one that its letters justify |
| Assembly and validation | `build/*`, `node` | the documents of a run in progress | Build, inject, closeOverDetours, validate | every reference that injection adds resolves, tags are unique, what is added is what is needed, in order |
| Configuration and destinations | `model/config.go`, `output/target.go` | none | LoadConfig, Validate, Resolve | references between sections, destinations distinct and not among the snapshots |
| Bootstrap | `model/bootstrap.go` | none | LoadBootstrap, defaults, Validate | a run is bounded, a source can be asked, a directory of its own is absolute |
| Webhook plumbing | `webhook/*` | the rate limiter | signature, limit | |
| Formats and parsers | `subscription/processor.go`, `subscription/xray`, `upstream/` | none | parse | pure parsing, partly vendored |
| Command line, logging | `cmd/node-box`, `logx` | none | | |

Interaction.  The daemon's loop executes one trigger at a time, and a trigger
is one update run.  A run resolves the branch or the directory, takes the
snapshot from the store (fetching it if need be), reads `config.json`, fetches
the subscriptions concurrently, names their nodes, assembles and validates
every output in memory, writes those that changed, moves the pointers and
saves the state file.  The poll resolves the same branch beside it, through the
same ETag cache.  Writers (`run`, `update`, `rollback`) hold the update lock
for their whole life; `pull`, `build`, `validate` and `status` do not take it
(`status` asks about it, which is taking it for an instant), and the first
three of them fetch snapshots into the same directory.

The hazards this leads to, each with its line and its properties, are listed
in `PROJECT.json`.

## Modules

| Module | Models |
|---|---|
| `UpdateRun` | one run after another on one root, from Execute to GC, with the world interleaved: crashes, failing writes, hand edits, a lost state file, `pull` in another process |
| `SnapshotStore` | the snapshots directory as several processes share it, one directory entry at a time; implements `ImmutableStore` |
| `ImmutableStore` | abstract: what users of the snapshot store rely on |
| `TriggerLoop` | the daemon's goroutines around the trigger queue, and shutdown |
| `UpdateLock` | the lock, writers that may die, and status questions |
| `SubscriptionFetch` | FetchAll's goroutines, semaphore, retries and collection under a context that may end at any moment, and the run around them |
| `GitHubResolve` | conditional requests of several callers over one ETag cache while the branch moves; implements `Register` |
| `Register` | abstract: a value others change, and readers who are given one it had while they asked |
| `LocalSource` | the two hashes and the copy of a directory that is edited meanwhile |
| `Archive` | the entries of a tar archive, one after another, under limits |
| `Paths` | operators on paths: Clean, Within, checkRepoRelPath, stripRoot, safeRelPath |
| `Lists` | operators: what loops make of lists that copy some elements of one, or put several behind one another |
| `Naming` | what becomes of a node's name, and the subscriptions named one by one; EXTENDS `Lists` |
| `Bootstrap` | operators: the defaults and the Validate of node-box.json; EXTENDS `Paths` |
| `Config` | operators: Validate, output.Resolve, CheckDirs, the schedule's delay; EXTENDS `Bootstrap` |
| `Assembly` | LoadBootstrap, BuildPlan after its fetches, and Build: one document after another; EXTENDS `Config`, `Lists` |
| `UpdateRun_proofs`, `SnapshotStore_proofs`, `UpdateLock_proofs`, `SubscriptionFetch_proofs`, `Naming_proofs`, `Assembly_proofs` | theorems about the module they are named after |
| `Source_proofs` | theorems about `GitHubResolve`, `LocalSource` and `Archive` |
| `Library_proofs` | lemmas about `Lists`, `Paths` and sequences that the others cite |
| `MC...` | instances for TLC: symmetry sets, crash sets, words, documents and configurations. `MCSource` runs `GitHubResolve`, `LocalSource` and `Archive`, one in each behaviour |

The modules meet in the steps of `UpdateRun`: its AcquireFetched is
`SnapshotStore`'s Acquire, whose Resolve and Materialize are `GitHubResolve`,
`LocalSource` and `Archive`; its BuildPlan is `SubscriptionFetch`, then `Naming`
inside each fetch, then `Assembly`.  Each module leaves open what the next one
decides (whether a fetch succeeds, what a snapshot holds, whether a build
fails), so that what it shows holds for whatever the next one does.

### UpdateRun

`pc` is where the run is; its steps are those of the code, in its order:

| Action | Code |
|---|---|
| `Start` (`Execute`, `Rollback`) | LoadState, RecordStart, Save |
| `AcquireOnDisk`, `AcquireFetched`, `AcquireFallback`, `AcquireFailed` | Runner.acquire and source.Acquire |
| `BuildPlan`, `BuildFailed` | the rest of BuildPlan, and EnsureDirs |
| `WriteFile`, `WriteFailed`, `WriteDone` | output.Write, one output a step |
| `MovePrevious`, `MoveCurrent` | the two SetPointer calls |
| `Succeed`, `Fail` | RecordSuccess or RecordFailure, and Save |
| `GC`, `GCRemove`, `Finish` | Store.GC: one listing, one look at the pins, one RemoveAll a step |
| `Crash`, `EditOutput`, `LoseState`, `Pull` | the world |

An output's content is the snapshot and the set of nodes it was built from.
Snapshots have no clock time but a rank, `age[r]`, the newest being 1: that is
all List and GC look at.  Pointer files and the state file are values; a write
of one of them that fails leaves it as it was (WriteAtomic renames) and is only
logged, so the value after it is one of two.  The constant `Events` says what
the world does in an instance; theorems hold for every value of it.

Left out: BuildPlan's inside (the modules below have it), the schedule it sets, which outputs a snapshot
lists (all list the same `NumFiles`), file modes, and error texts.  A state file
that cannot be read at all ends the run before anything changes and is not an
action.  Leftovers of an interrupted WriteAtomic are not modelled.

### SnapshotStore and ImmutableStore

A directory is the set of the files in it, so that a fetch, a removal and a
look can be seen half way.  Readers acquire, use and exit; writers take the
lock, CleanScratch, acquire, move `previous` (to the ref the state file says is
applied) and then `current`, save the state file and GC.  Either pointer file
and the state file may keep their old content, as a failed write of one is only
logged.  Has is a stat of the directory, Open reads `config.json` and nothing
else, Commit looks and then renames, RemoveAll unlinks file by file
(`RemovePart`) and may fail at any of them, with nothing or a part removed
(`RemoveFailed`): GC logs it and goes on to the next snapshot, and what is left
stays under its name, as it does when the process dies there.  MkdirAll in the
copying code makes a vanished scratch directory again.  Which snapshots are the
oldest is left open here.  The removals of scratch directories (Abort, Commit,
CleanScratch) are taken to succeed.

`ImmutableStore` is what can be promised with removals that stop half way:
a snapshot is absent, whole or torn; it goes from absent to whole in one step,
only a removal tears it or makes it go, and neither happens while a process has
it open.  That a torn one is never opened is not promised: `SnapshotStore_remains`
shows that it is.  The refinement mapping (`Stored`, `InUse`) takes every directory with
files missing for one torn value, and a process in `using` for one that has the
snapshot open.

### TriggerLoop

Commits are numbered in the order they reach the branch.  A trigger is its ref;
a run resolves it, builds and moves `current`.  The queue has its capacity,
coalescing takes one trigger a step while others are queued, pollOnce resolves
first and reads `current` afterwards, the webhook names any commit pushed so
far, the listener may be down from the start or fail, and the context is
cancelled at any time.  `Kind` and `Force` are left out: a daemon's triggers
never force, and the kind is only reported.

### UpdateLock

Writers are off, holding or running.  A question is ReadStatus: IsHeld (take the
lock and give it back, find it taken, or fail to open it, which IsHeld takes for free),
then LoadState, then the answer.  Every `Save` may fail and is only logged, so
that the flag stays down during a run or up after one that ended; a question
whose LoadState fails gives a report without a word about runs (`"blank"`).
`died`, `saved` (the last Save succeeded), `blind` (the question could not ask
the lock), `undisturbed`, `sawRun` and `refused` are ghosts that only the
properties read.  A New that fails after it has the lock, and an Execute that
cannot read the state file, start nobody and are no actions.  The state file is
never deleted here.

### SubscriptionFetch

A goroutine waits for a slot, reads its file or asks for its URL, and pauses
between attempts; its slot goes back with whatever it returns.

| Action | Code |
|---|---|
| `TakeSlot`, `GiveUp` | the select of FetchAll's goroutine, on the semaphore and the context |
| `ReadFile` | fetchOne of a subscription with a path |
| `Ask`, `Answered`, `Refused`, `Failed`, `Interrupted` | Client.Get and GetWithRetry's verdict on its error |
| `PauseOver`, `PauseCut` | sleep: the timer against the context |
| `Collect` | wg.Wait and the count of failures, and BuildPlan's look at what is left |
| `Build`, `Write`, `End` | what comes after, without a context; update_timeout or a signal |

A select with two ready branches takes either, so a slot may be taken, and a
pause may end, after the context has: `late` counts the requests that begin
so.  The client's own timeout is a `context.DeadlineExceeded` and so is
not retried, although `fetch/retry.go:69` counts timeouts among what is.

### GitHubResolve and Register

A call reads the cache, sends its ETag, is served at one instant or fails, and
stores what it was given.  The server may leave out ETags or answer requests
without one by 304, which costs the second request that the code has for it
(one oddity at a time: a server with both would make the code return a ref it
has cached from before).  Attempts of one GetWithRetry send the same ETag and
are one request here.  The mapping to `Register` gives a caller the branch's
head at the instant it was served.

### LocalSource, Archive and Paths

A directory gives each path a version of its file; a walk hashes or copies one
file a step, in WalkDir's order, and `Edit` changes any file in between.  The
hash is the content, without what skipDir and the regular-file test leave out.
`Acquire` with a ref that is in the store ends at once; otherwise the directory
is hashed, compared with the ref, and copied.

`Archive` takes entries with any name over `Parts` and any size: `Entry` strips
the top directory and asks safeRelPath, `Directory` and `File` make the parents,
the LimitReader lets one byte more through than is allowed.  A path is the
sequence of its components, so that "", "." and ".." are elements that Clean
handles one by one.  A component may hold a backslash (`Backslashed`): stripRoot
makes a slash of it first (`ToSlash`), checkRepoRelPath refuses it.

### Naming

A name is a sequence of characters, and a character is what the code asks of
it: emoji, ASCII letter, ideograph, space, bracket, or capital of another.
`removeKeywords` (with `*` and `?`, from left to right, longest match),
`assignTagEmoji`, `stripTagEmoji`, `prefixTag` and `dropExcluded` are operators
of their own; `NameNode` and `fetchOne` compose them in the code's order, and the
actions name the subscriptions in any order, after `Load` has accepted the
configuration (names and the keywords of overrides; the rest of Validate is in
`Config`).

The loops that leave out characters are said by the positions they keep
(`Select(s, Compared(s))` for stripEmoji): what a position's neighbours are
decides, and no loop carries anything else from one character to the next.
Only removeKeywords does, which is why `RemoveMatches` and `Removed` are
recursive functions.  `Chars` is the alphabet, and `Init` allows any names over
it; `MCNaming` picks the ones TLC starts from.

### Config and Assembly

`Bootstrap` is applyDefaults and Validate of node-box.json, `Config` Validate of
config.json, part by part, with output.Resolve and nextScheduleDelay.  Their
fields are typed (`Bootstraps`, `Configs`) over a set `Text` of strings, and
`Init` allows every value of the types; `MCAssembly` picks the ones TLC starts
from.  `Assembly` goes through a build with `pc`:

| Action | Code |
|---|---|
| `LoadBootstrap` | applyDefaults, then Validate, of node-box.json |
| `Load`, `Resolve`, `LoadModules` | LoadConfig; output.Resolve and CheckDirs; the module files |
| `newInjector`, `buildRelays` | the pool, and one relay a step: templates times upstreams |
| `assemble` | the output's modules, with no top-level key twice |
| `inject` | the rules' members into the named groups |
| `closeOverDetours` | one needed tag a step, in any order (the code ranges over a map) |
| `insert` | the needed nodes, to outbounds or endpoints by type, in candidate order |
| `finish` | removeEmptyTopLevel and the validation of tags and references |

A document is a function from top-level keys to values, of which it counts
whether they are arrays, objects, null or something else, and which objects are
in an array.  A tag is a sequence of words, and one that is not empty begins with
the subscription's, as prefixTags leaves it (`Init` asks for it, and `Naming` is
where it is shown).

Every list a build makes of another is said by `Select` and `Concat` of `Lists`:
which positions a loop copies, and which lists it puts behind one another.  The
rules are applied one after the other (`Applied` is a recursive function), since
two of them may name one group.

## Runs

| Run | Checks | Instance |
|---|---|---|
| `calm` | `PreviousIsPredecessor`, `PointersAgree`, `StoreBounded`, `NewestStay`, `RunEnds` | 4 refs, 2 outputs, Keep 1; failed builds and writes, hand edits, no crash |
| `faults` | `TypeOK`, `PointersResolve`, `RecordIsTrue`, `ExplicitRefIsApplied`, `CurrentMovesLast` | 2 refs, 2 answers of the subscriptions, 2 outputs, Keep 1; every event but a failing Save |
| `fetchers` | `ScratchIsOwned`, `KeepsPromise`, `ProcessEnds` | 2 readers, 2 refs, 3 files |
| `writers` | `TypeOK`, `PinnedNotRemoved`, `KeepsPromise` | 2 writers, 3 refs, 3 files, Keep 1, crashes everywhere, removals and pointer writes that fail |
| `daemon` | `Converges`, `BadHeadRetried`, `Stops` | 3 commits of which the second does not build, queue of 2, one event, with and without poll, listener and SIGTERM |
| `exclusion` | `MutualExclusion`, `UndisturbedIsExact`, `ReportedRunIsThere`, `ProbesLetGo` | 2 writers that may die, 2 questions, every file operation may fail |
| `fetch` | `SlotsAreReturned`, `NeverFromNothing`, `OneLateRequest`, `FetchEnds` | 3 URLs and a file, any of them disabled, 2 slots, 3 attempts |
| `sources` | `OnlyRacesMislabel`, `WholeOrRefused`, `ArchiveStaysInside`, `ReadsBranch` | branch: 3 commits, 2 callers; directory: 3 paths of which one is skipped, 2 snapshots; archive: 3 entries, names of up to 4 components with "", ".." and a backslash among them, 2 files, 2 bytes |
| `naming` | `AttributionIsExact`, `EmojiMatchesName`, `KeywordsSeePastEmoji` | 2 subscriptions, some 160 names, 4 pairs of subscription names, 3 removal lists, 4 exclusions, with and without an override |
| `documents` | `InjectionSound`, `ExactlyReferenced`, `DeclarationOrder`, `AcceptedConfigHolds`, `TargetsApart`, `BuildEnds` | nodes x relays x rules x module files under one sound configuration, odd module files, and that configuration and its node-box.json with each of their fields spoilt |
| `unusable`, `clean` | expected violations, see below | |

What they show, in short. `calm` and `faults`: whatever fails, the places that
say what is applied tell no lie, and in the absence of crashes they agree; a
collection takes neither more nor less than it should. `fetchers` and
`writers`: the store keeps its promise among processes without the lock and
among processes with it, wherever they die and whichever removals fail.
`daemon`: no trigger that is lost, late or dropped costs the last good commit.
`exclusion`: one writer, and answers about it that are honest as far as the
state file can be written. `fetch`: no failure or deadline leaks a slot, hangs
the run or empties the outputs. `sources`: a ref is never older than the
question, and a snapshot is what its ref says but for one window. `naming`:
whatever a provider calls its nodes, selectors attribute them to their
subscription alone, and the emoji in front is one that the rest of the tag
bears out. `documents`: what injection adds is complete, sound and in order,
whatever the subscriptions hold.

Why these bounds.  GC with Keep 1 and two pins needs four refs before it has to
remove anything that is neither kept nor pinned (`calm`); two refs are enough
for a pinned snapshot to fall out of the kept ones (`faults`, where the theorem
below has any number).  A second output is what makes a partial write, and a
second answer of the subscriptions what makes one ref produce two contents.
Three files let a fetch and a removal stop, or fail, before and after
`config.json`.  A queue of two is full when schedule and poll have both fired; the code's eight
only make the same states longer to reach.  `MaxEvents` bounds webhooks,
signals, transient failures and the failing listener together, `Scratch` the
scratch names in use, and `Fires` lets each timer fire once while the loop
drains the queue: draining takes microseconds, timers minutes (the
configuration would accept an interval as short as a drain, and the daemon then
never gets to execute; that is not modelled).

With four subscriptions and two slots somebody waits while others ask, read and
pause, and three attempts are the code's own number.  Two callers and three
commits let a cache be replaced twice between a request and its answer.  Two
bytes, a file of three and three entries reach the limit exactly, by one byte
and in the second file; four components spell `root/a/../..` and
`root//../a`.  In `naming`, words of three characters over two letters, an
ideograph, an emoji and a space are complete, and longer ones are there where a
keyword has to occur twice, inside a word or across a removal.  In `documents`,
nodes are one another's detour, have the tag of a module's own object, no tag,
a tag twice, or an upstream that is nowhere; the spoilt configurations reach
every conjunct of Validate, Resolve and CheckDirs.  `MaxEntries`, `MaxDepth`,
`MaxSnapshots` and `Versions` bound the input only.

Deadlock is checked in every run: processes can always start again, and what
has ended (a daemon, a run, a build, an archive) stutters by `Ended` or `Done`.

### Fairness

`UpdateRun`: a run under way goes on (`WF(Proceed)`), since update_timeout
bounds every wait and the steps after the build wait for nothing.
`SnapshotStore`: every process goes on, for the same reason.  `TriggerLoop`: the
loop goes on; `select` does not pass over a closed `ctx.Done()` for ever, hence
strong fairness for the two loops' exits; the poll's ticker fires, and the
schedule's timer is relied on only where polling is off.  Nothing is assumed of
pushes, webhooks, signals or failures.  `UpdateLock`: a question is a handful of
system calls and goes on to its end; nothing is assumed of writers.
`SubscriptionFetch`: every goroutine goes on, because the HTTP client has a
timeout of its own and a pause is a timer; that the context ends is not
assumed.  `Assembly`: the build is one sequential computation (`WF(Step)`), and `BuildEnds` asks whether its loops end.

## Where code and comments disagree

Two runs expect a violation; `PROJECT.json` quotes the lines.

| Run | Property | What happens |
|---|---|---|
| `unusable` | `UnusableAborts` | the source names a snapshot that does not load; the run falls back to `current` and writes, where the documentation has it abort |
| `clean` | `CommittedWhole` | a starting writer's CleanScratch takes the scratch directory of a `pull`, which goes on and commits a snapshot with files missing |

The following are not among the checked runs; each has a configuration of its
own with which TLC finds the violation.  The first two need no process to die:
a failing `os.RemoveAll`, and no fault at all, are enough.

- `SnapshotStore_remains` (`OpenedIsWhole`): a removal that fails half way
  (`source/store.go:211`) leaves part of a snapshot under its name, config.json
  included, which a later run then takes for the whole and works from, against
  `source/store.go:4` and `source/store.go:121-122`.
- `SnapshotStore_reader` (`UsedNotRemoved`): GC removes a snapshot that a
  `build` in another process is reading, against `runner/runner.go:39-40`.
- `SnapshotStore_race` (`CommitNeverRefused`): two fetches of one ref; Commit
  looks and renames in two steps (`source/store.go:125-129`), so the second
  fails instead of being idempotent, against `runner/runner.go:42-44`.
- `UpdateLock_status` (`InterruptedIsTrue`): ReadStatus samples the lock
  and the state file one after the other, and a writer starting in between is
  reported as interrupted (`runner/status.go:28`, `output/state.go:31-34`).
- `UpdateLock_refused` (`RefusedForWriter`): a writer is turned away because a
  status question has the lock at that instant, and says that another process
  is updating (`lockfile/lock.go:80`, `runner/runner.go:108-110`).
- `TriggerLoop_dropped` (`DroppedIsCovered`): the newest ref is dropped from a
  full queue and the pending run applies an older one (`runner/runner.go:143-149`).
- `UpdateRun_crash` (`PointersAgree`): a crash between SetPointer and
  Save makes `current` and the state file differ, which
  `cmd/node-box/commands.go:239` ascribes to a lost or edited state file only.
- `UpdateRun_crash`, `UpdateRun_lost_state` (`PreviousIsPredecessor`):
  after a crash between the pointers and the record, or after the state file
  is lost, `previous` skips a ref, against `source/store.go:31`; and
  `output/state.go:15` says that losing the file costs one rewrite.
- `UpdateRun_midwrite` (`OutputsOfOneRun`): `runner/runner.go:186` promises that
  a failure leaves the outputs as they were; `output/write.go:26` and the
  documentation's table know better.
- `SubscriptionFetch_timeout` (`TimeoutAborts`): update_timeout ends a run in
  the middle of one subscription while another is done; FetchAll returns the
  one, nothing after it looks at the context, and the outputs are written
  without the other, against `doc/configuration.md:328`.
- `Source_mislabel` (`SnapshotIsItsRef`): the directory is edited after its
  second hash and before the copy is done; the snapshot keeps a name that its
  content does not have (`source/local.go:79-82`).
- `Naming_emoji` (`EmojiIsAlwaysRight`): containsWord
  (`subscription/transform.go:241-251`) looks at a keyword's first occurrence
  only; "AUS US" is not found to contain the word "US".
- `Naming_keywords` (`KeywordsAlwaysSeePastEmoji`): an emoji between a word and
  a space takes the space with it, so that words on its sides are joined,
  against `textutil/match.go:3-8`.
- `Assembly_collision` (`InjectionAlwaysSound`): a relay's tag, which is put
  together from two nodes' tags, is the tag of a node of the pool; the closure
  follows one of the two and insertion takes the other, whose upstream is then
  missing.
- `Assembly_schedule` (`ScheduleAlwaysKept`): Validate compares the schedule's
  type without its case and nextScheduleDelay (`runner/loops.go:40`) with it;
  an accepted "Interval" of six hours waits one.

Seen while reading, without a model of their own: `poll_interval: "0"`, which
`doc/configuration.md:61` has turn polling off, is replaced by the default in
applyDefaults (`model/bootstrap.go:119`).  A failed subscription that is a
relay's only template or upstream ends the whole build, whereas the
documentation lets one failure cost one subscription.  The `detour` of a node
that a sing-box subscription brings keeps its unprefixed tag and names no node
any more.  An error that all subscriptions share because update_timeout has
passed is reported without saying so.  A scalar `endpoints` in a module file is
replaced by the array that insertion makes.  Validation accepts detours in a
circle.  Only `snapshots/` is protected from being an output's place, `state/`
is not.

## Theorems

All of them hold for every value of the constants that satisfies the named
assumptions of the modules (`RefsAssumption`, `SizeAssumption`,
`EventAssumption`, `ForeignAssumption`; `ProcAssumption`, `PartAssumption`,
`NameAssumption`, `CrashAssumption`; `LockAssumption`; `FetchAssumption`;
`GitHubAssumption`; `LocalAssumption`; `ArchiveAssumption`; `TextAssumption`,
`BootstrapAssumption`, `HourAssumption`; `CharsAssumption`, `SpaceAssumption`,
`TableAssumption`).  The last six say that the strings and characters the code
spells out are among `Text` and `Chars`, that the defaults are positive, that a
space is no emoji, and that no keyword of the built-in table is empty.  Each
theorem states what more it assumes.

What a recursive function computes for every input is proved by induction: the
library's induction theorem has an operator for its parameter, so
`Library_proofs` states it for sets (`NaturalInduction`: a set of naturals that
has 0 and, with each n, n + 1 is all of them), and a proof names the set of
the lengths for which the claim holds.

`UpdateRun_proofs`:

- `TypeCorrect`: `Spec => []TypeOK`.
- `PinInvariant`, and from it `PointersAlwaysResolve`.  The property is not
  inductive: GC decides in one step and removes in others.  `PinInv` adds that
  GC only has something to sweep while it sweeps, and that what it has still to
  sweep is on disk and named by neither pointer.
- `ApplyInvariant`, and from it `ExplicitRefAlwaysApplied` and
  `CurrentAlwaysMovesLast`: `ApplyInv` says which outputs show the planned
  content, by how far Write has got, and that the snapshot in hand is the ref
  asked for.
- `RecordAlwaysTrue`, under the assumption that `"save"` is not among the
  events.  Without it the property is false: when RecordStart cannot be saved
  the claim of the run before stands while outputs change.
- `InHandInvariant` (the snapshot in hand is on disk) and `CalmInvariant`, and
  from them `PreviousAlwaysPredecessor` and `PointersAlwaysAgree`, assuming no
  crash and no lost or failed pointer or state file.  Between runs the
  properties say all there is; inside one the pointers, the record and the
  memory of it move at different steps, and `CalmInv` says which has moved by
  then.  What happens without the assumption is in the list above.
- `KeepInvariant`, and from it `StoreAlwaysBounded`, assuming that removals
  succeed and no other process commits: ages are distinct, and while GC sweeps
  whatever is older than the newest Keep is pinned or still in `sweep`.  The
  counting is done by `FiniteSetTheorems`.
- `SweepInvariant`, and from it `NewestAlwaysStay`, without any assumption on
  the events: what GC has in hand was older than the Keep newest when it looked,
  and a snapshot only grows older.

`SnapshotStore_proofs`:

- `TypeCorrect`, by two lemmas, one for a process that exits and one for a
  process that goes on.
- `PinInvariant`, and from it `PinnedNeverRemoved`, with crashes anywhere: the
  steps of GC are a writer's, there is one at a time, and `sweep` is only
  non-empty while it is at them.
- `TmpInvariant`: scratch names are never shared.  `OwnedInvariant`, and from it
  `ScratchAlwaysOwned`, assuming that nobody dies: a process that has committed
  keeps the name of a directory that is gone.
- `CopyInvariant`, and from it `AlwaysKeepsPromise`, the refinement of
  `ImmutableStore`, assuming `Orderly`: all processes fetch without the lock or
  all take it.  Crashes are anywhere, and removals fail anywhere.  `CopyInv`
  says that a fetch has written exactly what is not in `todo` and has all of it
  from Open to Commit, so that what appears is whole; `TmpInvariant` keeps
  fetches apart, and `WriterAlone` (who collects or cleans is the only process
  at work) is where `Orderly` is used.  `clean` and `SnapshotStore_reader` show
  that it cannot go.

`UpdateLock_proofs`:

- `LockInvariant`, and from it `TypeCorrect` and `AlwaysExclusive`: types alone
  are not inductive, since that Close frees nobody else's lock rests on the
  closing writer being the holder.
- `StatusInvariant`, and from it `UndisturbedAlwaysExact` and
  `ReportedRunIsAlwaysThere`, with file operations that fail anywhere: `Flag`
  ties the `updating` flag to the past for as long as the last Save succeeded,
  `Knows` says what a question has learnt at each of its steps whoever moves,
  and `KnowsStill` what it has as long as no writer moved.  Where Save failed
  nothing is claimed of a report: the mutants `BeginRun_NotSaved` and
  `EndRun_LeavesFlag` lose the flag while Save is said to have worked.

`SubscriptionFetch_proofs`: `FetchInvariant`, and from it
`SlotsAlwaysReturned`, `AlwaysFromSomething` and `AtMostOneLateRequest`.
`RequestsInv` says that attempts are left before every request and that a late
one is a goroutine's last; `ReturnInv` that nothing is counted before everybody
is done.

`Source_proofs`:

- `ResolveInvariant`, and from it `CacheAlwaysPaired` and `AlwaysReadsBranch`,
  the refinement of `Register`.  The invariant follows the pair of ETag and sha
  from an answer to the cache and from the cache to a request; that a 304 means
  the sha read at the beginning is the head now rests on it.  One lemma for each
  step of `Register`.
- `LocalInvariant`, and from it `MislabelledByRacesOnly`: as long as nobody
  edits, what the walk has read is what the directory holds.
- `ArchiveInvariant`, and from it `AlwaysWholeOrRefused` and
  `AlwaysStaysInside`; the lemma `LimitWhole` is the byte more that the reader
  is given.  That no path gets above its start on its way rests on
  `RelativeStaysBelow` of `Library_proofs`: a ".." that Clean once keeps stays in
  front, so that a path whose cleaned form does not begin with one has kept
  none at any part, and what is kept is as long as the walk is deep.

`Naming_proofs`:

- `NamingInvariant`: tags are fetchOne's, under names and overrides that were
  accepted.
- `AttributionIsAlwaysExact`: two prefixes of one tag are of one name, since the
  first closing bracket is the prefix's own when names have none
  (`PrefixTells`), and every step before the prefix leaves a text and none
  after it touches it.
- `EmojiAlwaysMatchesName`: a tag with an emoji is split into the emoji and
  the name behind it, of the tags as they come out, and both are looked at anew:
  the rule the emoji is of has a keyword that stands alone somewhere in that
  name, and no rule before it has one that stands alone wherever it is found.
  Between the two is where containsWord's look at the first occurrence leaves
  open which rule it is (`Naming_emoji`).  The lemmas lead from forTag's choice over
  the rules in the order of `InForce` (`FirstPlace`, `RuleHits`, `TailOfConcat`)
  through the boundaries that Bounded tests (`AloneIsBounded`) to the tags
  (`Assigned`, `LabelledIsAssigned`).
- `KeywordsSeePastSetApartEmoji`: for names whose emoji are set apart, comparing
  leaves the same of the name and of the name without its emoji.  Both are
  selections from one text, and the lemmas follow which position of it each
  character of either comes from.

`Assembly_proofs`:

- `SettingsInvariant`: what the two Validates and Resolve let through stays as
  it was let through.
- `AcceptedConfigAlwaysHolds`: from it, with `RelativeStaysBelow` for the paths.
- `TargetsAlwaysApart`: a path that is walked part by part ends where Clean says
  (`WalkIsClean`), so that outputs which are one place are one cleaned path.
- `InjectorInvariant` and `DocumentInvariant`, and from them `ReferencedExactly`
  and `InjectionIsSound`, for any subscriptions, relays, rules and module files.
  Both properties speak of the moment between insertion and validation; what
  they need to be inductive is the way there.  `InjectorInv` ties the pool, the
  generated nodes and the index by tag to the inputs.  `ClosureInv` is the loop
  invariant of closeOverDetours: the needed set lies between what the rules name
  and `Reached`, the least set that is closed over detours, and whatever is not
  in the queue is `Settled`, that is, its upstream is needed, declared in a
  module file, or absent; so that with an empty queue the set is closed, and as
  it is no larger than the least closed set, it is that set, whatever the order
  of the map was.  `DocumentInv` says which document the rules and the insertion
  make of the module files.  The rest is about lists: an object keeps kind, tag
  and detour under the rules and gains only wanted members (`AppliedFacts`), what
  is added is the first candidate of each tag that is needed and not there
  (`AddedFacts`), and this is the node the index has for the tag unless a relay's
  tag is the pool's (`FirstIsFound`, where `NoCollision` is used).
- `AlwaysInDeclarationOrder`, from the same invariants and with no further one.
  The order is that of the declaration, for any two nodes: relay nodes by
  `nodes.relays`, however the rule lists them, then template and upstream, then
  the pool by subscription and place in it.  The first node that has its tag
  among all that were fetched is where the tag is declared (`FirstIsDeclared`),
  so that the pool is in order (`PoolInOrder`); the generated nodes are in order
  relay by relay, and the first of a tag is where it is generated
  (`FirstIsGenerated`, `ChainsInOrder`); what a rule takes is in order,
  subscription by subscription (`ResolveInOrder`); relays may stand before it, as
  no tag of theirs is the pool's (`ChainsFirst`); and every later step picks from
  a list in its order, which leaves it in order (`PickedInOrder`).

Only model-checked: everything that needs fairness (`RunEnds`, `ProcessEnds`,
`Converges`, `BadHeadRetried`, `Stops`, `ProbesLetGo`, `FetchEnds`,
`BuildEnds`), which is beyond TLAPS.  `TypeOK` of `UpdateLock` is only proved.

## Not modelled

- Of the bootstrap configuration `log_level`, the credentials and the texts
  that Describe and URL make; a duration is a number.
- The webhook's HMAC and rate limiter, and the limits on headers and bodies: a
  refused delivery is one that does not arrive.
- Subscription formats, the Xray and URL converters: pure parsing, partly
  vendored, and a model of it would be a second parser.
- EnsureDirs and the probe for writable directories; the encoding of documents
  as JSON and what sections other than `outbounds` and `endpoints` hold.
- The Windows lock, which is taken to behave as the Unix one.
- Command-line handling, logging, the diff display.
- Which schedule the loop waits by when a run that fails has replaced it
  (`runner/runner.go:257`): `TriggerLoop` leaves the schedule's period open.

## Plan

Done: all modules above, the core first, then what fetches, then what decides
the documents.  Possible next, most important first:

1. A composition of `UpdateLock`, `UpdateRun` and `TriggerLoop`: one-shot
   commands beside a daemon on one root.  The hazards it would reach (readers
   without the lock against GC and CleanScratch, status against writers) are in
   `SnapshotStore` and `UpdateLock` apart.
2. The schedule as a part of `TriggerLoop`, with the schedule a failed run
   leaves behind.
3. `Kind` and `Force` in coalesce, and the type invariant of `TriggerLoop` as a
   theorem.
4. `SubscriptionFetch` and `Naming` in one module with `Assembly`, so that a
   subscription that fails reaches the relays and rules that name it.

## Reading the configurations

Each `X_name.cfg` belongs to the module `MCX` (`TriggerLoop_name.cfg` to
`TriggerLoop`): `tlc -config UpdateRun_faults.cfg MCUpdateRun`.  `UpdateRun_crash`
lists two violated properties and shows both with `-continue`.  Definitions named
`Action_Something` next to an action, or `operator_Something` next to an
operator, are mutants of it, that is, the bugs the properties are there to find;
nothing else uses them.  Constants named `Max...` are bounds.
