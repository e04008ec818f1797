# release-craft in TLA+

A verification development of release-craft: TLA+ modules for the planner, the
stores, the engine and the remote doors that carry a release, TLC runs that
check them on small instances, and TLAPS proofs of what matters most for every
instance. Paths are from the
root of the repository's `src/` tree (`src/src/app/engine.ts` is the engine).

`tlc -workers 2 -config <file>.cfg <Module>` runs a check, `tlapm <Module>.tla`
checks the proofs of a module. `PROJECT.json` lists the components, the runs,
the mutants each property was tried against, the source lines behind every
definition, the hazards and the theorems.

## 1. The system

release-craft plans releases from a repository's history and then executes the
plan. Planning is a pure function. Executing is not: several processes (CI jobs,
a developer's terminal) may run, resume, resolve or abort the same plan at the
same time, each with an engine of its own, and share only git refs and the
remote. Everything durable is a ref moved by compare-and-set.

| part | state | operations | what is hard |
|---|---|---|---|
| claim stores (`execution/claim-store-memory.ts`, `adapters/git/claim-store-git.ts`) | per line: the held claims, the recorded takeovers, the next token | acquire, verify, release | exclusion over three kinds of scope; a prerelease lease passed by a higher sequence; races of registers on refs |
| tag door (`adapters/git/tag-door.ts`) | the tag refs | mint | one walk of the claims, then read, create, read of a ref, each a git command |
| attempt register (`adapters/git/register-git.ts`) | one counter per plan | nextOrdinal | bounded retries; an ordinal that landed unreported |
| execution ledger (`adapters/git/ledger-git.ts`, `execution/ledger.ts`) | a record stream per attempt; a cache per process | appendStart, append, tail, step, planFingerprint | plan record first; absorbed duplicates; a cache keyed by the tip |
| compare-and-swap commit (`adapters/git/git-refs.ts`) | none | casAppendCommit | an update-ref that moved the ref and failed |
| engine (`app/engine.ts`, `app/claims.ts`, `execution/outcome.ts`, `resume.ts`) | the attempts a process carries | run, resume, resolve, abort, observe | the process dies anywhere; another drives the same attempt; the tail is read at some steps only |
| attempt kernel (`execution/attempt.ts`, `step.ts`, `transition.ts`) | an attempt value | open, transition, block, supersede | the edges the engine relies on |
| channels (`adapters/git/channel-store-git.ts`, `app/channels.ts`) | one ref per channel | read, list, applyTransition; the stage that moves the planned channels | the move lands before its record; an unbounded loop; an outcome that cannot tell |
| extensions (`execution/hooks.ts`, `artifacts.ts`, `updater.ts`, `app/engine.ts` runBoundary) | records in the attempt's stream, files in the tree or in a process's memory | three schedulers at the boundaries of each stage, reconciliation of a started mutation | an effect between two records; a refusal the boundary drops; bytes in a dead process's memory |
| commit door (`adapters/git/commit-door.ts`) | the release commit | collect the mutated bytes, commit, hand to the tag door | the bytes are read again at the end |
| publication (`adapters/github/publication.ts`) | the release object of a tag | publishRelease, verifyRelease | gate, create and read are requests of their own; 404 is absence or a repository out of sight; answers that are lost |
| remote sync (`adapters/github/sync.ts`, `remote-git.ts`) | the remote's refs | list, push what is absent, list again what raced | others push, registers advance, a push fails after it landed |
| reconciliation (`adapters/github/reconciliation.ts`) | none | walk the pages of the remote's tags | pages shift and lose their links |
| release PR (`app/release-pr.ts`, `adapters/github/release-pr.ts`, `release-pr-sink.ts`) | a branch, a pull request, a record sink | detect, create, update | read before write of a proposal that people and other gates edit; a create whose answer is lost |
| planner (`planner/*`, `cli/targets.ts`) and domain (`core/domain/*`) | none | history to pending changes, decision, target version, streams, tag | a pure function, but of a history that moves between two plans and between a plan and its tag |
| read models, workspace detection, CLI | none | reads and rendering | nothing a model checker would find |

How they interact. `run` allocates an ordinal from the register, scans the
recorded abandonments, acquires the claim of the plan's scope, then walks the
canonical stages: for each, the ledger's start, the guard (abandonment, order,
claim), the stage's effect (the channel stage moves channels through the channel
store), and the completion. After the last stage it mints the tag through the
tag door, which reads the claim registers again, and publishes the release.
`resume` rebuilds an attempt from its ledger tail, through the classifier of
`resume.ts`. `resolve` and `abort` need the engine that carries the attempt.
Around each stage the walk calls the extension schedulers, whose records are in
the same stream. The plan itself comes from the planner, over a history the
command line read, and its tag is minted at the head read with it. The release
pull request, the synchronisation of refs and the reconciliation are doors of
their own over the remote.

What makes each part correct: a scope has one holder and a passed lease is
fenced (claims); a reported tag stands where reported (tag door); ordinals never
repeat (register); the stream only grows, begins with the plan, and is read as
it was at one instant (ledger); an attempt's records are in write-ahead order,
one attempt at most does the work of a stable release, and the tag stands behind
a finished walk (engine); a pointer moves by compare-and-set, records of moves
are true, and a completed stage moved every channel (channels); a tag stands
behind every declared extension and over the planned bytes (extensions); a
line's versions rise, a change is released once and none is lost (planner);
what a remote door reports was true of the remote during the call, and what it
wrote is on record (remote doors, release PR).

## 2. The modules

```
ClaimStore  <--refines--  GitClaimStore      ExecutionLedger <--refines-- GitLedger
    ^  ^                                      LedgerTail (what a tail says)
    |  +-- TagDoor                                 ^
    +---------------- ReleaseEngine ---------------+       OrdinalRegister
ChannelStore <--refines-- GitChannelStore <--extends-- ChannelStage
ExtensionWalk                                       ReleasePR
Versions <-- PlanHistory <-- PlanLine <-- Planner
GitHubRemote <-- ReleasePublication <-- RemoteReconciliation
```

Each abstract module (`ClaimStore`, `ExecutionLedger`, `ChannelStore`) is the
port of the code, where every operation happens and is answered at one instant;
the git module interleaves the git commands of the operation and is checked to
implement it. The engine is then modelled over the instantaneous stores.

**ClaimStore** follows `MemoryClaimStore`. `claims` is `#held`, `supersessions`
is `#supersessions`, one record per superseded scope, `nextToken` the allocated
tokens. `Refusals` is the order of the refusals of `acquire`; `Land` adds the
claim and merges the takeovers; `Released` is `release` (a stable claim is never
removed); `Verdicts` is `verify`. A scope is stable (line, version), prerelease
(line, stream, sequence) or a whole line. Denials, refusals and the holder's
sequence are answers; namespace validation is not modelled, a call is one that
passes it.

**GitRefs** is what the loops over a git ref share: the processes and the
update-ref that moves the ref and reports a failure.

**GitClaimStore** follows `GitClaimStore`'s loops over one register ref per
line: `AcquireReads`, `AcquireAppends`, `AcquireLoses` and the same of release,
each a git command, with an update-ref that landed and reported a failure, and
crashes between any two. A register commit is a number. The bounded retry on
the ref lock inside `casAppendCommit` (three spawns) is its outcomes: landed,
lost, landed unreported, failed.

**TagDoor** extends ClaimStore: `MintWalks` is the claim walk with the fence;
`MintReads`, `MintCreates`, `MintSettles` the read, `git tag` and the second
read. A tag is named by the scope that derives it (the naming the binding
declares is injective over the scopes that derive one).

**OrdinalRegister** follows `GitAttemptRegister.nextOrdinal`: at most
`MaxRounds` rounds of read and compare-and-set, one plan.

**ExecutionLedger**, **GitLedger**: one attempt's stream. `BaseReads`, `Probes`,
`Walks`, `Lands`, `Loses` are the git commands of `#casAppend` and `tail`;
`cache` is the walked tail with the tip it was walked from; `Carries` is the
absorb of a record equal to the tip; `Serve` is what each caller does with a
tail, `appendStart`'s last look at its own record included. The stream of
external satisfactions (`noteExternal`) is left out: no door writes it.

**LedgerTail** holds what the engine reads off a tail: terminality, the first
uncompleted stage, corruption, and `classifyResume`'s verdict.

**ReleaseEngine** follows `createEngine`. An attempt is its ordinal, `carried`
the attempt store of each process, `call` where each call is. One action per
step between two reads or writes of shared state: `RunOpens`, `RunScans`,
`AcquireLands`/`AcquireAnswers` (with the retry one sequence above the winner's),
`Classifies`, the stage steps (`StageReads`, `StageOpens`, `StageStarts`,
`StageRequests`, `StageVerifies`, `StageCompletes`), `Mints`, the release steps,
`ResolveRecords`, and `AbortCloses` before `AbortRecords`, as `doAbort` closes
the local attempt before it appends. `Dies` drops a process and what it
carries; `Faults` is a call that throws. `ForeignClaims` are other plans.

**ChannelStore**, **GitChannelStore**: the pointer of each channel. A ref is the
sequence of states of its history (commits have a fixed identity and clock, so
state and parent determine them). `Reads` adjudicates and remembers the base,
`Lands` compares it, `Loses` loops; `LandsUnreported` and `Fails` are the git
faults, which the store answers `ambiguous`, or, when the re-read finds the ref
moved, takes for a loss.

**ChannelStage** follows `applyPlannedChannelTransitions` and its place in the
walk: `Enters` (a verified advance of a stage not yet completed), `Observes`,
`Recalls` (`recordedPriorTarget`, or else the observed target), the store's
steps, `Writes` (the move's record) or `Stops`, `Completes`. `OutsideMoves` is
another attempt's stage. The attempt's ledger is one sequence here, of the
records that concern the stage; records of other stages that may fall between
two of them, and so keep an append from being absorbed, change no property.
The claim guard before the stage is `ReleaseEngine`'s.

**ExtensionWalk** is one attempt's walk with its extensions. The walk is a line
of stations, seven slots to a stage: the three schedulers before it, the stage,
the three schedulers after it, in the order of `effectiveSteps` and
`runBoundary`. A station is due where something is anchored. A scheduler drives
every step of its kind, in effective order: `left` holds those it has yet to
come to, `First` is the next. `tail` is the attempt's stream with contents
(fingerprints, digests) as model values. Each scheduler's loop is its scan, its
guard, its start, its effect and its completion (`HookScans`, `HookGuards`,
`Starts`, `EffectRuns`, `HookSettles`, and likewise of artifacts and
mutations); `MutationReconciles` is the branch for a mutation found started,
and `MutationSees` the bytes found or the postcondition that fails;
`Refused` is the difference between the three: a refused mutation blocks the
attempt, a refused hook or artifact is dropped by the boundary. `seam` says
whether the updater writes the tree or a process's own memory
(`version-mutation-driver.ts`), `Collects` and `Mints` are `completeRun` with
the commit door. The claim is one flag here, which once lost stays lost: that
is ClaimStore's `NoRevival`. A commit is its bytes, so equal bytes are one
commit, as the door's fixed identity makes them.

**Versions** has the order and the bumps of `core/domain/version.ts`;
**PlanHistory** what a line has pending (extraction, identities through
cherry-picks, the admitted tags and the pointer, the pending span, the
attribution that fails closed); **PlanLine** a line's decision, target and
streams (`decide.ts`, `state.ts`, `plan.ts`, `channels.ts`), each function of
the code an operator over a world record. **Planner** puts them in time: a
repository whose commits land, merge and are cherry-picked, whose policy is
edited, and whose lines are planned (`Plans`, the planning door with every
refusal of `assemble.ts`) and later minted (`Mints`, at the head that came with
the plan) or not (`Ends`). `runs` holds the runs in flight, any number of them
on one line: the engine claims the version or the sequence a run plans
(`src/src/app/claims.ts:50-70`), never its line, and plans before it claims
(`src/src/app/engine.ts:1062`). What the claims do to runs is `TagDoor`'s and
`ReleaseEngine`'s; here a run mints whenever its tag is absent. `after` and
`releases` are history. A commit is its place in the history, an intent a
record. The range walk is a recursive function on commits, not a RECURSIVE
operator.

**ReleasePR** is the gate and its port for one identity, one request at a time:
`Calls` and `Finds` (the discovery and the gate's judgement), `Starts` (the
write-ahead record), `Rereads`, `ReadsHead`, `Pushes`, `Opens` or `Adopts`,
`Patches`, `Labels`, `Records`. Every write may land with its answer lost, and
the record of a success may throw after it landed or before. The provider's
people edit, close, copy, push and delete. A plan stands for what is rendered
from it. The listing of open pull requests is read page by page, and one that
moves to an earlier page meanwhile is missed: `Listings` is any part of what is
open. `touched` and `disorder` are history: the calls beside which somebody
else wrote or whose own listing missed a pull request, and whether calls have
overlapped or a listing has missed one. `SuccessIsExact` speaks of calls that
are not in the one, `ClaimFollowsFiles` of histories without the other; without
these premises neither holds (section 4).

**GitHubRemote** is the remote's refs and `syncRemote` (`SyncLists`,
`SyncEnumerates`, `SyncCompares`, `SyncPushes`, `SyncRelists`, their failures,
`SyncRejected`, a push that does not fast-forward or that a hook or a protection
refuses, and `SyncThrows`, where there is no origin); **ReleasePublication**
adds the release object and the publishers, **RemoteReconciliation** the paged
walk and the composition of all of them over one remote that others edit. A
tag's `Place` in the listing is the number of tags present at or before it, a
page is the tags of the next `PerPage` places, and a tag that appears or goes
between two pages moves the places behind it; a page's link to the next may be
missing. git and the provider are external: they are modelled from what the code
asks of them and branches on. `stood`, `seen` and `listed` are history
variables: what stood since a call began.

`MC*` modules give TLC its definitions; the `*Proofs` modules hold the proofs.
PlannerProofs is over Planner, and so over the three modules under it.
MCTagDoor also has a view: the last answer of the claim port, which no action
reads, does not tell two states apart.

## 3. What the runs check

Bounds are constants named `Max...` in guards, given in the cfg.

| run | instance | properties and what they show |
|---|---|---|
| git_claims | 2 processes, 2 claims, 1 unreported landing | `ImplementsClaimStore`; `EveryCallReturns` under fairness |
| tag_door | 2 processes, 2 attempts, one line with a version and a stream of 2 sequences, 3 claims landed, 2 targets, 2 mints | the claim port and the door over it. `LineExclusion`: a held line stands alone. `PassedLeaseIsFenced`, `TakeoversAreReal`: the fence. `NoRevival`: a token told lost never comes back. `StableClaimsStand`. `MintedTagsStand`: a reported tag stands where reported. `OneMinterPerVersion` |
| ordinals | 2 processes, 3 rounds, 3 calls each, 1 unreported landing | `OrdinalsUnique`, `OrdinalsFollowTime`, `ExhaustionIsContention` |
| git_ledger | 2 processes, 3 records, 3 rounds, 1 unreported landing | `PlanPrecedesWork`, `NothingLost`, `CacheIsHistory`, `ImplementsLedger` |
| engine | 2 processes, 2 attempts, 2 stages (one mutating), 2 claims, 1 death or fault, 1 suspension | `WriteAheadOrder`, `OneWorker`, `TagFollowsWalk`, `AbandonmentEndsTheWalk` |
| channel_stage | 2 drivers, 2 channels, 1 move by others, 1 git fault, 1 death | `ImplementsChannelStore`, `RecordedMovesHappened`, `CompletedMeansMoved`, `DriftIsNotRepointed`; `EveryStageEnds` under fairness |
| extensions | 2 processes, 1 stage with a hook before, a hook after, an artifact and a mutation; 2 calls, 1 death, 1 edit of the tree, 1 resolution, the claim lost at any time | `TagFollowsExtensions`: a tag stands behind every extension's completion. `TagCarriesPlannedBytes`. `SequentialWalksRunOnce`: calls that follow one another, whatever died, complete each extension once |
| planner | 2 lines with bands, one released and one not born; 2 commits beyond the root, 2 runs in flight, 3 releases with those in flight, 1 policy edit, 6 sets of intents, 2 depths of history | `VersionsRise`: a release is above what its plan could know. `ReleasedOnce`: by runs that follow one another. `NothingLost`: however runs overlap. `PromotionIsValidated`. `OnlyRivalsTakeTags`: a planned tag is taken only by an overlapping run |
| release_pr | 2 gates, 2 plans of which one supersedes the other, 3 calls, 2 lost answers, failed records or deaths, 1 edit by a person, listings that miss any pull request | `RemoteIsOnRecord`, `SuccessIsExact`, `ClaimFollowsFiles` |
| remote | 2 publishers, one synchronisation, one reconciliation, 3 tags, 2 to a page; 2 calls of any kind, 2 edits by others, 1 fault | `SyncReportsTrue`, `OkMeansPublished`, `AbsenceIsObserved`, `ReconcileReportsTrue` |
| finished | the engine's instance | finds `FinishedMeansTagged` violated (section 4) |
| withheld | the planner's instance | finds `WithheldStaysPending` violated (section 4) |

Why the bounds are enough for the interesting cases. Two processes give every
race of a read with a rival's landing. Three landings over two sequences let a
lease be passed, released and claimed again. Three rounds are the code's own
`MAX_CAS_ATTEMPTS`, and three calls of the other process let a call lose all of
them. One unreported landing is met by the caller's own re-read and by a
rival's. The engine's walk is cut to the stages `claim` and `tag`: a stage that
only records and a mutating one behind the claim guard are the two ways a stage
behaves here, and two attempts with one death give the second attempt that runs,
resumes or is refused after the first. In channel_stage two channels make a
promotion half done; one death and one outside move make a resume after drift.
In extensions one stage has both boundaries, and an extension of each kind meets
each other's refusals; two calls and a death are a resume after any step, or two
walks beside each other. In planner two commits and three releases are a release
of the first, a prerelease and a promotion of the second, a cherry-pick or a
merge between two lines, or a commit that lands between a plan and its tag; two
runs in flight are two of one line or one of each, minted in either order. A
history observed from the second commit is always refused here: what the second
depth shows is the refusal. In release_pr three calls are a create, an
overlapping call and an update by the superseding plan, and two faults a call
that died before a retry whose answer is lost. In remote the two calls are one
budget for all callers: any two of them run beside each other, and each alone
under both edits, which may move a ref and move it back; three tags fill one
page of two and start another. The theorems of section 5 remove the bounds where
they apply.

The type invariants of the stores, the door and the channel stage are proved,
and no run repeats them; those of GitClaimStore and ReleaseEngine hold when
named in a copy of the cfg.

Deadlock is checked in git_claims and git_ledger. The others may really stop:
all calls issued, the plan's work over or refused for good, the stage completed.

Fairness. GitClaimStore and ChannelStage assume weak fairness of a process's
own steps inside a call (`Step`, `Drives`): the calls are synchronous code that
keeps running unless the process dies. New calls, faults, deaths and the moves
of others are not fair. The loops of these two stores have no bound; they end
because a round is lost only to another's landing and the instance has finitely
many others.

## 4. Where the code does something else than the text says

Two runs state a sentence of a comment and find it violated.

- `finished` (FinishedMeansTagged): a process dies after the last completion
  and before the mint. A resume refuses the tail as finished, a fresh run is
  denied by the stable claim, and the plan stays untagged.
- `withheld` (WithheldStaysPending): a fix stands below a withheld change. The
  decision pins the range below the withheld change and says it stays in the
  un-released span (`src/src/planner/decide.ts:635`); the plan drops the range,
  the tag is minted at the head, and the withheld change is released history.

Seven more are definitions of their modules that no run lists. Each is violated
within its module's instance: put the name in a copy of the cfg.

- `TagDoor!NoTagPastATakeover`: the tag door walks the claims, a takeover lands,
  and `git tag` creates the tag of the passed lease. The comment of
  `src/src/adapters/git/tag-door.ts:57-60` says that window closes there.
- `ReleaseEngine!RecoveryCompletes`: the retry past a dead prerelease lease
  claims the next sequence, the walk completes, and the door refuses the mint:
  the plan's tag was derived from the first sequence
  (`src/src/app/engine.ts:121`, `src/src/app/claims.ts:148`).
- `ReleaseEngine!NoMintAfterAbandonment`: a process that resumed the attempt and
  is past its last stage mints and publishes after the abandonment is recorded.
- `ChannelStage!NoSecondMove`: a process dies between the move of a channel
  and its record; the channel is moved elsewhere; the resumed stage assumes
  what it now reads and moves the channel a second time. Drift after a recorded
  move is refused (`DriftIsNotRepointed`), drift before the record is not.
- `ReleasePR!CurrentIsExact`: the gate answers `current` for a pull request
  whose labels are missing or whose branch a person pushed to. The doc of
  `ReleasePRCurrent` says labels included; the gate compares body and title
  (`src/src/app/release-pr.ts:628-635`).
- `Planner!OverlapsStayOrdered`: two runs of one line are planned, for two
  streams in TLC's trace, for a release and a later one as well; their claims
  are on different versions and stand beside each other, the higher is minted
  first and the lower after it. `docs/design/release-taxonomy.md:619-620`
  of the sources says a stream of versions on a line must stay monotonic and
  collision-free; nothing looks at the line again between
  `src/src/app/engine.ts:1062` and the tag. In the same way both release the
  commits they share (`ReleasedOnce` without `Sequential`), and both may plan one
  tag, of which the second is denied or refused.
- `Planner!IdentityReleasedOnce`: a change and its cherry-pick have one
  identity, and a line that has the first released releases the second again;
  `src/src/planner/types.ts:317-321` speaks of identities, the span of commits.

Met while modelling, without a run:

- The stores keep one takeover record per scope, so passing a second lease of a
  scope forgets who passed the first
  (`src/src/execution/claim-store-memory.ts:103-117`). A holder passed and
  released verifies `lost` instead of `superseded`; it never verifies `held`
  (`NoRevival`).
- The comment at `src/src/app/engine.ts:428-433` says a completed stage must
  never read as re-opened. Two processes on one attempt may append the start
  after the completion. `WriteAheadOrder` shows it harms no later reader.
- A resolution record clears every later block of the attempt, not only its own.
- A channel record whose outcome was `noop` may hold a prior that the
  fingerprint beside it is not of: they come from two reads
  (`src/src/app/channels.ts:130`, `:132`). `RecordedMovesHappened` states what
  holds.
- `src/src/execution/types.ts:844` says a channel transition holds the
  release-line claim; the walk demands the stable or prerelease scope only
  (`claimScopeForLine`).
- The walk goes on past a refused hook. Two processes that complete one hook
  with different fingerprints make the next walk's scheduler stop there, and
  the hooks behind it are never run, yet the tag is minted:
  `TagFollowsExtensions` names exactly this case.
- The first anchored boundary drives every declared hook, those after the stage
  included (`src/src/execution/hooks.ts:128`, against `:39-41`).
- The bytes committed are read again at the end and never compared with the
  fingerprint the completion recorded: an edit of the tree after the completion
  is committed. `TagCarriesPlannedBytes` excepts edits for that reason.
- A completion that reconciles a started mutation verifies no claim
  (`src/src/execution/updater.ts:193`); the mint behind it does.
- The planner: a prerelease demand on a line that is not born mints the first
  sequence of 0.0.1 whatever the recorded bootstrap is
  (`src/src/planner/plan.ts:204`), and takes the stable birth away even where
  the stream is not one the line admits (`src/src/planner/assemble.ts:147`). A
  breaking change on a banded line mints a version outside the band, which is
  no history of the line, and is planned again; a tag format that is not the
  bare version has the same end. `release-as` is not held above the pointer.
  Two pending commits of one identity refuse every plan of the line. The
  tie-break by origin line is never fed. `ReleasedOnce` and `NothingLost` name
  these cases as `Orderly`, `VersionsRise` and `OnlyRivalsTakeTags` as `InBand`
  and `asked`. A version that `release-as` gives to one line and
  that lies in another's band is the other's history too: it moves that line's
  pointer, and the range of its next plan starts at a commit the line may never
  have reached, so changes are lost to it or released again. `ReleasedOnce` and
  `NothingLost` except that case as `Alone`, and a line without a band takes
  every bare tag for its own. It takes two lines that are both released, which
  the run's instance does not have; the proofs met it.
- The release PR: `plan.supersedes` is always null where plans are assembled
  (`src/src/planner/assemble.ts:551`), so an older plan's pull request is
  refused and not updated. The header's sentence that a crash never leaves a
  body claiming content the branch does not carry is too strong: calls that
  overlap can, and so can one whose listing misses the pull request there is;
  `ClaimFollowsFiles` is what holds of the others. A
  create pushes its files onto the derived branch even where another's pull
  request has it. A body edited by hand is overwritten by a superseding plan,
  where `src/src/app/release-pr.ts:336-340` promises a recorded conflict. A pull
  request that moves to an earlier page while the pages are read is in no row of
  a walk that calls itself complete
  (`src/src/adapters/github/release-pr.ts:404-450`): the create then goes on as
  if there were none. A sink that loses its three rounds on the record of a
  success makes the gate answer a transport failure for a write that landed
  whole (`src/src/app/release-pr.ts:449`, `:493`).
- The remote: a release published over a commit never pushed is answered 422
  and reported a conflict. A register that advanced after its first push is
  reported `already-pushed-different-target` by every later synchronisation,
  although the remote holds its own older tip. A push that failed on transport
  may have landed, where `src/src/app/engine.ts:881-884` says nothing landed.
  The satisfied path of `publishRelease` reads the body and not the metadata;
  `verifyRelease` reads both. A deletion between two pages hides a tag from a
  report that calls itself complete (`ReconcileReportsTrue` excepts it), and a
  tag minted and pushed during the walk is reported as unadopted. `syncRemote`
  and `reconcile` have no caller in the sources but their adapter.
- The memory assembly has no mint door, so the recovery above publishes the
  tag of the dead holder's sequence there.

## 5. What is proved

TLAPS checks every leaf. The assumptions are the named ASSUMEs of the modules:
sequences are naturals, the round bound is positive, plan, start and other
records are distinct, the hidden state is no target, a plan names a channel
once, an absent ref is no commit, the marks of a body that is not a plan's are
no plans and no absent plan, a register's commits descend from one another in a
strict order, the processes of the engine and of the claim registers are
finitely many, the tags of the remote are ordered and finitely many and a page
has room for one, an extension is anchored at a stage and is none. Nothing more
is assumed about how many processes, attempts, channels, stages, plans,
publishers, claims, records, edits or faults there are.

**RegisterProofs.** Of the claim registers, the refinement: mapped to the union
of the lines' registers, every step is a step of the port or a stutter. A
register holds claims and takeovers of its own line (`StoreInv`), and neither
acceptance, refusal nor takeover looks at another line (`AcceptsByLine`,
`RefusalsByLine`, `MergeByLine`), so what a loop computes of one ref is what the
port computes of the store. What a loop has read is what the ref holds until the
ref moves, and it moves forward only (`Base`), so a landing lands what was
computed of the store it lands on; a landing on one line falsifies nothing
another loop has read (`LandingIsSound`). A token names one claim, so the
removal from one line is the port's removal. `Budgeted` bounds the tokens: the
port grants at most so many, and an acquire in progress, past the bound's check,
may still land. From it: `RegistersImplementPort`.

Of the git ledger: what a cache holds is the history of its tip; the plan record
once known to a call is in the stream; a landing extends the base its round
classified. From it: `PlanFirst`, `AppendsAreFound`, `CachesAreTrue`, and
`LedgerImplementsPort`: the git ledger implements the ledger port, step by step.

**ChannelStageProofs.** `TypeOK` carries the fact that a landing starts from the
base its round adjudicated, which gives `Refinement` to the channel port. For
`RecordsAreTrue` the invariant says what each driver knows: the observed state
is in the history for good, the assumed prior is the observed state or the
target itself, and a decided move happened. `CompletionIsHonest` needs that a
driver has put every earlier move of the plan on record. `DriftIsRefused` needs
that a move on record makes the driver assume the target, from which nothing
lands.

**TagDoorProofs.** Of the claim store, `IInv` is the conjunction of the type
invariant, `OneHolder`, `LineExclusion`, `TakeoversAreReal`,
`PassedLeaseIsFenced` and two strengthenings: `TokensIssued`, every token in the
store is below `nextToken`, so the next one is fresh, and `TokensAgree`, a token
names the same claim in the held set and in the records. Without them a step may
land a claim under a token a takeover already passed. From it: `TypeCorrect`,
`MutualExclusion`, `TakeoverFence`, `TakeoversHappened`, `StableAllocation`,
`NoTokenRevives`. Over it, two things carry the mints: a tag ref is never moved
once created, so what a settling door reads there stands for good; and a stable
claim never leaves the held set, so the claim the walk found is still its
caller's when the tag is created and reported, whatever landed between
(`DoorsStandOnClaims`). From it: `MintedForGood`, `SingleMinter`.

The module also holds the attempt register's proofs. A base read by a round is
at most the counter, and every issued ordinal is; so a landing, which compares
the base, issues a number no call holds. Each lost round saw the counter move,
so `lost` counts others' landings. From it: `AttemptsAreDistinct`,
`AttemptsAreOrdered`, `FailsClosedUnderContention`.

**ReleaseEngineProofs.** `OneWorker` is not inductive: it says nothing of the
token a call holds. The invariant `StableInv` says that the claims have one
scope and one token each, that a call of a stable plan asks for the plan's
scope alone and holds a token of it or none, and that a call about to record
the completion of a mutating stage is of an attempt that holds the scope; then
every attempt that completed one holds the one claim. It is proved action by
action, with the deaths, the faults and the claims of other plans. From it:
`OneWorkerEver`. The other two invariants need no claim. `OrderInv`: a call at a
stage finds every earlier one completed on its attempt's stream, a call about to
complete a stage finds its start, a call at the mint finds them all; streams only
grow, so whatever the other processes append, it stays so, and what a call
appends keeps the stream in order. From it: `WriteAheadEver`, `TagBehindWalk`.
`Ends`: after a recorded abandonment, the completions that follow it and the
calls between the read of the tail and their record are together fewer than the
processes; a completion is paid for by the call that leaves that place, and none
enters it any more. From it: `AbandonmentEndsWork`.

**ReleasePRProofs.** Only a call past its write-ahead record writes files or a
claim (`CallsAreOnRecord`), the sink forgets nothing, and people bring no plan
that was not there. From it: `ProviderIsOnRecord`.

The two theorems about its answers assume nothing of the pages; their premises
are in the properties. `GateInv` says, of a call that nobody disturbed since it
began and whose listing was whole (`Undisturbed`), that what it read still holds
and what it wrote stands: an open pull request found is still there and the
gate's own, the files pushed are on the branch, the body patched is the plan's.
Anybody's write puts every other call in `touched`, and a listing that missed a
pull request its own (`ListingMisses`), so the clause need only survive a call's
own steps. `AloneInv` says the rest of a call that overlaps no other: before it
pushes, all that is open on the branch is claimed by its plan or by one its plan
supersedes, or by nobody, and a branch that does not exist has nothing open;
without that, a push could leave a claim above foreign files. From it:
`SuccessMeansWhatItNames`, `ClaimMovesLast`.

**RemoteProofs.** Anybody may edit between two requests, so the invariants say
what a call has seen by each of its places, never what stands: `CallInv` for a
publisher, `SyncInv` for the synchronisation, where a ref of the binding is at
the commit the call recorded or at one that descends from it, so one that is
there at the end was there when it was pushed. From them:
`GoodNewsIsTrue`, `AbsenceIsTrue`, `ReportsAreTrue`. `WalkInv` is the
reconciliation's: while nothing was deleted, a tag that stood all along has its
row or a place ahead of the walk, for places only grow (`PlaceGrows`); a page of
`PerPage` rows or a last one is the tags of its places and no others
(`PagesAreFull`, by counting), so a walk that ends complete has left no tag
behind, at any page size. From it: `ReconciliationIsTrue`.

**ExtensionWalkProofs.** The invariant is about where a call is: everything at
the stations behind it is completed (`Passed`), and so is what its scheduler has
come past. Completions are never taken back, so what other processes append
keeps it; a resume enters at the first stage that has a step uncompleted, behind
which nothing is missing (`EntryStage`). Hooks have an excuse, a claim lost for
good or completions that disagree for good, both of which last; an artifact that
was refused stops `publish`, and a mutation its walk. From it:
`TagBehindExtensions`. The bytes a call takes to the mint are the files of every
mutation at a moment where all were written, and a file is written with planned
bytes by anybody but an outside edit: `TagIsAsPlanned`. For `ExtensionsRunOnce`
the property alone is not inductive: `SequentialInv` adds that one call at most
is in progress, that a completion is the last record of its step (so the step
state, which every scan reads, finds it), and that nobody has a completed step
in hand.

**PlannerProofs.** Its first part is about the operators, for every history and
every version: versions are strictly and totally ordered (`VersionOrder`), a
bump is above its base (`BumpIsAbove`), what a commit reaches is closed,
transitive and does not change as the history grows (`ReachesClosed`,
`ReachesTransitive`, `ReachesGrows`). `Reaches` is a recursive function; that it
has a value at every commit is shown by the least length of a history that would
be a counterexample, and facts about it by the least commit (`LeastIs`), as
nothing here can instantiate the library's induction theorems. The second part
says what a plan is, over any world: the pointer is the highest version admitted
(`PointerIs`), a decision releases what is pending or what survives below the
earliest withheld change (`DecisionIs`), a target not named by an operator is
above the pointer (`PlannedIs`).

None of the five invariants is inductive: each compares releases with each
other, and a run in flight becomes the next release. `IInv` therefore says of
every run, in flight or minted, what it knew when it was planned, when there were
`after` releases: it is above every one of them of its line (`Rising`); its
target reaches every target of theirs, and the head of its line reaches it
(`Following`); its range starts where the highest of them ended (`SinceLast`).
None of the three looks at what was minted since, so runs of the line may
overlap and be minted in any order. With these and `Sound` (a run carries only
release-worthy changes of its range, and all of them where its head was not
pinned), a mint leaves no change behind (`Kept`: what its range leaves out, the
releases its plan knew carried, and by then more may have been), and, where each
release was planned after the earlier ones, it adds changes those do not contain
(`Once`). `LogInv` says every tag was there at the start or is a release, which
is what lets a plan that reads tags say something of releases; from it, a plan's
tag is none there is, so only a mint after the plan takes it, and one of another
line only outside the bands. Commits that land disturb nothing since what a
commit reaches never changes; other lines' mints do not disturb a line that is
`Alone`. The policy may be anything: its edits touch no clause.

The assumptions are `PolicyAdmitted`, what the input door admits, and
`BaselineAdmitted`: commits come after their parents, heads and tags are of
commits, the tags are finitely many and versions. Nothing is assumed about the
depths callers observe: a plan reads only worlds that `Closed` admits, and in
those it sees every ancestor of what it asks for (`ClosedSees`). From `IInv`:
`VersionsOnlyRise`, `ChangesAreReleasedOnce`, `NoChangeIsLost`,
`PromotionsAreValidated`, `TagsAreTakenByRivals`. Nothing is assumed about how
many runs of a line are in flight.

Only model-checked: the liveness properties `EveryCallReturns` and
`EveryStageEnds`. Liveness under fairness and ENABLED are out of the prover's
reach. Every invariant and every refinement the passing runs check is a theorem.
The modules have no RECURSIVE operator.

## 6. Not modelled

- Externally satisfied steps of the walk: no door of the engine writes them.
- Modes and submodules of committed files: the commit door writes every
  collected path as a plain file (`src/src/adapters/git/commit-door.ts:125-173`).
- The parsing of a remote's identity, the content seal of a recorded release and
  the listing of releases, which is the tag walk again.
- Drafts of the release pull request, the rendering of its body, and a branch
  tip that returns to a commit it had.
- In the planner: propagation between components, the changelog, plan identity,
  the validation of most inputs, prereleases of another form than a stream and
  a sequence, and what is under `scripts/`.
- `supersedePlan` and `classifyCrash` of the kernel: the engine never calls
  them. `observe`, `list` and the read models: they change nothing.
- Wording, JSON and object formats, workspace detection, the command line.

## 7. Plan

Done: the stores, the tag door, the engine's walk, the channels, the
extensions, the planner from history to tags, the release pull request, the
remote's three doors; proofs of every safety property and every refinement the
runs check.

1. Proofs: the port's theorems over the git stores themselves, from the
   refinements (mutual exclusion and the fence of the registers' union, the
   order of the git ledger's stream).
2. Propagation (`planner/propagate.ts`) over small graphs of components,
   against the least fixed point of the graph; duplicate component names make
   its order throw today (`src/src/planner/propagate.ts:204`).
3. The walk over the remote's releases, and a visibility that comes back
   between a read and its probe.
4. Liveness of the engine: a resumed attempt that is not blocked ends.
5. A bound on what an attempt still records after its lease was passed, as
   `AbandonmentEndsTheWalk` bounds it after an abandonment.

Runs that state findings give way to new ones where the number of runs would
otherwise grow past what is read with care; the finding then stays in section 4.
