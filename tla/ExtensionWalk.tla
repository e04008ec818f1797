---------------------------- MODULE ExtensionWalk ---------------------------
(***************************************************************************)
(* The declared extensions of one attempt: hooks, artifacts and updater    *)
(* mutations, scheduled at the boundaries of the canonical stages          *)
(* (src/execution/hooks.ts, artifacts.ts, updater.ts and runBoundary of    *)
(* src/app/engine.ts), and the completion of the walk, which commits the   *)
(* mutated files and mints the tag (completeRun, adapters/git/             *)
(* commit-door.ts).  Several processes may drive the attempt, one that     *)
(* opened it and others that resume it from its record stream; each effect *)
(* stands between two records, and a process may die between any two.      *)
(*                                                                         *)
(* ReleaseEngine has the attempt's opening, its claim and its abandonment; *)
(* here the claim is one flag, which once lost stays lost (NoRevival of    *)
(* ClaimStore), and the attempt exists.                                    *)
(***************************************************************************)
EXTENDS Naturals, Sequences, FiniteSets, SequencesExt

CONSTANTS
  Stages, Mutating,          \* CANONICAL_STAGES and MUTATING_STAGES
  Hooks, Artifacts, Mutations, \* the declared extensions, in order: records of
                             \* an id, an anchor stage and position; an
                             \* artifact's dependsOn is a set `deps`
  Process,
  Produced,                  \* what a run of each hook or artifact may yield
  MaxCalls, MaxDeaths, MaxEdits, MaxResolutions  \* bounds

\* An observation that fails its postconditions, or a malformed digest.
Bad == "bad"
Absent == "absent"           \* a path that has no bytes
Planned == "planned"         \* the bytes the mutation's intent re-derives
Edited == "edited"           \* bytes an outside hand wrote

Ids(declared) == {declared[i].id : i \in DOMAIN declared}
Declared == [hook |-> Hooks, artifact |-> Artifacts, mutation |-> Mutations]
Kinds == {"hook", "artifact", "mutation"}
Path == Ids(Mutations)
Stage == ToSet(Stages)

Extension == Ids(Hooks) \union Ids(Artifacts) \union Ids(Mutations)

\* Step keys are made apart: an extension's is no stage's.
ASSUME ExtensionAssumption ==
  /\ Stages \in Seq(Stage) /\ "publish" \in Stage
  /\ \A k \in Kinds :
       /\ Declared[k] \in Seq(ToSet(Declared[k]))
       /\ \A i \in DOMAIN Declared[k] :
            Declared[k][i].stage \in Stage /\ Declared[k][i].position \in {"before", "after"}
  /\ Extension \intersect Stage = {}
  /\ DOMAIN Produced = Ids(Hooks) \union Ids(Artifacts)
  /\ "tree" \notin Process

VARIABLES
  tail,     \* the attempt's records: [step, to, content]
  claimed,  \* whether the attempt's claim verifies
  seam,     \* who shares an updater's files: the tree, or a process's memory
  files,    \* what stands under each path
  tag,      \* the bytes under the tag, one at most: {} before the mint
  carried,  \* the state of the attempt in each engine that carries it
  call,     \* where each process is
  overlapped, \* whether two calls were ever in progress at once: history
  calls, deaths, edits, resolutions  \* what the bounds count

vars == <<tail, claimed, seam, files, tag, carried, call, overlapped, calls, deaths, edits, resolutions>>

None == "none"
Idle == [at |-> "idle", station |-> 0, left |-> {}, seen |-> None, mode |-> None]

-----------------------------------------------------------------------------
(* The walk's stations.  runBoundary calls, on each side of a stage, the   *)
(* schedulers that have something anchored there: hooks, then artifacts,   *)
(* then mutations; that is the order of the effective steps too.           *)

Slots == << <<"before", "hook">>, <<"before", "artifact">>, <<"before", "mutation">>,
            <<"at", "stage">>,
            <<"after", "hook">>, <<"after", "artifact">>, <<"after", "mutation">> >>
LastStation == 7 * Len(Stages)
StageAt(n) == Stages[((n - 1) \div 7) + 1]
Slot(n) == Slots[((n - 1) % 7) + 1]

Anchored(kind, i, n) ==
  Slot(n) = <<Declared[kind][i].position, kind>> /\ StageAt(n) = Declared[kind][i].stage
Due(n) ==
  \/ Slot(n)[2] = "stage"
  \/ \E i \in DOMAIN Declared[Slot(n)[2]] : Anchored(Slot(n)[2], i, n)

\* Every scheduler drives all the steps of its kind, in effective order: of
\* those that are left, the one anchored first, then declared first.
Anchor(kind, i) == CHOOSE n \in 1 .. LastStation : Anchored(kind, i, n)
First(kind, left) ==
  CHOOSE i \in left : \A j \in left :
    \/ Anchor(kind, i) < Anchor(kind, j)
    \/ Anchor(kind, i) = Anchor(kind, j) /\ i <= j

-----------------------------------------------------------------------------
(* What the tail says of a step.                                           *)

Record(step, to, content) == [step |-> step, to |-> to, content |-> content]

\* An append the tip already holds is absorbed.
Records(record) == tail' = IF tail # <<>> /\ Last(tail) = record THEN tail ELSE Append(tail, record)

At(step, to) == {i \in DOMAIN tail : tail[i].step = step /\ tail[i].to = to}

\* Mutant: the step's first record instead of its last.
MutantStepState(step) ==
  LET at == At(step, "started") \union At(step, "completed") \union At(step, "failed") IN
  IF at = {} THEN "none" ELSE tail[CHOOSE i \in at : \A j \in at : i <= j].to

\* The ledger's step state is the step's last record; a resolution is none.
StepState(step) ==
  LET at == At(step, "started") \union At(step, "completed") \union At(step, "failed") IN
  IF at = {} THEN "none" ELSE tail[CHOOSE i \in at : \A j \in at : j <= i].to

Contents(step) == {tail[i].content : i \in At(step, "completed")}
Disagrees(step) == \E content, other \in Contents(step) : content # other

\* The steps of a stage: itself, and what is anchored on its two sides.
StepsOf(stage) ==
  {stage} \union
  UNION {{e.id : e \in {e \in ToSet(Declared[kind]) : e.stage = stage}} : kind \in Kinds}
Uncompleted == {s \in Stage \union Extension : StepState(s) # "completed"}

\* A recorded failure of an extension that nothing after it resolves.
Unclosed(state) ==
  \E i \in DOMAIN tail :
    /\ tail[i].to = "failed"
    /\ state # "blocked"
    /\ \A j \in i + 1 .. Len(tail) : tail[j].to = "resolved" => tail[j].step # tail[i].step

\* classifyResume of an attempt whose process-local state is `state`.
Verdict(state) ==
  IF \/ tail = <<>> \/ Unclosed(state)
     \/ state = "blocked" /\ \A i \in DOMAIN tail : tail[i].to # "resolved"
  THEN "escalate"
  ELSE IF Uncompleted = {} THEN "complete" ELSE "resume"

-----------------------------------------------------------------------------
Init ==
  /\ tail = <<>> /\ claimed = TRUE
  /\ seam \in {"tree", "memory"}
  /\ files = [o \in Process \union {"tree"} |-> [m \in Path |-> Absent]]
  /\ tag = {}
  /\ carried = [p \in Process |-> None]
  /\ call = [p \in Process |-> Idle]
  /\ overlapped = FALSE /\ calls = 0 /\ deaths = 0 /\ edits = 0 /\ resolutions = 0

Goto(p, c) == call' = [call EXCEPT ![p] = c]
Owner(p) == IF seam = "tree" THEN seam ELSE p

\* A process at the next station of the walk, past the last one it collects;
\* `left` are the steps the station's scheduler has yet to come to.
NextStation(from) ==
  LET due == {n \in from .. LastStation : Due(n)} IN
  IF due = {} THEN LastStation + 1 ELSE CHOOSE n \in due : \A m \in due : n <= m

Walking(from, mode) ==
  LET n == NextStation(from)
      at == IF n > LastStation THEN "collect"
            ELSE IF Slot(n)[2] = "stage" THEN "stage" ELSE "scan"
  IN [at |-> at, station |-> n, seen |-> None, mode |-> mode,
      left |-> IF at = "scan" THEN DOMAIN Declared[Slot(n)[2]] ELSE {}]

boundVars == <<overlapped, calls, deaths, edits, resolutions>>
worldVars == <<claimed, seam, files, tag, boundVars>>

Begins ==
  /\ calls < MaxCalls /\ calls' = calls + 1
  /\ overlapped' = (overlapped \/ \E q \in Process : call[q] # Idle)

\* run opens the attempt; one process does.
Runs(p) ==
  /\ call[p] = Idle /\ tail = <<>> /\ \A q \in Process : carried[q] = None
  /\ carried' = [carried EXCEPT ![p] = "executing"]
  /\ Goto(p, Walking(1, "carried"))
  /\ Begins
  /\ UNCHANGED <<tail, claimed, seam, files, tag, deaths, edits, resolutions>>

\* firstUncompleted and anchorStageOf: the walk enters at the first stage that
\* has a step uncompleted, its own or one anchored there.
EntryStage ==
  CHOOSE i \in DOMAIN Stages :
    /\ StepsOf(Stages[i]) \intersect Uncompleted # {}
    /\ \A j \in 1 .. i - 1 : StepsOf(Stages[j]) \intersect Uncompleted = {}

\* run or resume of a carried attempt, and resume of one rebuilt from the
\* tail, which is posed as executing and only admitted to be resumed.
Resumes(p) ==
  LET mode == IF carried[p] = None THEN "durable" ELSE "carried"
      state == IF mode = "durable" THEN "executing" ELSE carried[p]
      verdict == Verdict(state)
  IN
  /\ call[p] = Idle /\ claimed
  /\ Begins
  /\ state \in {"executing", "blocked"}
  /\ \/ /\ verdict = "resume" /\ state = "executing"
        /\ Goto(p, Walking(7 * (EntryStage - 1) + 1, mode))
     \/ /\ verdict = "complete" /\ state = "executing" /\ mode = "carried"
        /\ Goto(p, Walking(LastStation + 1, mode))
  /\ UNCHANGED <<tail, carried, claimed, seam, files, tag, deaths, edits, resolutions>>

-----------------------------------------------------------------------------
(* runBoundary: the schedulers that have something anchored here, each     *)
(* over all its steps.                                                     *)

Kind(p) == Slot(call[p].station)[2]
Turned(p) == First(Kind(p), call[p].left)
Current(p) == Declared[Kind(p)][Turned(p)].id

Onward(p) == Goto(p, Walking(call[p].station + 1, call[p].mode))
Advances(p) == Goto(p, [call[p] EXCEPT !.at = "scan", !.left = @ \ {Turned(p)}])

\* The call ends; a carried attempt is left in `state`, a rebuilt one dropped.
Stops(p, state) ==
  /\ Goto(p, Idle)
  /\ carried' = IF call[p].mode = "carried" THEN [carried EXCEPT ![p] = state] ELSE carried

\* Mutant: a refused mutation is dropped like the others.
MutantRefused(p) == Onward(p) /\ UNCHANGED carried

\* A refusal breaks the scheduler's loop.  The boundary drops a refused hook
\* or artifact and walks on; a refused mutation blocks the attempt.
Refused(p) ==
  IF Kind(p) = "mutation" THEN Stops(p, "blocked") ELSE Onward(p) /\ UNCHANGED carried

\* Every scheduler: the loop is over, or the step it is at has its turn.
Turn(p, kind) == call[p].at = "scan" /\ Kind(p) = kind /\ call[p].left # {}

LoopEnds(p) ==
  /\ call[p].at = "scan" /\ call[p].left = {}
  /\ Onward(p)
  /\ UNCHANGED <<tail, carried, worldVars>>

Turns(p, at) == Goto(p, [call[p] EXCEPT !.at = at]) /\ UNCHANGED carried

\* A completed hook is replayed, unless its completions disagree.
HookScans(p) ==
  /\ Turn(p, "hook")
  /\ IF StepState(Current(p)) # "completed" THEN Turns(p, "guard")
     ELSE IF Disagrees(Current(p)) THEN Refused(p)
     ELSE Advances(p) /\ UNCHANGED carried
  /\ UNCHANGED <<tail, worldVars>>

\* Completions that disagree refuse an artifact whatever its last record is.
ArtifactScans(p) ==
  /\ Turn(p, "artifact")
  /\ IF Disagrees(Current(p)) THEN Refused(p)
     ELSE IF StepState(Current(p)) = "completed" THEN Advances(p) /\ UNCHANGED carried
     ELSE Turns(p, "guard")
  /\ UNCHANGED <<tail, worldVars>>

\* A mutation found started is reconciled, not started again.
MutationScans(p) ==
  LET state == StepState(Current(p)) IN
  /\ Turn(p, "mutation")
  /\ IF Disagrees(Current(p)) THEN Refused(p)
     ELSE IF state = "completed" THEN Advances(p) /\ UNCHANGED carried
     ELSE Turns(p, IF state = "started" THEN "reconcile" ELSE "guard")
  /\ UNCHANGED <<tail, worldVars>>

\* The claim guard; a start is appended unless the last record is one.
StartNeeded(p) == Turns(p, IF StepState(Current(p)) \in {"none", "failed"} THEN "start" ELSE "act")

HookGuards(p) ==
  /\ call[p].at = "guard" /\ Kind(p) = "hook"
  /\ IF claimed THEN StartNeeded(p) ELSE Refused(p)
  /\ UNCHANGED <<tail, worldVars>>

\* An artifact also waits for its dependencies' completions.
ArtifactGuards(p) ==
  /\ call[p].at = "guard" /\ Kind(p) = "artifact"
  /\ IF claimed /\ \A dep \in Artifacts[Turned(p)].deps : At(dep, "completed") # {}
     THEN StartNeeded(p) ELSE Refused(p)
  /\ UNCHANGED <<tail, worldVars>>

\* A mutation without an injected intent ends the call by an exception.
MutationGuards(p) ==
  /\ call[p].at = "guard" /\ Kind(p) = "mutation"
  /\ \/ IF claimed THEN Turns(p, "start") ELSE Refused(p)
     \/ Goto(p, Idle) /\ UNCHANGED carried
  /\ UNCHANGED <<tail, worldVars>>

Starts(p) ==
  /\ call[p].at = "start"
  /\ Records(Record(Current(p), "started", None))
  /\ Goto(p, [call[p] EXCEPT !.at = "act"])
  /\ UNCHANGED <<carried, worldVars>>

\* A hook's effect or an artifact's producer runs.
EffectRuns(p) ==
  /\ call[p].at = "act" /\ Kind(p) # "mutation"
  /\ \E content \in Produced[Current(p)] :
       Goto(p, [call[p] EXCEPT !.at = "settle", !.seen = content])
  /\ UNCHANGED <<tail, carried, worldVars>>

MutationWrites(p) ==
  /\ call[p].at = "act" /\ Kind(p) = "mutation"
  /\ files' = [files EXCEPT ![Owner(p)][Current(p)] = Planned]
  /\ Goto(p, [call[p] EXCEPT !.at = "reread"])
  /\ UNCHANGED <<tail, carried, claimed, seam, tag, boundVars>>

\* A write is read back; bytes that are not the producer's fail the step, and
\* so does an intent that declares no digest.
MutationSees(p, seen) ==
  /\ seen = Planned => files[Owner(p)][Current(p)] = Planned
  /\ Goto(p, [call[p] EXCEPT !.at = "settle", !.seen = seen])

MutationRereads(p) ==
  /\ call[p].at = "reread"
  /\ \E seen \in {Planned, Bad} : MutationSees(p, seen)
  /\ UNCHANGED <<tail, carried, worldVars>>

\* A durable start of a mutation, met by a later walk: the bytes decide, and
\* no claim is asked for.  Without an intent there is nothing to compare them
\* with, and the step fails.
MutationReconciles(p) ==
  /\ call[p].at = "reconcile"
  /\ \/ \E seen \in {Planned, Bad} : MutationSees(p, seen) /\ UNCHANGED carried
     \/ files[Owner(p)][Current(p)] # Planned /\ Refused(p)
  /\ UNCHANGED <<tail, worldVars>>

\* Postconditions, then the completion; unmet, the failure and a block.
Settles(p, kind) ==
  /\ call[p].at = "settle" /\ Kind(p) = kind
  /\ IF call[p].seen = Bad
     THEN Records(Record(Current(p), "failed", None)) /\ Stops(p, "blocked")
     ELSE Records(Record(Current(p), "completed", call[p].seen)) /\ Advances(p) /\ UNCHANGED carried
  /\ UNCHANGED worldVars

HookSettles(p) == Settles(p, "hook")
ArtifactSettles(p) == Settles(p, "artifact")
MutationSettles(p) == Settles(p, "mutation")

-----------------------------------------------------------------------------
(* The stage between its boundaries (ReleaseEngine splits it further).     *)

StageNow(p) == StageAt(call[p].station)

StageStarts(p) ==
  /\ call[p].at = "stage"
  /\ IF StepState(StageNow(p)) \in {"none", "failed"}
     THEN Records(Record(StageNow(p), "started", None))
     ELSE UNCHANGED tail
  /\ Goto(p, [call[p] EXCEPT !.at = "request"])
  /\ UNCHANGED <<carried, worldVars>>

\* A mutating stage needs the claim; publish needs every declared artifact
\* completed, its records agreeing (generationStands).
Admitted(stage) ==
  /\ stage \in Mutating => claimed
  /\ stage = "publish" =>
       \A a \in Ids(Artifacts) : At(a, "completed") # {} /\ ~Disagrees(a)

\* requestStep: a completed stage is walked past, an admitted one completed.
StageRequests(p) ==
  /\ call[p].at = "request"
  /\ \/ At(StageNow(p), "completed") # {} /\ Onward(p) /\ UNCHANGED tail
     \/ /\ At(StageNow(p), "completed") = {} /\ Admitted(StageNow(p))
        /\ Records(Record(StageNow(p), "completed", None))
        /\ Onward(p)
     \/ /\ At(StageNow(p), "completed") = {} /\ ~Admitted(StageNow(p))
        /\ Goto(p, Idle) /\ UNCHANGED tail
  /\ UNCHANGED <<carried, worldVars>>

-----------------------------------------------------------------------------
(* completeRun: the bytes are read back through the updater's seam for     *)
(* every completed mutation, committed over the base, and tagged.          *)

CompletedMutations == {m \in Path : At(m, "completed") # {}}

\* Mutant: what cannot be read is left out of the refusal.
MutantCollects(p) ==
  /\ call[p].at = "collect"
  /\ Goto(p, [call[p] EXCEPT !.at = "mint", !.seen = [m \in CompletedMutations |-> files[Owner(p)][m]]])
  /\ UNCHANGED <<tail, carried, worldVars>>

\* A completed mutation whose bytes cannot be read refuses the release.
Collects(p) ==
  LET bytes == [m \in CompletedMutations |-> files[Owner(p)][m]] IN
  /\ call[p].at = "collect"
  /\ IF \E m \in CompletedMutations : bytes[m] = Absent
     THEN Goto(p, Idle)
     ELSE Goto(p, [call[p] EXCEPT !.at = "mint", !.seen = bytes])
  /\ UNCHANGED <<tail, carried, worldVars>>

\* The commit door and the tag door ask for the claim; the commit's identity
\* is its content, so the same bytes are the same commit, and a tag that
\* stands elsewhere is a conflict.
Mints(p) ==
  /\ call[p].at = "mint"
  /\ IF claimed /\ tag \subseteq {call[p].seen}
     THEN tag' = {call[p].seen} /\ Stops(p, "published")
     ELSE UNCHANGED <<tag, carried>> /\ Goto(p, Idle)
  /\ UNCHANGED <<tail, claimed, seam, files, boundVars>>

-----------------------------------------------------------------------------
(* resolve, and what may go wrong.                                         *)

\* resolve: a door of the engine that carries the attempt, for one step.
Resolves(p) ==
  /\ call[p] = Idle /\ carried[p] = "blocked" /\ resolutions < MaxResolutions
  /\ \E step \in Uncompleted : Records(Record(step, "resolved", None))
  /\ carried' = [carried EXCEPT ![p] = "executing"]
  /\ resolutions' = resolutions + 1
  /\ UNCHANGED <<call, claimed, seam, files, tag, overlapped, calls, deaths, edits>>

\* A dead process takes its engine and its memory with it.
Dies(p) ==
  /\ call[p] # Idle \/ carried[p] # None
  /\ deaths < MaxDeaths
  /\ deaths' = deaths + 1
  /\ call' = [call EXCEPT ![p] = Idle]
  /\ carried' = [carried EXCEPT ![p] = None]
  /\ files' = [files EXCEPT ![p] = [m \in Path |-> Absent]]
  /\ UNCHANGED <<tail, claimed, seam, tag, overlapped, calls, edits, resolutions>>

ClaimPasses ==
  /\ claimed /\ claimed' = FALSE
  /\ UNCHANGED <<tail, carried, call, seam, files, tag, boundVars>>

\* Someone edits a file of the working tree.
OutsideEdits(m) ==
  /\ seam = "tree" /\ edits < MaxEdits
  /\ edits' = edits + 1
  /\ files' = [files EXCEPT !["tree"][m] = Edited]
  /\ UNCHANGED <<tail, carried, call, claimed, seam, tag, overlapped, calls, deaths, resolutions>>

Walk(p) ==
  \/ LoopEnds(p) \/ Starts(p) \/ EffectRuns(p)
  \/ HookScans(p) \/ HookGuards(p) \/ HookSettles(p)
  \/ ArtifactScans(p) \/ ArtifactGuards(p) \/ ArtifactSettles(p)
  \/ MutationScans(p) \/ MutationGuards(p) \/ MutationWrites(p) \/ MutationRereads(p)
  \/ MutationReconciles(p) \/ MutationSettles(p)
  \/ StageStarts(p) \/ StageRequests(p) \/ Collects(p) \/ Mints(p)

Next ==
  \/ \E p \in Process : Runs(p) \/ Resumes(p) \/ Walk(p) \/ Resolves(p) \/ Dies(p)
  \/ ClaimPasses
  \/ \E m \in Path : OutsideEdits(m)

Spec == Init /\ [][Next]_vars

-----------------------------------------------------------------------------
(* Properties.                                                             *)

\* A tag is minted over a walk that completed every declared extension, by a
\* record; only a hook may be missing, and only behind another hook whose
\* completions two processes recorded with different contents: the refusal
\* that stops the scheduler there is dropped by the boundary.
TagFollowsExtensions ==
  tag # {} =>
    \A s \in Extension :
      \/ At(s, "completed") # {}
      \/ s \in Ids(Hooks) /\ \E h \in Ids(Hooks) : Disagrees(h)

\* The tag carries, for every declared mutation, the bytes its plan re-derives,
\* unless somebody edited the tree: what is committed is read again at the
\* end, and never compared with what the completion recorded.
TagCarriesPlannedBytes ==
  \A bytes \in tag : DOMAIN bytes = Path /\ \A m \in Path : bytes[m] = Planned \/ edits > 0

\* While the calls on the attempt follow one another, whoever makes them and
\* wherever one of them dies or blocks, no extension is completed twice: a
\* resume repeats at most the effect whose completion was never recorded.
SequentialWalksRunOnce ==
  ~overlapped => \A s \in Extension : Cardinality(At(s, "completed")) <= 1

=============================================================================
