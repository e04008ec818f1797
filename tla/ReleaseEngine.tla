---------------------------- MODULE ReleaseEngine ---------------------------
(***************************************************************************)
(* The engine (src/app/engine.ts) over the git assembly: the processes     *)
(* that run, resume, resolve and abort the attempts of one plan.  A call   *)
(* is a walk of the canonical stages, every step of which reads or writes  *)
(* the shared stores: the ordinal register, the attempts' record streams,  *)
(* the claims, the tag ref and the remote release.  Between two steps of   *)
(* one process any step of another may fall, and the process may die.      *)
(*                                                                         *)
(* The stores answer at one instant here; OrdinalRegister, GitLedger and   *)
(* GitClaimStore show that the git commands behind them behave so, and     *)
(* TagDoor looks inside the mint.  Left to modules of their own: the       *)
(* channel moves and the extension steps (hooks, artifacts, mutations and  *)
(* the commit door); a walk here has none.                                 *)
(*                                                                         *)
(* An attempt is its ordinal; Foreign stands for the attempts of other     *)
(* plans, which claim beside this one.                                     *)
(***************************************************************************)
EXTENDS LedgerTail, Integers, FiniteSets

CONSTANTS
  Line, Version, Stream, Sequence,  \* the scopes, as in ClaimStore
  Process,     \* the processes, each with one engine value
  Mutating,    \* MUTATING_STAGES
  MaxRetries,  \* the assembly's E-08 bound
  MaxOrdinal,  \* bound: attempts opened
  MaxClaims,   \* bound: claims landed
  MaxFailures, \* bound: processes that die and calls that throw a git fault
  MaxBlocks    \* bound: publications that suspend the attempt

ASSUME MaxOrdinalAssumption == MaxOrdinal \in Nat
ASSUME ProcessAssumption == IsFiniteSet(Process)

Foreign == 0
Attempt == 0 .. MaxOrdinal
Own == 1 .. MaxOrdinal

VARIABLES
  scope,      \* the scope the plan's line derives: fixed for the plan
  claims, supersessions, nextToken,  \* the claim store
  ordinal,    \* the register: the last ordinal allocated
  tail,       \* the ledger: each attempt's record stream
  tagged,     \* whether the plan's tag ref stands
  released,   \* whether the tag's release object stands
  carried,    \* each engine's attempt store: process-local
  call,       \* the call each process is in, and how far
  failures, blocks

storeVars == <<claims, supersessions, nextToken>>
worldVars == <<tagged, released>>
boundVars == <<failures, blocks>>
vars == <<scope, storeVars, ordinal, tail, worldVars, carried, call, boundVars>>

Claims == INSTANCE ClaimStore WITH reply <- "unheard"

\* No attempt is carried; no claim is held.
None == [attempt |-> Foreign, state |-> "none"]
NoToken == 0

\* A call in progress.  `mode` says where its attempt value came from: a run
\* opened it ("fresh"), the engine carries it ("carried"), or resume re-posed
\* it from the ledger ("durable"); `stage` is the index the walk is at, and
\* `demand` the scope to ask for after so many `retries`.
Step(at, attempt, mode) ==
  [at |-> at, attempt |-> attempt, mode |-> mode, stage |-> 1, token |-> NoToken,
   demand |-> scope, retries |-> 0]
Idle == [at |-> "idle"]

Init ==
  /\ scope \in Claims!StableScope \union {s \in Claims!PrereleaseScope : s.sequence = 1}
  /\ claims = {} /\ supersessions = {} /\ nextToken = 1
  /\ ordinal = 0
  /\ tail = [a \in Own |-> <<>>]
  /\ tagged = FALSE /\ released = FALSE
  /\ carried = [p \in Process |-> None]
  /\ call = [p \in Process |-> Idle]
  /\ failures = 0 /\ blocks = 0

Goto(p, step) == call' = [call EXCEPT ![p] = step]
Returns(p) == Goto(p, Idle)

\* What the attempt value of p's call is: the carried one, or the one
\* re-posed as executing from the ledger.
StateOf(p) == IF call[p].mode = "durable" THEN "executing" ELSE carried[p].state

\* The call ends with its attempt in `state`; a re-posed attempt is dropped.
Settles(p, state) ==
  /\ Returns(p)
  /\ carried' = IF call[p].mode = "durable" THEN carried
                ELSE [carried EXCEPT ![p].state = state]

-----------------------------------------------------------------------------
(* run: open the attempt or continue the carried one.                      *)

RunOpens(p) ==
  /\ call[p] = Idle /\ carried[p] = None
  /\ ordinal < MaxOrdinal
  /\ ordinal' = ordinal + 1
  /\ Goto(p, Step("scan", ordinal + 1, "fresh"))
  /\ UNCHANGED <<scope, storeVars, tail, worldVars, carried, boundVars>>

\* A fresh run answers for the abandonments recorded at or below its ordinal
\* before it is carried; the refused ordinal is burnt.
RunScans(p) ==
  /\ call[p].at = "scan"
  /\ IF \E a \in 1 .. call[p].attempt : Abandoned(tail[a])
     THEN Returns(p) /\ UNCHANGED carried
     ELSE /\ Goto(p, [call[p] EXCEPT !.at = "acquire"])
          /\ carried' = [carried EXCEPT ![p] = [attempt |-> call[p].attempt, state |-> "executing"]]
  /\ UNCHANGED <<scope, storeVars, ordinal, tail, worldVars, boundVars>>

\* run and resume over a carried attempt are one path.
RunContinues(p) ==
  /\ call[p] = Idle /\ carried[p] # None
  /\ Goto(p, Step("acquire", carried[p].attempt, "carried"))
  /\ UNCHANGED <<scope, storeVars, ordinal, tail, worldVars, carried, boundVars>>

\* resume of an attempt the engine does not carry: only a tail the
\* classifier answers `resume` admits it, at the verdict's stage.
ResumeReconstructs(p, a) ==
  /\ call[p] = Idle /\ carried[p].attempt # a
  /\ Verdict(tail[a], "executing") = "resume"
  /\ Goto(p, [Step("acquire", a, "durable") EXCEPT !.stage = FirstUncompleted(tail[a])])
  /\ UNCHANGED <<scope, storeVars, ordinal, tail, worldVars, carried, boundVars>>

-----------------------------------------------------------------------------
(* The claim, acquired before any mutation (acquireClaim, app/claims.ts).  *)

Held(p, token) ==
  Goto(p, [call[p] EXCEPT !.at = IF call[p].mode = "carried" THEN "classify" ELSE "walk",
                          !.token = token, !.demand = scope, !.retries = 0])

AcquireLands(p) ==
  /\ call[p].at = "acquire"
  /\ Claims!Land(call[p].demand, call[p].attempt)
  /\ Held(p, nextToken)
  /\ UNCHANGED <<scope, ordinal, tail, worldVars, carried, boundVars>>

\* A prerelease denial that names its winner's sequence is tried again one
\* above it, while the bound lasts.
Retried(p, refusal) ==
  /\ refusal.kind = "denied" /\ refusal.sequence # Claims!NoSequence
  /\ call[p].retries < MaxRetries

AcquireAnswers(p) ==
  /\ call[p].at = "acquire"
  /\ \E refusal \in Claims!Refusals(call[p].demand, call[p].attempt, claims, supersessions) :
       \/ /\ refusal.kind = "claim"
          /\ Held(p, refusal.claim.token)
       \/ /\ Retried(p, refusal)
          /\ Goto(p, [call[p] EXCEPT !.demand.sequence = refusal.sequence + 1, !.retries = @ + 1])
       \/ /\ refusal.kind = "denied" /\ ~Retried(p, refusal)
          /\ Returns(p)
  /\ UNCHANGED <<scope, storeVars, ordinal, tail, worldVars, carried, boundVars>>

\* continueRun: classify first, then walk, complete or stop.
Classifies(p) ==
  LET verdict == Verdict(tail[call[p].attempt], StateOf(p)) IN
  /\ call[p].at = "classify"
  /\ \/ /\ verdict = "resume"
        /\ Goto(p, [call[p] EXCEPT !.at = "walk", !.stage = FirstUncompleted(tail[call[p].attempt])])
     \/ /\ verdict = "complete"
        /\ Goto(p, [call[p] EXCEPT !.at = "mint"])
     \/ /\ verdict \in {"throws", "escalate"}
        /\ Returns(p)
  /\ UNCHANGED <<scope, storeVars, ordinal, tail, worldVars, carried, boundVars>>

-----------------------------------------------------------------------------
(* The walk, stage by stage.                                               *)

Current(p) == Stages[call[p].stage]

Records(p, record) == tail' = [tail EXCEPT ![call[p].attempt] = Extended(@, record)]

NextStage(p) ==
  Goto(p, IF call[p].stage = Len(Stages)
          THEN [call[p] EXCEPT !.at = "mint"]
          ELSE [call[p] EXCEPT !.at = "walk", !.stage = @ + 1])

\* A suspended or ended attempt is not walked.
WalkStops(p) ==
  /\ call[p].at = "walk" /\ StateOf(p) # "executing"
  /\ Returns(p)
  /\ UNCHANGED <<scope, storeVars, ordinal, tail, worldVars, carried, boundVars>>

\* A stage with no record needs a start.
StageReads(p) ==
  /\ call[p].at = "walk" /\ StateOf(p) = "executing"
  /\ StepState(tail[call[p].attempt], Current(p)) = "none"
  /\ Goto(p, [call[p] EXCEPT !.at = "start"])
  /\ UNCHANGED <<scope, storeVars, ordinal, tail, worldVars, carried, boundVars>>

\* appendStart: the attempt's plan record first, once; then the start.
StageOpens(p) ==
  /\ call[p].at = "start" /\ ~PlanRecorded(tail[call[p].attempt])
  /\ Records(p, PlanRecord)
  /\ UNCHANGED <<scope, storeVars, ordinal, worldVars, carried, call, boundVars>>

\* Mutant: the start does not wait for the plan record.
MutantStageStarts(p) ==
  /\ call[p].at = "start"
  /\ Records(p, StepRecord(Current(p), "started"))
  /\ Goto(p, [call[p] EXCEPT !.at = "walk"])
  /\ UNCHANGED <<scope, storeVars, ordinal, worldVars, carried, boundVars>>

StageStarts(p) ==
  /\ call[p].at = "start" /\ PlanRecorded(tail[call[p].attempt])
  /\ Records(p, StepRecord(Current(p), "started"))
  /\ Goto(p, [call[p] EXCEPT !.at = "walk"])
  /\ UNCHANGED <<scope, storeVars, ordinal, worldVars, carried, boundVars>>

\* Mutant: only the resume door reads the abandonment.
MutantStageRequests(p) ==
  LET records == tail[call[p].attempt]
      next == Cardinality({s \in Stage : Completed(records, s)}) + 1
  IN
  /\ call[p].at = "walk" /\ StateOf(p) = "executing"
  /\ StepState(records, Current(p)) # "none"
  /\ \/ Completed(records, Current(p)) /\ NextStage(p)
     \/ /\ ~Completed(records, Current(p)) /\ call[p].stage # next
        /\ Returns(p)
     \/ /\ ~Completed(records, Current(p)) /\ call[p].stage = next
        /\ Goto(p, [call[p] EXCEPT !.at = IF Current(p) \in Mutating THEN "verify" ELSE "record"])
  /\ UNCHANGED <<scope, storeVars, ordinal, tail, worldVars, carried, boundVars>>

\* ledgerRequestStep up to its claim guard: an abandonment refuses, a
\* completed stage is walked past, a stage out of sequence throws.  A stage
\* that has a record keeps one, so the read of it and this are one step.
StageRequests(p) ==
  LET records == tail[call[p].attempt]
      next == Cardinality({s \in Stage : Completed(records, s)}) + 1
  IN
  /\ call[p].at = "walk" /\ StateOf(p) = "executing"
  /\ StepState(records, Current(p)) # "none"
  /\ \/ /\ Abandoned(records)
        /\ Returns(p)
     \/ /\ ~Abandoned(records) /\ Completed(records, Current(p))
        /\ NextStage(p)
     \/ /\ ~Abandoned(records) /\ ~Completed(records, Current(p))
        /\ call[p].stage # next
        /\ Returns(p)
     \/ /\ ~Abandoned(records) /\ ~Completed(records, Current(p))
        /\ call[p].stage = next
        /\ Goto(p, [call[p] EXCEPT !.at = IF Current(p) \in Mutating THEN "verify" ELSE "record"])
  /\ UNCHANGED <<scope, storeVars, ordinal, tail, worldVars, carried, boundVars>>

\* The claim guard of a mutating stage: the held token re-verified for this
\* holder; a lost claim stops the walk.
StageVerifies(p) ==
  /\ call[p].at = "verify"
  /\ \E verdict \in Claims!Verdicts(call[p].token, claims, supersessions) :
       IF verdict.kind = "held" /\ verdict.claim.holder = call[p].attempt
       THEN Goto(p, [call[p] EXCEPT !.at = "record"])
       ELSE Returns(p)
  /\ UNCHANGED <<scope, storeVars, ordinal, tail, worldVars, carried, boundVars>>

StageCompletes(p) ==
  /\ call[p].at = "record"
  /\ Records(p, StepRecord(Current(p), "completed"))
  /\ NextStage(p)
  /\ UNCHANGED <<scope, storeVars, ordinal, worldVars, carried, boundVars>>

-----------------------------------------------------------------------------
(* completeRun: the mint, then the publication.                            *)

\* Mutant: any claim the attempt holds admits the plan's tag.
MutantMayMint(p) ==
  \E c \in claims :
    /\ c.holder = call[p].attempt /\ c.token = call[p].token
    /\ \A r \in supersessions : r.superseded.scope # c.scope

\* The tag door's gate, for the one tag the plan names.
MayMint(p) ==
  \E c \in claims :
    /\ c.holder = call[p].attempt /\ c.scope = scope /\ c.token = call[p].token
    /\ \A r \in supersessions : r.superseded.scope # c.scope

Mints(p) ==
  /\ call[p].at = "mint"
  /\ IF MayMint(p)
     THEN tagged' = TRUE /\ Goto(p, [call[p] EXCEPT !.at = "publish"])
     ELSE Returns(p) /\ UNCHANGED tagged
  /\ UNCHANGED <<scope, storeVars, ordinal, tail, released, carried, boundVars>>

\* The terminal move: only an executing attempt has the edge, any other
\* throws and stays as it is.
Publishes(p) == Settles(p, IF StateOf(p) = "executing" THEN "published" ELSE StateOf(p))

\* An indeterminate answer suspends the attempt, by the same edge rule.
Suspends(p) ==
  /\ blocks < MaxBlocks
  /\ Settles(p, IF StateOf(p) = "executing" THEN "blocked" ELSE StateOf(p))
  /\ blocks' = blocks + 1

\* publishRelease is read-before-write: it creates the release or finds it.
ReleaseCreates(p) ==
  /\ call[p].at = "publish"
  /\ released' = TRUE
  /\ \/ Goto(p, [call[p] EXCEPT !.at = "check"]) /\ UNCHANGED <<carried, blocks>>
     \/ Suspends(p)    \* ambiguous, and it landed
  /\ UNCHANGED <<scope, storeVars, ordinal, tail, tagged, failures>>

ReleaseFails(p) ==
  /\ call[p].at = "publish"
  /\ \/ Returns(p) /\ UNCHANGED <<carried, blocks>>   \* a determinate refusal
     \/ Suspends(p)    \* transport failure, or ambiguous and it did not land
  /\ UNCHANGED <<scope, storeVars, ordinal, tail, worldVars, failures>>

ReleaseChecks(p) ==
  /\ call[p].at = "check"
  /\ \/ released /\ Publishes(p) /\ UNCHANGED blocks
     \/ Suspends(p)    \* the read finds nothing or fails on transport
     \/ Returns(p) /\ UNCHANGED <<carried, blocks>>   \* the read is refused
  /\ UNCHANGED <<scope, storeVars, ordinal, tail, worldVars, failures>>

-----------------------------------------------------------------------------
(* resolve and abort: doors of the engine that carries the attempt.        *)

ResolveRecords(p) ==
  /\ call[p] = Idle /\ carried[p].state = "blocked"
  /\ tail' = [tail EXCEPT ![carried[p].attempt] = Extended(@, ResolutionRecord)]
  /\ carried' = [carried EXCEPT ![p].state = "executing"]
  /\ UNCHANGED <<scope, storeVars, ordinal, worldVars, call, boundVars>>

\* The local attempt is closed before the abandonment is appended.
AbortCloses(p) ==
  /\ call[p] = Idle /\ carried[p].state \in {"executing", "blocked"}
  /\ carried' = [carried EXCEPT ![p].state = "abandoned"]
  /\ Goto(p, Step("abandon", carried[p].attempt, "carried"))
  /\ UNCHANGED <<scope, storeVars, ordinal, tail, worldVars, boundVars>>

AbortRecords(p) ==
  /\ call[p].at = "abandon"
  /\ Records(p, AbandonmentRecord)
  /\ Returns(p)
  /\ UNCHANGED <<scope, storeVars, ordinal, worldVars, carried, boundVars>>

-----------------------------------------------------------------------------
(* Failures, and the attempts of other plans.                              *)

\* The process is killed: the engine's attempt store dies with it.
Dies(p) ==
  /\ failures < MaxFailures
  /\ call[p] # Idle \/ carried[p] # None
  /\ Returns(p)
  /\ carried' = [carried EXCEPT ![p] = None]
  /\ failures' = failures + 1
  /\ UNCHANGED <<scope, storeVars, ordinal, tail, worldVars, blocks>>

\* A store throws a git fault out of the call; the engine lives on.
Faults(p) ==
  /\ failures < MaxFailures
  /\ call[p] # Idle
  /\ Returns(p)
  /\ failures' = failures + 1
  /\ UNCHANGED <<scope, storeVars, ordinal, tail, worldVars, carried, blocks>>

ForeignClaims ==
  /\ \E wanted \in Claims!Scope : Claims!Land(wanted, Foreign)
  /\ UNCHANGED <<scope, ordinal, tail, worldVars, carried, call, boundVars>>

-----------------------------------------------------------------------------
Walk(p) ==
  \/ RunScans(p) \/ AcquireLands(p) \/ AcquireAnswers(p) \/ Classifies(p)
  \/ WalkStops(p) \/ StageReads(p) \/ StageOpens(p) \/ StageStarts(p) \/ StageRequests(p)
  \/ StageVerifies(p) \/ StageCompletes(p)
  \/ Mints(p) \/ ReleaseCreates(p) \/ ReleaseChecks(p)
  \/ AbortRecords(p)

Next ==
  \/ \E p \in Process :
       \/ RunOpens(p) \/ RunContinues(p)
       \/ \E a \in Own : ResumeReconstructs(p, a)
       \/ Walk(p) \/ ReleaseFails(p)
       \/ ResolveRecords(p) \/ AbortCloses(p)
       \/ Dies(p) \/ Faults(p)
  \/ ForeignClaims

Spec == Init /\ [][Next]_vars

-----------------------------------------------------------------------------
(* Properties.                                                             *)

Call ==
  [at : {"scan", "acquire", "classify", "walk", "start", "verify", "record",
         "mint", "publish", "check", "abandon"},
   attempt : Own, mode : {"fresh", "carried", "durable"}, stage : DOMAIN Stages,
   token : Nat, demand : [kind : {scope.kind}, line : Line, version : Version]
     \union [kind : {scope.kind}, line : Line, stream : Stream, sequence : Nat],
   retries : 0 .. MaxRetries]

\* The values the variables take; only an engine that carries its attempt
\* suspends or ends it, and only a claim the store knows is presented to it.
TypeOK ==
  /\ ordinal \in 0 .. MaxOrdinal
  /\ tail \in [Own -> Seq(Record)]
  /\ tagged \in BOOLEAN /\ released \in BOOLEAN
  /\ carried \in [Process -> {None} \union
       [attempt : 1 .. ordinal, state : {"executing", "blocked", "published", "abandoned"}]]
  /\ \A p \in Process :
       call[p] # Idle => /\ call[p] \in Call
                         /\ call[p].attempt <= ordinal
                         /\ call[p].token < nextToken

\* The write-ahead order every reader of the tail relies on (E-02): the plan
\* record opens the stream, a completion follows a start of its stage, and
\* the completions come in canonical order, whichever processes wrote them.
\* Without it a resume would escalate, or enter the walk past undone work.
WriteAheadOrder ==
  \A a \in Own :
    /\ ~Corrupt(tail[a])
    /\ \A i \in DOMAIN tail[a] :
         tail[a][i].kind = "step" =>
           /\ PlanRecorded(SubSeq(tail[a], 1, i - 1))
           /\ \A s \in DOMAIN Stages :
                tail[a][i] = StepRecord(Stages[s], "completed") =>
                  \A e \in 1 .. s - 1 : Completed(SubSeq(tail[a], 1, i - 1), Stages[e])

\* Attempts that recorded the completion of a mutating stage.
Workers == {a \in Own : \E s \in Mutating : Completed(tail[a], s)}

\* One release, one worker: of all the attempts of a stable plan, whatever
\* crashed and was run again or resumed elsewhere, only one ever completes a
\* stage that changes the world.
OneWorker ==
  \A a, b \in Workers : scope.kind = "stable-version" => a = b

\* The tag stands only behind a finished walk: some attempt recorded every
\* stage and landed the claim of the plan's own scope.  The release object
\* stands only behind the tag.
TagFollowsWalk ==
  /\ tagged => \E a \in Own :
                 /\ \A s \in Stage : Completed(tail[a], s)
                 /\ \E c \in claims : c.holder = a /\ c.scope = scope
  /\ released => tagged

\* A recorded abandonment ends the work of every process on the attempt, also
\* of one that resumed it elsewhere: the most each can still do is append the
\* one completion it had already checked for (ledgerRequestStep reads the
\* tail before every stage).
AbandonmentEndsTheWalk ==
  \A a \in Own : \A i \in DOMAIN tail[a] :
    tail[a][i] = AbandonmentRecord =>
      Cardinality({j \in i + 1 .. Len(tail[a]) :
                     tail[a][j].kind = "step" /\ tail[a][j].to = "completed"})
        < Cardinality(Process)

\* abort, src/execution/attempt.ts: an abandoned attempt is terminal, "no
\* later transition, retry, or resume can complete it".
NoMintAfterAbandonment ==
  [][\A p \in Process :
       call[p].at = "mint" /\ Abandoned(tail[call[p].attempt]) => tagged' = tagged]_vars

\* durableEntry, src/app/engine.ts: "a finished attempt has nothing to
\* continue - E-01's done-ness reads the recorded steps".  An attempt whose
\* steps are all recorded, and which no engine carries or works on, is one a
\* resume refuses as unknown: its plan (a stable one, which no takeover
\* passes) should have its tag.
FinishedMeansTagged ==
  \A a \in Own :
    LET finished == \A s \in Stage : Completed(tail[a], s)
        unattended == \A p \in Process :
                        carried[p].attempt # a /\ (call[p] # Idle => call[p].attempt # a)
    IN scope.kind = "stable-version" /\ finished /\ unattended => tagged

\* test/app/outcomes.test.ts: "dead-holder recovery is unblocked: the E-08
\* retry past the dead lease lands the recorded takeover and completes".  A
\* walk that recorded every stage under a claim that still verifies is
\* admitted by the tag door.
RecoveryCompletes ==
  \A p \in Process :
    call[p].at = "mint" /\ Claims!HeldToken(call[p].token) => MayMint(p)

=============================================================================
