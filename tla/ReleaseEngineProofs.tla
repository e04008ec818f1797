-------------------------- MODULE ReleaseEngineProofs --------------------------
(***************************************************************************)
(* The engine for every number of processes, attempts, stages and failures.*)
(*                                                                         *)
(* One worker: of all the attempts of a stable plan one at most completes  *)
(* a stage that changes the world.  A completion of a mutating stage is    *)
(* recorded by a call that verified its token; the tokens the plan's calls *)
(* hold are of the plan's own scope, a stable claim never leaves the       *)
(* store, and a scope has one claim: so every worker holds the one claim,  *)
(* whoever died between the verification and the record.                   *)
(*                                                                         *)
(* Order: a call at a stage has every earlier one on record, so the        *)
(* streams are in write-ahead order and the tag is behind a finished one.  *)
(*                                                                         *)
(* Abandonment: the completions after it are those of the calls that had   *)
(* read the stream before it.                                              *)
(***************************************************************************)
EXTENDS ReleaseEngine, FiniteSetTheorems, WellFoundedInduction, TLAPS

\* The attempt holds the plan's own scope.
HoldsScope(a) == \E c \in claims : c.scope = scope /\ c.holder = a

\* The claims: one per scope and per token, the next token fresh.
ClaimsInv ==
  /\ nextToken \in Nat \ {0}
  /\ \A c \in claims : c.token \in Nat \ {0} /\ c.token < nextToken
  /\ \A c, d \in claims : c.scope = d.scope \/ c.token = d.token => c = d

CallTyped ==
  [at : {"scan", "acquire", "classify", "walk", "start", "verify", "record",
         "mint", "publish", "check", "abandon"},
   attempt : Own, mode : {"fresh", "carried", "durable"}, stage : DOMAIN Stages,
   token : Nat, demand : {scope}, retries : Nat]

States == {"executing", "blocked", "published", "abandoned"}

\* A call asks for the plan's scope alone, holds a token of it or none, and
\* records the completion of a mutating stage behind the claim.
Fits(c) ==
  c # Idle =>
    /\ c \in CallTyped
    /\ c.token < nextToken
    /\ \A d \in claims : d.token = c.token => d.scope = scope
    /\ c.at = "record" /\ Stages[c.stage] \in Mutating => HoldsScope(c.attempt)

Carries == {None} \union [attempt : Own, state : States]

StableInv ==
  /\ ordinal \in Nat
  /\ tail \in [Own -> Seq(Record)]
  /\ carried \in [Process -> Carries]
  /\ call = [p \in Process |-> call[p]]
  /\ ClaimsInv
  /\ \A p \in Process : Fits(call[p])
  /\ \A a \in Workers : HoldsScope(a)

WorkInv == scope.kind = "stable-version" => StableInv

-----------------------------------------------------------------------------
\* A set of naturals has a least element.
LEMMA Least ==
  ASSUME NEW T, T \subseteq Nat, T # {}
  PROVE  \E x \in T : \A y \in T : x <= y
<1>1. IsWellFoundedOn(OpToRel(<, Nat), Nat)
  BY NatLessThanWellFounded
<1>2. PICK x \in T : \A y \in T : ~ (<<y, x>> \in OpToRel(<, Nat))
  BY <1>1, WFMin
<1>3. \A y \in T : ~ (y < x)
  BY <1>2 DEF OpToRel
<1> QED BY <1>3

\* Where something is left to do, the first of it is a stage.
LEMMA FirstIsAStage ==
  ASSUME NEW records, Uncompleted(records) # {}
  PROVE  FirstUncompleted(records) \in DOMAIN Stages
<1>1. Uncompleted(records) \subseteq Nat /\ Uncompleted(records) \subseteq DOMAIN Stages
  BY StagesAssumption DEF Uncompleted
<1>2. \E i \in Uncompleted(records) : \A j \in Uncompleted(records) : i <= j
  BY <1>1, Least
<1> QED BY <1>1, <1>2 DEF FirstUncompleted

\* Only the completion of a stage completes it.
LEMMA RecordingCompletes ==
  ASSUME NEW records \in Seq(Record), NEW record \in Record
  PROVE  /\ Extended(records, record) \in Seq(Record)
         /\ \A s : Completed(Extended(records, record), s)
                     => Completed(records, s) \/ record = StepRecord(s, "completed")
<1>1. CASE Extended(records, record) = records
  BY <1>1
<1>2. CASE Extended(records, record) = Append(records, record)
  BY <1>2 DEF Completed, Holds
<1> QED BY <1>1, <1>2 DEF Extended

\* A refusal of a stable scope names no sequence to try again above, and the
\* claim an acquisition finds is of the scope it asked for.
LEMMA StableRefusals ==
  ASSUME scope.kind = "stable-version", NEW attempt,
         NEW refusal \in Claims!Refusals(scope, attempt, claims, supersessions)
  PROVE  /\ refusal.kind = "claim" => refusal.claim \in claims /\ refusal.claim.scope = scope
         /\ refusal.kind = "denied" => refusal.sequence = Claims!NoSequence
<1> DEFINE same == {c \in claims : c.scope = scope}
<1>1. CASE same # {}
  <2>1. PICK winner \in same : refusal \in Claims!Adjudicate(winner, attempt, supersessions)
    BY <1>1 DEF Claims!Refusals
  <2> QED BY <2>1 DEF Claims!Adjudicate, Claims!Denied
<1>2. CASE same = {}
  BY <1>2 DEF Claims!Refusals, Claims!Denied
<1> QED BY <1>1, <1>2

\* A token that verifies as held is of a standing claim.
LEMMA HeldStands ==
  ASSUME NEW token, NEW verdict \in Claims!Verdicts(token, claims, supersessions),
         verdict.kind = "held"
  PROVE  verdict.claim \in claims /\ verdict.claim.token = token
<1> DEFINE passed == {r \in supersessions : r.superseded.token = token}
<1> DEFINE standing == {c \in claims : c.token = token}
<1>1. CASE passed # {}
  BY <1>1 DEF Claims!Verdicts
<1>2. CASE passed = {} /\ standing # {}
  BY <1>2 DEF Claims!Verdicts
<1>3. CASE passed = {} /\ standing = {}
  BY <1>3 DEF Claims!Verdicts
<1> QED BY <1>1, <1>2, <1>3

\* A landing adds one claim under a fresh token, of a scope nobody holds.
LEMMA Landing ==
  ASSUME ClaimsInv, NEW wanted, NEW attempt, Claims!Land(wanted, attempt)
  PROVE  /\ ClaimsInv'
         /\ nextToken' = nextToken + 1
         /\ \E c : /\ c.scope = wanted /\ c.token = nextToken /\ c.holder = attempt
                   /\ claims' = claims \union {c}
<1> DEFINE taker == [scope |-> wanted, token |-> nextToken, holder |-> attempt]
<1>1. claims' = claims \union {taker} /\ nextToken' = nextToken + 1
  BY DEF Claims!Land, Claims!NextClaim
<1>2. \A c \in claims : c.scope # wanted
  BY DEF Claims!Land, Claims!Accepts
<1>3. ClaimsInv'
  BY <1>1, <1>2 DEF ClaimsInv
<1> QED BY <1>1, <1>3

-----------------------------------------------------------------------------
(* What a step must show for the invariant.                                *)

\* A step that leaves the stores alone: its process's call fits.
LEMMA QuietStep ==
  ASSUME StableInv, UNCHANGED <<scope, claims, nextToken, tail>>, ordinal' \in Nat,
         carried' \in [Process -> Carries],
         NEW p \in Process, NEW c, call' = [call EXCEPT ![p] = c], Fits(c)
  PROVE  StableInv'
<1>1. call' = [q \in Process |-> call'[q]] /\ call'[p] = c
      /\ \A q \in Process : q # p => call'[q] = call[q]
  BY DEF StableInv
<1>2. ASSUME NEW q \in Process PROVE Fits(call'[q])
  BY <1>1 DEF StableInv
<1>3. ASSUME NEW q \in Process PROVE Fits(call[q])'
  BY <1>2 DEF Fits, CallTyped, HoldsScope
<1>4. (\A a \in Workers : HoldsScope(a))'
  BY DEF StableInv, Workers, HoldsScope
<1> QED BY <1>1, <1>3, <1>4 DEF StableInv, ClaimsInv

\* A call that goes on under its token, other than to a record.
LEMMA Moving ==
  ASSUME StableInv, NEW p \in Process, call[p] # Idle, NEW c \in CallTyped,
         c.token = call[p].token, c.at # "record"
  PROVE  Fits(c)
BY DEF StableInv, Fits

\* A record in an attempt's stream: if it completes a mutating stage, the
\* attempt holds the scope.
LEMMA TailStep ==
  ASSUME StableInv, UNCHANGED <<scope, claims, nextToken, ordinal>>,
         carried' \in [Process -> Carries],
         NEW a \in Own, NEW record \in Record, tail' = [tail EXCEPT ![a] = Extended(tail[a], record)],
         \A s \in Mutating : record = StepRecord(s, "completed") => HoldsScope(a),
         NEW p \in Process, NEW c, call' = call \/ (call' = [call EXCEPT ![p] = c] /\ Fits(c))
  PROVE  StableInv'
<1>1. tail' \in [Own -> Seq(Record)]
  BY RecordingCompletes DEF StableInv
<1>2. ASSUME NEW b \in Workers' PROVE HoldsScope(b)
  <2>1. PICK s \in Mutating : Completed(tail'[b], s) /\ b \in Own
    BY DEF Workers
  <2>2. CASE b = a
    <3>1. Completed(tail[a], s) \/ record = StepRecord(s, "completed")
      BY <2>1, <2>2, RecordingCompletes DEF StableInv
    <3> QED BY <2>1, <2>2, <3>1 DEF StableInv, Workers
  <2>3. CASE b # a
    BY <2>1, <2>3 DEF StableInv, Workers
  <2> QED BY <2>2, <2>3
<1>3. (\A b \in Workers : HoldsScope(b))'
  BY <1>2 DEF HoldsScope
<1>4. call' = [q \in Process |-> call'[q]] /\ \A q \in Process : Fits(call'[q])
  BY DEF StableInv
<1>5. ASSUME NEW q \in Process PROVE Fits(call[q])'
  BY <1>4 DEF Fits, CallTyped, HoldsScope
<1> QED BY <1>1, <1>3, <1>4, <1>5 DEF StableInv, ClaimsInv

\* A claim that lands, for the plan in a call that goes on under its token,
\* or for another.
LEMMA LandStep ==
  ASSUME StableInv, UNCHANGED <<scope, tail, ordinal, carried>>,
         NEW wanted, NEW attempt, Claims!Land(wanted, attempt),
         NEW p \in Process,
         \/ call' = call
         \/ \E c \in CallTyped : /\ call' = [call EXCEPT ![p] = c] /\ wanted = scope
                                 /\ c.token = nextToken /\ c.at # "record"
  PROVE  StableInv'
<1>1. PICK d : /\ d.scope = wanted /\ d.token = nextToken /\ claims' = claims \union {d}
               /\ ClaimsInv' /\ nextToken' = nextToken + 1
  BY Landing DEF StableInv
<1>2. \A a : HoldsScope(a) => HoldsScope(a)'
  BY <1>1 DEF HoldsScope
<1>3. ASSUME NEW q \in Process, call'[q] = call[q] PROVE Fits(call[q])'
  BY <1>1, <1>2, <1>3 DEF StableInv, ClaimsInv, Fits, CallTyped
<1>4. ASSUME NEW c \in CallTyped, call' = [call EXCEPT ![p] = c], wanted = scope,
             c.token = nextToken, c.at # "record"
      PROVE  \A q \in Process : Fits(call[q])'
  <2>1. call'[p] = c /\ \A q \in Process : q # p => call'[q] = call[q]
    BY <1>4 DEF StableInv
  <2>2. Fits(call[p])'
    BY <1>1, <1>4, <2>1 DEF Fits, CallTyped, StableInv, ClaimsInv
  <2> QED BY <1>3, <2>1, <2>2
<1>5. \A q \in Process : Fits(call[q])'
  BY <1>3, <1>4
<1>6. call' = [q \in Process |-> call'[q]]
  BY DEF StableInv
<1>7. (\A a \in Workers : HoldsScope(a))'
  BY <1>2 DEF StableInv, Workers
<1> QED BY <1>1, <1>5, <1>6, <1>7 DEF StableInv

-----------------------------------------------------------------------------
(* The actions.                                                            *)

\* The call ends: Idle fits.
LEMMA Returning ==
  ASSUME StableInv, NEW p \in Process, Returns(p),
         UNCHANGED <<scope, claims, nextToken, tail, ordinal>>, carried' \in [Process -> Carries]
  PROVE  StableInv'
<1>1. call' = [call EXCEPT ![p] = Idle] /\ Fits(Idle)
  BY DEF Returns, Goto, Fits
<1> QED BY <1>1, QuietStep DEF StableInv

\* A call that moves on at the stores it found.
LEMMA Going ==
  ASSUME StableInv, NEW p \in Process, NEW c, Goto(p, c), Fits(c),
         UNCHANGED <<scope, claims, nextToken, tail, ordinal>>, carried' \in [Process -> Carries]
  PROVE  StableInv'
BY QuietStep DEF StableInv, Goto

\* A fresh step of a call asks for the plan's scope and holds no token.
LEMMA BeginsFit ==
  ASSUME StableInv, NEW at \in {"scan", "acquire", "abandon"}, NEW attempt \in Own,
         NEW mode \in {"fresh", "carried", "durable"}, NEW stage \in DOMAIN Stages
  PROVE  Fits([Step(at, attempt, mode) EXCEPT !.stage = stage])
<1> DEFINE c == [at |-> at, attempt |-> attempt, mode |-> mode, stage |-> stage,
                 token |-> NoToken, demand |-> scope, retries |-> 0]
<1>1. [Step(at, attempt, mode) EXCEPT !.stage = stage] = c
  BY DEF Step
<1>2. c \in CallTyped
  BY DEF CallTyped, NoToken
<1>3. Fits(c)
  BY <1>2 DEF Fits, StableInv, ClaimsInv, NoToken
<1> QED BY <1>1, <1>3

LEMMA FirstStage == 1 \in DOMAIN Stages
BY StagesAssumption

\* run, resume and abort begin.
LEMMA BeginnersInv ==
  ASSUME StableInv, NEW p \in Process,
         \/ RunOpens(p) \/ RunContinues(p) \/ AbortCloses(p)
         \/ \E a \in Own : ResumeReconstructs(p, a)
  PROVE  StableInv'
<1>0. carried \in [Process -> Carries] /\ carried[p] \in Carries /\ ordinal \in Nat
  BY DEF StableInv
<1>1. CASE RunOpens(p)
  <2>1. ordinal + 1 \in Own
    BY <1>0, <1>1, MaxOrdinalAssumption DEF RunOpens, Own
  <2> DEFINE c == Step("scan", ordinal + 1, "fresh")
  <2>2. c = [c EXCEPT !.stage = 1]
    BY DEF Step
  <2>3. Fits(c)
    BY <2>1, <2>2, BeginsFit, FirstStage
  <2> HIDE DEF c
  <2>4. call' = [call EXCEPT ![p] = c] /\ UNCHANGED <<scope, claims, nextToken, tail, carried>>
        /\ ordinal' \in Nat
    BY <1>0, <1>1 DEF RunOpens, Goto, storeVars, c
  <2> QED BY <1>0, <2>3, <2>4, QuietStep
<1>2. CASE RunContinues(p)
  <2>1. carried[p].attempt \in Own
    BY <1>0, <1>2 DEF RunContinues, Carries
  <2> DEFINE c == Step("acquire", carried[p].attempt, "carried")
  <2>2. c = [c EXCEPT !.stage = 1]
    BY DEF Step
  <2>3. Fits(c)
    BY <2>1, <2>2, BeginsFit, FirstStage
  <2> QED BY <1>0, <1>2, <2>3, Going DEF RunContinues, storeVars
<1>3. CASE AbortCloses(p)
  <2>1. carried[p] \in [attempt : Own, state : States]
    BY <1>0, <1>3 DEF AbortCloses, Carries, None
  <2> DEFINE c == Step("abandon", carried[p].attempt, "carried")
  <2>2. c = [c EXCEPT !.stage = 1]
    BY DEF Step
  <2>3. Fits(c)
    BY <2>1, <2>2, BeginsFit, FirstStage
  <2>4. [carried[p] EXCEPT !.state = "abandoned"] \in Carries
    BY <2>1 DEF Carries, States
  <2>5. carried' \in [Process -> Carries]
    BY <1>0, <1>3, <2>4 DEF AbortCloses
  <2> QED BY <1>3, <2>3, <2>5, Going DEF AbortCloses, storeVars
<1>4. ASSUME NEW a \in Own, ResumeReconstructs(p, a) PROVE StableInv'
  <2>1. Uncompleted(tail[a]) # {}
    BY <1>4 DEF ResumeReconstructs, Verdict
  <2>2. FirstUncompleted(tail[a]) \in DOMAIN Stages
    BY <2>1, FirstIsAStage
  <2> DEFINE c == [Step("acquire", a, "durable") EXCEPT !.stage = FirstUncompleted(tail[a])]
  <2>3. Fits(c)
    BY <2>2, BeginsFit
  <2> QED BY <1>0, <1>4, <2>3, Going DEF ResumeReconstructs, storeVars
<1> QED BY <1>1, <1>2, <1>3, <1>4

\* The claim: found, landed, or denied; a stable scope is never retried.
LEMMA AcquiresInv ==
  ASSUME scope.kind = "stable-version", StableInv, NEW p \in Process,
         AcquireLands(p) \/ AcquireAnswers(p)
  PROVE  StableInv'
<1>z. call[p].at = "acquire"
  BY DEF AcquireLands, AcquireAnswers
<1>a. call[p] # Idle
  BY <1>z DEF Idle
<1>b. call[p] \in CallTyped
  BY <1>a DEF StableInv, Fits
<1>c. call[p].demand = scope
  BY <1>b DEF CallTyped
<1>0. /\ call[p] # Idle /\ call[p] \in CallTyped /\ call[p].demand = scope
      /\ carried \in [Process -> Carries]
  BY <1>a, <1>b, <1>c DEF StableInv
<1> DEFINE went(token) == [call[p] EXCEPT
       !.at = IF call[p].mode = "carried" THEN "classify" ELSE "walk",
       !.token = token, !.demand = scope, !.retries = 0]
<1>1. ASSUME NEW token \in Nat
      PROVE  went(token) \in CallTyped /\ went(token).token = token /\ went(token).at # "record"
  BY <1>0 DEF CallTyped
<1>2. ASSUME NEW token, Held(p, token) PROVE call' = [call EXCEPT ![p] = went(token)]
  BY <1>2 DEF Held, Goto
<1>3. CASE AcquireLands(p)
  <2>1. nextToken \in Nat
    BY DEF StableInv, ClaimsInv
  <2>2. /\ Claims!Land(scope, call[p].attempt) /\ call' = [call EXCEPT ![p] = went(nextToken)]
        /\ UNCHANGED <<scope, tail, ordinal, carried>>
    BY <1>0, <1>2, <1>3 DEF AcquireLands
  <2>3. went(nextToken) \in CallTyped /\ went(nextToken).token = nextToken
        /\ went(nextToken).at # "record"
    BY <1>1, <2>1
  <2> HIDE DEF went
  <2> QED BY <2>2, <2>3, LandStep
<1>4. CASE AcquireAnswers(p)
  <2>0. UNCHANGED <<scope, claims, nextToken, tail, ordinal>> /\ carried' \in [Process -> Carries]
    BY <1>0, <1>4 DEF AcquireAnswers, storeVars
  <2>1. PICK refusal \in Claims!Refusals(scope, call[p].attempt, claims, supersessions) :
          \/ refusal.kind = "claim" /\ Held(p, refusal.claim.token)
          \/ Retried(p, refusal)
          \/ Returns(p)
    BY <1>0, <1>4 DEF AcquireAnswers
  <2>2. ~Retried(p, refusal)
    BY StableRefusals DEF Retried
  <2>3. CASE refusal.kind = "claim" /\ Held(p, refusal.claim.token)
    <3> DEFINE token == refusal.claim.token
    <3>1. refusal.claim \in claims /\ refusal.claim.scope = scope
      BY <2>3, StableRefusals
    <3>2. token \in Nat /\ token < nextToken /\ \A d \in claims : d.token = token => d.scope = scope
      BY <3>1 DEF StableInv, ClaimsInv
    <3>3. Fits(went(token))
      BY <1>1, <3>2 DEF Fits
    <3> HIDE DEF went, token
    <3>4. call' = [call EXCEPT ![p] = went(token)]
      BY <1>2, <2>3 DEF token
    <3> QED BY <2>0, <3>3, <3>4, QuietStep DEF StableInv
  <2> QED BY <2>0, <2>1, <2>2, <2>3, Returning
<1> QED BY <1>3, <1>4

\* A call in progress has the values of one.
LEMMA InCall ==
  ASSUME StableInv, NEW p \in Process, call[p].at # "idle"
  PROVE  call[p] # Idle /\ call[p] \in CallTyped /\ carried[p] \in Carries
<1>1. call[p] # Idle
  BY DEF Idle
<1> QED BY <1>1 DEF StableInv, Fits

\* A call that moves on, to the stage it is at or to another.
LEMMA MovesOn ==
  ASSUME StableInv, NEW p \in Process, call[p].at # "idle",
         NEW at \in {"acquire", "classify", "walk", "start", "verify", "mint", "publish", "check"},
         NEW stage \in DOMAIN Stages
  PROVE  /\ Fits([call[p] EXCEPT !.at = at])
         /\ Fits([call[p] EXCEPT !.at = at, !.stage = stage])
<1>1. call[p] # Idle /\ call[p] \in CallTyped
  BY InCall
<1> DEFINE c == [call[p] EXCEPT !.at = at]
           d == [call[p] EXCEPT !.at = at, !.stage = stage]
<1>2. c \in CallTyped /\ c.token = call[p].token /\ c.at # "record"
  BY <1>1 DEF CallTyped
<1>3. d \in CallTyped /\ d.token = call[p].token /\ d.at # "record"
  BY <1>1 DEF CallTyped
<1> HIDE DEF c, d
<1>4. Fits(c) /\ Fits(d)
  BY <1>1, <1>2, <1>3, Moving
<1> QED BY <1>4 DEF c, d

\* The next stage is a stage, or the mint.
LEMMA NextStageFits ==
  ASSUME StableInv, NEW p \in Process, call[p].at # "idle", NextStage(p)
  PROVE  \E c : Goto(p, c) /\ Fits(c)
<1>1. call[p] \in CallTyped
  BY InCall
<1>2. CASE call[p].stage = Len(Stages)
  <2> DEFINE c == [call[p] EXCEPT !.at = "mint"]
  <2>1. Goto(p, c)
    BY <1>2 DEF NextStage
  <2>2. Fits(c)
    BY MovesOn, FirstStage
  <2> QED BY <2>1, <2>2
<1>3. CASE call[p].stage # Len(Stages)
  <2> DEFINE next == call[p].stage + 1
             c == [call[p] EXCEPT !.at = "walk", !.stage = next]
  <2>1. Goto(p, c)
    BY <1>3 DEF NextStage
  <2>2. call[p].stage \in 1 .. Len(Stages) /\ Len(Stages) \in Nat
        /\ DOMAIN Stages = 1 .. Len(Stages)
    BY <1>1, StagesAssumption DEF CallTyped
  <2>3. next \in DOMAIN Stages
    BY <1>3, <2>2
  <2> HIDE DEF next
  <2>4. Fits(c)
    BY <2>3, MovesOn
  <2> QED BY <2>1, <2>4
<1> QED BY <1>2, <1>3

\* The scan carries the attempt or burns its ordinal.
LEMMA RunScansInv ==
  ASSUME StableInv, NEW p \in Process, RunScans(p)
  PROVE  StableInv'
<1>0. /\ call[p].at # "idle" /\ carried \in [Process -> Carries]
      /\ UNCHANGED <<scope, claims, nextToken, tail, ordinal>>
  BY DEF RunScans, StableInv, storeVars
<1>1. call[p] \in CallTyped
  BY <1>0, InCall
<1>2. CASE Returns(p) /\ carried' = carried
  BY <1>0, <1>2, Returning
<1>3. CASE ~(Returns(p) /\ carried' = carried)
  <2> DEFINE opened == [attempt |-> call[p].attempt, state |-> "executing"]
             c == [call[p] EXCEPT !.at = "acquire"]
  <2>1. Goto(p, c) /\ carried' = [carried EXCEPT ![p] = opened]
    BY <1>3 DEF RunScans
  <2>2. opened \in Carries
    BY <1>1 DEF CallTyped, Carries, States
  <2>3. carried' \in [Process -> Carries]
    BY <1>0, <2>1, <2>2
  <2>4. Fits(c)
    BY <1>0, MovesOn, FirstStage
  <2> QED BY <1>0, <2>1, <2>3, <2>4, Going
<1> QED BY <1>2, <1>3

\* The classification, and the walk up to a stage's record.
LEMMA WalkInv ==
  ASSUME StableInv, NEW p \in Process,
         Classifies(p) \/ WalkStops(p) \/ StageReads(p) \/ StageRequests(p)
  PROVE  StableInv'
<1>0. /\ call[p].at # "idle" /\ carried' \in [Process -> Carries]
      /\ UNCHANGED <<scope, claims, nextToken, tail, ordinal>>
  BY DEF Classifies, WalkStops, StageReads, StageRequests, StableInv, storeVars
<1>1. CASE Returns(p)
  BY <1>0, <1>1, Returning
<1>2. CASE NextStage(p)
  BY <1>0, <1>2, NextStageFits, Going
<1>3. CASE Classifies(p) /\ ~Returns(p)
  <2> DEFINE records == tail[call[p].attempt]
             first == FirstUncompleted(records)
  <2>1. CASE Verdict(records, StateOf(p)) = "resume"
    <3>1. Goto(p, [call[p] EXCEPT !.at = "walk", !.stage = first])
      BY <1>3, <2>1 DEF Classifies
    <3>2. Uncompleted(records) # {}
      BY <2>1 DEF Verdict
    <3>3. first \in DOMAIN Stages
      BY <3>2, FirstIsAStage
    <3> HIDE DEF first
    <3>4. Fits([call[p] EXCEPT !.at = "walk", !.stage = first])
      BY <1>0, <3>3, MovesOn
    <3> QED BY <1>0, <3>1, <3>4, Going
  <2>2. CASE Verdict(records, StateOf(p)) # "resume"
    <3>1. Goto(p, [call[p] EXCEPT !.at = "mint"])
      BY <1>3, <2>2 DEF Classifies
    <3>2. Fits([call[p] EXCEPT !.at = "mint"])
      BY <1>0, MovesOn, FirstStage
    <3> QED BY <1>0, <3>1, <3>2, Going
  <2> QED BY <2>1, <2>2
<1>4. CASE StageReads(p)
  <2>1. Goto(p, [call[p] EXCEPT !.at = "start"])
    BY <1>4 DEF StageReads
  <2>2. Fits([call[p] EXCEPT !.at = "start"])
    BY <1>0, MovesOn, FirstStage
  <2> QED BY <1>0, <2>1, <2>2, Going
<1>5. CASE StageRequests(p) /\ ~Returns(p) /\ ~NextStage(p)
  <2>1. Goto(p, [call[p] EXCEPT !.at = IF Current(p) \in Mutating THEN "verify" ELSE "record"])
    BY <1>5 DEF StageRequests
  <2>2. CASE Current(p) \in Mutating
    <3>1. Fits([call[p] EXCEPT !.at = "verify"])
      BY <1>0, MovesOn, FirstStage
    <3> QED BY <1>0, <2>1, <2>2, <3>1, Going
  <2>3. CASE Current(p) \notin Mutating
    <3> DEFINE c == [call[p] EXCEPT !.at = "record"]
    <3>1. call[p] # Idle /\ call[p] \in CallTyped
      BY <1>0, InCall
    <3>2. c \in CallTyped /\ c.token = call[p].token /\ c.stage = call[p].stage
      BY <3>1 DEF CallTyped
    <3> HIDE DEF c
    <3>3. Fits(c)
      BY <2>3, <3>1, <3>2 DEF StableInv, Fits, Current
    <3> QED BY <1>0, <2>1, <2>3, <3>3, Going DEF c
  <2> QED BY <2>2, <2>3
<1>6. CASE WalkStops(p)
  BY <1>1, <1>6 DEF WalkStops
<1> QED BY <1>1, <1>2, <1>3, <1>4, <1>5, <1>6

\* A token that verifies for the attempt is of the plan's scope.
LEMMA StageVerifiesInv ==
  ASSUME StableInv, NEW p \in Process, StageVerifies(p)
  PROVE  StableInv'
<1>0. /\ call[p].at # "idle" /\ carried' \in [Process -> Carries]
      /\ UNCHANGED <<scope, claims, nextToken, tail, ordinal>>
  BY DEF StageVerifies, StableInv, storeVars
<1>1. PICK verdict \in Claims!Verdicts(call[p].token, claims, supersessions) :
        IF verdict.kind = "held" /\ verdict.claim.holder = call[p].attempt
        THEN Goto(p, [call[p] EXCEPT !.at = "record"])
        ELSE Returns(p)
  BY DEF StageVerifies
<1>2. CASE verdict.kind = "held" /\ verdict.claim.holder = call[p].attempt
  <2> DEFINE c == [call[p] EXCEPT !.at = "record"]
  <2>1. call[p] # Idle /\ call[p] \in CallTyped
    BY <1>0, InCall
  <2>2. c \in CallTyped /\ c.token = call[p].token /\ c.attempt = call[p].attempt
    BY <2>1 DEF CallTyped
  <2>3. verdict.claim \in claims /\ verdict.claim.token = call[p].token
    BY <1>2, HeldStands
  <2>4. HoldsScope(call[p].attempt)
    BY <1>2, <2>1, <2>3 DEF StableInv, Fits, HoldsScope
  <2> HIDE DEF c
  <2>5. Fits(c)
    BY <2>1, <2>2, <2>4 DEF StableInv, Fits
  <2> QED BY <1>0, <1>1, <1>2, <2>5, Going DEF c
<1>3. CASE ~(verdict.kind = "held" /\ verdict.claim.holder = call[p].attempt)
  BY <1>0, <1>1, <1>3, Returning
<1> QED BY <1>2, <1>3

\* The records of the walk: an opening, a start, a completion.
LEMMA RecordingInv ==
  ASSUME StableInv, NEW p \in Process,
         StageOpens(p) \/ StageStarts(p) \/ StageCompletes(p)
  PROVE  StableInv'
<1>0. /\ call[p].at # "idle" /\ carried' \in [Process -> Carries]
      /\ UNCHANGED <<scope, claims, nextToken, ordinal>>
  BY DEF StageOpens, StageStarts, StageCompletes, StableInv, storeVars
<1>1. call[p] # Idle /\ call[p] \in CallTyped
  BY <1>0, InCall
<1>2. call[p].attempt \in Own /\ call[p].stage \in DOMAIN Stages
  BY <1>1 DEF CallTyped
<1>3. Current(p) \in Stage
  BY <1>2 DEF Current, Stage
<1>4. CASE StageOpens(p)
  <2>1. PlanRecord \in Record /\ \A s : PlanRecord # StepRecord(s, "completed")
    BY DEF Record, PlanRecord, StepRecord
  <2>2. tail' = [tail EXCEPT ![call[p].attempt] = Extended(tail[call[p].attempt], PlanRecord)]
        /\ call' = call
    BY <1>4 DEF StageOpens, Records
  <2> QED BY <1>0, <1>2, <2>1, <2>2, TailStep
<1>5. CASE StageStarts(p)
  <2> DEFINE record == StepRecord(Current(p), "started")
  <2>1. record \in Record /\ \A s : record # StepRecord(s, "completed")
    BY <1>3 DEF Record, StepRecord
  <2>2. tail' = [tail EXCEPT ![call[p].attempt] = Extended(tail[call[p].attempt], record)]
    BY <1>5 DEF StageStarts, Records
  <2>3. Goto(p, [call[p] EXCEPT !.at = "walk"])
    BY <1>5 DEF StageStarts
  <2>4. Fits([call[p] EXCEPT !.at = "walk"])
    BY <1>0, MovesOn, FirstStage
  <2> HIDE DEF record
  <2> QED BY <1>0, <1>2, <2>1, <2>2, <2>3, <2>4, TailStep DEF Goto
<1>6. CASE StageCompletes(p)
  <2> DEFINE record == StepRecord(Current(p), "completed")
  <2>1. record \in Record /\ \A s : record = StepRecord(s, "completed") => s = Current(p)
    BY <1>3 DEF Record, StepRecord
  <2>2. tail' = [tail EXCEPT ![call[p].attempt] = Extended(tail[call[p].attempt], record)]
    BY <1>6 DEF StageCompletes, Records
  <2>3. PICK c : Goto(p, c) /\ Fits(c)
    BY <1>0, <1>6, NextStageFits DEF StageCompletes
  <2>4. call[p].at = "record"
    BY <1>6 DEF StageCompletes
  <2>5. Current(p) \in Mutating => HoldsScope(call[p].attempt)
    BY <1>1, <2>4 DEF StableInv, Fits, Current
  <2>6. \A s \in Mutating : record = StepRecord(s, "completed") => HoldsScope(call[p].attempt)
    BY <2>1, <2>5
  <2> HIDE DEF record
  <2> QED BY <1>0, <1>2, <2>1, <2>2, <2>3, <2>6, TailStep DEF Goto
<1> QED BY <1>4, <1>5, <1>6

\* resolve and abort append no completion.
LEMMA DoorsInv ==
  ASSUME StableInv, NEW p \in Process, AbortRecords(p) \/ ResolveRecords(p)
  PROVE  StableInv'
<1>0. carried \in [Process -> Carries] /\ UNCHANGED <<scope, claims, nextToken, ordinal>>
  BY DEF AbortRecords, ResolveRecords, StableInv, storeVars
<1>1. CASE AbortRecords(p)
  <2>1. call[p].at # "idle" /\ carried' = carried
    BY <1>1 DEF AbortRecords
  <2>2. call[p].attempt \in Own
    BY <2>1, InCall DEF CallTyped
  <2>3. AbandonmentRecord \in Record /\ \A s : AbandonmentRecord # StepRecord(s, "completed")
    BY DEF Record, AbandonmentRecord, StepRecord
  <2>4. tail' = [tail EXCEPT ![call[p].attempt] = Extended(tail[call[p].attempt], AbandonmentRecord)]
        /\ call' = [call EXCEPT ![p] = Idle]
    BY <1>1 DEF AbortRecords, Records, Returns, Goto
  <2>5. Fits(Idle)
    BY DEF Fits
  <2> QED BY <1>0, <2>1, <2>2, <2>3, <2>4, <2>5, TailStep
<1>2. CASE ResolveRecords(p)
  <2>1. carried[p] \in Carries /\ carried[p].state = "blocked"
    BY <1>0, <1>2 DEF ResolveRecords
  <2>2. carried[p] \in [attempt : Own, state : States]
    BY <2>1 DEF Carries, None
  <2>3. carried[p].attempt \in Own /\ [carried[p] EXCEPT !.state = "executing"] \in Carries
    BY <2>2 DEF Carries, States
  <2>4. carried' \in [Process -> Carries]
    BY <1>0, <1>2, <2>3 DEF ResolveRecords
  <2>5. ResolutionRecord \in Record /\ \A s : ResolutionRecord # StepRecord(s, "completed")
    BY DEF Record, ResolutionRecord, StepRecord
  <2>6. tail' = [tail EXCEPT ![carried[p].attempt] =
                   Extended(tail[carried[p].attempt], ResolutionRecord)]
        /\ call' = call
    BY <1>2 DEF ResolveRecords
  <2> QED BY <1>0, <2>3, <2>4, <2>5, <2>6, TailStep
<1> QED BY <1>1, <1>2

\* The end of a call settles the attempt it carries, if it carries one.
LEMMA Settling ==
  ASSUME carried \in [Process -> Carries], NEW p \in Process, NEW state \in States,
         Settles(p, IF StateOf(p) = "executing" THEN state ELSE StateOf(p))
  PROVE  Returns(p) /\ carried' \in [Process -> Carries]
<1>0. carried \in [Process -> Carries] /\ carried[p] \in Carries
  OBVIOUS
<1>1. CASE call[p].mode = "durable"
  BY <1>0, <1>1 DEF Settles
<1>2. CASE call[p].mode # "durable" /\ carried[p].state = "executing"
  <2>1. carried[p] \in [attempt : Own, state : States]
    BY <1>0, <1>2 DEF Carries, None
  <2>2. [carried[p] EXCEPT !.state = state] \in Carries
    BY <2>1 DEF Carries
  <2>3. carried' = [carried EXCEPT ![p] = [carried[p] EXCEPT !.state = state]]
    BY <1>2 DEF Settles, StateOf
  <2> QED BY <1>0, <2>2, <2>3 DEF Settles
<1>3. CASE call[p].mode # "durable" /\ carried[p].state # "executing"
  <2>1. carried' = [carried EXCEPT ![p] = [carried[p] EXCEPT !.state = carried[p].state]]
    BY <1>3 DEF Settles, StateOf
  <2>2. [carried[p] EXCEPT !.state = carried[p].state] = carried[p]
    BY <1>0 DEF Carries, None
  <2> QED BY <1>0, <2>1, <2>2 DEF Settles
<1> QED BY <1>1, <1>2, <1>3

\* The mint and the publication leave the claims and the streams alone.
LEMMA CompletesInv ==
  ASSUME StableInv, NEW p \in Process,
         Mints(p) \/ ReleaseCreates(p) \/ ReleaseFails(p) \/ ReleaseChecks(p)
  PROVE  StableInv'
<1>0. /\ call[p].at # "idle" /\ carried \in [Process -> Carries]
      /\ UNCHANGED <<scope, claims, nextToken, tail, ordinal>>
  BY DEF Mints, ReleaseCreates, ReleaseFails, ReleaseChecks, StableInv, storeVars
<1>1. CASE Returns(p) /\ carried' = carried
  BY <1>0, <1>1, Returning
<1>2. CASE Suspends(p) \/ Publishes(p)
  <2>1. "blocked" \in States /\ "published" \in States
    BY DEF States
  <2>2. Returns(p) /\ carried' \in [Process -> Carries]
    BY <1>0, <1>2, <2>1, Settling DEF Suspends, Publishes
  <2> QED BY <1>0, <2>2, Returning
<1>3. ASSUME NEW at \in {"publish", "check"}, Goto(p, [call[p] EXCEPT !.at = at]),
             carried' = carried
      PROVE  StableInv'
  <2>1. Fits([call[p] EXCEPT !.at = at])
    BY <1>0, MovesOn, FirstStage
  <2> QED BY <1>0, <1>3, <2>1, Going
<1>4. CASE Mints(p)
  BY <1>1, <1>3, <1>4 DEF Mints
<1>5. CASE ReleaseCreates(p)
  BY <1>2, <1>3, <1>5 DEF ReleaseCreates
<1>6. CASE ReleaseFails(p)
  BY <1>1, <1>2, <1>6 DEF ReleaseFails
<1>7. CASE ReleaseChecks(p)
  BY <1>1, <1>2, <1>7 DEF ReleaseChecks
<1> QED BY <1>4, <1>5, <1>6, <1>7

\* A death takes the engine's memory, a fault its call; other plans claim.
LEMMA FailuresInv ==
  ASSUME StableInv, ForeignClaims \/ \E p \in Process : Dies(p) \/ Faults(p)
  PROVE  StableInv'
<1>0. carried \in [Process -> Carries]
  BY DEF StableInv
<1>1. ASSUME NEW p \in Process, Dies(p) \/ Faults(p) PROVE StableInv'
  <2>1. None \in Carries
    BY DEF Carries
  <2>2. carried' \in [Process -> Carries]
    BY <1>0, <1>1, <2>1 DEF Dies, Faults
  <2>3. Returns(p) /\ UNCHANGED <<scope, claims, nextToken, tail, ordinal>>
    BY <1>1 DEF Dies, Faults, storeVars
  <2> QED BY <2>2, <2>3, Returning
<1>2. CASE ForeignClaims
  <2>1. PICK wanted : Claims!Land(wanted, Foreign)
    BY <1>2 DEF ForeignClaims
  <2>2. UNCHANGED <<scope, tail, ordinal, carried, call>>
    BY <1>2 DEF ForeignClaims
  <2>3. CASE Process = {}
    BY <2>1, <2>2, <2>3, Landing DEF StableInv, HoldsScope, Workers
  <2>4. CASE Process # {}
    BY <2>1, <2>2, <2>4, LandStep
  <2> QED BY <2>3, <2>4
<1> QED BY <1>1, <1>2

-----------------------------------------------------------------------------
LEMMA InitWorkInv == Init => WorkInv
<1> SUFFICES ASSUME Init PROVE StableInv
  BY DEF WorkInv
<1>1. ClaimsInv
  BY DEF Init, ClaimsInv
<1>2. \A a \in Own : tail[a] = <<>>
  BY DEF Init
<1>3. Workers = {}
  BY <1>2 DEF Workers, Completed, Holds
<1>4. carried \in [Process -> Carries]
  BY DEF Init, Carries
<1>5. call = [p \in Process |-> call[p]] /\ \A p \in Process : Fits(call[p])
  BY DEF Init, Fits
<1>6. tail \in [Own -> Seq(Record)] /\ ordinal \in Nat
  BY DEF Init
<1> QED BY <1>1, <1>3, <1>4, <1>5, <1>6 DEF StableInv

LEMMA NextWorkInv == WorkInv /\ [Next]_vars => WorkInv'
<1> SUFFICES ASSUME WorkInv, [Next]_vars PROVE WorkInv'
  OBVIOUS
<1>1. scope' = scope
  BY DEF Next, Walk, vars, RunOpens, RunContinues, ResumeReconstructs, RunScans, AcquireLands,
         AcquireAnswers, Classifies, WalkStops, StageReads, StageOpens, StageStarts, StageRequests,
         StageVerifies, StageCompletes, Mints, ReleaseCreates, ReleaseChecks, AbortRecords,
         ReleaseFails, ResolveRecords, AbortCloses, Dies, Faults, ForeignClaims
<1> SUFFICES ASSUME scope.kind = "stable-version" PROVE StableInv'
  BY <1>1 DEF WorkInv
<1>2. StableInv
  BY DEF WorkInv
<1>3. CASE UNCHANGED vars
  BY <1>2, <1>3 DEF vars, storeVars, StableInv, ClaimsInv, Fits, CallTyped, HoldsScope, Workers
<1>4. ASSUME NEW p \in Process, Walk(p) PROVE StableInv'
  BY <1>2, <1>4, RunScansInv, AcquiresInv, WalkInv, StageVerifiesInv, RecordingInv, DoorsInv,
     CompletesInv DEF Walk
<1>5. CASE Next
  BY <1>2, <1>4, <1>5, BeginnersInv, CompletesInv, DoorsInv, FailuresInv DEF Next
<1> QED BY <1>3, <1>5

\* Of all the attempts of a stable plan, run, resumed or run again after any
\* death, one at most completes a stage that changes the world.
THEOREM OneWorkerEver == Spec => []OneWorker
<1>1. WorkInv => OneWorker
  BY DEF WorkInv, StableInv, ClaimsInv, HoldsScope, OneWorker
<1> QED BY <1>1, InitWorkInv, NextWorkInv, PTL DEF Spec

-----------------------------------------------------------------------------
(* The order of the records, and the tag behind them.  The claim has no    *)
(* part in it: whoever drives an attempt, a call that is at a stage has    *)
(* every earlier one on record, and one at the mint all of them; streams   *)
(* only grow, so it stays so whatever the other calls append.              *)

\* A stream in write-ahead order, by places.
Ordered(records) ==
  \A i \in DOMAIN records : records[i].kind = "step" =>
    /\ \E j \in 1 .. i - 1 : records[j] = PlanRecord
    /\ records[i].to = "completed" =>
         \E j \in 1 .. i - 1 : records[j] = StepRecord(records[i].stage, "started")
    /\ \A s \in DOMAIN Stages : records[i] = StepRecord(Stages[s], "completed") =>
         \A e \in 1 .. s - 1 : \E j \in 1 .. i - 1 : records[j] = StepRecord(Stages[e], "completed")

\* What a record must find in the stream it is appended to.
Grounded(record, records) ==
  record.kind = "step" =>
    /\ Holds(records, PlanRecord)
    /\ record.to = "completed" => Holds(records, StepRecord(record.stage, "started"))
    /\ \A s \in DOMAIN Stages : record = StepRecord(Stages[s], "completed") =>
         \A e \in 1 .. s - 1 : Completed(records, Stages[e])

\* Every stage before this one, or every stage, is completed.
Passed(records, stage) == \A e \in 1 .. stage - 1 : Completed(records, Stages[e])
Finished(records) == \A s \in Stage : Completed(records, s)

\* A call in progress, of an attempt of the plan and at one of its stages.
Fields == {"at", "attempt", "mode", "stage", "token", "demand", "retries"}

Shaped(c) ==
  /\ c = [f \in Fields |-> c[f]]
  /\ c.attempt \in Own /\ c.stage \in DOMAIN Stages

\* What a call at its place finds on its attempt's stream.
Follows(c) ==
  c # Idle =>
    /\ Shaped(c)
    /\ Passed(tail[c.attempt], c.stage)
    /\ c.at \in {"verify", "record"} =>
         Holds(tail[c.attempt], StepRecord(Stages[c.stage], "started"))
    /\ c.at \in {"mint", "publish", "check"} => Finished(tail[c.attempt])
    /\ c.at \in {"publish", "check"} => tagged

\* Some attempt finished its walk and landed the plan's claim.
Walked == \E a \in Own : /\ Finished(tail[a])
                        /\ \E c \in claims : c.holder = a /\ c.scope = scope

OrderInv ==
  /\ ordinal \in Nat
  /\ tail \in [Own -> Seq(Record)]
  /\ carried \in [Process -> Carries]
  /\ call = [p \in Process |-> call[p]]
  /\ \A p \in Process : Follows(call[p])
  /\ \A a \in Own : Ordered(tail[a])
  /\ (tagged => Walked) /\ (released => tagged)

-----------------------------------------------------------------------------
LEMMA Greatest ==
  ASSUME NEW n \in Nat, NEW T, T \subseteq 1 .. n, T # {}
  PROVE  \E x \in T : \A y \in T : y <= x
<1> DEFINE mirror == {n - x : x \in T}
<1>0. \A x \in T : x \in 1 .. n /\ n - x \in Nat
  OBVIOUS
<1>1. mirror \subseteq Nat /\ mirror # {}
  BY <1>0
<1>2. PICK m \in mirror : \A k \in mirror : m <= k
  BY <1>1, Least
<1>3. PICK x \in T : m = n - x
  OBVIOUS
<1>4. ASSUME NEW y \in T PROVE y <= x
  <2>1. n - x <= n - y
    BY <1>2, <1>3
  <2> QED BY <1>0, <2>1
<1> QED BY <1>4

\* A record of a step is one of the two.
LEMMA StepRecords ==
  ASSUME NEW record \in Record, record.kind = "step"
  PROVE  /\ record.to \in {"started", "completed"}
         /\ record = StepRecord(record.stage, record.to)
BY DEF Record, PlanRecord, AbandonmentRecord, ResolutionRecord, StepRecord

\* A stage whose last record is its completion is completed.
LEMMA StateIsRecorded ==
  ASSUME NEW records \in Seq(Record), NEW stage
  PROVE  /\ StepState(records, stage) = "completed" => Completed(records, stage)
         /\ StepState(records, stage) # "none" /\ ~Completed(records, stage)
               => Holds(records, StepRecord(stage, "started"))
<1> DEFINE at == {i \in DOMAIN records : records[i].kind = "step" /\ records[i].stage = stage}
           last == CHOOSE i \in at : \A j \in at : j <= i
<1>1. CASE at = {}
  BY <1>1 DEF StepState
<1>2. CASE at # {}
  <2>1. at \subseteq 1 .. Len(records) /\ Len(records) \in Nat
    OBVIOUS
  <2>2. \E i \in at : \A j \in at : j <= i
    BY <1>2, <2>1, Greatest
  <2>3. last \in at
    BY <2>2
  <2>4. StepState(records, stage) = records[last].to
    BY <1>2 DEF StepState
  <2> HIDE DEF last
  <2>5. records[last] \in Record /\ records[last].kind = "step" /\ records[last].stage = stage
    BY <2>3
  <2>6. records[last] = StepRecord(stage, records[last].to)
        /\ records[last].to \in {"started", "completed"}
    BY <2>5, StepRecords
  <2> QED BY <2>3, <2>4, <2>6 DEF Completed, Holds
<1> QED BY <1>1, <1>2

\* Before the first uncompleted stage all are completed, and where none is
\* left the walk is finished.
LEMMA PassedUpToFirst ==
  ASSUME NEW records \in Seq(Record)
  PROVE  /\ Uncompleted(records) # {} => Passed(records, FirstUncompleted(records))
         /\ Uncompleted(records) = {} => Finished(records)
<1>1. ASSUME NEW e \in DOMAIN Stages, e \notin Uncompleted(records)
      PROVE  Completed(records, Stages[e])
  BY <1>1, StateIsRecorded DEF Uncompleted
<1>2. ASSUME Uncompleted(records) # {} PROVE Passed(records, FirstUncompleted(records))
  <2> DEFINE first == FirstUncompleted(records)
  <2>1. Uncompleted(records) \subseteq Nat
    BY StagesAssumption DEF Uncompleted
  <2>2. \E i \in Uncompleted(records) : \A j \in Uncompleted(records) : i <= j
    BY <1>2, <2>1, Least
  <2>3. first \in Uncompleted(records) /\ \A j \in Uncompleted(records) : first <= j
    BY <2>2 DEF FirstUncompleted
  <2> HIDE DEF first
  <2>4. first \in 1 .. Len(Stages) /\ DOMAIN Stages = 1 .. Len(Stages) /\ Len(Stages) \in Nat
    BY <2>3, StagesAssumption DEF Uncompleted
  <2>5. ASSUME NEW e \in 1 .. first - 1 PROVE Completed(records, Stages[e])
    <3>1. e \in DOMAIN Stages /\ ~(first <= e)
      BY <2>4
    <3> QED BY <1>1, <2>3, <3>1
  <2> QED BY <2>5 DEF Passed, first
<1>3. ASSUME Uncompleted(records) = {} PROVE Finished(records)
  BY <1>1, <1>3 DEF Finished, Stage
<1> QED BY <1>2, <1>3

\* A stream forgets nothing, and stays in order where the record is grounded.
LEMMA Growing ==
  ASSUME NEW records \in Seq(Record), NEW record \in Record
  PROVE  /\ Extended(records, record) \in Seq(Record)
         /\ Holds(Extended(records, record), record)
         /\ \A r : Holds(records, r) => Holds(Extended(records, record), r)
<1>1. CASE Extended(records, record) = records
  <2>1. records # <<>> /\ records[Len(records)] = record
    BY <1>1 DEF Extended
  <2>2. Len(records) \in DOMAIN records
    BY <2>1
  <2> QED BY <1>1, <2>1, <2>2 DEF Holds
<1>2. CASE Extended(records, record) = Append(records, record)
  <2>1. DOMAIN Append(records, record) = 1 .. Len(records) + 1 /\ Len(records) \in Nat
        /\ DOMAIN records = 1 .. Len(records)
    OBVIOUS
  <2>2. Append(records, record)[Len(records) + 1] = record
        /\ \A i \in 1 .. Len(records) : Append(records, record)[i] = records[i]
    OBVIOUS
  <2>3. Append(records, record) \in Seq(Record)
    OBVIOUS
  <2> QED BY <1>2, <2>1, <2>2, <2>3 DEF Holds
<1> QED BY <1>1, <1>2 DEF Extended

LEMMA StayingOrdered ==
  ASSUME NEW records \in Seq(Record), NEW record \in Record,
         Ordered(records), Grounded(record, records)
  PROVE  Ordered(Extended(records, record))
<1>1. CASE Extended(records, record) = records
  BY <1>1
<1>2. CASE Extended(records, record) = Append(records, record)
  <2> DEFINE n == Len(records)
             t == Append(records, record)
  <2>1. /\ n \in Nat /\ DOMAIN records = 1 .. n /\ DOMAIN t = 1 .. n + 1
        /\ t[n + 1] = record /\ \A i \in 1 .. n : t[i] = records[i]
    OBVIOUS
  <2> HIDE DEF n, t
  <2> SUFFICES ASSUME NEW i \in 1 .. n + 1, t[i].kind = "step"
               PROVE  /\ \E j \in 1 .. i - 1 : t[j] = PlanRecord
                      /\ t[i].to = "completed" =>
                           \E j \in 1 .. i - 1 : t[j] = StepRecord(t[i].stage, "started")
                      /\ \A s \in DOMAIN Stages : t[i] = StepRecord(Stages[s], "completed") =>
                           \A e \in 1 .. s - 1 :
                             \E j \in 1 .. i - 1 : t[j] = StepRecord(Stages[e], "completed")
    BY <1>2, <2>1 DEF Ordered, t
  <2>2. CASE i \in 1 .. n
    <3>1. t[i] = records[i] /\ \A j \in 1 .. i - 1 : t[j] = records[j]
      BY <2>1, <2>2
    <3> QED BY <2>1, <2>2, <3>1 DEF Ordered
  <2>3. CASE i = n + 1
    <3>1. t[i] = record /\ \A r : Holds(records, r) => \E j \in 1 .. i - 1 : t[j] = r
      BY <2>1, <2>3 DEF Holds
    <3> QED BY <3>1 DEF Grounded, Completed
  <2> QED BY <2>1, <2>2, <2>3
<1> QED BY <1>1, <1>2 DEF Extended

\* Ordered is what WriteAheadOrder says of a stream.
LEMMA OrderedMeans ==
  ASSUME NEW records \in Seq(Record), Ordered(records)
  PROVE  /\ ~Corrupt(records)
         /\ \A i \in DOMAIN records : records[i].kind = "step" =>
              /\ PlanRecorded(SubSeq(records, 1, i - 1))
              /\ \A s \in DOMAIN Stages : records[i] = StepRecord(Stages[s], "completed") =>
                   \A e \in 1 .. s - 1 : Completed(SubSeq(records, 1, i - 1), Stages[e])
<1>1. ~Corrupt(records)
  BY DEF Ordered, Corrupt
<1>2. ASSUME NEW i \in DOMAIN records, NEW r, \E j \in 1 .. i - 1 : records[j] = r
      PROVE  Holds(SubSeq(records, 1, i - 1), r)
  <2>1. i \in 1 .. Len(records) /\ Len(records) \in Nat
    OBVIOUS
  <2>2. PICK j \in 1 .. i - 1 : records[j] = r
    BY <1>2
  <2>3. j \in DOMAIN SubSeq(records, 1, i - 1) /\ SubSeq(records, 1, i - 1)[j] = records[j]
    BY <2>1
  <2> QED BY <2>2, <2>3 DEF Holds
<1> QED BY <1>1, <1>2 DEF Ordered, PlanRecorded, Completed

-----------------------------------------------------------------------------
(* What a step must show for OrderInv.                                     *)

\* A call that changes its place keeps its attempt and its stage.
LEMMA Placed ==
  ASSUME NEW c, Shaped(c), NEW at
  PROVE  LET d == [c EXCEPT !.at = at] IN
         Shaped(d) /\ d.at = at /\ d.attempt = c.attempt /\ d.stage = c.stage
<1> DEFINE d == [c EXCEPT !.at = at]
<1>1. c = [f \in Fields |-> c[f]] /\ c.attempt \in Own /\ c.stage \in DOMAIN Stages
  BY DEF Shaped
<1>2. d.at = at /\ d.attempt = c.attempt /\ d.stage = c.stage
  BY <1>1 DEF Fields
<1>3. d = [f \in Fields |-> d[f]]
  BY <1>1
<1> HIDE DEF d
<1>4. Shaped(d) /\ d.at = at /\ d.attempt = c.attempt /\ d.stage = c.stage
  BY <1>1, <1>2, <1>3 DEF Shaped
<1> QED BY <1>4 DEF d

\* Where streams only grow and the tag stays, a call goes on following.
LEMMA FollowsOn ==
  ASSUME NEW c, Follows(c), tagged => tagged',
         \A a \in Own : \A r : Holds(tail[a], r) => Holds(tail'[a], r)
  PROVE  Follows(c)'
BY DEF Follows, Shaped, Passed, Finished, Completed

\* Any step of the model, with one process's call at most.
LEMMA OrderStep ==
  ASSUME OrderInv, NEW p \in Process, NEW c,
         call' = call \/ (call' = [call EXCEPT ![p] = c] /\ Follows(c)'),
         scope' = scope, claims \subseteq claims', ordinal' \in Nat,
         carried' \in [Process -> Carries],
         tail' \in [Own -> Seq(Record)], \A a \in Own : Ordered(tail'[a]),
         \A a \in Own : \A r : Holds(tail[a], r) => Holds(tail'[a], r),
         tagged => tagged', tagged' => tagged \/ Walked,
         released' => released \/ tagged
  PROVE  OrderInv'
<1>1. \A q \in Process : Follows(call[q])'
  BY FollowsOn DEF OrderInv
<1>2. call' = [q \in Process |-> call'[q]]
  BY DEF OrderInv
<1>3. \A q \in Process : call'[q] = call[q] \/ (call'[q] = c /\ Follows(c)')
  BY DEF OrderInv
<1>4. (\A q \in Process : Follows(call[q]))'
  BY <1>1, <1>3 DEF Follows
<1>5. Walked => Walked'
  BY DEF Walked, Finished, Completed
<1>6. (tagged' => Walked') /\ (released' => tagged')
  BY <1>5 DEF OrderInv
<1>7. (\A a \in Own : Ordered(tail[a]))'
  BY DEF Ordered
<1> QED BY <1>2, <1>4, <1>6, <1>7 DEF OrderInv

\* A step that leaves the streams and the tag alone.
LEMMA StillStep ==
  ASSUME OrderInv, NEW p \in Process, NEW c,
         call' = call \/ (call' = [call EXCEPT ![p] = c] /\ Follows(c)),
         scope' = scope, claims \subseteq claims', ordinal' \in Nat,
         carried' \in [Process -> Carries], UNCHANGED <<tail, worldVars>>
  PROVE  OrderInv'
<1>1. tail' = tail /\ tagged' = tagged /\ released' = released
  BY DEF worldVars
<1>2. Follows(c) => Follows(c)'
  BY <1>1, FollowsOn
<1>3. tail' \in [Own -> Seq(Record)] /\ \A a \in Own : Ordered(tail'[a])
  BY <1>1 DEF OrderInv
<1> HIDE DEF OrderInv
<1> QED BY <1>1, <1>2, <1>3, OrderStep

\* A step that appends one grounded record to one stream.
LEMMA RecordStep ==
  ASSUME OrderInv, NEW p \in Process, NEW c,
         call' = call \/ (call' = [call EXCEPT ![p] = c] /\ (Follows(c) \/ Follows(c)')),
         UNCHANGED <<scope, claims, ordinal, worldVars>>, carried' \in [Process -> Carries],
         NEW a \in Own, NEW record \in Record, Grounded(record, tail[a]),
         tail' = [tail EXCEPT ![a] = Extended(tail[a], record)]
  PROVE  OrderInv'
<1>1. tail \in [Own -> Seq(Record)] /\ tail[a] \in Seq(Record) /\ Ordered(tail[a])
  BY DEF OrderInv
<1>2. tail' \in [Own -> Seq(Record)]
  BY <1>1, Growing
<1>3. \A b \in Own : \A r : Holds(tail[b], r) => Holds(tail'[b], r)
  BY <1>1, Growing
<1>4. \A b \in Own : Ordered(tail'[b])
  <2>1. Ordered(tail'[a])
    BY <1>1, StayingOrdered
  <2>2. \A b \in Own : b # a => tail'[b] = tail[b]
    BY <1>1
  <2> QED BY <2>1, <2>2 DEF OrderInv
<1>5. tagged' = tagged /\ released' = released /\ ordinal' \in Nat
  BY DEF worldVars, OrderInv
<1>6. Follows(c) => Follows(c)'
  BY <1>3, <1>5, FollowsOn
<1> QED BY <1>2, <1>3, <1>4, <1>5, <1>6, OrderStep

LEMMA IdleFollows == Follows(Idle)
BY DEF Follows

\* A call in progress follows its attempt.
LEMMA Following ==
  ASSUME OrderInv, NEW p \in Process, call[p].at # "idle"
  PROVE  /\ Follows(call[p]) /\ Shaped(call[p]) /\ Passed(tail[call[p].attempt], call[p].stage)
         /\ call[p].attempt \in Own /\ call[p].stage \in DOMAIN Stages
         /\ tail[call[p].attempt] \in Seq(Record)
<1>1. call[p] # Idle
  BY DEF Idle
<1> QED BY <1>1 DEF OrderInv, Follows, Shaped

\* A call that moves to a place that asks for nothing more.
LEMMA FreelyMoves ==
  ASSUME OrderInv, NEW p \in Process, call[p].at # "idle",
         NEW at \in {"acquire", "classify", "walk", "start", "verify", "record"},
         at \in {"verify", "record"} =>
           Holds(tail[call[p].attempt], StepRecord(Stages[call[p].stage], "started"))
  PROVE  Follows([call[p] EXCEPT !.at = at])
<1> DEFINE d == [call[p] EXCEPT !.at = at]
<1>1. Shaped(d) /\ d.at = at /\ d.attempt = call[p].attempt /\ d.stage = call[p].stage
  BY Following, Placed
<1> HIDE DEF d
<1>2. Follows(d)
  BY <1>1, Following DEF Follows
<1> QED BY <1>2 DEF d

\* A call that enters a stage every earlier one of which is on record.
LEMMA EntersStage ==
  ASSUME OrderInv, NEW p \in Process, call[p].at # "idle",
         NEW stage \in DOMAIN Stages, Passed(tail[call[p].attempt], stage)
  PROVE  Follows([call[p] EXCEPT !.at = "walk", !.stage = stage])
<1> DEFINE c == call[p]
           d == [c EXCEPT !.at = "walk", !.stage = stage]
<1>1. c = [f \in Fields |-> c[f]] /\ c.attempt \in Own
  BY Following DEF Shaped
<1> HIDE DEF c
<1>2. d.at = "walk" /\ d.attempt = c.attempt /\ d.stage = stage
  BY <1>1 DEF Fields
<1>3. d = [f \in Fields |-> d[f]]
  BY <1>1
<1> HIDE DEF d
<1>4. Passed(tail[d.attempt], d.stage)
  BY <1>2 DEF c
<1>5. Follows(d)
  BY <1>1, <1>2, <1>3, <1>4 DEF Follows, Shaped
<1> QED BY <1>5 DEF c, d

\* A call at the mint, behind a finished stream.
LEMMA MintMoves ==
  ASSUME OrderInv, NEW p \in Process, call[p].at # "idle", Finished(tail[call[p].attempt]),
         NEW at \in {"mint", "publish", "check"}, at = "mint" \/ tagged
  PROVE  Follows([call[p] EXCEPT !.at = at])
<1> DEFINE d == [call[p] EXCEPT !.at = at]
<1>1. Shaped(d) /\ d.at = at /\ d.attempt = call[p].attempt /\ d.stage = call[p].stage
  BY Following, Placed
<1> HIDE DEF d
<1>2. Follows(d)
  BY <1>1, Following DEF Follows
<1> QED BY <1>2 DEF d

\* A call that begins.
LEMMA Begins ==
  ASSUME NEW at \in {"scan", "acquire", "abandon"}, NEW attempt \in Own, NEW mode,
         NEW stage \in DOMAIN Stages, Passed(tail[attempt], stage)
  PROVE  Follows([Step(at, attempt, mode) EXCEPT !.stage = stage])
<1> DEFINE c == Step(at, attempt, mode)
           d == [c EXCEPT !.stage = stage]
<1>1. c = [f \in Fields |-> c[f]] /\ c.at = at /\ c.attempt = attempt
  BY DEF Step, Fields
<1> HIDE DEF c
<1>2. d = [f \in Fields |-> d[f]] /\ d.at = at /\ d.attempt = attempt /\ d.stage = stage
  BY <1>1 DEF Fields
<1> HIDE DEF d
<1>3. Follows(d)
  BY <1>2 DEF Follows, Shaped
<1> QED BY <1>3 DEF c, d

\* A call that returns.
LEMMA Ending ==
  ASSUME OrderInv, NEW p \in Process, Returns(p),
         scope' = scope, claims \subseteq claims', ordinal' \in Nat,
         carried' \in [Process -> Carries], UNCHANGED <<tail, worldVars>>
  PROVE  OrderInv'
<1>1. call' = [call EXCEPT ![p] = Idle]
  BY DEF Returns, Goto
<1> QED BY <1>1, IdleFollows, StillStep

\* run, resume and abort begin, at the first stage or the first uncompleted.
LEMMA BeginnersOrder ==
  ASSUME OrderInv, NEW p \in Process,
         \/ RunOpens(p) \/ RunContinues(p) \/ AbortCloses(p)
         \/ \E a \in Own : ResumeReconstructs(p, a)
  PROVE  OrderInv'
<1>0. carried \in [Process -> Carries] /\ carried[p] \in Carries /\ ordinal \in Nat
      /\ \A a \in Own : Passed(tail[a], 1)
  BY DEF OrderInv, Passed
<1>1. CASE RunOpens(p)
  <2>1. ordinal + 1 \in Own
    BY <1>0, <1>1, MaxOrdinalAssumption DEF RunOpens, Own
  <2> DEFINE c == Step("scan", ordinal + 1, "fresh")
  <2>2. c = [c EXCEPT !.stage = 1]
    BY DEF Step
  <2>3. Follows(c)
    BY <1>0, <2>1, <2>2, Begins, FirstStage
  <2> HIDE DEF c
  <2>4. call' = [call EXCEPT ![p] = c] /\ UNCHANGED <<scope, claims, tail, carried, worldVars>>
        /\ ordinal' \in Nat
    BY <1>0, <1>1 DEF RunOpens, Goto, storeVars, c
  <2> QED BY <1>0, <2>3, <2>4, StillStep
<1>2. CASE RunContinues(p)
  <2>1. carried[p].attempt \in Own
    BY <1>0, <1>2 DEF RunContinues, Carries
  <2> DEFINE c == Step("acquire", carried[p].attempt, "carried")
  <2>2. c = [c EXCEPT !.stage = 1]
    BY DEF Step
  <2>3. Follows(c)
    BY <1>0, <2>1, <2>2, Begins, FirstStage
  <2> HIDE DEF c
  <2>4. call' = [call EXCEPT ![p] = c]
        /\ UNCHANGED <<scope, claims, tail, carried, ordinal, worldVars>>
    BY <1>2 DEF RunContinues, Goto, storeVars, c
  <2> QED BY <1>0, <2>3, <2>4, StillStep
<1>3. CASE AbortCloses(p)
  <2>1. carried[p] \in [attempt : Own, state : States]
    BY <1>0, <1>3 DEF AbortCloses, Carries, None
  <2> DEFINE c == Step("abandon", carried[p].attempt, "carried")
  <2>2. c = [c EXCEPT !.stage = 1]
    BY DEF Step
  <2>3. Follows(c)
    BY <1>0, <2>1, <2>2, Begins, FirstStage
  <2>4. [carried[p] EXCEPT !.state = "abandoned"] \in Carries
    BY <2>1 DEF Carries, States
  <2>5. carried' \in [Process -> Carries]
    BY <1>0, <1>3, <2>4 DEF AbortCloses
  <2> HIDE DEF c
  <2>6. call' = [call EXCEPT ![p] = c] /\ UNCHANGED <<scope, claims, tail, ordinal, worldVars>>
    BY <1>3 DEF AbortCloses, Goto, storeVars, c
  <2> QED BY <1>0, <2>3, <2>5, <2>6, StillStep
<1>4. ASSUME NEW a \in Own, ResumeReconstructs(p, a) PROVE OrderInv'
  <2> DEFINE first == FirstUncompleted(tail[a])
             c == [Step("acquire", a, "durable") EXCEPT !.stage = first]
  <2>1. Uncompleted(tail[a]) # {} /\ tail[a] \in Seq(Record)
    BY <1>4 DEF ResumeReconstructs, Verdict, OrderInv
  <2>2. first \in DOMAIN Stages /\ Passed(tail[a], first)
    BY <2>1, FirstIsAStage, PassedUpToFirst
  <2>3. call' = [call EXCEPT ![p] = c]
        /\ UNCHANGED <<scope, claims, tail, carried, ordinal, worldVars>>
    BY <1>4 DEF ResumeReconstructs, Goto, storeVars
  <2> HIDE DEF first
  <2>4. Follows(c)
    BY <2>2, Begins
  <2> HIDE DEF c
  <2> QED BY <1>0, <2>3, <2>4, StillStep
<1> QED BY <1>1, <1>2, <1>3, <1>4

\* The scan carries the attempt or burns its ordinal.
LEMMA RunScansOrder ==
  ASSUME OrderInv, NEW p \in Process, RunScans(p)
  PROVE  OrderInv'
<1>0. /\ call[p].at # "idle" /\ carried \in [Process -> Carries] /\ ordinal' \in Nat
      /\ UNCHANGED <<scope, claims, tail, ordinal, worldVars>>
  BY DEF RunScans, OrderInv, storeVars
<1>2. CASE Returns(p) /\ carried' = carried
  BY <1>0, <1>2, Ending
<1>3. CASE ~(Returns(p) /\ carried' = carried)
  <2> DEFINE opened == [attempt |-> call[p].attempt, state |-> "executing"]
             c == [call[p] EXCEPT !.at = "acquire"]
  <2>1. call' = [call EXCEPT ![p] = c] /\ carried' = [carried EXCEPT ![p] = opened]
    BY <1>3 DEF RunScans, Goto
  <2>2. opened \in Carries
    BY <1>0, Following DEF Carries, States
  <2>3. carried' \in [Process -> Carries]
    BY <1>0, <2>1, <2>2
  <2>4. Follows(c)
    BY <1>0, FreelyMoves
  <2> HIDE DEF c
  <2> QED BY <1>0, <2>1, <2>3, <2>4, StillStep
<1> QED BY <1>2, <1>3

\* The claim: found, landed, denied or asked for again.
LEMMA AcquiresOrder ==
  ASSUME OrderInv, NEW p \in Process, AcquireLands(p) \/ AcquireAnswers(p)
  PROVE  OrderInv'
<1>0. /\ call[p].at = "acquire" /\ call[p].at # "idle" /\ carried' \in [Process -> Carries]
      /\ ordinal' \in Nat /\ claims \subseteq claims' /\ scope' = scope
      /\ UNCHANGED <<tail, worldVars>>
  BY DEF AcquireLands, AcquireAnswers, OrderInv, storeVars, Claims!Land, Claims!NextClaim
<1> DEFINE c == call[p]
<1>1. /\ c = [f \in Fields |-> c[f]] /\ c.attempt \in Own /\ c.stage \in DOMAIN Stages
      /\ Passed(tail[c.attempt], c.stage) /\ c.at = "acquire"
  BY <1>0, Following DEF Shaped
<1>2. ASSUME NEW d, d = [f \in Fields |-> d[f]], d.attempt = c.attempt, d.stage = c.stage,
             d.at \in {"acquire", "classify", "walk"}, call' = [call EXCEPT ![p] = d]
      PROVE  OrderInv'
  <2>1. Follows(d)
    BY <1>1, <1>2 DEF Follows, Shaped
  <2> QED BY <1>0, <1>2, <2>1, StillStep
<1>3. ASSUME NEW token, Held(p, token) PROVE OrderInv'
  <2> DEFINE d == [c EXCEPT !.at = IF c.mode = "carried" THEN "classify" ELSE "walk",
                            !.token = token, !.demand = scope, !.retries = 0]
  <2>1. call' = [call EXCEPT ![p] = d]
    BY <1>3 DEF Held, Goto
  <2> HIDE DEF c
  <2>2. d = [f \in Fields |-> d[f]]
    BY <1>1
  <2>3. d.attempt = c.attempt /\ d.stage = c.stage /\ d.at \in {"classify", "walk"}
    BY <1>1 DEF Fields
  <2> HIDE DEF d
  <2> QED BY <1>2, <2>1, <2>2, <2>3
<1>4. CASE AcquireLands(p)
  BY <1>3, <1>4 DEF AcquireLands
<1>5. CASE AcquireAnswers(p) /\ ~\E token : Held(p, token)
  <2>1. PICK refusal : \/ Returns(p)
                       \/ Goto(p, [call[p] EXCEPT !.demand.sequence = refusal.sequence + 1,
                                                  !.retries = @ + 1])
    BY <1>5 DEF AcquireAnswers
  <2>2. CASE Returns(p)
    BY <1>0, <2>2, Ending
  <2>3. CASE ~Returns(p)
    <3> DEFINE d == [c EXCEPT !.demand.sequence = refusal.sequence + 1, !.retries = @ + 1]
    <3>1. call' = [call EXCEPT ![p] = d]
      BY <2>1, <2>3 DEF Goto
    <3> HIDE DEF c
    <3>2. d = [f \in Fields |-> d[f]]
      BY <1>1
    <3>3. d.attempt = c.attempt /\ d.stage = c.stage /\ d.at = "acquire"
      BY <1>1 DEF Fields
    <3> HIDE DEF d
    <3> QED BY <1>2, <3>1, <3>2, <3>3
  <2> QED BY <2>2, <2>3
<1> QED BY <1>3, <1>4, <1>5

\* A stage passed after all the earlier ones.
LEMMA PassesOn ==
  ASSUME NEW records, NEW stage \in DOMAIN Stages,
         Passed(records, stage), Completed(records, Stages[stage])
  PROVE  Passed(records, stage + 1) /\ (stage = Len(Stages) => Finished(records))
<1>1. DOMAIN Stages = 1 .. Len(Stages) /\ Len(Stages) \in Nat
  BY StagesAssumption
<1>2. \A e \in 1 .. stage : Completed(records, Stages[e])
  BY <1>1 DEF Passed
<1> QED BY <1>1, <1>2 DEF Passed, Finished, Stage

\* The next stage is a stage, or the mint behind the last one.
LEMMA NextStageMoves ==
  ASSUME OrderInv, NEW p \in Process, call[p].at # "idle", NextStage(p)
  PROVE  \E c : /\ call' = [call EXCEPT ![p] = c] /\ Shaped(c) /\ c.attempt = call[p].attempt
                /\ \/ c.at = "walk" /\ c.stage = call[p].stage + 1
                   \/ c.at = "mint" /\ c.stage = call[p].stage /\ c.stage = Len(Stages)
<1> DEFINE b == call[p]
<1>1. b = [f \in Fields |-> b[f]] /\ b.attempt \in Own /\ b.stage \in DOMAIN Stages
  BY Following DEF Shaped
<1>2. CASE b.stage = Len(Stages)
  <2> DEFINE c == [b EXCEPT !.at = "mint"]
  <2>1. call' = [call EXCEPT ![p] = c]
    BY <1>2 DEF NextStage, Goto
  <2> HIDE DEF b
  <2>2. c.at = "mint" /\ c.attempt = b.attempt /\ c.stage = b.stage
    BY <1>1 DEF Fields
  <2>3. c = [f \in Fields |-> c[f]]
    BY <1>1
  <2> HIDE DEF c
  <2> QED BY <1>1, <1>2, <2>1, <2>2, <2>3 DEF Shaped, b
<1>3. CASE b.stage # Len(Stages)
  <2> DEFINE next == b.stage + 1
             c == [b EXCEPT !.at = "walk", !.stage = next]
  <2>1. call' = [call EXCEPT ![p] = c]
    BY <1>3 DEF NextStage, Goto
  <2>2. next \in DOMAIN Stages
    BY <1>1, <1>3, StagesAssumption
  <2> HIDE DEF b, next
  <2>3. c.at = "walk" /\ c.attempt = b.attempt /\ c.stage = next
    BY <1>1 DEF Fields
  <2>4. c = [f \in Fields |-> c[f]]
    BY <1>1
  <2> HIDE DEF c
  <2>5. Shaped(c)
    BY <1>1, <2>2, <2>3, <2>4 DEF Shaped
  <2> QED BY <2>1, <2>3, <2>5 DEF b, next
<1> QED BY <1>2, <1>3

\* It follows where the stage it leaves is completed.
LEMMA NextStageFollows ==
  ASSUME NEW c, NEW records, NEW stage \in DOMAIN Stages, Shaped(c),
         Passed(records, stage), Completed(records, Stages[stage]),
         \/ c.at = "walk" /\ c.stage = stage + 1
         \/ c.at = "mint" /\ c.stage = stage /\ c.stage = Len(Stages)
  PROVE  /\ Passed(records, c.stage)
         /\ c.at \notin {"verify", "record", "publish", "check"}
         /\ c.at = "mint" => Finished(records)
BY PassesOn

\* The classification, and the walk up to a stage's record.
LEMMA WalkOrder ==
  ASSUME OrderInv, NEW p \in Process,
         Classifies(p) \/ WalkStops(p) \/ StageReads(p) \/ StageRequests(p)
  PROVE  OrderInv'
<1> DEFINE records == tail[call[p].attempt]
           stage == call[p].stage
<1>0. /\ call[p].at # "idle" /\ carried' \in [Process -> Carries] /\ ordinal' \in Nat
      /\ UNCHANGED <<scope, claims, tail, worldVars>> /\ claims \subseteq claims'
  BY DEF Classifies, WalkStops, StageReads, StageRequests, OrderInv, storeVars
<1>1. /\ records \in Seq(Record) /\ stage \in DOMAIN Stages /\ Passed(records, stage)
      /\ call[p].attempt \in Own
  BY <1>0, Following
<1>2. ASSUME NEW c, Goto(p, c), Follows(c) PROVE OrderInv'
  BY <1>0, <1>2, StillStep DEF Goto
<1>3. CASE Returns(p)
  BY <1>0, <1>3, Ending
<1>4. CASE NextStage(p) /\ Completed(records, Stages[stage])
  <2>1. PICK c : /\ call' = [call EXCEPT ![p] = c] /\ Shaped(c) /\ c.attempt = call[p].attempt
                 /\ \/ c.at = "walk" /\ c.stage = call[p].stage + 1
                    \/ c.at = "mint" /\ c.stage = call[p].stage /\ c.stage = Len(Stages)
    BY <1>0, <1>4, NextStageMoves
  <2>2. /\ Passed(records, c.stage) /\ c.at \notin {"verify", "record", "publish", "check"}
        /\ c.at = "mint" => Finished(records)
    BY <1>1, <1>4, <2>1, NextStageFollows
  <2>3. Follows(c)
    BY <2>1, <2>2 DEF Follows
  <2> QED BY <1>2, <2>1, <2>3 DEF Goto
<1>5. CASE Classifies(p) /\ ~Returns(p)
  <2> DEFINE first == FirstUncompleted(records)
  <2>1. CASE Verdict(records, StateOf(p)) = "resume"
    <3>1. Goto(p, [call[p] EXCEPT !.at = "walk", !.stage = first])
      BY <1>5, <2>1 DEF Classifies
    <3>2. Uncompleted(records) # {}
      BY <2>1 DEF Verdict
    <3>3. first \in DOMAIN Stages /\ Passed(records, first)
      BY <1>1, <3>2, FirstIsAStage, PassedUpToFirst
    <3> HIDE DEF first
    <3>4. Follows([call[p] EXCEPT !.at = "walk", !.stage = first])
      BY <1>0, <3>3, EntersStage
    <3> QED BY <1>2, <3>1, <3>4
  <2>2. CASE Verdict(records, StateOf(p)) # "resume"
    <3>1. Goto(p, [call[p] EXCEPT !.at = "mint"]) /\ Verdict(records, StateOf(p)) = "complete"
      BY <1>5, <2>2 DEF Classifies
    <3>2. Uncompleted(records) = {}
      BY <3>1 DEF Verdict
    <3>3. Finished(records)
      BY <1>1, <3>2, PassedUpToFirst
    <3>4. Follows([call[p] EXCEPT !.at = "mint"])
      BY <1>0, <3>3, MintMoves
    <3> QED BY <1>2, <3>1, <3>4
  <2> QED BY <2>1, <2>2
<1>6. CASE StageReads(p)
  <2>1. Goto(p, [call[p] EXCEPT !.at = "start"])
    BY <1>6 DEF StageReads
  <2>2. Follows([call[p] EXCEPT !.at = "start"])
    BY <1>0, FreelyMoves
  <2> QED BY <1>2, <2>1, <2>2
<1>7. CASE StageRequests(p) /\ ~Returns(p) /\ ~Completed(records, Stages[stage])
  <2>1. /\ Goto(p, [call[p] EXCEPT !.at = IF Current(p) \in Mutating THEN "verify" ELSE "record"])
        /\ StepState(records, Stages[stage]) # "none" /\ ~Completed(records, Stages[stage])
    BY <1>7 DEF StageRequests, Current
  <2>2. Holds(records, StepRecord(Stages[stage], "started"))
    BY <1>1, <2>1, StateIsRecorded
  <2>3. CASE Current(p) \in Mutating
    <3>1. Follows([call[p] EXCEPT !.at = "verify"])
      BY <1>0, <2>2, FreelyMoves
    <3> QED BY <1>2, <2>1, <2>3, <3>1
  <2>4. CASE Current(p) \notin Mutating
    <3>1. Follows([call[p] EXCEPT !.at = "record"])
      BY <1>0, <2>2, FreelyMoves
    <3> QED BY <1>2, <2>1, <2>4, <3>1
  <2> QED BY <2>3, <2>4
<1>8. CASE StageRequests(p) /\ ~Returns(p) /\ Completed(records, Stages[stage])
  BY <1>4, <1>8 DEF StageRequests, Current
<1>9. CASE WalkStops(p)
  BY <1>3, <1>9 DEF WalkStops
<1> QED BY <1>3, <1>5, <1>6, <1>7, <1>8, <1>9

\* A completion in sight of the records already there.
LEMMA StageVerifiesOrder ==
  ASSUME OrderInv, NEW p \in Process, StageVerifies(p)
  PROVE  OrderInv'
<1>0. /\ call[p].at = "verify" /\ call[p].at # "idle" /\ ordinal' \in Nat
      /\ UNCHANGED <<scope, claims, tail, worldVars>> /\ claims \subseteq claims'
      /\ carried' \in [Process -> Carries]
  BY DEF StageVerifies, OrderInv, storeVars
<1>1. Returns(p) \/ Goto(p, [call[p] EXCEPT !.at = "record"])
  BY DEF StageVerifies
<1>2. CASE Returns(p)
  BY <1>0, <1>2, Ending
<1>3. CASE Goto(p, [call[p] EXCEPT !.at = "record"])
  <2>1. Holds(tail[call[p].attempt], StepRecord(Stages[call[p].stage], "started"))
    BY <1>0, Following DEF Follows, Idle
  <2>2. Follows([call[p] EXCEPT !.at = "record"])
    BY <1>0, <2>1, FreelyMoves
  <2> QED BY <1>0, <1>3, <2>2, StillStep DEF Goto
<1> QED BY <1>1, <1>2, <1>3

\* The records of the walk: each finds on its stream what it needs.
LEMMA RecordingOrder ==
  ASSUME OrderInv, NEW p \in Process,
         StageOpens(p) \/ StageStarts(p) \/ StageCompletes(p)
  PROVE  OrderInv'
<1> DEFINE a == call[p].attempt
           stage == call[p].stage
<1>0. /\ call[p].at # "idle" /\ carried' \in [Process -> Carries]
      /\ UNCHANGED <<scope, claims, ordinal, worldVars>>
  BY DEF StageOpens, StageStarts, StageCompletes, OrderInv, storeVars
<1>1. /\ a \in Own /\ stage \in DOMAIN Stages /\ Passed(tail[a], stage) /\ tail[a] \in Seq(Record)
      /\ Ordered(tail[a])
  BY <1>0, Following DEF OrderInv
<1>2. Current(p) = Stages[stage] /\ Stages[stage] \in Stage
  BY <1>1 DEF Current, Stage
<1>3. CASE StageOpens(p)
  <2>1. PlanRecord \in Record /\ Grounded(PlanRecord, tail[a])
    BY DEF Record, PlanRecord, Grounded
  <2>2. tail' = [tail EXCEPT ![a] = Extended(tail[a], PlanRecord)] /\ call' = call
    BY <1>3 DEF StageOpens, Records
  <2> HIDE DEF a
  <2> QED BY <1>0, <1>1, <2>1, <2>2, RecordStep
<1>4. CASE StageStarts(p)
  <2> DEFINE record == StepRecord(Stages[stage], "started")
             c == [call[p] EXCEPT !.at = "walk"]
  <2>1. record \in Record /\ record.to = "started" /\ \A s : record # StepRecord(s, "completed")
    BY <1>2 DEF Record, StepRecord
  <2>2. Holds(tail[a], PlanRecord)
    BY <1>4 DEF StageStarts, PlanRecorded
  <2>3. tail' = [tail EXCEPT ![a] = Extended(tail[a], record)] /\ call' = [call EXCEPT ![p] = c]
    BY <1>2, <1>4 DEF StageStarts, Records, Goto
  <2>4. Follows(c)
    BY <1>0, FreelyMoves
  <2> HIDE DEF record, c, a
  <2>5. Grounded(record, tail[a])
    BY <2>1, <2>2 DEF Grounded
  <2> QED BY <1>0, <1>1, <2>1, <2>3, <2>4, <2>5, RecordStep
<1>5. CASE StageCompletes(p)
  <2> DEFINE record == StepRecord(Stages[stage], "completed")
  <2>1. /\ record \in Record /\ record.stage = Stages[stage] /\ record.to = "completed"
        /\ \A s : record = StepRecord(s, "completed") => s = Stages[stage]
    BY <1>2 DEF Record, StepRecord
  <2>2. tail' = [tail EXCEPT ![a] = Extended(tail[a], record)] /\ NextStage(p)
        /\ call[p].at = "record"
    BY <1>2, <1>5 DEF StageCompletes, Records
  <2>3. Holds(tail[a], StepRecord(Stages[stage], "started"))
    BY <1>0, <2>2, Following DEF Follows, Idle
  <2>4. Holds(tail[a], PlanRecord)
    <3>1. PICK i \in DOMAIN tail[a] : tail[a][i] = StepRecord(Stages[stage], "started")
      BY <2>3 DEF Holds
    <3>2. tail[a][i].kind = "step"
      BY <3>1 DEF StepRecord
    <3>3. PICK j \in 1 .. i - 1 : tail[a][j] = PlanRecord
      BY <1>1, <3>1, <3>2 DEF Ordered
    <3>4. j \in DOMAIN tail[a]
      BY <1>1, <3>1, <3>3
    <3> QED BY <3>3, <3>4 DEF Holds
  <2> HIDE DEF record
  <2>5. Grounded(record, tail[a])
    <3>1. \A s \in DOMAIN Stages : record = StepRecord(Stages[s], "completed") => s = stage
      BY <1>1, <2>1, StagesAssumption
    <3> QED BY <1>1, <2>1, <2>3, <2>4, <3>1 DEF Grounded, Passed
  <2>6. PICK c : /\ call' = [call EXCEPT ![p] = c] /\ Shaped(c) /\ c.attempt = call[p].attempt
                 /\ \/ c.at = "walk" /\ c.stage = call[p].stage + 1
                    \/ c.at = "mint" /\ c.stage = call[p].stage /\ c.stage = Len(Stages)
    BY <1>0, <2>2, NextStageMoves
  <2> HIDE DEF a
  <2>7. tail'[a] = Extended(tail[a], record)
    BY <1>1, <2>2 DEF OrderInv
  <2>8. Passed(tail'[a], stage) /\ Completed(tail'[a], Stages[stage])
    BY <1>1, <2>1, <2>7, Growing DEF Passed, Completed, record
  <2>9. /\ Passed(tail'[a], c.stage) /\ c.at \notin {"verify", "record", "publish", "check"}
        /\ c.at = "mint" => Finished(tail'[a])
    BY <1>1, <2>6, <2>8, NextStageFollows
  <2>10. Follows(c)'
    BY <2>6, <2>9 DEF Follows, Shaped, a
  <2> QED BY <1>0, <1>1, <2>1, <2>2, <2>5, <2>6, <2>10, RecordStep
<1> QED BY <1>3, <1>4, <1>5

\* resolve and abort append no record of a step.
LEMMA DoorsOrder ==
  ASSUME OrderInv, NEW p \in Process, AbortRecords(p) \/ ResolveRecords(p)
  PROVE  OrderInv'
<1>0. carried \in [Process -> Carries] /\ UNCHANGED <<scope, claims, ordinal, worldVars>>
  BY DEF AbortRecords, ResolveRecords, OrderInv, storeVars
<1>1. CASE AbortRecords(p)
  <2>1. call[p].at # "idle" /\ carried' = carried
    BY <1>1 DEF AbortRecords
  <2>2. call[p].attempt \in Own
    BY <2>1, Following
  <2>3. AbandonmentRecord \in Record /\ Grounded(AbandonmentRecord, tail[call[p].attempt])
    BY DEF Record, AbandonmentRecord, Grounded
  <2>4. tail' = [tail EXCEPT ![call[p].attempt] = Extended(tail[call[p].attempt], AbandonmentRecord)]
        /\ call' = [call EXCEPT ![p] = Idle]
    BY <1>1 DEF AbortRecords, Records, Returns, Goto
  <2> QED BY <1>0, <2>1, <2>2, <2>3, <2>4, IdleFollows, RecordStep
<1>2. CASE ResolveRecords(p)
  <2>1. carried[p] \in Carries /\ carried[p].state = "blocked"
    BY <1>0, <1>2 DEF ResolveRecords
  <2>2. carried[p] \in [attempt : Own, state : States]
    BY <2>1 DEF Carries, None
  <2>3. carried[p].attempt \in Own /\ [carried[p] EXCEPT !.state = "executing"] \in Carries
    BY <2>2 DEF Carries, States
  <2>4. carried' \in [Process -> Carries]
    BY <1>0, <1>2, <2>3 DEF ResolveRecords
  <2>5. ResolutionRecord \in Record /\ Grounded(ResolutionRecord, tail[carried[p].attempt])
    BY DEF Record, ResolutionRecord, Grounded
  <2>6. tail' = [tail EXCEPT ![carried[p].attempt] =
                   Extended(tail[carried[p].attempt], ResolutionRecord)]
        /\ call' = call
    BY <1>2 DEF ResolveRecords
  <2> QED BY <1>0, <2>3, <2>4, <2>5, <2>6, RecordStep
<1> QED BY <1>1, <1>2

\* A step that changes the tag or the release and leaves the streams alone.
LEMMA WorldStep ==
  ASSUME OrderInv, NEW p \in Process, NEW at \in {"publish", "check"},
         Goto(p, [call[p] EXCEPT !.at = at]),
         call[p].at \in {"mint", "publish", "check"}, tagged',
         tagged \/ Walked, released' => released \/ tagged,
         UNCHANGED <<scope, claims, tail, ordinal, carried>>
  PROVE  OrderInv'
<1>0. PICK c : c = [call[p] EXCEPT !.at = at]
  OBVIOUS
<1>1. call[p].at # "idle"
  OBVIOUS
<1>2. Shaped(call[p]) /\ Finished(tail[call[p].attempt]) /\ Passed(tail[call[p].attempt], call[p].stage)
  BY <1>1, Following DEF Follows, Idle
<1>3. Shaped(c) /\ c.at = at /\ c.attempt = call[p].attempt /\ c.stage = call[p].stage
  BY <1>0, <1>2, Placed
<1>4. Follows(c)'
  BY <1>2, <1>3 DEF Follows, Shaped, Finished, Passed
<1>5. call' = [call EXCEPT ![p] = c]
  BY <1>0 DEF Goto
<1>6. /\ tail' \in [Own -> Seq(Record)] /\ \A a \in Own : Ordered(tail'[a])
      /\ ordinal' \in Nat /\ carried' \in [Process -> Carries] /\ claims \subseteq claims'
  BY DEF OrderInv
<1> QED BY <1>4, <1>5, <1>6, OrderStep

\* The mint is behind a finished stream and a claim of the plan's scope; the
\* publication is behind the tag.
LEMMA CompletesOrder ==
  ASSUME OrderInv, NEW p \in Process,
         Mints(p) \/ ReleaseCreates(p) \/ ReleaseFails(p) \/ ReleaseChecks(p)
  PROVE  OrderInv'
<1>0. /\ call[p].at \in {"mint", "publish", "check"} /\ call[p].at # "idle"
      /\ carried \in [Process -> Carries]
      /\ UNCHANGED <<scope, claims, tail, ordinal>>
      /\ claims \subseteq claims' /\ ordinal' \in Nat
  BY DEF Mints, ReleaseCreates, ReleaseFails, ReleaseChecks, OrderInv, storeVars
<1>1. /\ Finished(tail[call[p].attempt]) /\ call[p].attempt \in Own
      /\ call[p].at \in {"publish", "check"} => tagged
  BY <1>0, Following DEF Follows, Idle
<1>2. ASSUME Suspends(p) \/ Publishes(p) PROVE Returns(p) /\ carried' \in [Process -> Carries]
  <2>1. "blocked" \in States /\ "published" \in States
    BY DEF States
  <2> QED BY <1>0, <1>2, <2>1, Settling DEF Suspends, Publishes
<1>3. CASE Mints(p) /\ MayMint(p)
  <2>1. Walked
    BY <1>1, <1>3 DEF Walked, MayMint
  <2>2. /\ tagged' /\ Goto(p, [call[p] EXCEPT !.at = "publish"])
        /\ released' = released /\ carried' = carried
    BY <1>3 DEF Mints
  <2> QED BY <1>0, <2>1, <2>2, WorldStep
<1>4. CASE Mints(p) /\ ~MayMint(p)
  <2>1. Returns(p) /\ UNCHANGED worldVars /\ carried' = carried
    BY <1>4 DEF Mints, worldVars
  <2> QED BY <1>0, <2>1, Ending
<1>5. CASE ReleaseCreates(p)
  <2>1. tagged /\ tagged' = tagged /\ released'
    BY <1>1, <1>5 DEF ReleaseCreates
  <2>2. CASE Goto(p, [call[p] EXCEPT !.at = "check"]) /\ carried' = carried
    BY <1>0, <2>1, <2>2, WorldStep
  <2>3. CASE Suspends(p)
    <3>1. call' = [call EXCEPT ![p] = Idle] /\ carried' \in [Process -> Carries]
      BY <1>2, <2>3 DEF Returns, Goto
    <3>2. tail' \in [Own -> Seq(Record)] /\ \A a \in Own : Ordered(tail'[a])
      BY <1>0 DEF OrderInv
    <3>3. Follows(Idle)'
      BY DEF Follows
    <3> QED BY <1>0, <2>1, <3>1, <3>2, <3>3, OrderStep
  <2> QED BY <1>5, <2>2, <2>3 DEF ReleaseCreates
<1>6. CASE ReleaseFails(p) \/ ReleaseChecks(p)
  <2>1. UNCHANGED worldVars
    BY <1>6 DEF ReleaseFails, ReleaseChecks
  <2>2. Returns(p) /\ carried' \in [Process -> Carries]
    BY <1>0, <1>2, <1>6 DEF ReleaseFails, ReleaseChecks
  <2> QED BY <1>0, <2>1, <2>2, Ending
<1> QED BY <1>3, <1>4, <1>5, <1>6

\* Deaths, faults and the claims of other plans leave the streams alone.
LEMMA FailuresOrder ==
  ASSUME OrderInv, ForeignClaims \/ \E p \in Process : Dies(p) \/ Faults(p)
  PROVE  OrderInv'
<1>0. carried \in [Process -> Carries] /\ ordinal \in Nat
  BY DEF OrderInv
<1>1. ASSUME NEW p \in Process, Dies(p) \/ Faults(p) PROVE OrderInv'
  <2>1. carried' \in [Process -> Carries]
    BY <1>0, <1>1 DEF Dies, Faults, Carries
  <2>2. Returns(p) /\ UNCHANGED <<scope, claims, tail, ordinal, worldVars>>
    BY <1>1 DEF Dies, Faults, storeVars
  <2> QED BY <1>0, <2>1, <2>2, Ending
<1>2. CASE ForeignClaims
  <2>1. claims \subseteq claims' /\ UNCHANGED <<scope, tail, ordinal, carried, call, tagged, released>>
    BY <1>2 DEF ForeignClaims, Claims!Land, Claims!NextClaim, worldVars
  <2> QED BY <2>1 DEF OrderInv, Follows, Shaped, Passed, Finished, Walked
<1> QED BY <1>1, <1>2

-----------------------------------------------------------------------------
LEMMA InitOrderInv == Init => OrderInv
<1> SUFFICES ASSUME Init PROVE OrderInv
  OBVIOUS
<1>1. tail \in [Own -> Seq(Record)] /\ \A a \in Own : tail[a] = <<>>
  BY DEF Init
<1>2. \A a \in Own : Ordered(tail[a])
  BY <1>1 DEF Ordered
<1>3. carried \in [Process -> Carries] /\ ordinal \in Nat /\ ~tagged /\ ~released
  BY DEF Init, Carries
<1>4. call = [p \in Process |-> call[p]] /\ \A p \in Process : Follows(call[p])
  BY DEF Init, Follows
<1> QED BY <1>1, <1>2, <1>3, <1>4 DEF OrderInv

LEMMA NextOrderInv == OrderInv /\ [Next]_vars => OrderInv'
<1> SUFFICES ASSUME OrderInv, [Next]_vars PROVE OrderInv'
  OBVIOUS
<1>1. CASE UNCHANGED vars
  BY <1>1 DEF vars, storeVars, worldVars, OrderInv, Follows, Shaped, Passed, Finished, Walked
<1>2. ASSUME NEW p \in Process, Walk(p) PROVE OrderInv'
  BY <1>2, RunScansOrder, AcquiresOrder, WalkOrder, StageVerifiesOrder, RecordingOrder,
     DoorsOrder, CompletesOrder DEF Walk
<1>3. CASE Next
  BY <1>2, <1>3, BeginnersOrder, CompletesOrder, DoorsOrder, FailuresOrder DEF Next
<1> QED BY <1>1, <1>3

LEMMA OrderAlways == Spec => []OrderInv
BY InitOrderInv, NextOrderInv, PTL DEF Spec

\* Whichever processes wrote a stream, in whatever order and through whatever
\* deaths: the plan record opens it, a completion follows a start of its
\* stage, and the completions come in canonical order (E-02).
THEOREM WriteAheadEver == Spec => []WriteAheadOrder
<1>1. OrderInv => WriteAheadOrder
  BY OrderedMeans DEF OrderInv, WriteAheadOrder
<1> QED BY <1>1, OrderAlways, PTL

\* The tag stands only behind a finished walk whose attempt landed the claim
\* of the plan's own scope, and the release object only behind the tag.
THEOREM TagBehindWalk == Spec => []TagFollowsWalk
<1>1. OrderInv => TagFollowsWalk
  BY DEF OrderInv, TagFollowsWalk, Walked, Finished
<1> QED BY <1>1, OrderAlways, PTL

-----------------------------------------------------------------------------
(* What a recorded abandonment leaves to be done.  A completion appended   *)
(* after it was checked for before it: so the completions after it and the *)
(* calls between the check and the record are together fewer than the      *)
(* processes, the aborting one being none of them.                         *)

After(records, i) ==
  {j \in i + 1 .. Len(records) : records[j].kind = "step" /\ records[j].to = "completed"}

\* The processes past ledgerRequestStep's read of the tail.
Committed(a) == {p \in Process : call[p].at \in {"verify", "record"} /\ call[p].attempt = a}

Ends ==
  \A a \in Own : \A i \in DOMAIN tail[a] :
    tail[a][i] = AbandonmentRecord =>
      Cardinality(After(tail[a], i)) + Cardinality(Committed(a)) < Cardinality(Process)

LEMMA CommittedFinite ==
  ASSUME NEW a
  PROVE  IsFiniteSet(Committed(a)) /\ Cardinality(Committed(a)) \in Nat
<1>1. Committed(a) \subseteq Process
  BY DEF Committed
<1> QED BY <1>1, ProcessAssumption, FS_Subset, FS_CardinalityType

LEMMA AfterFinite ==
  ASSUME NEW records \in Seq(Record), NEW i \in DOMAIN records
  PROVE  IsFiniteSet(After(records, i)) /\ Cardinality(After(records, i)) \in Nat
<1>1. i + 1 \in Int /\ Len(records) \in Int
  OBVIOUS
<1>2. IsFiniteSet(i + 1 .. Len(records))
  BY <1>1, FS_Interval
<1>3. After(records, i) \subseteq i + 1 .. Len(records)
  BY DEF After
<1> QED BY <1>2, <1>3, FS_Subset, FS_CardinalityType

\* An append adds to the completions after a place at most itself.
LEMMA AfterGrows ==
  ASSUME NEW records \in Seq(Record), NEW record \in Record, NEW i \in DOMAIN records
  PROVE  LET longer == Extended(records, record) IN
         /\ i \in DOMAIN longer /\ longer[i] = records[i]
         /\ ~(record.kind = "step" /\ record.to = "completed") => After(longer, i) = After(records, i)
         /\ Cardinality(After(longer, i)) <= Cardinality(After(records, i)) + 1
<1> DEFINE n == Len(records)
           longer == Append(records, record)
<1>0. IsFiniteSet(After(records, i)) /\ Cardinality(After(records, i)) \in Nat
  BY AfterFinite
<1>1. CASE Extended(records, record) = records
  BY <1>0, <1>1
<1>2. CASE Extended(records, record) = Append(records, record)
  <2>1. /\ n \in Nat /\ i \in 1 .. n /\ Len(longer) = n + 1 /\ DOMAIN longer = 1 .. n + 1
        /\ longer[n + 1] = record /\ \A j \in 1 .. n : longer[j] = records[j]
    OBVIOUS
  <2> HIDE DEF n, longer
  <2>2. After(records, i) = {j \in i + 1 .. n : records[j].kind = "step" /\ records[j].to = "completed"}
    BY DEF After, n
  <2>3. After(longer, i) =
          {j \in i + 1 .. n + 1 : longer[j].kind = "step" /\ longer[j].to = "completed"}
    BY <2>1 DEF After
  <2>4. After(longer, i) \subseteq After(records, i) \union {n + 1}
    BY <2>1, <2>2, <2>3
  <2>5. ~(record.kind = "step" /\ record.to = "completed") => After(longer, i) = After(records, i)
    BY <2>1, <2>2, <2>3
  <2>6. n + 1 \notin After(records, i)
    BY <2>1, <2>2
  <2>7. /\ IsFiniteSet(After(records, i) \union {n + 1})
        /\ Cardinality(After(records, i) \union {n + 1}) = Cardinality(After(records, i)) + 1
    BY <1>0, <2>6, FS_AddElement
  <2>8. Cardinality(After(longer, i)) <= Cardinality(After(records, i)) + 1
    BY <2>4, <2>7, FS_Subset
  <2> QED BY <1>2, <2>1, <2>5, <2>8 DEF longer
<1> QED BY <1>1, <1>2 DEF Extended

\* A process that commits to nothing new leaves no more committed.
LEMMA CommittedShrinks ==
  ASSUME NEW p \in Process, NEW a, \A q \in Process \ {p} : call'[q] = call[q],
         p \in Committed(a)' => p \in Committed(a)
  PROVE  /\ Committed(a)' \subseteq Committed(a)
         /\ Cardinality(Committed(a)') \in Nat /\ Cardinality(Committed(a)') <= Cardinality(Committed(a))
<1>1. Committed(a)' \subseteq Committed(a)
  BY DEF Committed
<1> QED BY <1>1, CommittedFinite, FS_Subset, FS_CardinalityType

\* A step that appends nothing: who commits anew reads no abandonment.
LEMMA StillEnds ==
  ASSUME Ends, tail' = tail, OrderInv, NEW p \in Process,
         \A q \in Process \ {p} : call'[q] = call[q],
         \A a \in Own : p \in Committed(a)' => p \in Committed(a) \/ ~Abandoned(tail[a])
  PROVE  Ends'
<1> SUFFICES ASSUME NEW a \in Own, NEW i \in DOMAIN tail[a], tail[a][i] = AbandonmentRecord
             PROVE  Cardinality(After(tail[a], i)) + Cardinality(Committed(a)') < Cardinality(Process)
  BY DEF Ends, After
<1>1. Abandoned(tail[a])
  BY DEF Abandoned, Holds
<1>2. Cardinality(Committed(a)') \in Nat /\ Cardinality(Committed(a)') <= Cardinality(Committed(a))
  BY <1>1, CommittedShrinks
<1>3. Cardinality(After(tail[a], i)) + Cardinality(Committed(a)) < Cardinality(Process)
  BY DEF Ends
<1>4. Cardinality(After(tail[a], i)) \in Nat
  BY AfterFinite DEF OrderInv
<1> QED BY <1>2, <1>3, <1>4, CommittedFinite, ProcessAssumption, FS_CardinalityType

\* A step that appends a record: a completion is paid for by the committed
\* call that appends it, and an abandonment is the end of its call.
LEMMA RecordEnds ==
  ASSUME Ends, OrderInv, NEW p \in Process,
         \A q \in Process \ {p} : call'[q] = call[q],
         \A b \in Own : p \in Committed(b)' => p \in Committed(b),
         NEW a \in Own, NEW record \in Record,
         tail' = [tail EXCEPT ![a] = Extended(tail[a], record)],
         record.kind = "step" /\ record.to = "completed" =>
           p \in Committed(a) /\ p \notin Committed(a)',
         record = AbandonmentRecord => p \notin Committed(a)'
  PROVE  Ends'
<1> DEFINE records == tail[a]
           longer == Extended(records, record)
           completes == record.kind = "step" /\ record.to = "completed"
<1>0. /\ records \in Seq(Record) /\ tail'[a] = longer
      /\ \A b \in Own : b # a => tail'[b] = tail[b]
      /\ \A b \in Own : tail[b] \in Seq(Record)
  BY DEF OrderInv
<1>1. \A b \in Own : /\ Committed(b)' \subseteq Committed(b)
                     /\ Cardinality(Committed(b)') \in Nat
                     /\ Cardinality(Committed(b)') <= Cardinality(Committed(b))
                     /\ Cardinality(Committed(b)) \in Nat
  BY CommittedShrinks, CommittedFinite
<1>2. Cardinality(Process) \in Nat
  BY ProcessAssumption, FS_CardinalityType
<1>3. ASSUME NEW b \in Own, b # a, NEW i \in DOMAIN tail[b], tail[b][i] = AbandonmentRecord
      PROVE  Cardinality(After(tail[b], i)) + Cardinality(Committed(b)') < Cardinality(Process)
  <2>1. Cardinality(After(tail[b], i)) \in Nat
    BY <1>0, AfterFinite
  <2>2. Cardinality(After(tail[b], i)) + Cardinality(Committed(b)) < Cardinality(Process)
    BY <1>3 DEF Ends
  <2> QED BY <1>1, <1>2, <2>1, <2>2
<1>4. ASSUME NEW i \in DOMAIN records, longer[i] = AbandonmentRecord
      PROVE  Cardinality(After(longer, i)) + Cardinality(Committed(a)') < Cardinality(Process)
  <2>1. records[i] = AbandonmentRecord
    BY <1>0, <1>4, AfterGrows
  <2>2. Cardinality(After(records, i)) + Cardinality(Committed(a)) < Cardinality(Process)
    BY <2>1 DEF Ends
  <2>3. Cardinality(After(records, i)) \in Nat
    BY <1>0, AfterFinite
  <2>4. CASE ~completes
    <3>1. After(longer, i) = After(records, i)
      BY <1>0, <2>4, AfterGrows
    <3> HIDE DEF longer, records
    <3> QED BY <1>1, <1>2, <2>2, <2>3, <3>1
  <2>5. CASE completes
    <3>1. Cardinality(After(longer, i)) <= Cardinality(After(records, i)) + 1
      BY <1>0, AfterGrows
    <3>2. i \in DOMAIN longer /\ longer \in Seq(Record)
      BY <1>0, AfterGrows, Growing
    <3>3. Cardinality(After(longer, i)) \in Nat
      BY <3>2, AfterFinite
    <3>4. Committed(a)' \subseteq Committed(a) \ {p} /\ p \in Committed(a)
      BY <1>1, <2>5
    <3>5. /\ IsFiniteSet(Committed(a) \ {p})
          /\ Cardinality(Committed(a) \ {p}) = Cardinality(Committed(a)) - 1
      BY <3>4, CommittedFinite, FS_RemoveElement
    <3>6. Cardinality(Committed(a)') <= Cardinality(Committed(a)) - 1
      BY <3>4, <3>5, FS_Subset
    <3> HIDE DEF longer, records
    <3> QED BY <1>1, <1>2, <2>2, <2>3, <3>1, <3>3, <3>6
  <2> QED BY <2>4, <2>5
<1>5. ASSUME NEW i \in DOMAIN longer, i \notin DOMAIN records, longer[i] = AbandonmentRecord
      PROVE  Cardinality(After(longer, i)) + Cardinality(Committed(a)') < Cardinality(Process)
  <2>1. longer = Append(records, record) /\ i = Len(records) + 1 /\ Len(longer) = i
    BY <1>0, <1>5 DEF Extended
  <2>2. record = AbandonmentRecord
    BY <1>0, <1>5, <2>1
  <2>3. After(longer, i) = {}
    BY <1>0, <2>1 DEF After
  <2>4. Cardinality(After(longer, i)) = 0
    BY <2>3, FS_EmptySet
  <2>5. Committed(a)' \subseteq Process \ {p}
    BY <2>2 DEF Committed
  <2>6. /\ IsFiniteSet(Process \ {p})
        /\ Cardinality(Process \ {p}) = Cardinality(Process) - 1
    BY ProcessAssumption, FS_RemoveElement
  <2>7. Cardinality(Committed(a)') <= Cardinality(Process) - 1
    BY <2>5, <2>6, FS_Subset
  <2> HIDE DEF longer, records
  <2> QED BY <1>1, <1>2, <2>4, <2>7
<1>6. ASSUME NEW b \in Own, NEW i \in DOMAIN tail'[b], tail'[b][i] = AbandonmentRecord
      PROVE  Cardinality(After(tail'[b], i)) + Cardinality(Committed(b)') < Cardinality(Process)
  <2>1. CASE b = a
    BY <1>0, <1>4, <1>5, <1>6, <2>1
  <2>2. CASE b # a
    BY <1>0, <1>3, <1>6, <2>2
  <2> QED BY <2>1, <2>2
<1> QED BY <1>6 DEF Ends, After

\* The places of a call that has not read the tail for its next completion.
Away == {"idle", "scan", "acquire", "classify", "walk", "start", "mint", "publish", "check", "abandon"}

\* Where the call of a step that asks for no completion goes.
LEMMA GoesAway ==
  ASSUME OrderInv, NEW p \in Process, call[p].at # "idle"
  PROVE  /\ \A at \in Away : [call[p] EXCEPT !.at = at].at = at
         /\ \A stage : [call[p] EXCEPT !.at = "walk", !.stage = stage].at = "walk"
         /\ \A at \in Away : \A token :
              [call[p] EXCEPT !.at = at, !.token = token, !.demand = scope, !.retries = 0].at = at
         /\ \A sequence : [call[p] EXCEPT !.demand.sequence = sequence, !.retries = @ + 1].at = call[p].at
<1> DEFINE c == call[p]
<1>1. c = [f \in Fields |-> c[f]]
  BY Following DEF Shaped
<1> HIDE DEF c
<1>2. \A at : [c EXCEPT !.at = at].at = at
  BY <1>1 DEF Fields
<1>3. \A stage : [c EXCEPT !.at = "walk", !.stage = stage].at = "walk"
  BY <1>1 DEF Fields
<1>4. \A at, token :
        [c EXCEPT !.at = at, !.token = token, !.demand = scope, !.retries = 0].at = at
  BY <1>1 DEF Fields
<1>5. \A sequence : [c EXCEPT !.demand.sequence = sequence, !.retries = @ + 1].at = c.at
  BY <1>1 DEF Fields
<1> QED BY <1>2, <1>3, <1>4, <1>5 DEF c

LEMMA AwayEnds ==
  ASSUME OrderInv, Ends, NEW p \in Process, NEW c, Goto(p, c), c.at \in Away, tail' = tail
  PROVE  Ends'
<1>1. call'[p] = c /\ \A q \in Process \ {p} : call'[q] = call[q]
  BY DEF OrderInv, Goto
<1>2. \A a : p \notin Committed(a)'
  BY <1>1 DEF Committed, Away
<1> QED BY <1>1, <1>2, StillEnds

LEMMA ReturnEnds ==
  ASSUME OrderInv, Ends, NEW p \in Process, Returns(p), tail' = tail
  PROVE  Ends'
<1>1. Idle.at \in Away
  BY DEF Idle, Away
<1> QED BY <1>1, AwayEnds DEF Returns

\* The doors that begin a call, and its way to the walk.
LEMMA BeginnersEnds ==
  ASSUME OrderInv, Ends, NEW p \in Process,
         \/ RunOpens(p) \/ RunContinues(p) \/ AbortCloses(p) \/ RunScans(p)
         \/ \E a \in Own : ResumeReconstructs(p, a)
  PROVE  Ends'
<1>1. tail' = tail
  BY DEF RunOpens, RunContinues, AbortCloses, RunScans, ResumeReconstructs
<1>2. ASSUME NEW at \in Away, NEW attempt, NEW mode, NEW stage,
             Goto(p, Step(at, attempt, mode)) \/ Goto(p, [Step(at, attempt, mode) EXCEPT !.stage = stage])
      PROVE  Ends'
  <2>1. Step(at, attempt, mode).at = at /\ [Step(at, attempt, mode) EXCEPT !.stage = stage].at = at
    BY DEF Step
  <2> QED BY <1>1, <1>2, <2>1, AwayEnds
<1>3. CASE RunScans(p)
  <2>1. call[p].at # "idle" /\ "acquire" \in Away
    BY <1>3 DEF RunScans, Away
  <2>2. [call[p] EXCEPT !.at = "acquire"].at \in Away
    BY <2>1, GoesAway
  <2> QED BY <1>1, <1>3, <2>2, AwayEnds, ReturnEnds DEF RunScans
<1>4. "scan" \in Away /\ "acquire" \in Away /\ "abandon" \in Away
  BY DEF Away
<1> QED BY <1>2, <1>3, <1>4 DEF RunOpens, RunContinues, AbortCloses, ResumeReconstructs

LEMMA AcquiresEnds ==
  ASSUME OrderInv, Ends, NEW p \in Process, AcquireLands(p) \/ AcquireAnswers(p)
  PROVE  Ends'
<1>1. call[p].at = "acquire" /\ call[p].at # "idle" /\ tail' = tail
  BY DEF AcquireLands, AcquireAnswers
<1>2. ASSUME NEW token, Held(p, token) PROVE Ends'
  <2>1. PICK at \in {"classify", "walk"} :
          Goto(p, [call[p] EXCEPT !.at = at, !.token = token, !.demand = scope, !.retries = 0])
    BY <1>2 DEF Held
  <2>2. at \in Away
    BY DEF Away
  <2>3. [call[p] EXCEPT !.at = at, !.token = token, !.demand = scope, !.retries = 0].at = at
    BY <1>1, <2>2, GoesAway
  <2> QED BY <1>1, <2>1, <2>2, <2>3, AwayEnds
<1>3. ASSUME NEW sequence, Goto(p, [call[p] EXCEPT !.demand.sequence = sequence, !.retries = @ + 1])
      PROVE  Ends'
  <2>1. call[p].at \in Away
    BY <1>1 DEF Away
  <2>2. [call[p] EXCEPT !.demand.sequence = sequence, !.retries = @ + 1].at = call[p].at
    BY <1>1, GoesAway
  <2> QED BY <1>1, <1>3, <2>1, <2>2, AwayEnds
<1>4. CASE AcquireLands(p)
  BY <1>2, <1>4 DEF AcquireLands
<1>5. CASE AcquireAnswers(p)
  BY <1>1, <1>2, <1>3, <1>5, ReturnEnds DEF AcquireAnswers
<1> QED BY <1>4, <1>5

\* The next stage, or the mint, is away from the record.
LEMMA NextStageAway ==
  ASSUME OrderInv, NEW p \in Process, call[p].at # "idle", NextStage(p)
  PROVE  \E c : Goto(p, c) /\ c.at \in Away
<1>1. \E c : call' = [call EXCEPT ![p] = c] /\ c.at \in {"walk", "mint"}
  BY NextStageMoves
<1> QED BY <1>1 DEF Goto, Away

\* The walk commits only where it reads no abandonment.
LEMMA WalkEnds ==
  ASSUME OrderInv, Ends, NEW p \in Process,
         Classifies(p) \/ WalkStops(p) \/ StageReads(p) \/ StageRequests(p)
  PROVE  Ends'
<1>1. call[p].at # "idle" /\ tail' = tail
  BY DEF Classifies, WalkStops, StageReads, StageRequests
<1>2. "walk" \in Away /\ "mint" \in Away /\ "start" \in Away
  BY DEF Away
<1>a. ASSUME NEW at \in Away, Goto(p, [call[p] EXCEPT !.at = at]) PROVE Ends'
  <2>1. [call[p] EXCEPT !.at = at].at = at
    BY <1>1, GoesAway
  <2> QED BY <1>1, <1>a, <2>1, AwayEnds
<1>b. ASSUME NEW stage, Goto(p, [call[p] EXCEPT !.at = "walk", !.stage = stage]) PROVE Ends'
  <2>1. [call[p] EXCEPT !.at = "walk", !.stage = stage].at = "walk"
    BY <1>1, GoesAway
  <2> QED BY <1>1, <1>2, <1>b, <2>1, AwayEnds
<1>3. CASE Classifies(p)
  BY <1>1, <1>2, <1>3, <1>a, <1>b, ReturnEnds DEF Classifies
<1>4. CASE WalkStops(p) \/ StageReads(p)
  BY <1>1, <1>2, <1>4, <1>a, ReturnEnds DEF WalkStops, StageReads
<1>5. CASE StageRequests(p)
  <2>1. CASE Returns(p)
    BY <1>1, <2>1, ReturnEnds
  <2>2. CASE NextStage(p)
    BY <1>1, <2>2, NextStageAway, AwayEnds
  <2>3. CASE ~Returns(p) /\ ~NextStage(p)
    <3>1. ~Abandoned(tail[call[p].attempt])
      BY <1>5, <2>3 DEF StageRequests
    <3>2. PICK at : Goto(p, [call[p] EXCEPT !.at = at])
      BY <1>5, <2>3 DEF StageRequests
    <3>3. [call[p] EXCEPT !.at = at].attempt = call[p].attempt
      BY <1>1, Following, Placed
    <3>4. /\ call'[p].attempt = call[p].attempt
          /\ \A q \in Process \ {p} : call'[q] = call[q]
      BY <3>2, <3>3 DEF OrderInv, Goto
    <3>5. \A a \in Own : p \in Committed(a)' => ~Abandoned(tail[a])
      BY <3>1, <3>4 DEF Committed
    <3> QED BY <1>1, <3>4, <3>5, StillEnds
  <2> QED BY <2>1, <2>2, <2>3
<1> QED BY <1>3, <1>4, <1>5

LEMMA StageVerifiesEnds ==
  ASSUME OrderInv, Ends, NEW p \in Process, StageVerifies(p)
  PROVE  Ends'
<1>1. call[p].at = "verify" /\ call[p].at # "idle" /\ tail' = tail
      /\ (Returns(p) \/ Goto(p, [call[p] EXCEPT !.at = "record"]))
  BY DEF StageVerifies
<1>2. CASE Returns(p)
  BY <1>1, <1>2, ReturnEnds
<1>3. CASE Goto(p, [call[p] EXCEPT !.at = "record"])
  <2>1. [call[p] EXCEPT !.at = "record"].attempt = call[p].attempt
    BY <1>1, Following, Placed
  <2>2. /\ call'[p].attempt = call[p].attempt
        /\ \A q \in Process \ {p} : call'[q] = call[q]
    BY <1>3, <2>1 DEF OrderInv, Goto
  <2>3. \A a \in Own : p \in Committed(a)' => p \in Committed(a)
    BY <1>1, <2>2 DEF Committed
  <2> QED BY <1>1, <2>2, <2>3, StillEnds
<1> QED BY <1>1, <1>2, <1>3

\* What each record asks of the call that appends it.
LEMMA RecordingEnds ==
  ASSUME OrderInv, Ends, NEW p \in Process,
         \/ StageOpens(p) \/ StageStarts(p) \/ StageCompletes(p)
         \/ AbortRecords(p) \/ ResolveRecords(p)
  PROVE  Ends'
<1>1. CASE StageOpens(p)
  <2>1. /\ call[p].at # "idle" /\ call' = call
        /\ tail' = [tail EXCEPT ![call[p].attempt] = Extended(tail[call[p].attempt], PlanRecord)]
    BY <1>1 DEF StageOpens, Records
  <2>2. PlanRecord \in Record /\ PlanRecord.kind # "step" /\ PlanRecord # AbandonmentRecord
    BY DEF Record, PlanRecord, AbandonmentRecord
  <2>3. \A b \in Own : p \in Committed(b)' => p \in Committed(b)
    BY <2>1 DEF Committed
  <2> QED BY <2>1, <2>2, <2>3, Following, RecordEnds
<1>2. CASE StageStarts(p)
  <2> DEFINE record == StepRecord(Current(p), "started")
             c == [call[p] EXCEPT !.at = "walk"]
  <2>1. /\ call[p].at # "idle" /\ call' = [call EXCEPT ![p] = c]
        /\ tail' = [tail EXCEPT ![call[p].attempt] = Extended(tail[call[p].attempt], record)]
    BY <1>2 DEF StageStarts, Records, Goto
  <2>2. call[p].attempt \in Own /\ Current(p) \in Stage
    BY <2>1, Following DEF Current, Stage
  <2>3. record \in Record /\ record.to = "started" /\ record # AbandonmentRecord
    BY <2>2 DEF Record, StepRecord, AbandonmentRecord
  <2>4. c.at = "walk"
    BY <2>1, Following, Placed
  <2> HIDE DEF c, record
  <2>5. /\ call'[p] = c /\ \A q \in Process \ {p} : call'[q] = call[q]
    BY <2>1 DEF OrderInv
  <2>6. \A b : p \notin Committed(b)'
    BY <2>4, <2>5 DEF Committed
  <2> QED BY <2>1, <2>2, <2>3, <2>5, <2>6, RecordEnds
<1>3. CASE StageCompletes(p)
  <2> DEFINE record == StepRecord(Current(p), "completed")
  <2>1. /\ call[p].at = "record" /\ call[p].at # "idle" /\ NextStage(p)
        /\ tail' = [tail EXCEPT ![call[p].attempt] = Extended(tail[call[p].attempt], record)]
    BY <1>3 DEF StageCompletes, Records
  <2>2. call[p].attempt \in Own /\ Current(p) \in Stage
    BY <2>1, Following DEF Current, Stage
  <2>3. record \in Record /\ record # AbandonmentRecord
    BY <2>2 DEF Record, StepRecord, AbandonmentRecord
  <2>4. PICK c : Goto(p, c) /\ c.at \in Away
    BY <2>1, NextStageAway
  <2> HIDE DEF record
  <2>5. /\ call'[p] = c /\ \A q \in Process \ {p} : call'[q] = call[q]
    BY <2>4 DEF OrderInv, Goto
  <2>6. (\A b : p \notin Committed(b)') /\ p \in Committed(call[p].attempt)
    BY <2>1, <2>4, <2>5 DEF Committed, Away
  <2> QED BY <2>1, <2>2, <2>3, <2>5, <2>6, RecordEnds
<1>4. CASE AbortRecords(p)
  <2>1. /\ call[p].at # "idle" /\ call' = [call EXCEPT ![p] = Idle]
        /\ tail' = [tail EXCEPT ![call[p].attempt] =
                      Extended(tail[call[p].attempt], AbandonmentRecord)]
    BY <1>4 DEF AbortRecords, Records, Returns, Goto
  <2>2. AbandonmentRecord \in Record /\ AbandonmentRecord.kind # "step"
    BY DEF Record, AbandonmentRecord
  <2>3. /\ call'[p] = Idle /\ \A q \in Process \ {p} : call'[q] = call[q]
    BY <2>1 DEF OrderInv
  <2>4. \A b : p \notin Committed(b)'
    BY <2>3 DEF Committed, Idle
  <2> QED BY <2>1, <2>2, <2>3, <2>4, Following, RecordEnds
<1>5. CASE ResolveRecords(p)
  <2>1. /\ carried[p].state = "blocked" /\ carried[p] \in Carries /\ call' = call
        /\ tail' = [tail EXCEPT ![carried[p].attempt] =
                      Extended(tail[carried[p].attempt], ResolutionRecord)]
    BY <1>5 DEF ResolveRecords, OrderInv
  <2>2. carried[p].attempt \in Own
    BY <2>1 DEF Carries, None
  <2>3. ResolutionRecord \in Record /\ ResolutionRecord.kind # "step"
        /\ ResolutionRecord # AbandonmentRecord
    BY DEF Record, ResolutionRecord, AbandonmentRecord
  <2>4. \A b \in Own : p \in Committed(b)' => p \in Committed(b)
    BY <2>1 DEF Committed
  <2> QED BY <2>1, <2>2, <2>3, <2>4, RecordEnds
<1> QED BY <1>1, <1>2, <1>3, <1>4, <1>5

LEMMA CompletesEnds ==
  ASSUME OrderInv, Ends, NEW p \in Process,
         \/ Mints(p) \/ ReleaseCreates(p) \/ ReleaseFails(p) \/ ReleaseChecks(p)
         \/ Dies(p) \/ Faults(p)
  PROVE  Ends'
<1>1. tail' = tail
  BY DEF Mints, ReleaseCreates, ReleaseFails, ReleaseChecks, Dies, Faults
<1>2. ASSUME call[p].at # "idle", NEW at \in {"publish", "check"}, Goto(p, [call[p] EXCEPT !.at = at])
      PROVE  Ends'
  <2>1. at \in Away
    BY DEF Away
  <2>2. [call[p] EXCEPT !.at = at].at = at
    BY <1>2, <2>1, GoesAway
  <2> QED BY <1>1, <1>2, <2>1, <2>2, AwayEnds
<1>3. CASE Returns(p)
  BY <1>1, <1>3, ReturnEnds
<1>4. CASE Mints(p) \/ ReleaseCreates(p)
  BY <1>2, <1>3, <1>4 DEF Mints, ReleaseCreates, Suspends, Settles
<1> QED BY <1>3, <1>4 DEF ReleaseFails, ReleaseChecks, Dies, Faults, Suspends, Publishes, Settles

LEMMA InitEnds == Init => Ends
<1> SUFFICES ASSUME Init PROVE Ends
  OBVIOUS
<1>1. \A a \in Own : tail[a] = <<>>
  BY DEF Init
<1> QED BY <1>1 DEF Ends

LEMMA NextEnds == OrderInv /\ Ends /\ [Next]_vars => Ends'
<1> SUFFICES ASSUME OrderInv, Ends, [Next]_vars PROVE Ends'
  OBVIOUS
<1>1. CASE UNCHANGED vars
  BY <1>1 DEF vars, Ends, After, Committed
<1>2. ASSUME NEW p \in Process, Walk(p) PROVE Ends'
  BY <1>2, BeginnersEnds, AcquiresEnds, WalkEnds, StageVerifiesEnds, RecordingEnds,
     CompletesEnds DEF Walk
<1>3. CASE ForeignClaims
  <2>1. tail' = tail /\ call' = call
    BY <1>3 DEF ForeignClaims
  <2> QED BY <2>1 DEF Ends, After, Committed
<1>4. CASE Next
  BY <1>2, <1>3, <1>4, BeginnersEnds, CompletesEnds, RecordingEnds DEF Next
<1> QED BY <1>1, <1>4

\* After an attempt's abandonment is recorded, the processes that drive it
\* together append fewer completions than there are processes, however many
\* resumed it and however often.
THEOREM AbandonmentEndsWork == Spec => []AbandonmentEndsTheWalk
<1>1. OrderInv /\ Ends => AbandonmentEndsTheWalk
  <2> SUFFICES ASSUME OrderInv, Ends, NEW a \in Own, NEW i \in DOMAIN tail[a],
                      tail[a][i] = AbandonmentRecord
               PROVE  Cardinality(After(tail[a], i)) < Cardinality(Process)
    BY DEF AbandonmentEndsTheWalk, After
  <2>1. Cardinality(After(tail[a], i)) \in Nat /\ Cardinality(Committed(a)) \in Nat
    BY AfterFinite, CommittedFinite DEF OrderInv
  <2>2. Cardinality(After(tail[a], i)) + Cardinality(Committed(a)) < Cardinality(Process)
    BY DEF Ends
  <2> QED BY <2>1, <2>2, ProcessAssumption, FS_CardinalityType
<1> QED BY <1>1, OrderAlways, InitEnds, NextEnds, PTL DEF Spec

================================================================================
