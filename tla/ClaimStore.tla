----------------------------- MODULE ClaimStore -----------------------------
(***************************************************************************)
(* The claim port: what ClaimStore.acquire, verify and release promise to  *)
(* the processes that call them.  Every call takes effect and is answered  *)
(* at one instant; a caller that dies leaves no trace here.  The in-memory *)
(* store (src/execution/claim-store-memory.ts) is this module; the git     *)
(* store, whose calls span several git commands, is the module             *)
(* GitClaimStore, shown to implement this one.                             *)
(*                                                                         *)
(* Abstractions: a `target` and a `streamId` always travel together, so    *)
(* the pair is one element of Stream; a token is the number of its claim   *)
(* in the order the claims landed.                                         *)
(***************************************************************************)
EXTENDS Integers

CONSTANTS
  Line,      \* release line ids
  Version,   \* stable versions a stable-version scope names
  Stream,    \* (target, streamId) pairs of the prerelease scopes
  Sequence,  \* prerelease sequence numbers callers ask for
  Attempt,   \* attempt ids, the holders of claims
  Process,   \* the runner processes that call the port
  MaxClaims  \* bound: no claim lands once this many have

ASSUME SequenceAssumption == Sequence \subseteq Nat
ASSUME MaxClaimsAssumption == MaxClaims \in Nat

VARIABLES
  claims,         \* the held set
  supersessions,  \* the recorded takeovers
  nextToken,      \* the token of the next claim to land
  reply           \* the last answer the port gave, and to whom

vars == <<claims, supersessions, nextToken, reply>>

-----------------------------------------------------------------------------
(* Scopes, claims and the messages of the port.                            *)

StableScope == [kind : {"stable-version"}, line : Line, version : Version]
PrereleaseScope ==
  [kind : {"prerelease-sequence"}, line : Line, stream : Stream, sequence : Sequence]
LineScope == [kind : {"release-line"}, line : Line]
Scope == StableScope \union PrereleaseScope \union LineScope

Token == Nat \ {0}
Claim == [scope : Scope, token : Token, holder : Attempt]
Supersession == [superseded : Claim, supersededBy : Claim]

NoSequence == -1   \* a denial without `holderSequence`

Answer ==
       [kind : {"claim"}, claim : Claim]
  \union [kind : {"denied"}, holder : Attempt, sequence : Sequence \union {NoSequence},
          refusal : {"none", "superseded"}]
  \union [kind : {"held", "superseded"}, claim : Claim]
  \union [kind : {"lost", "released"}]

Reply == [to : Process, answer : Answer]
NoReply == [answer |-> [kind |-> "none"]]

-----------------------------------------------------------------------------
(* Adjudication: pure functions of a claim set and a supersession set, so  *)
(* that the git store can apply them to a register it has read.            *)

\* A release-line claim excludes every other claim on its line, both ways.
ExcludedBy(requested, held) ==
  /\ "release-line" \in {requested.kind, held.kind}
  /\ requested.line = held.line

\* The held leases an acquisition of `scope` by `attempt` passes: another
\* holder's strictly smaller sequence of the same stream on the same line.
SupersededLeases(scope, attempt, held) ==
  {c \in held : /\ scope.kind = "prerelease-sequence"
                /\ c.holder # attempt
                /\ c.scope.kind = "prerelease-sequence"
                /\ c.scope.line = scope.line
                /\ c.scope.stream = scope.stream
                /\ c.scope.sequence < scope.sequence}

\* Mutant: the requested release-line is not checked against narrower claims.
MutantAccepts(scope, held) ==
  \A c \in held :
    /\ c.scope # scope
    /\ ~(c.scope.kind = "release-line" /\ c.scope.line = scope.line)

\* Mutant: the scope's own record is not looked at.
MutantAcceptsHeld(scope, held) == \A c \in held : ~ExcludedBy(scope, c.scope)

\* The accept: nobody holds the scope and nothing excludes it.
Accepts(scope, held) ==
  \A c \in held : c.scope # scope /\ ~ExcludedBy(scope, c.scope)

\* Mutant: a lease that is passed again keeps the record of its first taker.
MutantMergeSupersessions(records, passed, taker) ==
  records \union
    {[superseded |-> lease, supersededBy |-> taker] :
       lease \in {l \in passed : \A r \in records : r.superseded.scope # l.scope}}

\* Mutant: the record of an earlier takeover of the lease stays.
MutantMergeAccumulates(records, passed, taker) ==
  records \union {[superseded |-> lease, supersededBy |-> taker] : lease \in passed}

\* The records after `taker` landed past `passed`: a lease passed again
\* re-lands its one record naming the latest taker.
MergeSupersessions(records, passed, taker) ==
  {r \in records : \A lease \in passed : lease.scope # r.superseded.scope}
    \union {[superseded |-> lease, supersededBy |-> taker] : lease \in passed}

Denied(holder, sequence, refusal) ==
  [kind |-> "denied", holder |-> holder, sequence |-> sequence, refusal |-> refusal]

\* The answers to a request for a scope that is already held by `winner`:
\* the same holder gets its claim back unless a record names the scope as
\* passed, another holder is denied with the winner's sequence as retry base.
Adjudicate(winner, attempt, records) ==
  LET passed == {r \in records : r.superseded.scope = winner.scope} IN
  IF winner.holder # attempt
  THEN {Denied(winner.holder,
               IF winner.scope.kind = "prerelease-sequence" THEN winner.scope.sequence
                                                            ELSE NoSequence,
               "none")}
  ELSE IF passed = {}
  THEN {[kind |-> "claim", claim |-> winner]}
  ELSE {Denied(r.supersededBy.holder, NoSequence, "superseded") : r \in passed}

\* Every answer an acquisition that lands nothing may give.
Refusals(scope, attempt, held, records) ==
  LET same == {c \in held : c.scope = scope} IN
  IF same # {}
  THEN UNION {Adjudicate(winner, attempt, records) : winner \in same}
  ELSE {Denied(c.holder, NoSequence, "none") : c \in {d \in held : ExcludedBy(scope, d.scope)}}

\* verify: the supersession records speak before the held set, by token.
Verdicts(token, held, records) ==
  LET passed == {r \in records : r.superseded.token = token}
      standing == {c \in held : c.token = token}
  IN IF passed # {}
     THEN {[kind |-> "superseded", claim |-> r.supersededBy] : r \in passed}
     ELSE IF standing # {}
     THEN {[kind |-> "held", claim |-> c] : c \in standing}
     ELSE {[kind |-> "lost"]}

\* Mutant: every claim is a lease.
MutantReleased(token, held) == {c \in held : c.token # token}

\* release: a stable-version claim is a record and stays; a lease leaves.
Released(token, held) ==
  {c \in held : c.token # token \/ c.scope.kind = "stable-version"}

-----------------------------------------------------------------------------
Init ==
  /\ claims = {}
  /\ supersessions = {}
  /\ nextToken = 1
  /\ reply = NoReply

Answers(p, answer) == reply' = [to |-> p, answer |-> answer]

NextClaim(scope, attempt) == [scope |-> scope, token |-> nextToken, holder |-> attempt]

\* One atomic accept: the claim and every supersession it performs.
Land(scope, attempt) ==
  /\ nextToken <= MaxClaims
  /\ Accepts(scope, claims)
  /\ claims' = claims \union {NextClaim(scope, attempt)}
  /\ supersessions' = MergeSupersessions(supersessions,
                                         SupersededLeases(scope, attempt, claims),
                                         NextClaim(scope, attempt))
  /\ nextToken' = nextToken + 1

Grant(p, scope, attempt) ==
  /\ Land(scope, attempt)
  /\ Answers(p, [kind |-> "claim", claim |-> NextClaim(scope, attempt)])

\* The substrate applied the accept but reported a failure: the claim has
\* landed, and the caller is still asking.
GrantUnreported(scope, attempt) ==
  /\ Land(scope, attempt)
  /\ UNCHANGED reply

Refuse(p, scope, attempt) ==
  /\ \E refusal \in Refusals(scope, attempt, claims, supersessions) : Answers(p, refusal)
  /\ UNCHANGED <<claims, supersessions, nextToken>>

Verify(p, token) ==
  /\ \E verdict \in Verdicts(token, claims, supersessions) : Answers(p, verdict)
  /\ UNCHANGED <<claims, supersessions, nextToken>>

\* Mutant: releasing the taker's claim also drops the takeovers it performed.
MutantRelease(p, token) ==
  /\ claims' = Released(token, claims)
  /\ supersessions' = {r \in supersessions : r.supersededBy.token # token}
  /\ Answers(p, [kind |-> "released"])
  /\ UNCHANGED nextToken

\* The recorded takeovers outlive the lease: only the held set changes.
Release(p, token) ==
  /\ claims' = Released(token, claims)
  /\ Answers(p, [kind |-> "released"])
  /\ UNCHANGED <<supersessions, nextToken>>

\* As GrantUnreported, for a release whose landing was not reported.
ReleaseUnreported(token) ==
  /\ claims' = Released(token, claims)
  /\ UNCHANGED <<supersessions, nextToken, reply>>

\* The port checks no caller: any token ever handed out may be presented,
\* one whose claim has left the store included.
Next ==
  \/ \E p \in Process, scope \in Scope, attempt \in Attempt :
       Grant(p, scope, attempt) \/ Refuse(p, scope, attempt)
  \/ \E scope \in Scope, attempt \in Attempt : GrantUnreported(scope, attempt)
  \/ \E p \in Process, token \in 1 .. nextToken - 1 : Verify(p, token) \/ Release(p, token)
  \/ \E token \in 1 .. nextToken - 1 : ReleaseUnreported(token)

Spec == Init /\ [][Next]_vars

-----------------------------------------------------------------------------
(* Properties.                                                             *)

TypeOK ==
  /\ claims \subseteq Claim
  /\ supersessions \subseteq Supersession
  /\ nextToken \in Nat \ {0}
  /\ reply \in Reply \union {NoReply}

\* The store is a map from scopes to claims, and a token names one claim.
OneHolder ==
  \A c, d \in claims : c.scope = d.scope \/ c.token = d.token => c = d

\* `release-line` excludes every other claim on its line while held
\* (ClaimStore, types.ts): a standing release-line claim stands alone.
LineExclusion ==
  \A c, d \in claims : c # d => ~ExcludedBy(c.scope, d.scope)

\* The takeover fence: a lease that still stands and was passed by a claim
\* that landed after it has a record, and the record names the latest taker
\* (or one later still that has been released since).  Without it the passed
\* holder's token would verify held and its prerelease could be tagged.
PassedLeaseIsFenced ==
  \A lower, higher \in claims :
    lower \in SupersededLeases(higher.scope, higher.holder, claims) /\ lower.token < higher.token
      => \E r \in supersessions :
           r.superseded = lower /\ r.supersededBy.token >= higher.token

\* At most one record per superseded scope, and each names a takeover that
\* really passed the lease: another holder, a larger sequence, landed later.
TakeoversAreReal ==
  \A r \in supersessions :
    /\ r.superseded \in SupersededLeases(r.supersededBy.scope, r.supersededBy.holder, {r.superseded})
    /\ r.superseded.token < r.supersededBy.token
    /\ \A q \in supersessions : q.superseded.scope = r.superseded.scope => q = r

\* A stable version is allocated once and for all: its claim is a record, so
\* no release, whoever calls it with whatever token, frees the version for a
\* second attempt.
StableClaimsStand ==
  [][\A c \in claims : c.scope.kind = "stable-version" => c \in claims']_vars

HeldToken(token) ==
  \E verdict \in Verdicts(token, claims, supersessions) : verdict.kind = "held"

\* A token that verified lost or superseded never verifies held again, so a
\* loser that was told so cannot be re-armed by a later release or takeover.
NoRevival ==
  [][\A token \in 1 .. nextToken - 1 : ~HeldToken(token) => ~HeldToken(token)']_vars

=============================================================================
