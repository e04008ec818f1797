---------------------------- MODULE TagDoorProofs ----------------------------
(***************************************************************************)
(* What gives a release its authority: the claim port, the tag door over   *)
(* it, and the attempt register, for every number of lines, processes,     *)
(* attempts, versions, claims, commits, calls, rounds and faults.          *)
(*                                                                         *)
(* The port's inductive invariant adds to the checked invariants that      *)
(* every token in the store was issued (so the next one is fresh) and that *)
(* a token names the same claim in the held set and in the records.        *)
(*                                                                         *)
(* Two things carry the door's argument.  A tag ref, once created, is      *)
(* never moved, so what a settling door reads there stands for good.  And  *)
(* a stable claim never leaves the held set, so the claim the walk found   *)
(* is still its caller's when the tag is created and answered, although    *)
(* claims land and leave between the door's commands.                      *)
(***************************************************************************)
EXTENDS TagDoor, OrdinalRegister, TLAPS

TokensIssued ==
  /\ \A c \in claims : c.token < nextToken
  /\ \A r \in supersessions : r.superseded.token < nextToken /\ r.supersededBy.token < nextToken

TokensAgree ==
  \A c \in claims, r \in supersessions : c.token = r.superseded.token => c = r.superseded

StoreTypeOK ==
  /\ claims \subseteq Claim
  /\ supersessions \subseteq Supersession
  /\ nextToken \in Nat \ {0}

StoreInv ==
  /\ StoreTypeOK
  /\ TokensIssued
  /\ TokensAgree
  /\ OneHolder
  /\ LineExclusion
  /\ TakeoversAreReal
  /\ PassedLeaseIsFenced

IInv == StoreInv /\ TypeOK

-----------------------------------------------------------------------------
(* The two ways the store changes: a claim lands, or claims leave.         *)

\* A landing keeps the store's types.
LEMMA LandTypes ==
  ASSUME StoreTypeOK, NEW scope \in Scope, NEW attempt \in Attempt, Land(scope, attempt)
  PROVE  StoreTypeOK' /\ NextClaim(scope, attempt) \in Claim
<1>1. NextClaim(scope, attempt) \in Claim
  BY DEF StoreTypeOK, NextClaim, Claim, Token
<1>2. claims' \subseteq Claim
  BY <1>1 DEF StoreTypeOK, Land
<1>3. SupersededLeases(scope, attempt, claims) \subseteq claims
  BY DEF SupersededLeases
<1>4. supersessions' \subseteq Supersession
  BY <1>1, <1>3 DEF StoreTypeOK, Land, MergeSupersessions, Supersession
<1>5. nextToken' \in Nat \ {0}
  BY DEF StoreTypeOK, Land
<1> QED BY <1>1, <1>2, <1>4, <1>5 DEF StoreTypeOK

\* A landing draws a fresh token: claims and records name tokens already
\* issued, and a token still names one claim.
LEMMA LandTokens ==
  ASSUME StoreInv, NEW scope \in Scope, NEW attempt \in Attempt, Land(scope, attempt)
  PROVE  TokensIssued' /\ TokensAgree' /\ OneHolder'
<1> DEFINE taker == NextClaim(scope, attempt)
<1> DEFINE passed == SupersededLeases(scope, attempt, claims)
<1>0. /\ taker \in Claim /\ taker.token = nextToken /\ taker.scope = scope /\ nextToken \in Nat
      /\ claims' = claims \union {taker} /\ nextToken' = nextToken + 1
      /\ passed \subseteq claims
  BY LandTypes DEF NextClaim, Land, StoreInv, StoreTypeOK, SupersededLeases
<1>1. \A c \in claims : c.token \in Nat /\ c.token < nextToken /\ c.scope # scope
  BY DEF StoreInv, TokensIssued, Land, Accepts, StoreTypeOK, Claim, Token
<1>2. \A r \in supersessions : /\ r.superseded.token \in Nat /\ r.superseded.token < nextToken
                               /\ r.supersededBy.token \in Nat /\ r.supersededBy.token < nextToken
  BY DEF StoreInv, TokensIssued, StoreTypeOK, Supersession, Claim, Token
<1>3. \A r \in supersessions' :
        \/ r \in supersessions
        \/ r.superseded \in passed /\ r.supersededBy = taker
  BY DEF Land, MergeSupersessions
<1>4. TokensIssued'
  <2>1. \A c \in claims' : c.token < nextToken'
    BY <1>0, <1>1
  <2>2. \A r \in supersessions' : r.superseded.token < nextToken' /\ r.supersededBy.token < nextToken'
    BY <1>0, <1>1, <1>2, <1>3
  <2> QED BY <2>1, <2>2 DEF TokensIssued
<1>5. OneHolder'
  BY <1>0, <1>1 DEF OneHolder, StoreInv
<1>6. TokensAgree'
  <2> SUFFICES ASSUME NEW c \in claims', NEW r \in supersessions', c.token = r.superseded.token
               PROVE  c = r.superseded
    BY DEF TokensAgree
  <2>1. CASE r \in supersessions
    BY <2>1, <1>0, <1>1, <1>2 DEF StoreInv, TokensAgree
  <2>2. CASE r.superseded \in passed
    BY <2>2, <1>0, <1>5 DEF OneHolder
  <2> QED BY <2>1, <2>2, <1>3
<1> QED BY <1>4, <1>5, <1>6

\* A landing keeps release-line claims alone on their line, because the accept
\* looks at exclusion in both directions.
LEMMA LandExclusion ==
  ASSUME StoreInv, NEW scope \in Scope, NEW attempt \in Attempt, Land(scope, attempt)
  PROVE  LineExclusion'
<1>1. claims' = claims \union {NextClaim(scope, attempt)} /\ NextClaim(scope, attempt).scope = scope
  BY DEF Land, NextClaim
<1>2. \A c \in claims : ~ExcludedBy(scope, c.scope) /\ ~ExcludedBy(c.scope, scope)
  BY DEF Land, Accepts, ExcludedBy
<1> QED BY <1>1, <1>2 DEF StoreInv, LineExclusion

\* A landing records only takeovers that happen, one record per lease.
LEMMA LandTakeovers ==
  ASSUME StoreInv, NEW scope \in Scope, NEW attempt \in Attempt, Land(scope, attempt)
  PROVE  TakeoversAreReal'
<1> DEFINE taker == NextClaim(scope, attempt)
<1> DEFINE passed == SupersededLeases(scope, attempt, claims)
<1>0. /\ taker.token = nextToken /\ taker.scope = scope /\ taker.holder = attempt
      /\ passed \subseteq claims
  BY DEF NextClaim, SupersededLeases
<1>1. supersessions' = {r \in supersessions : \A lease \in passed : lease.scope # r.superseded.scope}
                         \union {[superseded |-> lease, supersededBy |-> taker] : lease \in passed}
  BY DEF Land, MergeSupersessions
<1> SUFFICES ASSUME NEW r \in supersessions'
             PROVE  /\ r.superseded \in SupersededLeases(r.supersededBy.scope,
                                          r.supersededBy.holder, {r.superseded})
                    /\ r.superseded.token < r.supersededBy.token
                    /\ \A q \in supersessions' : q.superseded.scope = r.superseded.scope => q = r
  BY DEF TakeoversAreReal
<1>2. CASE r \in supersessions /\ \A lease \in passed : lease.scope # r.superseded.scope
  BY <1>1, <1>2 DEF StoreInv, TakeoversAreReal
<1>3. ASSUME NEW lease \in passed, r = [superseded |-> lease, supersededBy |-> taker]
      PROVE  /\ r.superseded \in SupersededLeases(r.supersededBy.scope,
                                          r.supersededBy.holder, {r.superseded})
             /\ r.superseded.token < r.supersededBy.token
             /\ \A q \in supersessions' : q.superseded.scope = r.superseded.scope => q = r
  <2>1. r.superseded \in SupersededLeases(r.supersededBy.scope, r.supersededBy.holder, {r.superseded})
    BY <1>0, <1>3 DEF SupersededLeases
  <2>2. r.superseded.token < r.supersededBy.token
    BY <1>0, <1>3 DEF StoreInv, TokensIssued
  <2>3. ASSUME NEW q \in supersessions', q.superseded.scope = r.superseded.scope
        PROVE  q = r
    <3>1. PICK other \in passed : q = [superseded |-> other, supersededBy |-> taker]
      BY <1>1, <1>3, <2>3
    <3>2. other = lease
      BY <3>1, <1>0, <1>3, <2>3 DEF StoreInv, OneHolder
    <3> QED BY <3>1, <3>2, <1>3
  <2> QED BY <2>1, <2>2, <2>3
<1> QED BY <1>1, <1>2, <1>3

\* A landing fences every lease it passes and keeps the earlier fences.
LEMMA LandFences ==
  ASSUME StoreInv, NEW scope \in Scope, NEW attempt \in Attempt, Land(scope, attempt)
  PROVE  PassedLeaseIsFenced'
<1> DEFINE taker == NextClaim(scope, attempt)
<1> DEFINE passed == SupersededLeases(scope, attempt, claims)
<1>0. /\ taker.token = nextToken /\ taker.scope = scope /\ taker.holder = attempt
      /\ claims' = claims \union {taker} /\ nextToken \in Nat
      /\ passed \subseteq claims
  BY DEF NextClaim, SupersededLeases, Land, StoreInv, StoreTypeOK
<1>1. supersessions' = {r \in supersessions : \A lease \in passed : lease.scope # r.superseded.scope}
                         \union {[superseded |-> lease, supersededBy |-> taker] : lease \in passed}
  BY DEF Land, MergeSupersessions
<1>2. \A c \in claims : c.token \in Nat /\ c.token < nextToken
  BY DEF StoreInv, StoreTypeOK, TokensIssued, Claim, Token
<1> SUFFICES ASSUME NEW lower \in claims', NEW higher \in claims',
                    lower \in SupersededLeases(higher.scope, higher.holder, claims'),
                    lower.token < higher.token
             PROVE  \E r \in supersessions' :
                      r.superseded = lower /\ r.supersededBy.token >= higher.token
  BY DEF PassedLeaseIsFenced
<1>3. lower \in claims /\ higher.token <= nextToken
  BY <1>0, <1>2
<1>4. CASE lower \in passed
  <2>1. [superseded |-> lower, supersededBy |-> taker] \in supersessions'
    BY <1>1, <1>4
  <2> QED BY <2>1, <1>0, <1>2, <1>3
<1>5. CASE lower \notin passed
  <2>1. higher \in claims
    BY <1>0, <1>3, <1>5 DEF SupersededLeases
  <2>2. lower \in SupersededLeases(higher.scope, higher.holder, claims)
    BY <1>3 DEF SupersededLeases
  <2>3. PICK r \in supersessions : r.superseded = lower /\ r.supersededBy.token >= higher.token
    BY <1>3, <2>1, <2>2 DEF StoreInv, PassedLeaseIsFenced
  <2>4. \A lease \in passed : lease.scope # r.superseded.scope
    BY <2>3, <1>0, <1>3, <1>5 DEF StoreInv, OneHolder
  <2> QED BY <1>1, <2>3, <2>4
<1> QED BY <1>4, <1>5

\* A landing keeps the whole invariant of the store.
LEMMA LandStore ==
  ASSUME StoreInv, NEW scope \in Scope, NEW attempt \in Attempt, Land(scope, attempt)
  PROVE  StoreInv'
BY LandTypes, LandTokens, LandExclusion, LandTakeovers, LandFences DEF StoreInv

\* Claims leaving the held set disturb nothing: every conjunct is about the
\* claims that stand, the records, or both.
LEMMA ShrinkStore ==
  ASSUME StoreInv, claims' \subseteq claims, UNCHANGED <<supersessions, nextToken>>
  PROVE  StoreInv'
<1>1. StoreTypeOK' /\ TokensIssued' /\ TokensAgree' /\ OneHolder' /\ LineExclusion'
  BY DEF StoreInv, StoreTypeOK, TokensIssued, TokensAgree, OneHolder, LineExclusion
<1>2. TakeoversAreReal'
  BY DEF StoreInv, TakeoversAreReal
<1>3. PassedLeaseIsFenced'
  <2> SUFFICES ASSUME NEW lower \in claims', NEW higher \in claims',
                      lower \in SupersededLeases(higher.scope, higher.holder, claims'),
                      lower.token < higher.token
               PROVE  \E r \in supersessions' :
                        r.superseded = lower /\ r.supersededBy.token >= higher.token
    BY DEF PassedLeaseIsFenced
  <2>1. lower \in SupersededLeases(higher.scope, higher.holder, claims)
    BY DEF SupersededLeases
  <2> QED BY <2>1 DEF StoreInv, PassedLeaseIsFenced
<1> QED BY <1>1, <1>2, <1>3 DEF StoreInv

-----------------------------------------------------------------------------
(* Types of the answers.                                                   *)

\* Every refusal is a typed answer.
LEMMA RefusalTypes ==
  ASSUME StoreTypeOK, NEW scope \in Scope, NEW attempt \in Attempt,
         NEW refusal \in Refusals(scope, attempt, claims, supersessions)
  PROVE  refusal \in Answer
<1>1. CASE {c \in claims : c.scope = scope} # {}
  <2>1. PICK winner \in claims : refusal \in Adjudicate(winner, attempt, supersessions)
    BY <1>1 DEF Refusals
  <2>2. winner \in Claim
    BY DEF StoreTypeOK
  <2>3. CASE winner.holder # attempt
    <3>1. winner.scope.kind = "prerelease-sequence" => winner.scope.sequence \in Sequence
      BY <2>2 DEF Claim, Scope, StableScope, PrereleaseScope, LineScope
    <3> QED BY <2>1, <2>2, <2>3, <3>1 DEF Adjudicate, Denied, Answer, Claim
  <2>4. CASE winner.holder = attempt
    BY <2>1, <2>2, <2>4 DEF Adjudicate, Denied, Answer, Claim, StoreTypeOK, Supersession
  <2> QED BY <2>3, <2>4
<1>2. CASE {c \in claims : c.scope = scope} = {}
  BY <1>2 DEF Refusals, Denied, Answer, StoreTypeOK, Claim
<1> QED BY <1>1, <1>2

\* Every verdict of verify is a typed answer.
LEMMA VerdictTypes ==
  ASSUME StoreTypeOK, NEW token, NEW verdict \in Verdicts(token, claims, supersessions)
  PROVE  verdict \in Answer /\ verdict.kind \in {"held", "superseded", "lost"}
BY DEF Verdicts, Answer, StoreTypeOK, Supersession

-----------------------------------------------------------------------------
(* The invariant.                                                          *)

\* The empty store satisfies the invariant.
LEMMA InitIInv == Init => IInv
BY SMTT(30) DEF Init, IInv, StoreInv, StoreTypeOK, TypeOK, TokensIssued, TokensAgree, OneHolder,
       LineExclusion, TakeoversAreReal, PassedLeaseIsFenced, NoReply

\* Every step of the port keeps the invariant.
LEMMA NextIInv == IInv /\ [Next]_vars => IInv'
<1> SUFFICES ASSUME IInv, [Next]_vars PROVE IInv'
  OBVIOUS
<1> USE DEF IInv
<1>0. StoreTypeOK
  BY DEF StoreInv
<1>1. ASSUME NEW p \in Process, NEW scope \in Scope, NEW attempt \in Attempt,
             Grant(p, scope, attempt)
      PROVE  IInv'
  <2>1. StoreInv' /\ NextClaim(scope, attempt) \in Claim
    BY <1>0, <1>1, LandStore, LandTypes DEF Grant
  <2>2. [kind |-> "claim", claim |-> NextClaim(scope, attempt)] \in Answer
    BY <2>1 DEF Answer
  <2>3. reply' \in Reply
    BY <1>1, <2>2 DEF Grant, Answers, Reply
  <2> QED BY <2>1, <2>3 DEF TypeOK, StoreInv, StoreTypeOK
<1>2. ASSUME NEW scope \in Scope, NEW attempt \in Attempt, GrantUnreported(scope, attempt)
      PROVE  IInv'
  <2>1. StoreInv'
    BY <1>2, LandStore DEF GrantUnreported
  <2> QED BY <2>1, <1>2 DEF GrantUnreported, TypeOK, StoreInv, StoreTypeOK
<1>3. ASSUME NEW p \in Process, NEW scope \in Scope, NEW attempt \in Attempt,
             Refuse(p, scope, attempt)
      PROVE  IInv'
  <2>1. StoreInv'
    BY <1>3, ShrinkStore DEF Refuse
  <2>2. reply' \in Reply
    BY <1>0, <1>3, RefusalTypes DEF Refuse, Answers, Reply
  <2> QED BY <2>1, <2>2 DEF TypeOK, StoreInv, StoreTypeOK
<1>4. ASSUME NEW p \in Process, NEW token \in 1 .. nextToken - 1, Verify(p, token)
      PROVE  IInv'
  <2>1. StoreInv'
    BY <1>4, ShrinkStore DEF Verify
  <2>2. reply' \in Reply
    BY <1>0, <1>4, VerdictTypes DEF Verify, Answers, Reply
  <2> QED BY <2>1, <2>2 DEF TypeOK, StoreInv, StoreTypeOK
<1>5. ASSUME NEW p \in Process, NEW token \in 1 .. nextToken - 1, Release(p, token)
      PROVE  IInv'
  <2>1. StoreInv'
    BY <1>5, ShrinkStore DEF Release, Released
  <2>2. reply' \in Reply
    BY <1>5 DEF Release, Answers, Reply, Answer
  <2> QED BY <2>1, <2>2 DEF TypeOK, StoreInv, StoreTypeOK
<1>6. ASSUME NEW token \in 1 .. nextToken - 1, ReleaseUnreported(token)
      PROVE  IInv'
  <2>1. StoreInv'
    BY <1>6, ShrinkStore DEF ReleaseUnreported, Released
  <2> QED BY <2>1, <1>6 DEF ReleaseUnreported, TypeOK, StoreInv, StoreTypeOK
<1>7. CASE UNCHANGED vars
  <2>1. StoreInv'
    BY <1>7, ShrinkStore DEF vars
  <2> QED BY <2>1, <1>7 DEF vars, TypeOK, StoreInv, StoreTypeOK
<1> QED BY <1>1, <1>2, <1>3, <1>4, <1>5, <1>6, <1>7 DEF Next

\* Every reachable state of the claim port satisfies the inductive invariant.
THEOREM Inductive == Spec => []IInv
BY InitIInv, NextIInv, PTL DEF Spec

\* The held set, the records and the answers have their types.
THEOREM TypeCorrect == Spec => []TypeOK
<1>1. IInv => TypeOK BY DEF IInv
<1> QED BY <1>1, Inductive, PTL

\* Two standing claims never share a scope or a token, and a standing
\* release-line claim stands alone on its line.
THEOREM MutualExclusion == Spec => [](OneHolder /\ LineExclusion)
<1>1. IInv => OneHolder /\ LineExclusion BY DEF IInv, StoreInv
<1> QED BY <1>1, Inductive, PTL

\* Every standing lease that was passed is fenced by a record naming a taker
\* at least as late.
THEOREM TakeoverFence == Spec => []PassedLeaseIsFenced
<1>1. IInv => PassedLeaseIsFenced BY DEF IInv, StoreInv
<1> QED BY <1>1, Inductive, PTL

\* Every takeover on record happened, so a fence never shuts out a lease
\* nobody passed.
THEOREM TakeoversHappened == Spec => []TakeoversAreReal
<1>1. IInv => TakeoversAreReal BY DEF IInv, StoreInv
<1> QED BY <1>1, Inductive, PTL

\* No step takes a stable-version claim out of the held set.
THEOREM StableAllocation == Spec => StableClaimsStand
<1> DEFINE AllStand == \A c \in claims : c.scope.kind = "stable-version" => c \in claims'
<1>1. [Next]_vars => [AllStand]_vars
  BY DEF Next, Grant, GrantUnreported, Land, Refuse, Verify, Release, ReleaseUnreported, Released
<1>2. Spec => [][AllStand]_vars
  BY <1>1, PTL DEF Spec
<1> QED BY <1>2 DEF StableClaimsStand

-----------------------------------------------------------------------------
(* NoRevival.                                                              *)

\* verify answers held exactly for a standing claim no record names.
LEMMA HeldVerdict ==
  ASSUME NEW token, NEW held, NEW records
  PROVE  (\E verdict \in Verdicts(token, held, records) : verdict.kind = "held")
           <=> /\ \A r \in records : r.superseded.token # token
               /\ \E c \in held : c.token = token
<1> DEFINE passed == {r \in records : r.superseded.token = token}
<1> DEFINE standing == {c \in held : c.token = token}
<1>1. CASE passed # {}
  <2>1. Verdicts(token, held, records) =
          {[kind |-> "superseded", claim |-> r.supersededBy] : r \in passed}
    BY <1>1 DEF Verdicts
  <2>2. \A verdict \in Verdicts(token, held, records) : verdict.kind = "superseded"
    BY <2>1
  <2> QED BY <1>1, <2>2
<1>2. CASE passed = {} /\ standing # {}
  <2>1. Verdicts(token, held, records) = {[kind |-> "held", claim |-> c] : c \in standing}
    BY <1>2 DEF Verdicts
  <2>2. PICK c \in standing : TRUE
    BY <1>2
  <2>3. [kind |-> "held", claim |-> c] \in Verdicts(token, held, records)
    BY <2>1, <2>2
  <2> QED BY <1>2, <2>2, <2>3
<1>3. CASE passed = {} /\ standing = {}
  <2>1. Verdicts(token, held, records) = {[kind |-> "lost"]}
    BY <1>3 DEF Verdicts
  <2> QED BY <1>3, <2>1
<1> QED BY <1>1, <1>2, <1>3

\* The same, for a token that verifies held.
LEMMA HeldTokenMeaning ==
  ASSUME NEW token
  PROVE  HeldToken(token) <=> /\ \A r \in supersessions : r.superseded.token # token
                              /\ \E c \in claims : c.token = token
BY HeldVerdict DEF HeldToken

\* The same, in the state after the step.
LEMMA HeldTokenMeaningNext ==
  ASSUME NEW token
  PROVE  HeldToken(token)' <=> /\ \A r \in supersessions' : r.superseded.token # token
                               /\ \E c \in claims' : c.token = token
BY HeldVerdict DEF HeldToken

\* A landing revives no token: its claim has a token never issued before.
LEMMA LandNoRevival ==
  ASSUME StoreInv, NEW scope \in Scope, NEW attempt \in Attempt, Land(scope, attempt),
         NEW token \in 1 .. nextToken - 1, HeldToken(token)'
  PROVE  HeldToken(token)
<1> DEFINE taker == NextClaim(scope, attempt)
<1> DEFINE passed == SupersededLeases(scope, attempt, claims)
<1>1. PICK c \in claims' : c.token = token
  BY HeldTokenMeaningNext
<1>2. c \in claims
  BY <1>1 DEF Land, NextClaim, StoreInv, StoreTypeOK
<1>3. \A r \in supersessions' : r.superseded.token # token
  BY HeldTokenMeaningNext
<1>4. ASSUME NEW r \in supersessions, r.superseded.token = token
      PROVE  FALSE
  <2>1. r.superseded = c
    BY <1>1, <1>2, <1>4 DEF StoreInv, TokensAgree
  <2>2. r \notin supersessions'
    BY <1>3, <1>4
  <2>3. PICK lease \in passed : lease.scope = r.superseded.scope
    BY <2>2 DEF Land, MergeSupersessions
  <2>4. lease = c
    BY <2>1, <2>3, <1>2 DEF SupersededLeases, StoreInv, OneHolder
  <2>5. [superseded |-> c, supersededBy |-> taker] \in supersessions'
    BY <2>3, <2>4 DEF Land, MergeSupersessions
  <2> QED BY <2>5, <1>1, <1>3
<1> QED BY <1>1, <1>2, <1>4, HeldTokenMeaning

\* Claims that leave revive no token.
LEMMA ShrinkNoRevival ==
  ASSUME claims' \subseteq claims, UNCHANGED supersessions, NEW token, HeldToken(token)'
  PROVE  HeldToken(token)
BY HeldTokenMeaning, HeldTokenMeaningNext

\* A token whose claim was lost or passed never verifies held again.
THEOREM NoTokenRevives == Spec => NoRevival
<1> DEFINE NoneRevives ==
      \A token \in 1 .. nextToken - 1 : ~HeldToken(token) => ~HeldToken(token)'
<1>1. IInv /\ [Next]_vars => [NoneRevives]_vars
  <2> SUFFICES ASSUME IInv, Next, NEW token \in 1 .. nextToken - 1, HeldToken(token)'
               PROVE  HeldToken(token)
    BY DEF vars
  <2>1. ASSUME NEW scope \in Scope, NEW attempt \in Attempt, Land(scope, attempt)
        PROVE  HeldToken(token)
    BY <2>1, LandNoRevival DEF IInv
  <2>2. CASE claims' \subseteq claims /\ UNCHANGED supersessions
    BY <2>2, ShrinkNoRevival
  <2>3. \/ \E scope \in Scope, attempt \in Attempt : Land(scope, attempt)
        \/ claims' \subseteq claims /\ UNCHANGED supersessions
    BY DEF Next, Grant, GrantUnreported, Refuse, Verify, Release, ReleaseUnreported, Released
  <2> QED BY <2>1, <2>2, <2>3
<1>2. Spec => [][NoneRevives]_vars
  BY <1>1, Inductive, PTL DEF Spec
<1> QED BY <1>2 DEF NoRevival

-----------------------------------------------------------------------------
(* The tag door.                                                           *)

\* The stable claim `attempt` had when the door walked still stands.
StandsFor(attempt, tag) ==
  tag.kind = "stable-version" => \E c \in claims : c.scope = tag /\ c.holder = attempt

\* A door in flight was admitted by a claim; a stable one is still there.
DoorsStandOnClaims ==
  \A p \in Process : door[p] # Outside => StandsFor(door[p].attempt, door[p].tag)

DoorInv == IInv /\ DoorTypeOK /\ MintedTagsStand /\ DoorsStandOnClaims /\ OneMinterPerVersion

InFlight == [op : {"read", "create", "settle"}, attempt : Attempt, tag : Tag, target : Commit]

-----------------------------------------------------------------------------
\* No step of the claim port takes a stable claim out of the held set.
LEMMA StableClaimStays ==
  ASSUME [Next]_vars, NEW attempt, NEW tag, StandsFor(attempt, tag)
  PROVE  StandsFor(attempt, tag)'
<1> SUFFICES ASSUME tag.kind = "stable-version"
             PROVE  \E c \in claims' : c.scope = tag /\ c.holder = attempt
  BY DEF StandsFor
<1>1. PICK c \in claims : c.scope = tag /\ c.holder = attempt
  BY DEF StandsFor
<1>2. c \in claims'
  BY <1>1 DEF Next, vars, Grant, GrantUnreported, Land, Refuse, Verify, Release,
              ReleaseUnreported, Released
<1> QED BY <1>1, <1>2

\* The empty door satisfies the invariant.
LEMMA InitDoorInv == InitDoor => DoorInv
<1> SUFFICES ASSUME InitDoor PROVE DoorInv
  OBVIOUS
<1>1. IInv
  BY InitIInv DEF InitDoor
<1>2. DoorTypeOK
  BY <1>1 DEF InitDoor, DoorTypeOK, Outside, IInv
<1> QED BY <1>1, <1>2 DEF InitDoor, DoorInv, MintedTagsStand, DoorsStandOnClaims,
                          OneMinterPerVersion

\* A step of the claim port leaves the door alone, and its claims standing.
LEMMA PortDoorInv ==
  ASSUME DoorInv, [Next]_vars, UNCHANGED doorVars
  PROVE  DoorInv'
<1>1. IInv'
  BY NextIInv DEF DoorInv
<1>2. DoorTypeOK' /\ MintedTagsStand'
  BY <1>1 DEF DoorInv, IInv, DoorTypeOK, MintedTagsStand, doorVars
<1>3. DoorsStandOnClaims'
  <2> SUFFICES ASSUME NEW p \in Process, door[p] # Outside
               PROVE  StandsFor(door[p].attempt, door[p].tag)'
    BY DEF DoorsStandOnClaims, doorVars, StandsFor
  <2> QED BY StableClaimStays DEF DoorInv, DoorsStandOnClaims, StandsFor, doorVars
<1>4. OneMinterPerVersion'
  <2> SUFFICES ASSUME NEW m \in minted PROVE StandsFor(m.attempt, m.tag)'
    BY DEF OneMinterPerVersion, StandsFor, doorVars
  <2> QED BY StableClaimStays DEF DoorInv, OneMinterPerVersion, StandsFor
<1> QED BY <1>1, <1>2, <1>3, <1>4 DEF DoorInv

\* A step of the door itself: the walk admits on a claim, a tag ref is
\* created once, and only the read of the mint's own target is a mint.
LEMMA MintDoorInv ==
  ASSUME DoorInv, UNCHANGED vars, NEW p \in Process,
         \/ \E attempt \in Attempt, tag \in Tag, token \in 1 .. nextToken - 1, target \in Commit :
               MintWalks(p, attempt, tag, token, target)
         \/ MintReads(p) \/ MintCreates(p) \/ MintSettles(p) \/ MintCrashes(p)
  PROVE  DoorInv'
<1> USE DEF DoorInv
<1>0. IInv' /\ TypeOK' /\ claims' = claims
  BY NextIInv DEF vars, IInv
<1>1. door \in [Process -> {Outside} \union InFlight]
  BY DEF DoorTypeOK, InFlight
<1>2. ASSUME NEW attempt \in Attempt, NEW tag \in Tag, NEW token \in 1 .. nextToken - 1,
             NEW target \in Commit, MintWalks(p, attempt, tag, token, target)
      PROVE  DoorInv'
  <2> DEFINE asked == [op |-> "read", attempt |-> attempt, tag |-> tag, target |-> target]
  <2>1. /\ door' = [door EXCEPT ![p] = asked] /\ asked \in InFlight
        /\ asked.op # "settle" /\ UNCHANGED <<tags, minted>>
    BY <1>2 DEF MintWalks, InFlight
  <2>2. DoorTypeOK'
    BY <2>1, <1>0, <1>1 DEF DoorTypeOK, InFlight
  <2>3. \E c \in claims : c.scope = tag /\ c.holder = attempt
    BY <1>2 DEF MintWalks, MayMint, Unpassed
  <2>4. DoorsStandOnClaims'
    BY <2>1, <2>3, <1>0, <1>1 DEF DoorsStandOnClaims, StandsFor
  <2> QED BY <2>1, <2>2, <2>4, <1>0 DEF MintedTagsStand, OneMinterPerVersion
<1>3. ASSUME MintReads(p) PROVE DoorInv'
  <2>1. door[p] \in InFlight
    BY <1>1, <1>3 DEF MintReads, Outside
  <2>2. PICK op \in {"create", "settle"} :
          /\ door' = [door EXCEPT ![p] = [door[p] EXCEPT !.op = op]]
          /\ op = "settle" => tags[door[p].tag] # NoCommit
          /\ UNCHANGED <<tags, minted>>
    BY <1>3 DEF MintReads
  <2>3. [door[p] EXCEPT !.op = op] \in InFlight
    BY <2>1 DEF InFlight
  <2>4. DoorTypeOK'
    BY <2>1, <2>2, <2>3, <1>0, <1>1 DEF DoorTypeOK, InFlight
  <2>5. DoorsStandOnClaims'
    BY <2>1, <2>2, <1>0, <1>1 DEF DoorsStandOnClaims, StandsFor, InFlight, Outside
  <2> QED BY <2>2, <2>4, <2>5, <1>0 DEF MintedTagsStand, OneMinterPerVersion
<1>4. ASSUME MintCreates(p) PROVE DoorInv'
  <2>1. door[p] \in InFlight
    BY <1>1, <1>4 DEF MintCreates, Outside
  <2>2. /\ door' = [door EXCEPT ![p] = [door[p] EXCEPT !.op = "settle"]]
        /\ tags' = [tags EXCEPT ![door[p].tag] =
                      IF tags[door[p].tag] = NoCommit THEN door[p].target ELSE tags[door[p].tag]]
        /\ minted' = minted
    BY <1>4 DEF MintCreates
  <2>3. [door[p] EXCEPT !.op = "settle"] \in InFlight
    BY <2>1 DEF InFlight
  <2>4. /\ tags' \in [Tag -> Commit \union {NoCommit}]
        /\ tags'[door[p].tag] # NoCommit
        /\ \A t \in Tag : tags[t] # NoCommit => tags'[t] = tags[t]
    BY <2>1, <2>2, NoCommitAssumption DEF DoorTypeOK, InFlight
  <2>5. DoorTypeOK'
    BY <2>1, <2>2, <2>3, <2>4, <1>0, <1>1 DEF DoorTypeOK, InFlight
  <2>6. MintedTagsStand'
    BY <2>2, <2>4, NoCommitAssumption DEF MintedTagsStand, DoorTypeOK
  <2>7. DoorsStandOnClaims'
    BY <2>1, <2>2, <1>0, <1>1 DEF DoorsStandOnClaims, StandsFor, InFlight, Outside
  <2> QED BY <2>2, <2>5, <2>6, <2>7, <1>0 DEF OneMinterPerVersion
<1>5. ASSUME MintSettles(p) PROVE DoorInv'
  <2>1. door[p] \in InFlight /\ door[p] # Outside
    BY <1>1, <1>5 DEF MintSettles, Outside
  <2> DEFINE answer == [tag |-> door[p].tag, attempt |-> door[p].attempt, target |-> door[p].target]
  <2>2. /\ door' = [door EXCEPT ![p] = Outside] /\ tags' = tags
        /\ \A m \in minted' : m \in minted \/ (m = answer /\ tags[door[p].tag] = door[p].target)
    BY <1>5 DEF MintSettles
  <2>3. DoorTypeOK'
    BY <2>1, <2>2, <1>0, <1>1 DEF DoorTypeOK, InFlight, Outside
  <2>4. MintedTagsStand' /\ OneMinterPerVersion'
    BY <2>1, <2>2, <1>0 DEF MintedTagsStand, OneMinterPerVersion, DoorsStandOnClaims, StandsFor
  <2>5. DoorsStandOnClaims'
    BY <2>2, <1>0, <1>1 DEF DoorsStandOnClaims, StandsFor
  <2> QED BY <2>3, <2>4, <2>5, <1>0
<1>6. ASSUME MintCrashes(p) PROVE DoorInv'
  <2>1. door' = [door EXCEPT ![p] = Outside] /\ UNCHANGED <<tags, minted>>
    BY <1>6 DEF MintCrashes
  <2>2. DoorTypeOK'
    BY <2>1, <1>0, <1>1 DEF DoorTypeOK, InFlight, Outside
  <2>3. DoorsStandOnClaims'
    BY <2>1, <1>0, <1>1 DEF DoorsStandOnClaims, StandsFor
  <2> QED BY <2>1, <2>2, <2>3, <1>0 DEF MintedTagsStand, OneMinterPerVersion
<1> QED BY <1>2, <1>3, <1>4, <1>5, <1>6

-----------------------------------------------------------------------------
\* Every step of the door beside the claim port keeps the invariant.
THEOREM DoorInductive == SpecDoor => []DoorInv
<1>1. DoorInv /\ [NextDoor]_<<vars, doorVars>> => DoorInv'
  <2> SUFFICES ASSUME DoorInv, [NextDoor]_<<vars, doorVars>> PROVE DoorInv'
    OBVIOUS
  <2>1. CASE [Next]_vars /\ UNCHANGED doorVars
    BY <2>1, PortDoorInv
  <2>2. CASE ~([Next]_vars /\ UNCHANGED doorVars)
    BY <2>2, MintDoorInv DEF NextDoor
  <2> QED BY <2>1, <2>2
<1> QED BY <1>1, InitDoorInv, PTL DEF SpecDoor

\* Every `minted` answer stays true: no process, however it interleaves with
\* the door's commands, moves the tag from the target the answer named.
THEOREM MintedForGood == SpecDoor => []MintedTagsStand
<1>1. DoorInv => MintedTagsStand BY DEF DoorInv
<1> QED BY <1>1, DoorInductive, PTL

\* A minted stable version belongs to the attempt that still holds its
\* claim, and so (OneHolder) to one attempt.
THEOREM SingleMinter ==
  SpecDoor => [](OneMinterPerVersion
                 /\ \A m, n \in minted : m.tag = n.tag /\ m.tag.kind = "stable-version"
                                           => m.attempt = n.attempt)
<1>1. DoorInv => OneMinterPerVersion BY DEF DoorInv
<1>2. DoorInv => \A m, n \in minted : m.tag = n.tag /\ m.tag.kind = "stable-version"
                                        => m.attempt = n.attempt
  BY DEF DoorInv, IInv, StoreInv, OneMinterPerVersion, OneHolder
<1> QED BY <1>1, <1>2, DoorInductive, PTL

-----------------------------------------------------------------------------
(* The attempt register: a landing compares the base it read, so it issues *)
(* the successor of a counter no other landing has moved since.            *)

Running(p) == call[p].op \in {"read", "land"}

\* What each round has seen: the counter moved once for every lost round,
\* and a base is never ahead of the ref.
RoundsSeen ==
  \A p \in Caller :
    /\ Running(p) => /\ call[p].lost < MaxRounds
                     /\ call[p].start + call[p].lost <= counter
    /\ call[p].op = "land" => /\ call[p].start + call[p].lost <= call[p].base
                              /\ call[p].base <= counter

\* The inductive invariant: uniqueness follows because a landing issues the
\* successor of a counter that bounds every ordinal issued so far.
OrdinalInv ==
  /\ OrdinalsTypeOK
  /\ RoundsSeen
  /\ OrdinalsUnique
  /\ OrdinalsFollowTime
  /\ ExhaustionIsContention

\* The initial state satisfies the invariant: nothing runs, nothing is issued.
LEMMA OrdinalInit == InitOrdinals => OrdinalInv
BY MaxRoundsAssumption DEF InitOrdinals, OrdinalInv, OrdinalsTypeOK,
       RoundsSeen, Running, OrdinalsUnique, OrdinalsFollowTime, ExhaustionIsContention, Idle,
       Call, Issue

\* A landing keeps the invariant whether or not it is reported.
LEMMA AllocationKeepsBounds ==
  ASSUME OrdinalInv, NEW p \in Caller, Allocates(p)
  PROVE  /\ counter' = counter + 1
         /\ counter' \in Nat
         /\ call[p].start + call[p].lost < counter'
         /\ call[p].start < counter'
         /\ \A i \in issued : i.ordinal < counter' /\ i.ordinal # counter'
<1>1. /\ call[p].base = counter /\ counter' = counter + 1
      /\ call[p].start + call[p].lost <= counter
  BY DEF Allocates, OrdinalInv, RoundsSeen, Running
<1>2. /\ counter \in Nat /\ call[p].start \in Nat /\ call[p].lost \in Nat
      /\ \A i \in issued : i.ordinal \in Nat
  BY MaxRoundsAssumption DEF OrdinalInv, OrdinalsTypeOK, Call, Issue
<1>3. \A i \in issued : i.ordinal <= counter
  BY DEF OrdinalInv, OrdinalsFollowTime
<1> QED BY <1>1, <1>2, <1>3

\* Every step keeps the invariant.
LEMMA OrdinalNext == OrdinalInv /\ [NextOrdinals]_ordinalVars => OrdinalInv'
<1> SUFFICES ASSUME OrdinalInv, [NextOrdinals]_ordinalVars PROVE OrdinalInv'
  OBVIOUS
<1> USE MaxRoundsAssumption
<1>0. CASE UNCHANGED ordinalVars
  BY <1>0 DEF ordinalVars, OrdinalInv, OrdinalsTypeOK, RoundsSeen, Running, OrdinalsUnique,
              OrdinalsFollowTime, ExhaustionIsContention
<1> SUFFICES ASSUME NEW p \in Caller,
                    \/ Calls(p) \/ Reads(p) \/ Lands(p)
                    \/ Loses(p) \/ LandsUnreported(p) \/ Crash(p)
             PROVE  OrdinalInv'
  BY <1>0 DEF NextOrdinals
<1>1. CASE Calls(p) \/ Reads(p) \/ Crash(p)
  <2>1. OrdinalsTypeOK'
    BY <1>1 DEF OrdinalInv, OrdinalsTypeOK, Calls, Reads, Crash, Call, Idle
  <2>2. counter' = counter /\ issued' = issued
    BY <1>1 DEF Calls, Reads, Crash
  <2>3. RoundsSeen' /\ ExhaustionIsContention'
    BY <1>1 DEF OrdinalInv, OrdinalsTypeOK, Call, RoundsSeen, ExhaustionIsContention,
                Running, Calls, Reads, Crash, Idle
  <2> QED BY <2>1, <2>2, <2>3 DEF OrdinalInv, OrdinalsUnique, OrdinalsFollowTime
<1>2. CASE Lands(p)
  <2>1. Allocates(p) BY <1>2 DEF Lands
  <2>2. /\ counter' = counter + 1 /\ counter' \in Nat /\ call[p].start < counter'
        /\ \A i \in issued : i.ordinal < counter' /\ i.ordinal # counter'
    BY <2>1, AllocationKeepsBounds
  <2> DEFINE issue == [by |-> p, call |-> calls[p], ordinal |-> counter',
                       start |-> call[p].start]
  <2>3. /\ issue \in Issue /\ issue.ordinal = counter' /\ issue.start = call[p].start
        /\ issued' = issued \union {issue}
    BY <1>2, <2>2 DEF Lands, Allocates, OrdinalInv, OrdinalsTypeOK, Issue, Call
  <2> HIDE DEF issue
  <2>4. OrdinalsTypeOK'
    <3>1. call' \in [Caller -> Call]
      BY <1>2 DEF OrdinalInv, OrdinalsTypeOK, Lands, Call, Idle
    <3>2. issued' \subseteq Issue
      BY <2>3 DEF OrdinalInv, OrdinalsTypeOK
    <3> QED BY <1>2, <2>2, <3>1, <3>2 DEF OrdinalInv, OrdinalsTypeOK, Lands
  <2>5. OrdinalsUnique'
    BY <2>2, <2>3 DEF OrdinalInv, OrdinalsUnique
  <2>6. OrdinalsFollowTime'
    <3>1. \A i \in issued : i.start < i.ordinal
      BY DEF OrdinalInv, OrdinalsFollowTime
    <3>2. \A i \in issued : i.ordinal <= counter'
      BY <2>2 DEF OrdinalInv, OrdinalsTypeOK, Issue
    <3> QED BY <2>2, <2>3, <3>1, <3>2 DEF OrdinalsFollowTime
  <2>7. RoundsSeen' /\ ExhaustionIsContention'
    BY <1>2, <2>2 DEF OrdinalInv, OrdinalsTypeOK, Call, RoundsSeen,
                      ExhaustionIsContention, Running, Lands, Idle
  <2> QED BY <2>4, <2>5, <2>6, <2>7 DEF OrdinalInv
<1>3. CASE Loses(p)
  <2>1. OrdinalsTypeOK'
    BY <1>3 DEF OrdinalInv, OrdinalsTypeOK, RoundsSeen, Running, Loses, NextRound, Call
  <2>2. counter' = counter /\ issued' = issued
    BY <1>3 DEF Loses
  <2>3. RoundsSeen' /\ ExhaustionIsContention'
    BY <1>3 DEF OrdinalInv, OrdinalsTypeOK, Call, RoundsSeen, ExhaustionIsContention,
                Running, Loses, NextRound
  <2> QED BY <2>1, <2>2, <2>3 DEF OrdinalInv, OrdinalsUnique, OrdinalsFollowTime
<1>4. CASE LandsUnreported(p)
  <2>1. Allocates(p) BY <1>4 DEF LandsUnreported
  <2>2. /\ counter' = counter + 1 /\ counter' \in Nat
        /\ \A i \in issued : i.ordinal < counter'
    BY <2>1, AllocationKeepsBounds
  <2>3. OrdinalsTypeOK'
    BY <1>4, <2>2 DEF OrdinalInv, OrdinalsTypeOK, RoundsSeen, Running, LandsUnreported,
                      Allocates, NextRound, Call
  <2>4. issued' = issued
    BY <1>4 DEF LandsUnreported
  <2>5. RoundsSeen' /\ ExhaustionIsContention'
    BY <1>4, <2>1, <2>2 DEF OrdinalInv, OrdinalsTypeOK, Call, RoundsSeen,
                            ExhaustionIsContention, Running,
                            LandsUnreported, Allocates, NextRound
  <2>6. OrdinalsFollowTime'
    <3>1. \A i \in issued : i.ordinal <= counter'
      BY <2>2 DEF OrdinalInv, OrdinalsTypeOK, Issue
    <3> QED BY <2>4, <3>1 DEF OrdinalInv, OrdinalsFollowTime
  <2> QED BY <2>3, <2>4, <2>5, <2>6 DEF OrdinalInv, OrdinalsUnique
<1> QED BY <1>1, <1>2, <1>3, <1>4

\* The invariant holds in every reachable state.
THEOREM OrdinalsInductive == SpecOrdinals => []OrdinalInv
BY OrdinalInit, OrdinalNext, PTL DEF SpecOrdinals

\* Type correctness of the register and its calls.
THEOREM OrdinalsTypeCorrect == SpecOrdinals => []OrdinalsTypeOK
<1>1. OrdinalInv => OrdinalsTypeOK BY DEF OrdinalInv
<1> QED BY <1>1, OrdinalsInductive, PTL

\* nextOrdinal never hands one ordinal to two calls, whatever races, lost
\* reports and crashes.
THEOREM AttemptsAreDistinct == SpecOrdinals => []OrdinalsUnique
<1>1. OrdinalInv => OrdinalsUnique BY DEF OrdinalInv
<1> QED BY <1>1, OrdinalsInductive, PTL

\* Ordinals follow the order of the calls that do not overlap: a later
\* attempt never carries a lower number.
THEOREM AttemptsAreOrdered == SpecOrdinals => []OrdinalsFollowTime
<1>1. OrdinalInv => OrdinalsFollowTime BY DEF OrdinalInv
<1> QED BY <1>1, OrdinalsInductive, PTL

\* A call gives up only after the ref moved under each of its rounds.
THEOREM FailsClosedUnderContention == SpecOrdinals => []ExhaustionIsContention
<1>1. OrdinalInv => ExhaustionIsContention BY DEF OrdinalInv
<1> QED BY <1>1, OrdinalsInductive, PTL

=============================================================================
