----------------------------- MODULE RemoteProofs -----------------------------
(***************************************************************************)
(* The publication and the synchronisation for every number of publishers, *)
(* refs, calls, edits and faults: what an answer claims was seen in its    *)
(* call.  Between the requests anybody may edit the release or move a ref, *)
(* so a call knows what it saw, never what stands: the invariants say, for *)
(* each place in the call, what has been seen by then.  A repository lost  *)
(* from sight answers 404 too, and stays out of sight, which the probe     *)
(* finds out.                                                              *)
(***************************************************************************)
EXTENDS RemoteReconciliation, FiniteSetTheorems, WellFoundedInduction, TLAPS

Legs == {"none", "publish", "verify", "satisfied", "create", "created", "absent"}
PubType == [pc : {"idle", "read", "tag", "probe", "create", "done"}, leg : Legs,
            answer : {"none", "ok", "verified", "absent", "tag-missing", "ambiguous", "refused",
                      "transport-failure"}]

\* What a publisher knows, by where its call is: an answer is given at the
\* end; past the read, or the create, of the release its body was seen; and a
\* probe asks about what was seen absent, or a repository out of sight.
CallInv(p) ==
    /\ pub[p].answer # "none" => pub[p].pc = "done"
    /\ pub[p].pc \in {"tag", "probe"} /\ pub[p].leg \in {"satisfied", "created", "verify"}
          => seen[p].body
    /\ pub[p].pc = "tag" => pub[p].leg # "absent"
    /\ pub[p].pc = "probe" /\ visible =>
          IF pub[p].leg = "absent" THEN seen[p].gone ELSE seen[p].untagged
    /\ pub[p].answer \in {"ok", "verified"} => seen[p].tagged
    /\ pub[p].answer = "absent" => seen[p].gone
    /\ pub[p].answer = "tag-missing" => seen[p].untagged

PublicationInv ==
    /\ pub \in [Publishers -> PubType]
    /\ \A p \in Publishers : CallInv(p)

-----------------------------------------------------------------------------
\* What a call has seen it goes on having seen, until the call begins anew.
LEMMA SeenStays ==
    ASSUME Sees, NEW p \in Publishers, pub'[p].pc # "read"
    PROVE  /\ seen[p].body => seen'[p].body
           /\ seen[p].tagged => seen'[p].tagged
           /\ seen[p].gone => seen'[p].gone
           /\ seen[p].untagged => seen'[p].untagged
BY DEF Sees, SeenNow

\* What stands after a step of a call is seen in it.
LEMMA StandingIsSeen ==
    ASSUME Sees, NEW p \in Publishers, pub'[p].pc # "idle"
    PROVE  /\ release'.exists /\ release'.body => seen'[p].body
           /\ ~release'.exists => seen'[p].gone
           /\ Untagged' => seen'[p].untagged
           /\ seen'[p].body /\ Tagged' => seen'[p].tagged
BY DEF Sees, SeenNow, Unseen

\* A step that leaves a publisher's call where it is keeps what it knows.
LEMMA OthersStep ==
    ASSUME PublicationInv, Sees, visible' => visible, NEW p \in Publishers, pub'[p] = pub[p]
    PROVE  CallInv(p)'
<1>1. CallInv(p)
    BY DEF PublicationInv
<1>2. CASE pub[p].pc # "read"
    BY <1>1, <1>2, SeenStays DEF CallInv
<1>3. CASE pub[p].pc = "read"
    BY <1>1, <1>3 DEF CallInv
<1> QED BY <1>2, <1>3

\* A call that goes on, and one that ends with an answer.
LEMMA Going ==
    ASSUME PublicationInv, NEW p \in Publishers,
           NEW pc \in {"read", "tag", "probe", "create"}, NEW leg \in Legs, Goes(p, pc, leg)
    PROVE  /\ pub' \in [Publishers -> PubType]
           /\ pub'[p].pc = pc /\ pub'[p].leg = leg /\ pub'[p].answer = "none"
           /\ \A q \in Publishers \ {p} : pub'[q] = pub[q]
BY DEF PublicationInv, Goes, PubType
LEMMA Saying ==
    ASSUME PublicationInv, NEW p \in Publishers,
           NEW answer \in {"ok", "verified", "absent", "tag-missing", "ambiguous", "refused",
                           "transport-failure"}, Says(p, answer)
    PROVE  /\ pub' \in [Publishers -> PubType]
           /\ pub'[p].pc = "done" /\ pub'[p].answer = answer
           /\ \A q \in Publishers \ {p} : pub'[q] = pub[q]
BY DEF PublicationInv, Says, PubType

\* A refusal, a fault and an ambiguity claim nothing.
LEMMA Unclaiming ==
    ASSUME PublicationInv, NEW p \in Publishers,
           NEW answer \in {"ambiguous", "refused", "transport-failure"}, Says(p, answer)
    PROVE  CallInv(p)'
BY Saying DEF CallInv

-----------------------------------------------------------------------------
\* Every step of a publisher keeps what it knows, and no other's call moves.
LEMMA PublisherStep ==
    ASSUME PublicationInv, Sees, NEW p \in Publishers, PublisherSteps(p)
    PROVE  /\ pub' \in [Publishers -> PubType]
           /\ CallInv(p)'
           /\ \A q \in Publishers \ {p} : pub'[q] = pub[q]
           /\ visible' = visible
<1> DEFINE Kept == /\ pub' \in [Publishers -> PubType]
                   /\ CallInv(p)'
                   /\ \A q \in Publishers \ {p} : pub'[q] = pub[q]
<1>0. visible' = visible
    BY DEF PublisherSteps, Publishes, Verifies, Fails, FindsRelease, ReadsRelease, ReadsNoRelease,
           ReadsTag, ReadsNoTag, Probes, Creates, CreateFails, CreateRefused, remoteVars
<1> SUFFICES Kept
    BY <1>0
<1>i. CallInv(p) /\ pub[p] \in PubType
    BY DEF PublicationInv
<1>u. ASSUME NEW answer \in {"ambiguous", "refused", "transport-failure"}, Says(p, answer)
      PROVE  Kept
    BY <1>u, Saying, Unclaiming
<1>1. CASE Publishes(p)
    BY <1>1, Going DEF Publishes, CallInv, Legs
<1>2. CASE Verifies(p)
    BY <1>2, Going DEF Verifies, CallInv, Legs
<1>3. CASE Fails(p)
    BY <1>3, <1>u DEF Fails
<1>4. CASE FindsRelease(p)
    <2>1. CASE release.body /\ Goes(p, "tag", "satisfied")
        BY <1>4, <2>1, Going, StandingIsSeen DEF FindsRelease, CallInv, Legs
    <2> QED BY <1>4, <2>1, <1>u DEF FindsRelease
<1>5. CASE ReadsRelease(p)
    <2>1. CASE release.body /\ Goes(p, "tag", "verify")
        BY <1>5, <2>1, Going, StandingIsSeen DEF ReadsRelease, CallInv, Legs
    <2> QED BY <1>5, <2>1, <1>u DEF ReadsRelease
<1>6. CASE ReadsNoRelease(p)
    <2>1. CASE Goes(p, "tag", "create")
        BY <2>1, Going DEF CallInv, Legs
    <2>2. CASE Goes(p, "probe", "absent")
        BY <1>6, <2>2, <1>0, Going, StandingIsSeen DEF ReadsNoRelease, CallInv, Legs
    <2> QED BY <1>6, <2>1, <2>2 DEF ReadsNoRelease, Unread
<1>7. CASE ReadsTag(p)
    <2>1. UNCHANGED <<release, remote, local>>
        BY <1>7 DEF ReadsTag, remoteVars
    <2>2. CASE Tagged /\ pub[p].leg = "create" /\ Goes(p, "create", "create")
        BY <2>2, Going DEF CallInv, Legs
    <2>3. CASE /\ Tagged /\ pub[p].leg \in {"satisfied", "created", "verify"}
               /\ Says(p, "ok") \/ Says(p, "verified")
        <3>1. seen[p].body /\ Tagged'
            BY <1>i, <1>7, <2>1, <2>3 DEF CallInv, ReadsTag, Tagged
        <3>2. /\ pub' \in [Publishers -> PubType] /\ pub'[p].pc = "done"
              /\ pub'[p].answer \in {"ok", "verified"}
              /\ \A q \in Publishers \ {p} : pub'[q] = pub[q]
            BY <2>3, Saying
        <3>3. seen'[p].tagged
            BY <3>1, <3>2, SeenStays, StandingIsSeen
        <3> QED BY <3>2, <3>3 DEF CallInv
    <2> QED BY <1>7, <2>2, <2>3, <1>u DEF ReadsTag
<1>8. CASE ReadsNoTag(p)
    <2>1. CASE Untagged
        <3>1. Untagged'
            BY <1>8, <2>1 DEF ReadsNoTag, remoteVars, Untagged
        <3>2. Goes(p, "probe", pub[p].leg) /\ pub[p].leg \in Legs /\ pub[p].pc = "tag"
            BY <1>8, <1>i DEF ReadsNoTag, PubType
        <3>3. /\ pub' \in [Publishers -> PubType] /\ pub'[p].pc = "probe"
              /\ pub'[p].leg = pub[p].leg /\ pub'[p].answer = "none"
              /\ \A q \in Publishers \ {p} : pub'[q] = pub[q]
            BY <3>2, Going
        <3>4. seen'[p].untagged /\ (seen[p].body => seen'[p].body)
            BY <3>1, <3>3, StandingIsSeen, SeenStays
        <3>5. pub[p].leg # "absent"
            BY <1>i, <3>2 DEF CallInv
        <3> QED BY <1>i, <3>2, <3>3, <3>4, <3>5 DEF CallInv
    <2>2. CASE ~visible
        <3>2. Goes(p, "probe", pub[p].leg) /\ pub[p].leg \in Legs /\ pub[p].pc = "tag"
            BY <1>8, <1>i DEF ReadsNoTag, PubType
        <3>3. /\ pub' \in [Publishers -> PubType] /\ pub'[p].pc = "probe"
              /\ pub'[p].leg = pub[p].leg /\ pub'[p].answer = "none"
              /\ \A q \in Publishers \ {p} : pub'[q] = pub[q]
            BY <3>2, Going
        <3>4. seen[p].body => seen'[p].body
            BY <3>3, SeenStays
        <3> QED BY <1>0, <1>i, <2>2, <3>2, <3>3, <3>4 DEF CallInv
    <2> QED BY <1>8, <2>1, <2>2 DEF ReadsNoTag
<1>9. CASE Probes(p)
    <2>1. CASE visible /\ pub[p].leg = "absent" /\ Says(p, "absent")
        BY <1>9, <1>i, <2>1, Saying, SeenStays DEF Probes, CallInv
    <2>2. CASE visible /\ pub[p].leg = "create" /\ Goes(p, "create", "create")
        BY <2>2, Going DEF CallInv, Legs
    <2>3. CASE visible /\ pub[p].leg \notin {"absent", "create"} /\ Says(p, "tag-missing")
        BY <1>9, <1>i, <2>3, Saying, SeenStays DEF Probes, CallInv
    <2> QED BY <1>9, <2>1, <2>2, <2>3, <1>u DEF Probes
<1>10. CASE Creates(p)
    BY <1>10, Going, StandingIsSeen DEF Creates, Created, Lands, Release, CallInv, Legs
<1>11. CASE CreateFails(p)
    BY <1>11, <1>u DEF CreateFails
<1>12. CASE CreateRefused(p)
    BY <1>12, <1>u DEF CreateRefused
<1> QED BY <1>1, <1>2, <1>3, <1>4, <1>5, <1>6, <1>7, <1>8, <1>9, <1>10, <1>11, <1>12
        DEF PublisherSteps

\* Every step, of a publisher or of anybody else, keeps the invariant.
LEMMA NextPublicationInv == PublicationInv /\ [Next]_vars => PublicationInv'
<1> SUFFICES ASSUME PublicationInv, [Next]_vars PROVE PublicationInv'
    OBVIOUS
<1>1. CASE UNCHANGED vars
    BY <1>1 DEF vars, PublicationInv, CallInv
<1>2. ASSUME NEW p \in Publishers, PublisherSteps(p), Sees PROVE PublicationInv'
    <2>1. \A q \in Publishers \ {p} : CallInv(q)'
        <3> SUFFICES ASSUME NEW q \in Publishers \ {p} PROVE CallInv(q)'
            OBVIOUS
        <3> QED BY <1>2, PublisherStep, OthersStep
    <2> QED BY <1>2, <2>1, PublisherStep DEF PublicationInv
<1>3. ASSUME UNCHANGED pub, visible' => visible, Sees PROVE PublicationInv'
    <2>1. ASSUME NEW p \in Publishers PROVE CallInv(p)'
        BY <1>3, OthersStep
    <2> QED BY <1>3, <2>1 DEF PublicationInv
<1>4. CASE Next
    <2>1. Sees
        BY <1>4 DEF Next
    <2>2. CASE Syncs /\ UNCHANGED <<pubVars, walk>>
        BY <1>3, <2>1, <2>2 DEF pubVars, Syncs, SyncCalls, SyncThrows, SyncLists, SyncUnlisted,
           SyncEnumerates, SyncCompares, SyncPushes, SyncRejected, SyncPushFails, SyncRelists, remoteVars
    <2>3. CASE Walks /\ UNCHANGED <<sync, pubVars>>
        BY <1>3, <2>1, <2>3 DEF pubVars, Walks, WalkCalls, WalkTurns, WalkEnds, WalkFails, remoteVars
    <2>4. CASE (ClaimsAdvance \/ Hides \/ OthersPush) /\ UNCHANGED <<pubVars, walk>>
        BY <1>3, <2>1, <2>4 DEF pubVars, ClaimsAdvance, Hides, OthersPush
    <2>5. CASE OthersRelease /\ UNCHANGED <<sync, walk>>
        BY <1>3, <2>1, <2>5 DEF OthersRelease
    <2> QED BY <1>2, <1>4, <2>1, <2>2, <2>3, <2>4, <2>5 DEF Next
<1> QED BY <1>1, <1>4

\* No call has begun, and none has answered.
LEMMA InitPublicationInv == Init => PublicationInv
BY DEF Init, InitPublication, PublicationInv, PubType, Legs, CallInv

\* Beside any synchronisation, reconciliation, edit and fault, a publication
\* or a verification that went well was true of the remote in its call.
THEOREM GoodNewsIsTrue == Spec => []OkMeansPublished
<1>1. PublicationInv => OkMeansPublished BY DEF PublicationInv, CallInv, OkMeansPublished
<1> QED BY <1>1, InitPublicationInv, NextPublicationInv, PTL DEF Spec

\* A release reported absent, and a tag reported missing, was absent at some
\* moment of the call that reports it.
THEOREM AbsenceIsTrue == Spec => []AbsenceIsObserved
<1>1. PublicationInv => AbsenceIsObserved BY DEF PublicationInv, CallInv, AbsenceIsObserved
<1> QED BY <1>1, InitPublicationInv, NextPublicationInv, PTL DEF Spec

-----------------------------------------------------------------------------
(* syncRemote.  What it listed stood since the call began, so what it makes *)
(* of a ref is true of some moment of the call; what the binding recorded   *)
(* stands, or has been built upon since.                                    *)

\* The report on a ref says what has stood there.
TrueOf(r) ==
    /\ sync.report[r] \in {"pushed", "skipped"} /\ local[r] = sync.recorded[r] =>
          sync.recorded[r] \in stood[r]
    /\ sync.report[r] = "already-pushed-different-target" =>
          stood[r] \ {NoCommit, sync.recorded[r]} # {}

BuiltUpon(r) == local[r] = sync.recorded[r] \/ <<sync.recorded[r], local[r]>> \in Older

\* The call while it works through its queue.
Working ==
    /\ sync = [pc |-> sync.pc, listing |-> sync.listing, recorded |-> sync.recorded,
               queue |-> sync.queue, report |-> sync.report]
    /\ sync.report = [r \in Refs |-> sync.report[r]]

SyncInv ==
    /\ DOMAIN local = Refs /\ DOMAIN remote = Refs
    /\ local = [r \in Refs |-> local[r]] /\ remote = [r \in Refs |-> remote[r]]
    /\ sync.pc \in {"idle", "list", "enumerate", "refs", "raced", "done"}
    /\ sync.pc \in {"enumerate", "refs", "raced"} => \A r \in Refs : sync.listing[r] \in stood[r]
    /\ sync.pc \in {"refs", "raced"} => Working
    /\ sync.pc \in {"refs", "raced", "done"} => \A r \in Refs : TrueOf(r) /\ BuiltUpon(r)

\* What has stood goes on having stood, and what stands now is added.
LEMMA StoodGrows ==
    ASSUME Witnesses, sync'.pc \notin {"idle", "list"}, NEW r \in Refs
    PROVE  stood'[r] = stood[r] \cup {remote'[r]}
BY DEF Witnesses

\* A ref that was built upon is never again what was recorded.
LEMMA NeverBack ==
    ASSUME NEW c, NEW d, NEW e, c = d \/ <<c, d>> \in Older, <<d, e>> \in Older
    PROVE  c # e /\ <<c, e>> \in Older
<1>1. \A x, y : <<x, y>> \in Older => x # y
    BY OlderAssumption
<1>2. \A x, y, z : <<x, y>> \in Older /\ <<y, z>> \in Older => <<x, z>> \in Older
    BY OlderAssumption
<1> QED BY <1>1, <1>2

\* A step outside the call: the remote and the binding may move.
LEMMA BesideSync ==
    ASSUME SyncInv, Witnesses, sync' = sync,
           local' = [r \in Refs |-> local'[r]], remote' = [r \in Refs |-> remote'[r]],
           \A r \in Refs : local'[r] = local[r] \/ <<local[r], local'[r]>> \in Older
    PROVE  SyncInv'
<1>1. DOMAIN local' = Refs /\ DOMAIN remote' = Refs
    OBVIOUS
<1>2. sync.pc \in {"enumerate", "refs", "raced"} => \A r \in Refs : sync'.listing[r] \in stood'[r]
    BY StoodGrows DEF SyncInv
<1>3. ASSUME NEW r \in Refs, sync.pc \in {"refs", "raced", "done"}
      PROVE  TrueOf(r)' /\ BuiltUpon(r)'
    <2>1. TrueOf(r) /\ BuiltUpon(r) /\ stood[r] \subseteq stood'[r]
        BY <1>3, StoodGrows DEF SyncInv
    <2>2. CASE local'[r] = local[r]
        BY <2>1, <2>2 DEF TrueOf, BuiltUpon
    <2>3. CASE <<local[r], local'[r]>> \in Older
        <3>1. sync.recorded[r] # local'[r] /\ <<sync.recorded[r], local'[r]>> \in Older
            BY <2>1, <2>3, NeverBack DEF BuiltUpon
        <3> QED BY <2>1, <3>1 DEF TrueOf, BuiltUpon
    <2> QED BY <2>2, <2>3
<1> QED BY <1>1, <1>2, <1>3 DEF SyncInv, Working

\* A report that is true of the ref it is about keeps the invariant.
LEMMA Reporting ==
    ASSUME SyncInv, Witnesses, sync.pc \in {"refs", "raced"}, NEW outcome, SyncReports(outcome),
           local' = local, remote' = [r \in Refs |-> remote'[r]],
           \A r \in Refs : r = Head(sync.queue) =>
              /\ outcome \in {"pushed", "skipped"} /\ local[r] = sync.recorded[r] =>
                    sync.recorded[r] \in stood[r] \cup {remote'[r]}
              /\ outcome = "already-pushed-different-target" =>
                    (stood[r] \cup {remote'[r]}) \ {NoCommit, sync.recorded[r]} # {}
    PROVE  SyncInv'
<1> DEFINE report == [sync.report EXCEPT ![Head(sync.queue)] = outcome]
<1>0. Working
    BY DEF SyncInv
<1>1. /\ sync'.pc \in {"refs", "done"} /\ sync'.recorded = sync.recorded /\ sync'.report = report
      /\ sync'.pc = "refs" => Working' /\ sync'.listing = sync.listing
    <2>1. report = [r \in Refs |-> report[r]]
        BY <1>0 DEF Working
    <2>2. CASE Len(sync.queue) > 1
        <3>1. sync' = [pc |-> "refs", listing |-> sync.listing, recorded |-> sync.recorded,
                       queue |-> Tail(sync.queue), report |-> report]
            BY <1>0, <2>2 DEF SyncReports, Working
        <3> QED BY <2>1, <3>1 DEF Working
    <2>3. CASE ~(Len(sync.queue) > 1)
        <3>1. sync' = [pc |-> "done", recorded |-> sync.recorded, report |-> report]
            BY <2>3 DEF SyncReports
        <3> QED BY <3>1
    <2> QED BY <2>2, <2>3
<1>2. ASSUME NEW r \in Refs
      PROVE  stood'[r] = stood[r] \cup {remote'[r]}
    BY <1>1, StoodGrows
<1>3. ASSUME NEW r \in Refs
      PROVE  TrueOf(r)' /\ BuiltUpon(r)'
    <2>1. TrueOf(r) /\ BuiltUpon(r)
        BY DEF SyncInv
    <2>2. CASE r = Head(sync.queue)
        <3>1. sync'.report[r] = outcome
            BY <1>0, <1>1, <2>2 DEF Working
        <3> QED BY <1>1, <1>2, <2>1, <2>2, <3>1 DEF TrueOf, BuiltUpon
    <2>3. CASE r # Head(sync.queue)
        <3>1. sync'.report[r] = sync.report[r]
            BY <1>0, <1>1, <2>3 DEF Working
        <3> QED BY <1>1, <1>2, <2>1, <3>1 DEF TrueOf, BuiltUpon
    <2> QED BY <2>2, <2>3
<1>4. sync'.pc = "refs" => \A r \in Refs : sync'.listing[r] \in stood'[r]
    BY <1>1, <1>2 DEF SyncInv
<1> QED BY <1>1, <1>3, <1>4 DEF SyncInv

\* Every step of the call.
LEMMA SyncStep ==
    ASSUME SyncInv, Witnesses, Syncs
    PROVE  SyncInv'
<1>0. DOMAIN local = Refs /\ local = [r \in Refs |-> local[r]] /\ remote = [r \in Refs |-> remote[r]]
    BY DEF SyncInv
<1>p. ASSUME NEW r \in Refs, PushLands(r)
      PROVE  remote' = [q \in Refs |-> remote'[q]] /\ remote'[r] = local[r]
    BY <1>0, <1>p DEF PushLands
<1>1. CASE SyncCalls
    BY <1>0, <1>1 DEF SyncCalls, remoteVars, SyncInv
<1>10. CASE SyncThrows
    BY <1>0, <1>10 DEF SyncThrows, NoSync, SyncInv
<1>2. CASE SyncLists
    <2>1. sync' = [pc |-> "enumerate", listing |-> remote] /\ remote' = remote /\ local' = local
        BY <1>2 DEF SyncLists, remoteVars
    <2>2. \A r \in Refs : sync'.listing[r] \in stood'[r]
        BY <2>1, StoodGrows
    <2> QED BY <2>1, <2>2 DEF SyncInv
<1>3. CASE SyncUnlisted
    <2>1. PICK outcome \in GitFailures :
              sync' = [pc |-> "done", recorded |-> local,
                       report |-> [r \in Refs |->
                          IF local[r] = NoCommit THEN "unrecorded" ELSE outcome]]
        BY <1>3 DEF SyncUnlisted
    <2>2. local' = local /\ remote' = remote
        BY <1>3 DEF SyncUnlisted
    <2>3. ASSUME NEW r \in Refs PROVE TrueOf(r)' /\ BuiltUpon(r)'
        BY <2>1, <2>2 DEF GitFailures, TrueOf, BuiltUpon
    <2> QED BY <2>1, <2>2, <2>3 DEF SyncInv
<1>4. CASE SyncEnumerates
    <2>1. /\ sync' = [pc |-> "refs", listing |-> sync.listing, recorded |-> local,
                      queue |-> Enumerated(local), report |-> [r \in Refs |-> "unrecorded"]]
          /\ local' = local /\ remote' = remote /\ sync.pc = "enumerate"
        BY <1>4 DEF SyncEnumerates, remoteVars
    <2>2. \A r \in Refs : sync'.listing[r] \in stood'[r]
        BY <2>1, StoodGrows DEF SyncInv
    <2>3. ASSUME NEW r \in Refs PROVE TrueOf(r)' /\ BuiltUpon(r)'
        BY <2>1 DEF TrueOf, BuiltUpon
    <2>4. Working'
        BY <2>1 DEF Working
    <2> QED BY <2>1, <2>2, <2>3, <2>4 DEF SyncInv
<1>5. CASE SyncCompares
    <2> DEFINE r == Head(sync.queue)
    <2>1. /\ sync.pc = "refs" /\ sync.listing[r] # NoCommit /\ local' = local /\ remote' = remote
          /\ SyncReports(Standing(r, sync.listing[r]))
        BY <1>5 DEF SyncCompares, remoteVars
    <2>2. r \in Refs => sync.listing[r] \in stood[r]
        BY <2>1 DEF SyncInv
    <2> QED BY <1>0, <2>1, <2>2, Reporting DEF Standing
<1>6. CASE SyncPushes
    <2>1. PICK r \in Refs : Pushing(r) /\ PushLands(r)
        BY <1>6 DEF SyncPushes
    <2>2. local' = local /\ SyncReports("pushed") /\ sync.pc = "refs"
        BY <1>6 DEF SyncPushes, Pushing
    <2> QED BY <1>p, <2>1, <2>2, Reporting DEF Pushing
<1>7. CASE SyncRejected
    <2>1. sync' = [sync EXCEPT !.pc = "raced"] /\ local' = local /\ remote' = remote
          /\ sync.pc = "refs"
        BY <1>7 DEF SyncRejected, Pushing
    <2>2. sync' = [pc |-> "raced", listing |-> sync.listing, recorded |-> sync.recorded,
                   queue |-> sync.queue, report |-> sync.report] /\ Working
        BY <2>1 DEF SyncInv, Working
    <2>3. ASSUME NEW r \in Refs
          PROVE  TrueOf(r)' /\ BuiltUpon(r)' /\ sync'.listing[r] \in stood'[r]
        <3>1. stood[r] \subseteq stood'[r] /\ TrueOf(r) /\ BuiltUpon(r) /\ sync.listing[r] \in stood[r]
            BY <2>1, <2>2, StoodGrows DEF SyncInv
        <3> QED BY <2>1, <2>2, <3>1 DEF TrueOf, BuiltUpon
    <2>4. Working'
        BY <2>2 DEF Working
    <2> QED BY <1>0, <2>1, <2>2, <2>3, <2>4 DEF SyncInv
<1>8. CASE SyncPushFails
    <2>1. PICK r \in Refs, outcome \in {"ambiguous"} \cup GitFailures :
              Pushing(r) /\ (remote' = remote \/ PushLands(r)) /\ SyncReports(outcome)
        BY <1>8 DEF SyncPushFails
    <2>2. local' = local /\ sync.pc = "refs" /\ remote' = [q \in Refs |-> remote'[q]]
        BY <1>0, <1>8, <1>p, <2>1 DEF SyncPushFails, Pushing
    <2> QED BY <2>1, <2>2, Reporting DEF GitFailures
<1>9. CASE SyncRelists
    <2> DEFINE r == Head(sync.queue)
    <2>1. local' = local /\ remote' = remote /\ sync.pc = "raced"
        BY <1>9 DEF SyncRelists
    <2>2. CASE SyncReports("transport-failure")
        BY <1>0, <2>1, <2>2, Reporting
    <2>3. CASE SyncReports(Raced(r))
        BY <1>0, <2>1, <2>3, Reporting DEF Raced, Standing
    <2> QED BY <1>9, <2>2, <2>3 DEF SyncRelists
<1> QED BY <1>1, <1>2, <1>3, <1>4, <1>5, <1>6, <1>7, <1>8, <1>9, <1>10 DEF Syncs

\* Every step keeps the invariant.
LEMMA NextSyncInv == SyncInv /\ [Next]_vars => SyncInv'
<1> SUFFICES ASSUME SyncInv, [Next]_vars PROVE SyncInv'
    OBVIOUS
<1>0. local = [r \in Refs |-> local[r]] /\ remote = [r \in Refs |-> remote[r]]
    BY DEF SyncInv
<1>1. CASE UNCHANGED vars
    BY <1>1 DEF vars, SyncInv, TrueOf, BuiltUpon, Working
<1>2. ASSUME Witnesses, sync' = sync, local' = local, remote' = [r \in Refs |-> remote'[r]]
      PROVE  SyncInv'
    BY <1>0, <1>2, BesideSync
<1>3. CASE Next
    <2>0. Witnesses
        BY <1>3 DEF Next
    <2>1. CASE Syncs
        BY <2>0, <2>1, SyncStep
    <2>2. ASSUME NEW p \in Publishers, PublisherSteps(p), sync' = sync PROVE SyncInv'
        <3>1. local' = local
            BY <2>2 DEF PublisherSteps, Publishes, Verifies, Fails, FindsRelease, ReadsRelease,
               ReadsNoRelease, ReadsTag, ReadsNoTag, Probes, Creates, CreateFails, CreateRefused,
               remoteVars
        <3>2. remote' = remote \/ Lands
            BY <2>2 DEF PublisherSteps, Publishes, Verifies, Fails, FindsRelease, ReadsRelease,
               ReadsNoRelease, ReadsTag, ReadsNoTag, Probes, Creates, CreateFails, CreateRefused,
               remoteVars
        <3>3. remote' = [r \in Refs |-> remote'[r]]
            BY <1>0, <3>2 DEF Lands
        <3> QED BY <1>2, <2>0, <2>2, <3>1, <3>3
    <2>3. CASE Walks /\ UNCHANGED <<sync, pubVars>>
        BY <1>0, <1>2, <2>0, <2>3 DEF Walks, WalkCalls, WalkTurns, WalkEnds, WalkFails, remoteVars
    <2>4. CASE ClaimsAdvance
        <3>1. PICK tip \in Tips : <<local[Register], tip>> \in Older
                                  /\ local' = [local EXCEPT ![Register] = tip]
            BY <2>4 DEF ClaimsAdvance
        <3>2. sync' = sync /\ remote' = remote
            BY <2>4 DEF ClaimsAdvance, syncVars
        <3>3. /\ local' = [r \in Refs |-> local'[r]]
              /\ \A r \in Refs : local'[r] = local[r] \/ <<local[r], local'[r]>> \in Older
            BY <1>0, <3>1
        <3> QED BY <1>0, <2>0, <3>2, <3>3, BesideSync
    <2>5. CASE Hides
        BY <1>0, <1>2, <2>0, <2>5 DEF Hides, syncVars
    <2>6. CASE OthersPush
        <3>1. PICK r \in Refs : \E c : remote' = [remote EXCEPT ![r] = c]
            BY <2>6 DEF OthersPush
        <3>2. remote' = [q \in Refs |-> remote'[q]]
            BY <1>0, <3>1
        <3> QED BY <1>2, <2>0, <2>6, <3>2 DEF OthersPush, syncVars
    <2>7. CASE OthersRelease /\ UNCHANGED <<sync, walk>>
        BY <1>0, <1>2, <2>0, <2>7 DEF OthersRelease
    <2> QED BY <1>3, <2>1, <2>2, <2>3, <2>4, <2>5, <2>6, <2>7 DEF Next
<1> QED BY <1>1, <1>3

\* Both sides have their refs, and no call is made.
LEMMA InitSyncInv == Init => SyncInv
BY DEF Init, InitRemote, SyncInv, NoSync

\* What a synchronisation reports of a ref stood there during the call,
\* whoever raced its pushes and however they failed.
THEOREM ReportsAreTrue == Spec => []SyncReportsTrue
<1>1. SyncInv => SyncReportsTrue BY DEF SyncInv, TrueOf, SyncReportsTrue
<1> QED BY <1>1, InitSyncInv, NextSyncInv, PTL DEF Spec

-----------------------------------------------------------------------------
(* reconcile.  The walk's rows were on the remote during the call, so what *)
(* it makes of one is true of some moment of the call.  For the whole      *)
(* listing it counts: while nothing is deleted a tag's place only moves up *)
(* the pages, and a page with one after it is full.                        *)

\* The least of a set of numbers, and the greatest of a finite one.
LEMMA Least ==
    ASSUME NEW T, T \subseteq Nat, T # {}
    PROVE  \E x \in T : \A y \in T : x <= y
<1>1. IsWellFoundedOn(OpToRel(<, Nat), Nat)
    BY NatLessThanWellFounded
<1>2. PICK x \in T : \A y \in T : ~ (<<y, x>> \in OpToRel(<, Nat))
    BY <1>1, WFMin
<1>3. \A y \in T : ~ (y < x)
    BY <1>2 DEF OpToRel
<1> QED BY <1>3

LEMMA Greatest ==
    ASSUME NEW T, T \subseteq Nat, T # {}, IsFiniteSet(T)
    PROVE  \E x \in T : \A y \in T : y <= x
<1> DEFINE above(x) == Cardinality({y \in T : x < y})
<1>1. \A x \in T : above(x) \in Nat
    <2> SUFFICES ASSUME NEW x \in T PROVE above(x) \in Nat
        OBVIOUS
    <2>1. IsFiniteSet({y \in T : x < y})
        BY FS_Subset
    <2> QED BY <2>1, FS_CardinalityType
<1>2. {above(x) : x \in T} \subseteq Nat /\ {above(x) : x \in T} # {}
    BY <1>1
<1> HIDE DEF above
<1>3. PICK m \in {above(x) : x \in T} : \A n \in {above(x) : x \in T} : m <= n
    BY <1>2, Least
<1>4. PICK x \in T : m = above(x)
    BY <1>3
<1>5. ASSUME NEW y \in T, ~(y <= x) PROVE FALSE
    <2>1. x \in Nat /\ y \in Nat /\ x < y
        BY <1>5
    <2>2. {z \in T : y < z} \subseteq {z \in T : x < z} \ {y} /\ y \in {z \in T : x < z}
        <3>1. \A z \in T : y < z => x < z /\ z # y
            BY <2>1
        <3> QED BY <1>5, <2>1, <3>1
    <2>3. IsFiniteSet({z \in T : x < z})
        BY FS_Subset
    <2>4. /\ IsFiniteSet({z \in T : x < z} \ {y})
          /\ Cardinality({z \in T : x < z} \ {y}) = Cardinality({z \in T : x < z}) - 1
        BY <2>2, <2>3, FS_RemoveElement
    <2>5. Cardinality({z \in T : y < z}) <= Cardinality({z \in T : x < z} \ {y})
        BY <2>2, <2>4, FS_Subset
    <2>6. above(y) <= above(x) - 1
        BY <2>4, <2>5 DEF above
    <2>7. above(x) <= above(y)
        BY <1>3, <1>4
    <2> QED BY <1>1, <2>6, <2>7
<1> QED BY <1>5

\* The tags present are finitely many numbers, and a tag's place is one of
\* the listing's.
LEMMA PlaceType ==
    /\ IsFiniteSet(Present) /\ Present \subseteq Nat /\ Cardinality(Present) \in Nat
    /\ \A t \in Nat : Place(t) \in 0 .. Cardinality(Present)
    /\ \A t \in Present : Place(t) \in 1 .. Cardinality(Present)
<1>1. IsFiniteSet(Present) /\ Present \subseteq Nat
    BY PagesAssumption, FS_Subset DEF Present
<1>2. Cardinality(Present) \in Nat
    BY <1>1, FS_CardinalityType
<1>3. ASSUME NEW t \in Nat
      PROVE  /\ IsFiniteSet({u \in Present : u <= t})
             /\ Place(t) \in 0 .. Cardinality(Present)
    <2>1. /\ IsFiniteSet({u \in Present : u <= t})
          /\ Cardinality({u \in Present : u <= t}) <= Cardinality(Present)
        BY <1>1, FS_Subset
    <2>2. Place(t) \in Nat
        BY <2>1, FS_CardinalityType DEF Place
    <2> QED BY <1>2, <2>1, <2>2 DEF Place
<1>4. ASSUME NEW t \in Present PROVE Place(t) # 0
    <2>1. t \in {u \in Present : u <= t} /\ IsFiniteSet({u \in Present : u <= t})
        BY <1>1, <1>3
    <2> QED BY <2>1, FS_EmptySet DEF Place
<1>5. \A t \in Present : Place(t) \in 1 .. Cardinality(Present)
    <2> SUFFICES ASSUME NEW t \in Present PROVE Place(t) \in 1 .. Cardinality(Present)
        OBVIOUS
    <2>1. Place(t) \in 0 .. Cardinality(Present) /\ Place(t) # 0
        BY <1>1, <1>3, <1>4
    <2> QED BY <1>2, <2>1
<1> QED BY <1>1, <1>2, <1>3, <1>5

\* Every place of the listing has its tag.
LEMMA EveryPlace ==
    ASSUME NEW k \in 1 .. Cardinality(Present)
    PROVE  \E t \in Present : Place(t) = k
<1>0. IsFiniteSet(Present) /\ Present \subseteq Nat /\ Cardinality(Present) \in Nat
    BY PlaceType
<1> DEFINE late == {t \in Present : Place(t) >= k}
<1>1. late # {}
    <2>1. Present # {}
        BY <1>0, FS_EmptySet
    <2>2. PICK last \in Present : \A u \in Present : u <= last
        BY <1>0, <2>1, Greatest
    <2>3. {u \in Present : u <= last} = Present
        BY <2>2
    <2>4. Place(last) = Cardinality(Present)
        BY <2>3 DEF Place
    <2> QED BY <1>0, <2>4
<1>2. PICK t \in late : \A u \in late : t <= u
    BY <1>0, <1>1, Least
<1> DEFINE before == {u \in Present : u < t}
<1>3. IsFiniteSet(before) /\ Cardinality(before) = Place(t) - 1
    <2>1. before = {u \in Present : u <= t} \ {t} /\ t \in {u \in Present : u <= t}
        <3>1. t \in Present /\ \A u \in Present : (u < t <=> u <= t /\ u # t) /\ t <= t
            BY <1>0
        <3> QED BY <3>1
    <2>2. IsFiniteSet({u \in Present : u <= t})
        BY <1>0, FS_Subset
    <2> QED BY <2>1, <2>2, FS_RemoveElement DEF Place
<1>4. ASSUME Place(t) > k PROVE FALSE
    <2>1. before # {} /\ before \subseteq Nat
        <3>1. Place(t) - 1 > 0
            <4>1. Place(t) \in 0 .. Cardinality(Present) /\ k \in Nat /\ k >= 1
                <5>1. t \in Nat
                    BY <1>0
                <5> QED BY <1>0, <5>1, PlaceType
            <4> QED BY <1>0, <1>4, <4>1
        <3>2. Cardinality({}) = 0
            BY FS_EmptySet
        <3>3. before # {}
            BY <1>3, <3>1, <3>2
        <3> QED BY <1>0, <3>3
    <2>2. PICK last \in before : \A u \in before : u <= last
        BY <1>3, <2>1, Greatest
    <2>3. {u \in Present : u <= last} = before
        <3>1. last \in Present /\ last < t
            BY <2>2
        <3>2. \A u \in Present : u <= last => u < t
            BY <1>0, <3>1
        <3> QED BY <2>2, <3>2
    <2>4. Place(last) = Place(t) - 1
        BY <1>3, <2>3 DEF Place
    <2>5. last \in late /\ last < t
        BY <1>0, <1>4, <2>4, PlaceType
    <2> QED BY <1>0, <1>2, <2>5
<1> QED BY <1>0, <1>2, <1>4, PlaceType

\* A page is finite.
LEMMA PageIsFinite ==
    ASSUME NEW from
    PROVE  IsFiniteSet(Page(from))
<1> DEFINE tags == {u \in Present : Place(u) \in from + 1 .. from + PerPage}
<1>1. IsFiniteSet(tags)
    BY PlaceType, FS_Subset
<1> DEFINE row == [t \in tags |-> [tag |-> t, at |-> remote[t]]]
<1>2. row \in Surjection(tags, Page(from))
    BY DEF Page, Surjection
<1> QED BY <1>1, <1>2, FS_Surjection

\* A page that another one follows is full.
LEMMA PagesAreFull ==
    ASSUME NEW from \in Nat, HasNext(from)
    PROVE  Cardinality(Page(from)) >= PerPage
<1> DEFINE places == from + 1 .. from + PerPage
<1> DEFINE f == [row \in Page(from) |-> Place(row.tag)]
<1>0. PerPage \in Nat \ {0} /\ from + PerPage < Cardinality(Present) /\ Cardinality(Present) \in Nat
    BY PagesAssumption, PlaceType DEF HasNext
<1>1. \A row \in Page(from) : Place(row.tag) \in places
    BY DEF Page
<1>2. ASSUME NEW k \in places PROVE \E row \in Page(from) : Place(row.tag) = k
    <2>1. k \in 1 .. Cardinality(Present)
        BY <1>0
    <2>2. PICK t \in Present : Place(t) = k
        BY <2>1, EveryPlace
    <2>3. [tag |-> t, at |-> remote[t]] \in Page(from)
        BY <2>2 DEF Page
    <2> QED BY <2>2, <2>3
<1>3. f \in Surjection(Page(from), places)
    BY <1>1, <1>2 DEF Surjection
<1>4. IsFiniteSet(Page(from))
    BY PageIsFinite
<1>5. Cardinality(places) <= Cardinality(Page(from))
    BY <1>3, <1>4, FS_Surjection
<1>6. Cardinality(places) = PerPage
    BY <1>0, FS_Interval
<1> QED BY <1>5, <1>6

\* While no tag is deleted none moves back in the listing.
LEMMA PlaceGrows ==
    ASSUME \A u \in Tags : remote[u] # NoCommit => remote'[u] # NoCommit, NEW t \in Tags
    PROVE  Place(t) \in Nat /\ Place(t)' \in Nat /\ Place(t) <= Place(t)'
<1> DEFINE later == {u \in Tags : remote'[u] # NoCommit /\ u <= t}
<1>1. IsFiniteSet(later)
    BY PagesAssumption, FS_Subset
<1>2. {u \in Present : u <= t} \subseteq later
    BY DEF Present
<1>3. Place(t)' = Cardinality(later)
    <2>1. {u \in Present' : u <= t} = later
        BY DEF Present
    <2> QED BY <2>1 DEF Place
<1>4. /\ IsFiniteSet({u \in Present : u <= t})
      /\ Cardinality({u \in Present : u <= t}) <= Cardinality(later)
    BY <1>1, <1>2, FS_Subset
<1> HIDE DEF later
<1> QED BY <1>1, <1>3, <1>4, FS_CardinalityType DEF Place

-----------------------------------------------------------------------------
\* A row says what its tag held in the call.
RowTrue(row) == row.tag \in Tags /\ row.at # NoCommit /\ row.at \in listed[row.tag]

\* A tag that stood all along is a row already, or still ahead of the walk.
Ahead(t) == Place(t) > walk.from
Accounted(t) == NoCommit \in listed[t] \/ \E row \in walk.rows : row.tag = t

WalkInv ==
    /\ walk.pc \in {"idle", "page", "done"}
    /\ walk.pc # "idle" => \A t \in Tags : remote[t] \in listed[t]
    /\ walk.pc = "page" =>
          /\ walk = [pc |-> "page", recorded |-> walk.recorded, from |-> walk.from,
                     rows |-> walk.rows]
          /\ walk.from \in Nat
          /\ \A row \in walk.rows : RowTrue(row)
          /\ deleted \/ \A t \in Tags : Accounted(t) \/ Ahead(t)
    /\ walk.pc = "done" => walk.report.verified \cup walk.report.unadopted \subseteq Tags
    /\ ReconcileReportsTrue

\* What a tag has held it goes on having held, while the call does not begin.
LEMMA ListedGrows ==
    ASSUME Lists, ~(walk.pc # "page" /\ walk'.pc = "page")
    PROVE  /\ \A t \in Tags : listed'[t] = listed[t] \cup {remote'[t]}
           /\ ~deleted' => ~deleted /\ \A t \in Tags : remote[t] # NoCommit => remote'[t] # NoCommit
BY DEF Lists

\* A step of somebody else, and a stuttering one, moves no place back unless
\* it deletes.
LEMMA BesideWalk ==
    ASSUME WalkInv, Lists, walk' = walk
    PROVE  WalkInv'
<1>1. /\ \A t \in Tags : listed'[t] = listed[t] \cup {remote'[t]}
      /\ ~deleted' => ~deleted /\ \A t \in Tags : remote[t] # NoCommit => remote'[t] # NoCommit
    BY ListedGrows
<1>2. walk.pc # "idle" => \A t \in Tags : remote'[t] \in listed'[t]
    BY <1>1
<1>3. ASSUME walk.pc = "page" PROVE \A row \in walk.rows : RowTrue(row)'
    BY <1>1, <1>3 DEF WalkInv, RowTrue
<1>4. ASSUME walk.pc = "page", ~deleted', NEW t \in Tags PROVE Accounted(t)' \/ Ahead(t)'
    <2>1. Accounted(t) => Accounted(t)'
        BY <1>1 DEF Accounted
    <2>2. Ahead(t) => Ahead(t)'
        <3>1. Place(t) <= Place(t)'
            BY <1>1, <1>4, PlaceGrows
        <3>2. Place(t) \in Nat /\ Place(t)' \in Nat /\ walk.from \in Nat
            BY <1>1, <1>4, PlaceGrows DEF WalkInv
        <3> QED BY <3>1, <3>2 DEF Ahead
    <2> QED BY <1>1, <1>4, <2>1, <2>2 DEF WalkInv
<1>5. ReconcileReportsTrue'
    <2> SUFFICES ASSUME walk.pc = "done" PROVE ReconcileReportsTrue'
        BY DEF ReconcileReportsTrue
    <2>1. ReconcileReportsTrue /\ walk.report.verified \cup walk.report.unadopted \subseteq Tags
        BY DEF WalkInv
    <2>2. \A t \in walk.report.verified : walk.recorded[t] \in listed'[t]
        BY <1>1, <2>1 DEF ReconcileReportsTrue
    <2> QED BY <1>1, <2>1, <2>2 DEF ReconcileReportsTrue
<1> QED BY <1>2, <1>3, <1>4, <1>5 DEF WalkInv

\* What the walk makes of true rows is true.
LEMMA ComparedIsTrue ==
    ASSUME NEW rows, \A row \in rows : RowTrue(row)'
    PROVE  /\ \A t \in Compared(rows).verified : t \in Tags /\ walk.recorded[t] \in listed'[t]
           /\ \A t \in Compared(rows).unadopted :
                 t \in Tags /\ listed'[t] \ {NoCommit, walk.recorded[t]} # {}
           /\ \A row \in rows : row.tag \in Compared(rows).verified \cup Compared(rows).unadopted
<1>1. /\ Compared(rows).verified = {row.tag : row \in {x \in rows : x.at = walk.recorded[x.tag]}}
      /\ Compared(rows).unadopted
             = {row.tag : row \in rows \ {x \in rows : x.at = walk.recorded[x.tag]}}
    BY DEF Compared
<1> QED BY <1>1 DEF RowTrue

\* A page's rows are what their tags hold.
LEMMA PageIsTrue ==
    ASSUME NEW from, \A t \in Tags : remote[t] \in listed[t]
    PROVE  \A row \in Page(from) : RowTrue(row)
BY DEF Page, Present, RowTrue

\* The call ends: nothing was deleted by then that is deleted now.
LEMMA WalkOver ==
    ASSUME WalkInv, Lists, walk.pc = "page", NEW state, NEW rows, Ends(state, rows),
           \A row \in rows : RowTrue(row)',
           state = "complete" /\ ~deleted' =>
              \A t \in Tags : NoCommit \in listed'[t] \/ \E row \in rows : row.tag = t
    PROVE  WalkInv'
<1>1. /\ walk'.pc = "done" /\ walk'.recorded = walk.recorded /\ walk'.state = state
      /\ walk'.report = Compared(rows)
    BY DEF Ends
<1>2. \A t \in Tags : remote'[t] \in listed'[t]
    BY <1>1, ListedGrows
<1>3. ReconcileReportsTrue' /\ walk'.report.verified \cup walk'.report.unadopted \subseteq Tags
    BY <1>1, ComparedIsTrue DEF ReconcileReportsTrue
<1> QED BY <1>1, <1>2, <1>3 DEF WalkInv

\* The last page misses no tag ahead: it is short, so none follows it.
LEMMA WalkEndsStep ==
    ASSUME WalkInv, Lists, WalkEnds
    PROVE  WalkInv'
<1> DEFINE page == Page(walk.from)
<1>0. /\ walk.pc = "page" /\ Ends(Completeness(page), walk.rows \cup page)
      /\ remote' = remote /\ walk'.pc = "done"
    BY DEF WalkEnds, Ends
<1>1. /\ \A t \in Tags : listed'[t] = listed[t] \cup {remote'[t]}
      /\ ~deleted' => ~deleted /\ \A t \in Tags : remote[t] # NoCommit => remote'[t] # NoCommit
    BY <1>0, ListedGrows
<1>2. \A row \in walk.rows \cup page : RowTrue(row)
    BY <1>0, PageIsTrue DEF WalkInv
<1>3. \A row \in walk.rows \cup page : RowTrue(row)'
    BY <1>1, <1>2 DEF RowTrue
<1>4. ASSUME Completeness(page) = "complete", ~deleted', NEW t \in Tags
      PROVE  NoCommit \in listed'[t] \/ \E row \in walk.rows \cup page : row.tag = t
    <2>1. ~HasNext(walk.from)
        <3>1. /\ IsFiniteSet(page) /\ Cardinality(page) < PerPage
            BY <1>4, PageIsFinite DEF Completeness, WalkInv
        <3>2. Cardinality(page) \in Nat
            BY <3>1, FS_CardinalityType
        <3>3. HasNext(walk.from) => Cardinality(page) >= PerPage
            BY <1>0, PagesAreFull DEF WalkInv
        <3> QED BY <3>1, <3>2, <3>3, PagesAssumption
    <2>2. Accounted(t) \/ Ahead(t)
        BY <1>0, <1>1, <1>4 DEF WalkInv
    <2>3. CASE Accounted(t)
        BY <1>1, <2>3 DEF Accounted
    <2>4. CASE Ahead(t)
        <3>1. CASE t \in Present
            <4>1. Place(t) \in 1 .. Cardinality(Present) /\ Cardinality(Present) \in Nat
                  /\ walk.from \in Nat /\ PerPage \in Nat
                BY <1>0, <3>1, PlaceType, PagesAssumption DEF WalkInv
            <4>2. Place(t) \in walk.from + 1 .. walk.from + PerPage
                BY <2>1, <2>4, <4>1 DEF Ahead, HasNext
            <4>3. [tag |-> t, at |-> remote[t]] \in page
                BY <3>1, <4>2 DEF Page
            <4> QED BY <4>3
        <3>2. CASE t \notin Present
            BY <1>0, <1>1, <3>2 DEF Present
        <3> QED BY <3>1, <3>2
    <2> QED BY <2>2, <2>3, <2>4
<1> HIDE DEF page
<1> QED BY <1>0, <1>3, <1>4, WalkOver

\* A page turned: its tags are rows now, and the others further ahead.
LEMMA WalkTurnsStep ==
    ASSUME WalkInv, Lists, WalkTurns
    PROVE  WalkInv'
<1> DEFINE page == Page(walk.from)
<1>0. /\ walk.pc = "page" /\ remote' = remote
      /\ walk = [pc |-> "page", recorded |-> walk.recorded, from |-> walk.from, rows |-> walk.rows]
      /\ walk.from \in Nat /\ PerPage \in Nat
    BY PagesAssumption DEF WalkTurns, WalkInv, remoteVars
<1>1. walk' = [pc |-> "page", recorded |-> walk.recorded, from |-> walk.from + PerPage,
               rows |-> walk.rows \cup page]
    <2>1. walk' = [walk EXCEPT !.from = walk.from + PerPage, !.rows = walk.rows \cup page]
        BY DEF WalkTurns
    <2> HIDE DEF page
    <2> QED BY <1>0, <2>1
<1>2. /\ \A t \in Tags : listed'[t] = listed[t] \cup {remote'[t]}
      /\ ~deleted' => ~deleted /\ \A t \in Tags : remote[t] # NoCommit => remote'[t] # NoCommit
    BY <1>0, ListedGrows
<1>3. \A row \in walk.rows \cup page : RowTrue(row)
    BY <1>0, PageIsTrue DEF WalkInv
<1>4. ASSUME ~deleted', NEW t \in Tags PROVE Accounted(t)' \/ Ahead(t)'
    <2>1. Accounted(t) \/ Ahead(t)
        BY <1>0, <1>2, <1>4 DEF WalkInv
    <2>2. CASE Accounted(t)
        BY <1>1, <1>2, <2>2 DEF Accounted
    <2>3. CASE Ahead(t)
        <3>1. Place(t) \in Nat /\ Place(t) > walk.from /\ Place(t)' = Place(t)
              /\ Place(t) \in 0 .. Cardinality(Present) /\ Cardinality(Present) \in Nat
            BY <1>0, <2>3, PlaceType, PagesAssumption DEF Ahead, Place, Present
        <3>2. CASE Place(t) > walk.from + PerPage
            BY <1>1, <3>1, <3>2 DEF Ahead
        <3>3. CASE t \notin Present
            BY <1>0, <1>2, <3>3 DEF Present, Accounted
        <3>4. CASE t \in Present /\ Place(t) <= walk.from + PerPage
            <4>1. Place(t) \in walk.from + 1 .. walk.from + PerPage
                BY <1>0, <3>1, <3>4
            <4>2. [tag |-> t, at |-> remote[t]] \in page
                BY <3>4, <4>1 DEF Page
            <4> QED BY <1>1, <4>2 DEF Accounted
        <3> QED BY <1>0, <3>1, <3>2, <3>3, <3>4
    <2> QED BY <2>1, <2>2, <2>3
<1>5. \A row \in walk'.rows : RowTrue(row)'
    BY <1>1, <1>2, <1>3 DEF RowTrue
<1>6. \A t \in Tags : remote'[t] \in listed'[t]
    BY <1>2
<1>7. ReconcileReportsTrue'
    BY <1>1 DEF ReconcileReportsTrue
<1> HIDE DEF page
<1>8. walk'.pc = "page" /\ walk'.from \in Nat
      /\ walk' = [pc |-> "page", recorded |-> walk'.recorded, from |-> walk'.from, rows |-> walk'.rows]
    BY <1>0, <1>1
<1> QED BY <1>4, <1>5, <1>6, <1>7, <1>8 DEF WalkInv

\* A call that begins has listed nothing, and every tag is ahead.
LEMMA WalkCallsStep ==
    ASSUME WalkInv, Lists, WalkCalls
    PROVE  WalkInv'
<1>1. /\ walk' = [pc |-> "page", recorded |-> [t \in Tags |-> local[t]], from |-> 0, rows |-> {}]
      /\ walk.pc # "page" /\ remote' = remote
    BY DEF WalkCalls, remoteVars
<1>2. \A t \in Tags : listed'[t] = {remote'[t]}
    BY <1>1 DEF Lists
<1>3. ASSUME NEW t \in Tags PROVE Accounted(t)' \/ Ahead(t)'
    <2>1. CASE t \in Present
        <3>1. Place(t) \in 1 .. Cardinality(Present) /\ Cardinality(Present) \in Nat
            BY <2>1, PlaceType
        <3>2. Place(t)' = Place(t)
            BY <1>1 DEF Place, Present
        <3> QED BY <1>1, <3>1, <3>2 DEF Ahead
    <2>2. CASE t \notin Present
        BY <1>1, <1>2, <2>2 DEF Present, Accounted
    <2> QED BY <2>1, <2>2
<1>4. ReconcileReportsTrue'
    BY <1>1 DEF ReconcileReportsTrue
<1> QED BY <1>1, <1>2, <1>3, <1>4 DEF WalkInv

\* A listing that failed claims nothing.
LEMMA WalkFailsStep ==
    ASSUME WalkInv, Lists, WalkFails
    PROVE  WalkInv'
<1>1. PICK state \in {"refused", "transport-failure"} : Ends(state, {})
    BY DEF WalkFails
<1> QED BY <1>1, WalkOver DEF WalkFails

\* Every step, of the walk or of anybody else, keeps the invariant.
LEMMA NextWalkInv == WalkInv /\ [Next]_vars => WalkInv'
<1> SUFFICES ASSUME WalkInv, [Next]_vars PROVE WalkInv'
    OBVIOUS
<1>1. CASE UNCHANGED vars
    BY <1>1 DEF vars, WalkInv, RowTrue, Accounted, Ahead, Place, Present, ReconcileReportsTrue
<1>2. CASE Next
    <2>1. Lists
        BY <1>2 DEF Next
    <2>2. CASE Walks
        BY <2>1, <2>2, WalkCallsStep, WalkTurnsStep, WalkEndsStep, WalkFailsStep DEF Walks
    <2>3. CASE walk' = walk
        BY <2>1, <2>3, BesideWalk
    <2> QED BY <1>2, <2>2, <2>3 DEF Next
<1> QED BY <1>1, <1>2

\* No call has begun.
LEMMA InitWalkInv == Init => WalkInv
BY DEF Init, InitWalk, WalkInv, ReconcileReportsTrue

\* What a reconciliation reports of a tag was so during the call, and a
\* complete report misses no tag that stood all along while none was deleted,
\* whatever others pushed between the pages and whichever links were lost.
THEOREM ReconciliationIsTrue == Spec => []ReconcileReportsTrue
<1>1. WalkInv => ReconcileReportsTrue BY DEF WalkInv
<1> QED BY <1>1, InitWalkInv, NextWalkInv, PTL DEF Spec

=============================================================================
