------------------------------- MODULE Planner -------------------------------
(***************************************************************************)
(* A repository whose releases are planned and minted again and again: the *)
(* planning door (src/planner/assemble.ts) over the world the caller       *)
(* observes, a run of one line of the plan (src/app/engine.ts), the tag    *)
(* minted at the head the caller read with the plan (src/cli/targets.ts),  *)
(* while commits land, lines merge, changes are cherry-picked and the      *)
(* policy is edited.  A line may have several runs in flight: a run claims *)
(* the version or the sequence it plans (src/app/claims.ts), which is no   *)
(* claim on the line, and its plan is not made again when it mints.  Runs  *)
(* of one plan are one here: the claim and the tag are for one of them.    *)
(***************************************************************************)
EXTENDS PlanLine

CONSTANTS
    Shapes,       \* the messages a commit may carry: type, scope and footer
    Baseline,     \* the commits, heads and tags the repository starts with
    Allow,        \* line -> the streams it admits
    Format,       \* line -> the name its tags are formatted to
    Births,       \* the first versions an operator may have recorded, or none
    Editable,     \* the lines whose policy is edited
    IntentSets,   \* the sets of operator intents a run may be asked with
    Components,   \* the declared components
    Publishes,    \* line -> the component its releases publish, or NoComponent
    NoComponent,
    Depths,       \* the oldest commit a caller may observe from
    MaxCommits, MaxReleases, MaxEdits,
    MaxRuns       \* the runs in flight

VARIABLES
    commits, heads, tags,   \* the repository
    policy,                 \* lifecycle, withhold and bootstrap
    runs,                   \* line -> the runs in flight
    releases,               \* the releases minted, in order
    edits                   \* the policy edits made

vars == <<commits, heads, tags, policy, runs, releases, edits>>

World(depth) ==
    [commits |-> commits, seen |-> {c \in DOMAIN commits : c >= depth}, heads |-> heads,
     tags |-> tags, lifecycle |-> policy.lifecycle, withhold |-> policy.withhold,
     bootstrap |-> policy.bootstrap, allow |-> Allow]

-----------------------------------------------------------------------------
(* What the input door admits (src/planner/input.ts).  Intents are a set:  *)
(* an exact duplicate is one intent, and one that targets a line targets a *)
(* declared one.                                                           *)
IsIntent(i) ==
    \/ i.kind \in {"release", "release-anyway"}
    \/ i.kind = "prerelease" /\ i.line \in Lines /\ i.stream \in Nat
    \/ i.kind = "promote" /\ i.line \in Lines
    \/ i.kind = "release-as" /\ i.version \in Semantic
PublishesDeclared == \A l \in Lines : Publishes[l] \in Components \cup {NoComponent}

ASSUME PolicyAdmitted ==
    /\ Lines # {}
    /\ Seed \in {0, 1}
    /\ BandsDisjoint
    /\ PublishesDeclared
    /\ \A intents \in IntentSets : \A i \in intents : IsIntent(i)
    /\ Births \subseteq Semantic \cup {NoBootstrap}

(* A history: commits in an order in which parents come first, and every   *)
(* head and every tag of one of them.                                      *)
ASSUME BaselineAdmitted ==
    /\ Baseline.commits \in Seq({Baseline.commits[c] : c \in DOMAIN Baseline.commits})
    /\ NoCommit \notin Nat \ {0}
    /\ \A c \in DOMAIN Baseline.commits : Baseline.commits[c].parents \subseteq 1..(c - 1)
    /\ Baseline.heads \in [Lines -> DOMAIN Baseline.commits]
    /\ IsFiniteSet(Baseline.tags)
    /\ \A t \in Baseline.tags :
          t.version \in Semantic /\ t.commit \in DOMAIN Baseline.commits

-----------------------------------------------------------------------------
(* The plan: a decision, a stable target and streams for every line.       *)
LinePlan(w, l, intents) ==
    LET decision == Decision(w, l, intents)
    IN [decision |-> decision,
        stable |-> PlannedStable(w, l, intents, decision),
        streams |-> PlannedStreams(w, l, intents, decision)]

Minted(plan) ==
    plan.streams \cup (IF plan.stable = None THEN {} ELSE {plan.stable.version})

(* Every line's tag is in one namespace.                                   *)
Collides(plans) ==
    \E l, m \in Lines : /\ l # m
                        /\ Format[l] = Format[m]
                        /\ Minted(plans[l]) \cap Minted(plans[m]) # {}

(* Each release publishes a component: the declared one, or the sole one   *)
(* of the repository.  A line with neither, and two lines that publish one *)
(* component, are refused with an exception.                               *)
Releasing(plans) ==
    {l \in Lines : plans[l].decision.kind = "release" /\ Minted(plans[l]) # {}}
Bindings(l) == IF Publishes[l] # NoComponent THEN {Publishes[l]} ELSE Components
Unbound(plans) ==
    \/ \E l \in Releasing(plans) : Cardinality(Bindings(l)) # 1
    \/ \E l, m \in Releasing(plans) : l # m /\ Bindings(l) = Bindings(m)

Throws(w, plans) ==
    \/ \E l \in Lines : BelowPointer(w, l, plans[l].streams)
    \/ Unbound(plans)

(* The tag a run mints: a stream's before the stable one.                  *)
PlannedVersions(plan) == IF plan.streams # {} THEN plan.streams ELSE Minted(plan)

(* The run door: what the plan blocks it does not run.                     *)
Runnable(plan) == plan.decision.kind # "blocked" /\ Minted(plan) # {}

Changes(plan) == IF plan.decision.kind = "release" THEN plan.decision.changes ELSE {}
RangeHead(w, l, plan) ==
    IF plan.decision.kind = "release" THEN plan.decision.head ELSE w.heads[l]

(* after is history: the number of releases there were when it was planned. *)
RunOf(w, l, intents, plan, v) ==
    [version |-> v, target |-> heads[l], changes |-> Changes(plan),
     head |-> RangeHead(w, l, plan), promotion |-> IsPromotion(plan.decision),
     asked |-> Asks(intents, "release-as"), since |-> ReleasedUpTo(w, l),
     after |-> Len(releases)]

Assembled(w, intents) == [l \in Lines |-> LinePlan(w, l, intents)]

InFlight == Cardinality(UNION {{<<l, r>> : r \in runs[l]} : l \in Lines})

Plans(l) ==
    /\ InFlight < MaxRuns
    /\ Len(releases) + InFlight < MaxReleases
    /\ \E w \in {World(depth) : depth \in Depths} :
          /\ Closed(w)
          /\ Attributed(w)
          /\ \E intents \in IntentSets : \E plans \in {Assembled(w, intents)} :
                /\ ~Throws(w, plans)
                /\ ~Collides(plans)
                /\ Runnable(plans[l])
                /\ \E v \in PlannedVersions(plans[l]) :
                      runs' = [runs EXCEPT ![l] = @ \cup {RunOf(w, l, intents, plans[l], v)}]
    /\ UNCHANGED <<commits, heads, tags, policy, releases, edits>>

TagAbsent(l, v) == \A t \in tags : t.name = Format[l] => t.version # v

(* A bug: the tag is created at whatever the head is by then.              *)
MutantMints(l) ==
    \E r \in runs[l] :
        /\ Len(releases) < MaxReleases
        /\ TagAbsent(l, r.version)
        /\ tags' = tags \cup {[name |-> Format[l], version |-> r.version, commit |-> heads[l]]}
        /\ releases' = Append(releases, [line |-> l, run |-> [r EXCEPT !.target = heads[l],
                                                                    !.head = heads[l]]])
        /\ runs' = [runs EXCEPT ![l] = @ \ {r}]
        /\ UNCHANGED <<commits, heads, policy, edits>>

(* The walk ends at the tag door: the planned tag must be absent, and is   *)
(* created at the target that came with the plan.                          *)
Mints(l) ==
    \E r \in runs[l] :
        /\ Len(releases) < MaxReleases
        /\ TagAbsent(l, r.version)
        /\ tags' = tags \cup {[name |-> Format[l], version |-> r.version, commit |-> r.target]}
        /\ releases' = Append(releases, [line |-> l, run |-> r])
        /\ runs' = [runs EXCEPT ![l] = @ \ {r}]
        /\ UNCHANGED <<commits, heads, policy, edits>>

(* A run that mints nothing: its claim is denied or passed, it is aborted, *)
(* its process dies, or the tag door finds its tag.  TagDoor and           *)
(* ReleaseEngine say when.                                                 *)
Ends(l) ==
    \E r \in runs[l] :
        /\ runs' = [runs EXCEPT ![l] = @ \ {r}]
        /\ UNCHANGED <<commits, heads, tags, policy, releases, edits>>

-----------------------------------------------------------------------------
(* What others do to the repository meanwhile.                             *)
Lands(l, commit) ==
    /\ Len(commits) < MaxCommits
    /\ commits' = Append(commits, commit)
    /\ heads' = [heads EXCEPT ![l] = Len(commits')]
    /\ UNCHANGED <<tags, policy, runs, releases, edits>>

CommitsTo(l) ==
    \E s \in Shapes : Lands(l, [type |-> s.type, scope |-> s.scope, footer |-> s.footer,
                                pick |-> NoCommit, parents |-> {heads[l]}])

CherryPicks(l) ==
    \E c \in DOMAIN commits :
        /\ commits[c].type \in {"feat", "fix", "breaking"}
        /\ Lands(l, [type |-> commits[c].type, scope |-> commits[c].scope,
                     footer |-> commits[c].footer, pick |-> c, parents |-> {heads[l]}])

Merges(l) ==
    \E m \in Lines :
        /\ heads[m] \notin Ancestry(World(1), heads[l])
        /\ Lands(l, [type |-> "free", scope |-> "none", footer |-> NoFooter,
                     pick |-> NoCommit, parents |-> {heads[l], heads[m]}])

Edits(field, l, values) ==
    /\ edits < MaxEdits
    /\ l \in Editable
    /\ edits' = edits + 1
    /\ \E value \in values :
          policy' = [policy EXCEPT ![field] = [policy[field] EXCEPT ![l] = value]]
    /\ UNCHANGED <<commits, heads, tags, runs, releases>>
Freezes(l) == Edits("lifecycle", l, {"active", "frozen"} \ {policy.lifecycle[l]})
Withholds(l) == Edits("withhold", l, {{}, {"held"}} \ {policy.withhold[l]})

Init ==
    /\ commits = Baseline.commits
    /\ heads = Baseline.heads
    /\ tags = Baseline.tags
    /\ \E birth \in Births :
          policy = [lifecycle |-> [l \in Lines |-> "active"],
                    withhold |-> [l \in Lines |-> {}], bootstrap |-> birth]
    /\ runs = [l \in Lines |-> {}]
    /\ releases = << >>
    /\ edits = 0

Next ==
    \E l \in Lines :
          \/ Plans(l)
          \/ Mints(l)
          \/ Ends(l)
          \/ CommitsTo(l)
          \/ CherryPicks(l)
          \/ Merges(l)
          \/ Freezes(l)
          \/ Withholds(l)

Spec == Init /\ [][Next]_vars

-----------------------------------------------------------------------------
Of(l) == {i \in DOMAIN releases : releases[i].line = l}
Run(i) == releases[i].run
InBand(l, v) == BandAdmits(l, v) /\ Format[l] = "bare"

(* A release as planned from the history alone: its version is one the     *)
(* line's own history admits, and no operator named it.                    *)
Regular(i) == InBand(releases[i].line, Run(i).version) /\ ~Run(i).asked
Orderly(l) == \A i \in Of(l) : Regular(i)

(* No release of another line is one this line's history admits: a version *)
(* an operator names is not held to its line's band, and a line without a  *)
(* band admits every bare tag.  Such a tag moves the line's range.         *)
Alone(l) ==
    \A i \in DOMAIN releases :
        releases[i].line # l /\ Format[releases[i].line] = "bare" =>
            ~BandAdmits(l, Run(i).version)

(* The line's releases followed one another: each was planned after the    *)
(* earlier ones were minted.                                               *)
Sequential(l) == \A i, j \in Of(l) : i < j => i <= Run(j).after

(* A release is above what the line was released at in the beginning and   *)
(* every release of it that its plan could know, whichever stream or       *)
(* stable version each was, whatever commits, edits and releases fell      *)
(* between the plan and its tag (src/planner/plan.ts, state.ts).  Of two   *)
(* runs that overlap the higher may be minted first.  A version an         *)
(* operator names with release-as is not held to the order.                *)
VersionsRise ==
    \A l \in Lines : \A j \in Of(l) : ~Run(j).asked =>
        /\ \A t \in Baseline.tags :
              t.name = "bare" /\ BandAdmits(l, t.version) => Below(t.version, Run(j).version)
        /\ \A i \in Of(l) :
              i <= Run(j).after /\ InBand(l, Run(i).version) =>
                  Below(Run(i).version, Run(j).version)

(* No commit is released that the tag does not contain, and none twice on  *)
(* a line whose releases follow one another (src/planner/attribute.ts,     *)
(* decide.ts): runs that overlap may both release it.                      *)
ReleasedOnce ==
    \A l \in Lines :
        /\ \A i \in Of(l) : Run(i).changes \subseteq Ancestry(World(1), Run(i).target)
        /\ Orderly(l) /\ Alone(l) /\ Sequential(l) =>
              \A i, j \in Of(l) : i # j => Run(i).changes \cap Run(j).changes = {}

(* No change is lost, however the runs of the line overlapped and in       *)
(* whichever order they minted: every release-worthy commit a release of   *)
(* the line contains was carried by that release or an earlier one, or was *)
(* in the line's history before the first.  A release pinned below a       *)
(* withheld change is tagged at the head it was planned from, so from then *)
(* on only the carried ones are accounted for.                             *)
NothingLost ==
    \A l \in Lines : Orderly(l) /\ Alone(l) =>
        \A i \in Of(l) :
            (\A j \in Of(l) : j <= i => Run(j).head = Run(j).target) =>
                \A c \in Span(World(1), Run(CHOOSE j \in Of(l) : \A k \in Of(l) : j <= k).since,
                              Run(i).target) :
                    Worthy(World(1), c) =>
                        \E j \in Of(l) : j <= i /\ c \in Run(j).changes

(* A promotion's stable version holds no release-worthy change the         *)
(* prerelease it promotes did not: src/planner/decide.ts.                  *)
PromotionIsValidated ==
    \A i \in DOMAIN releases :
        Run(i).promotion /\ ~Run(i).asked =>
            /\ {c \in Span(World(1), Run(i).since, Run(i).target) : Worthy(World(1), c)} = {}
            /\ \E t \in tags : /\ t.commit = Run(i).since
                               /\ IsPrerelease(t.version)
                               /\ t.version.core = Run(i).version.core

(* The tag a run plans may be taken when the run comes to mint it, but     *)
(* only by a run that overlapped it: of its own line, or of another line   *)
(* and then out of that line's band, or where one of the two has no band   *)
(* (src/planner/assemble.ts, the version collision; src/planner/input.ts,  *)
(* the disjoint bands).  No plan takes a tag there is, and two lines that  *)
(* stay in their bands never meet.                                         *)
OnlyRivalsTakeTags ==
    \A l \in Lines : \A r \in runs[l] :
        InBand(l, r.version) /\ ~r.asked =>
            /\ \A t \in Baseline.tags : t.name = Format[l] => t.version # r.version
            /\ \A i \in DOMAIN releases :
                  Format[releases[i].line] = Format[l] /\ Run(i).version = r.version =>
                      /\ i > r.after
                      /\ \/ releases[i].line = l
                         \/ ~Regular(i)
                         \/ NoBand \in {Band[l], Band[releases[i].line]}

(* What docs/design/release-taxonomy.md says of a line, that its stream of *)
(* versions stays monotonic.                                               *)
OverlapsStayOrdered ==
    \A l \in Lines : Orderly(l) =>
        \A i, j \in Of(l) : i < j => Below(Run(i).version, Run(j).version)

(* What decide.ts says of a withheld change: it stays in the un-released   *)
(* span, so no tag of the line contains it.                                *)
WithheldStaysPending ==
    \A i \in DOMAIN releases :
        Run(i).head # Run(i).target =>
            \A c \in Span(World(1), Run(i).head, Run(i).target) :
                Worthy(World(1), c) => c \in PendingSpan(World(1), releases[i].line)

(* What types.ts says of releasedness: a change, by its identity, is       *)
(* released once on a line.                                                *)
IdentityReleasedOnce ==
    \A l \in Lines : \A i, j \in Of(l) :
        i # j => \A c \in Run(i).changes, d \in Run(j).changes :
                    Identities(World(1))[c] # Identities(World(1))[d]
=============================================================================
