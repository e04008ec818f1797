------------------------------ MODULE PlanLine ------------------------------
(***************************************************************************)
(* One line's decision and targets (src/planner/decide.ts, state.ts,       *)
(* plan.ts, channels.ts), over the history PlanHistory projects.  The      *)
(* policy is part of the world: lifecycle, withhold (the scopes a line     *)
(* holds back), allow (the streams it admits) and bootstrap, the recorded  *)
(* first version.                                                          *)
(***************************************************************************)
EXTENDS PlanHistory

CONSTANTS
    Seed,           \* the sequence of a fresh prerelease stream
    Dampening,      \* whether a breaking change below 1.0.0 is a minor bump
    NoBootstrap,    \* a world without a recorded bootstrap
    MovedChannels   \* the declared channels a promotion moves, by line

Bump(w, changes) ==
    IF changes = {} THEN "none" ELSE MaxBump({BumpOf(w.commits[c].type) : c \in changes})

WorthyPending(w, l) == {c \in Pending(w, l) : Worthy(w, c)}

Demands(intents, l) == {i \in intents : i.kind = "prerelease" /\ i.line = l}
Allowed(w, intents, l) == {i \in Demands(intents, l) : i.stream \in w.allow[l]}
Promotes(intents, l) == \E i \in intents : i.kind = "promote" /\ i.line = l
Asks(intents, kind) == \E i \in intents : i.kind = kind
DemandedVersion(intents) == (CHOOSE i \in intents : i.kind = "release-as").version

-----------------------------------------------------------------------------
(* Withholding: the release is bounded below the earliest change of a      *)
(* withheld scope, by its first parent; what came before it survives.      *)
Withheld(w, l) == {c \in WorthyPending(w, l) : w.commits[c].scope \in w.withhold[l]}
Earliest(S) == CHOOSE c \in S : \A d \in S : c <= d
Surviving(w, l) == {c \in WorthyPending(w, l) : c < Earliest(Withheld(w, l))}
PinnedHead(w, l) == w.commits[Earliest(Withheld(w, l))].parents

(* The kernel refuses a change set in which two members share an identity. *)
OneIdentityEach(w, changes) ==
    \A c, d \in changes : Identities(w)[c] = Identities(w)[d] => c = d

Refused(cause) == [kind |-> "refused", cause |-> cause]
Blocked(cause) == [kind |-> "blocked", cause |-> cause]
Releases(w, changes, head, withheld) ==
    IF OneIdentityEach(w, changes)
    THEN [kind |-> "release", bump |-> Bump(w, changes), changes |-> changes,
          head |-> head, withheld |-> withheld]
    ELSE Refused("kernel-rejection")
Promotion(w, l) ==
    [kind |-> "release", bump |-> "promotion", changes |-> {},
     head |-> w.heads[l], withheld |-> {}]

(* A recorded birth already tagged at the line's head is not re-planned.   *)
BirthObserved(w, l, intents) ==
    /\ w.bootstrap # NoBootstrap
    /\ w.bootstrap \in Versions(w, l)
    /\ ReleasedUpTo(w, l) = w.heads[l]
    /\ Asks(intents, "release")
    /\ Allowed(w, intents, l) = {}

(* A bug: what is pending past the prerelease is not looked at.            *)
MutantPromoteDecision(w, l, intents) ==
    IF Asks(intents, "release-anyway") \/ ~Released(w, l) \/ ~IsPrerelease(Pointer(w, l))
    THEN Refused("operator-contradiction")
    ELSE Promotion(w, l)

PromoteDecision(w, l, intents) ==
    IF \/ Asks(intents, "release-anyway")
       \/ ~Released(w, l)
       \/ ~IsPrerelease(Pointer(w, l))
       \/ WorthyPending(w, l) # {}
    THEN Refused("operator-contradiction")
    ELSE Promotion(w, l)

WithheldDecision(w, l) ==
    IF PinnedHead(w, l) # {} /\ Surviving(w, l) # {}
    THEN Releases(w, Surviving(w, l), CHOOSE p \in PinnedHead(w, l) : TRUE, Withheld(w, l))
    ELSE [kind |-> "withheld", withheld |-> Withheld(w, l)]

(* decideLine: the rules in the order of their precedence.                 *)
Decision(w, l, intents) ==
    LET pending == WorthyPending(w, l)
        asked == Asks(intents, "release-as")
    IN CASE w.lifecycle[l] = "frozen" -> Refused("line-frozen")
         [] w.lifecycle[l] = "retired" -> Refused("line-retired")
         [] w.lifecycle[l] = "active" ->
     CASE ~Released(w, l) /\ Pending(w, l) # {} /\ w.bootstrap = NoBootstrap ->
             Blocked("bootstrap-required")
       [] OTHER ->
     CASE Promotes(intents, l) -> PromoteDecision(w, l, intents)
       [] ~Promotes(intents, l) /\ pending = {} /\ Asks(intents, "release-anyway") ->
             [kind |-> "forced"]
       [] OTHER ->
     CASE asked /\ pending = {} -> Refused("operator-contradiction")
       [] asked /\ pending # {} /\ DemandedVersion(intents) \in Versions(w, l) ->
             Blocked("released-version-observed")
       [] OTHER ->
     CASE Withheld(w, l) # {} -> WithheldDecision(w, l)
       [] Withheld(w, l) = {} /\ BirthObserved(w, l, intents) ->
             Blocked("released-version-observed")
       [] Withheld(w, l) = {} /\ ~BirthObserved(w, l, intents) /\ pending = {} ->
             [kind |-> "no-op"]
       [] OTHER -> Releases(w, pending, w.heads[l], {})

-----------------------------------------------------------------------------
(* Targets.  No target, and a plan the code refuses with an exception.     *)
None == [kind |-> "none"]
Target(v) == [kind |-> "target", version |-> v]
Thrown == [kind |-> "thrown"]

Dampened(bump, base) ==
    IF Dampening /\ bump = "major" /\ Major(base) = 0 THEN "minor" ELSE bump

(* The highest sequence observed of a stream towards a target.             *)
Sequences(w, l, target, stream) ==
    {v.pre[2] : v \in {u \in Versions(w, l) :
        IsPrerelease(u) /\ u.core = target.core /\ u.pre[1] = stream}}

(* The stable version a release moves the line to: a promotion takes the   *)
(* pointer's core; from a prerelease pointer it is the bump of the last    *)
(* stable version, or the target in flight where that is higher.           *)
ComputedStable(w, l, bump) ==
    LET pointer == Pointer(w, l)
        base == IF StableVersions(w, l) = {} THEN Version(0, 0, 0)
                ELSE Highest(StableVersions(w, l))
        bumped == ApplyBump(base, Dampened(bump, base))
    IN CASE bump = "promotion" -> BumpPatch(pointer)
         [] bump # "promotion" /\ IsPrerelease(pointer) ->
               Highest({bumped, BumpPatch(pointer)})
         [] OTHER -> ApplyBump(pointer, Dampened(bump, pointer))

StableTarget(w, l, intents, decision) ==
    CASE decision.kind # "release" \/ ~Released(w, l) -> None
      [] decision.kind = "release" /\ Released(w, l) ->
            IF Asks(intents, "release-as") THEN Target(DemandedVersion(intents))
            ELSE Target(ComputedStable(w, l, decision.bump))

(* Streams: each admitted demand's next sequence towards the target.  A    *)
(* version below the pointer is refused with an exception.                 *)
StreamTarget(w, l, intents, decision) ==
    CASE StableTarget(w, l, intents, decision) # None ->
            StableTarget(w, l, intents, decision).version
      [] StableTarget(w, l, intents, decision) = None /\ Released(w, l) ->
            BumpPatch(Pointer(w, l))
      [] OTHER -> BumpPatch(Version(0, 0, 0))
(* A bug: the highest sequence is taken again.                             *)
MutantNextOfStream(w, l, target, stream) ==
    LET used == Sequences(w, l, target, stream)
    IN Prerelease(target, stream,
                  IF used = {} THEN Seed ELSE CHOOSE n \in used : \A m \in used : m <= n)

NextOfStream(w, l, target, stream) ==
    LET used == Sequences(w, l, target, stream)
    IN Prerelease(target, stream,
                  IF used = {} THEN Seed ELSE 1 + CHOOSE n \in used : \A m \in used : m <= n)
IsPromotion(decision) == decision.kind = "release" /\ decision.bump = "promotion"
Streams(w, l, intents, decision) ==
    IF IsPromotion(decision) THEN {}
    ELSE {NextOfStream(w, l, StreamTarget(w, l, intents, decision), i.stream) :
             i \in Allowed(w, intents, l)}
(* A bug: only a stable pointer is compared with.                          *)
MutantBelowPointer(w, l, versions) ==
    /\ Released(w, l)
    /\ ~IsPrerelease(Pointer(w, l))
    /\ \E v \in versions : Below(v, Pointer(w, l))
BelowPointer(w, l, versions) ==
    Released(w, l) /\ \E v \in versions : Below(v, Pointer(w, l))

(* The first release of a line takes the recorded bootstrap verbatim; any  *)
(* prerelease demand on the line, admitted or not, takes the stable away.  *)
BirthStable(w, l, intents) ==
    IF Demands(intents, l) # {} THEN None ELSE Target(w.bootstrap)

PlannedStable(w, l, intents, decision) ==
    CASE decision.kind \in {"refused", "withheld"} -> None
      [] decision.kind = "release" /\ ~Released(w, l) -> BirthStable(w, l, intents)
      [] OTHER -> IF ~IsPromotion(decision) /\ Allowed(w, intents, l) # {} THEN None
                  ELSE StableTarget(w, l, intents, decision)
PlannedStreams(w, l, intents, decision) ==
    IF decision.kind \in {"refused", "withheld"} THEN {} ELSE Streams(w, l, intents, decision)

(* What a promotion plans beside the version: the line's channels move to  *)
(* it, its origin is recorded and its stream closed.                       *)
Transitions(w, l, decision, stable) ==
    IF IsPromotion(decision) /\ stable # None
    THEN [moves |-> MovedChannels[l], from |-> Pointer(w, l),
          closes |-> Pointer(w, l).pre[1]]
    ELSE None
=============================================================================
