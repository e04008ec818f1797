---------------------------- MODULE PlanHistory ----------------------------
(***************************************************************************)
(* From a repository's history to what each release line has pending       *)
(* (src/planner/input.ts, extract.ts, history.ts, attribute.ts).           *)
(*                                                                         *)
(* A world is a record: commits, all of the repository's, oldest first;    *)
(* seen, the ones the caller observed; heads, the commit each line's feed  *)
(* ref names; tags, the observed tags; and the declared policy.  A         *)
(* commit's message is what the extraction reads in it: its type, its      *)
(* scope, a Change-Id footer, a cherry-pick trailer.  A commit is named by *)
(* its place in the sequence.                                              *)
(***************************************************************************)
EXTENDS Versions, FiniteSets

CONSTANTS
    Lines,      \* the declared lines
    Band,       \* line -> the series it declares, a major and a minor, or NoBand
    NoBand,
    NoMinor,    \* the minor of a band that pins none
    NoFooter,   \* a commit without a Change-Id footer
    NoCommit    \* an absent commit

Commits(w) == DOMAIN w.commits

(* normalize's closure: every parent, head and tagged commit is observed,  *)
(* and a tag name is observed once.                                        *)
Closed(w) ==
    /\ \A c \in w.seen : w.commits[c].parents \subseteq w.seen
    /\ \A l \in Lines : w.heads[l] \in w.seen
    /\ \A t \in w.tags : t.commit \in w.seen
    /\ \A t, u \in w.tags : t.name = u.name /\ t.version = u.version => t = u

(* A line without a band admits every version.                             *)
BandAdmits(l, v) ==
    \/ Band[l] = NoBand
    \/ Band[l].major = Major(v) /\ Band[l].minor \in {NoMinor, Minor(v)}

(* Two lines' bands may not admit one version.                             *)
BandsDisjoint ==
    \A l, m \in Lines : l # m /\ NoBand \notin {Band[l], Band[m]} =>
        \/ Band[l].major # Band[m].major
        \/ NoMinor \notin {Band[l].minor, Band[m].minor} /\ Band[l].minor # Band[m].minor

-----------------------------------------------------------------------------
(* Extraction.  A marker of the tool's own namespace is read first, then   *)
(* merges and messages without a conventional header are left out.         *)
Classification(w, c) ==
    CASE w.commits[c].type = "self" -> "self-reference"
      [] w.commits[c].type = "malformed" -> "malformed-marker"
      [] \/ Cardinality(w.commits[c].parents) >= 2
         \/ w.commits[c].type = "free" -> "unparseable"
      [] OTHER -> "change"

Candidates(w) == {c \in w.seen : Classification(w, c) = "change"}

(* Where a change's identity comes from: its footer, else its cherry-pick  *)
(* origin, else its own commit.                                            *)
IdentitySource(w, c) ==
    CASE w.commits[c].footer # NoFooter -> "change-id-footer"
      [] w.commits[c].footer = NoFooter /\ w.commits[c].pick # NoCommit -> "cherry-pick-origin"
      [] OTHER -> "commit-sha"

(* A chain of picks is followed to its root; it stops at a commit that is  *)
(* no candidate.  A pick is of an earlier commit, so no chain is a cycle.  *)
Identities(w) ==
    LET id[c \in Commits(w)] ==
            CASE c \notin Candidates(w) -> c
              [] c \in Candidates(w) /\ IdentitySource(w, c) = "change-id-footer" ->
                    w.commits[c].footer
              [] c \in Candidates(w) /\ IdentitySource(w, c) = "cherry-pick-origin" ->
                    id[w.commits[c].pick]
              [] OTHER -> c
    IN id

(* An identity that two commits claim for themselves.                      *)
Conflicts(w) ==
    LET Own == {c \in Candidates(w) : IdentitySource(w, c) # "cherry-pick-origin"}
    IN {c \in Own : \E d \in Own : d # c /\ Identities(w)[d] = Identities(w)[c]}

(* The bump a commit asks for; the default mapping grades these types.     *)
BumpOf(type) ==
    CASE type = "breaking" -> "major"
      [] type = "feat" -> "minor"
      [] type = "fix" -> "patch"
      [] OTHER -> "none"
Worthy(w, c) == c \in Candidates(w) /\ BumpOf(w.commits[c].type) # "none"

-----------------------------------------------------------------------------
(* The tag history.  A tag whose name is not a bare version is foreign to  *)
(* every line, one outside the line's band is foreign to the line.         *)
Admitted(w, l) ==
    {t \in w.tags : t.name = "bare" /\ BandAdmits(l, t.version)}
Versions(w, l) == {t.version : t \in Admitted(w, l)}

Released(w, l) == Versions(w, l) # {}
Pointer(w, l) == Highest(Versions(w, l))
StableVersions(w, l) == {v \in Versions(w, l) : ~IsPrerelease(v)}

(* A bug: the range starts at the last stable release.                     *)
MutantReleasedUpTo(w, l) ==
    IF StableVersions(w, l) # {}
    THEN (CHOOSE t \in Admitted(w, l) : t.version = Highest(StableVersions(w, l))).commit
    ELSE NoCommit

(* The range: from the latest admitted tag's commit to the feed ref's head.*)
ReleasedUpTo(w, l) ==
    IF Released(w, l) THEN (CHOOSE t \in Admitted(w, l) : t.version = Pointer(w, l)).commit
    ELSE NoCommit

(* Everything observed that a commit reaches, itself included.             *)
Reaches(w) ==
    LET reach[n \in Commits(w)] ==
            {n} \cup UNION {reach[p] : p \in w.commits[n].parents}
    IN reach
Ancestry(w, c) == IF c = NoCommit THEN {} ELSE Reaches(w)[c] \cap w.seen

Span(w, upTo, head) == Ancestry(w, head) \ Ancestry(w, upTo)
PendingSpan(w, l) == Span(w, ReleasedUpTo(w, l), w.heads[l])

(* Attribution fails closed: on a malformed marker in a pending span, and  *)
(* on a change two lines both have pending - the extraction records no     *)
(* origin line that could break the tie.                                   *)
MalformedPending(w) ==
    \E l \in Lines : \E c \in PendingSpan(w, l) :
        Classification(w, c) = "malformed-marker"
Ambiguous(w) ==
    \E l, m \in Lines : /\ l # m
                        /\ PendingSpan(w, l) \cap PendingSpan(w, m) \cap Candidates(w) # {}
Attributed(w) == ~MalformedPending(w) /\ ~Ambiguous(w)

Pending(w, l) == PendingSpan(w, l) \cap Candidates(w)
=============================================================================
