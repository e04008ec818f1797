----------------------------- MODULE PlannerProofs -----------------------------
(***************************************************************************)
(* Proofs about the planner, for every set of lines, every history and     *)
(* policy it may start with and every bound, with any number of runs of a  *)
(* line in flight at once: a version is above those its plan could know,   *)
(* no change is released twice by runs that follow one another and none is *)
(* lost, a promotion holds what its prerelease held, and a planned tag is  *)
(* only taken by a run that overlaps.                                      *)
(*                                                                         *)
(* A plan is judged against the releases there were when it was made, so   *)
(* the invariant says what a run, in flight or minted, knows of those: its *)
(* range starts at the highest of them, its version is above theirs, its   *)
(* target reaches theirs.                                                  *)
(***************************************************************************)
EXTENDS Planner, FiniteSetTheorems, WellFoundedInduction, TLAPS

\* A history: every parent comes before its commit.
IsHistory(cs) ==
  /\ Len(cs) \in Nat
  /\ DOMAIN cs = 1..Len(cs)
  /\ \A c \in 1..Len(cs) : cs[c].parents \subseteq 1..(c - 1)

\* Tags a caller may have read.
ReadableTags(w) ==
  IsFiniteSet(w.tags) /\ \A t \in w.tags : t.version \in Semantic

\* The decision to release these changes up to this head.
Carried(w, changes, head, withheld) ==
  [kind |-> "release", bump |-> Bump(w, changes), changes |-> changes,
   head |-> head, withheld |-> withheld]

\* What a commit reaches, the release-worthy part of a range, and the names
\* a range may be given by.
Anc(c) == Ancestry(World(1), c)
WorthySpan(s, t) == {c \in Span(World(1), s, t) : Worthy(World(1), c)}
Names == DOMAIN commits \cup {NoCommit}

\* The repository: an ordered history with every head in it.
HistoryInv ==
  /\ IsHistory(commits)
  /\ \E S : commits \in Seq(S)
  /\ heads \in [Lines -> DOMAIN commits]

\* The policy in force.
PolicyInv ==
  policy \in [lifecycle : [Lines -> {"active", "frozen"}],
              withhold : [Lines -> SUBSET {"held"}],
              bootstrap : Semantic \cup {NoBootstrap}]

\* The observed tags are finitely many, and of versions and commits.
TagsInv ==
  /\ IsFiniteSet(tags)
  /\ \A t \in tags : t.version \in Semantic /\ t.commit \in DOMAIN commits

\* The tags of the line's history: Admitted of the whole world.
Admits(l) == {t \in tags : t.name = "bare" /\ BandAdmits(l, t.version)}

\* Where the line's range starts before its first release.
BaseUpTo(l) == ReleasedUpTo([tags |-> Baseline.tags], l)

\* A run names a range of the history and carries only release-worthy
\* changes of it, all of them unless its head was pinned; a promotion carries
\* none and leaves none.
Sound(r) ==
  /\ r.version \in Semantic
  /\ r.target \in DOMAIN commits
  /\ r.since \in Names
  /\ r.changes \subseteq WorthySpan(r.since, r.target)
  /\ r.head = r.target => r.changes = WorthySpan(r.since, r.target)
  /\ r.promotion /\ ~r.asked =>
        /\ WorthySpan(r.since, r.target) = {}
        /\ \E t \in tags : /\ t.commit = r.since
                           /\ IsPrerelease(t.version)
                           /\ t.version.core = r.version.core

\* What a plan of the line knows of the line's history: its version is above
\* all of it, and its range starts at the highest of it.
Grounded(l, r) ==
  /\ Sound(r)
  /\ r.after = Len(releases)
  /\ r.target = heads[l]
  /\ ~r.asked => \A t \in Admits(l) : Below(t.version, r.version)
  /\ r.since = ReleasedUpTo(World(1), l)
  /\ Admits(l) # {} =>
        \E t \in Admits(l) :
           /\ r.since = t.commit
           /\ \A u \in Admits(l) : u.version = t.version \/ Below(u.version, t.version)

\* The runs of a line, in flight and minted, and those of all lines.
Planned(l) == runs[l] \cup {Run(i) : i \in Of(l)}
InPlay == UNION {Planned(l) : l \in Lines}

\* The releases of the line there were when the run was planned.
Before(l, r) == {i \in Of(l) : i <= r.after}

\* Every tag that was not there at the start is a release of some line.
LogInv ==
  /\ \E S : releases \in Seq(S)
  /\ \A i \in DOMAIN releases : releases[i].line \in Lines
  /\ runs = [l \in Lines |-> runs[l]]
  /\ tags = Baseline.tags \cup
            {[name |-> Format[releases[i].line], version |-> Run(i).version,
              commit |-> Run(i).target] : i \in DOMAIN releases}

\* A run was planned before now, and a release before it was minted.
AfterInv ==
  /\ \A r \in InPlay : r.after \in Nat /\ r.after <= Len(releases)
  /\ \A i \in DOMAIN releases : Run(i).after < i

\* The version is above what the line was released at in the beginning.
Tops(l, v) ==
  \A t \in Baseline.tags : t.name = "bare" /\ BandAdmits(l, t.version) => Below(t.version, v)

\* A run is above all the line's history held when it was planned.
Rising(l) ==
  \A r \in Planned(l) : ~r.asked =>
     /\ Tops(l, r.version)
     /\ \A i \in DOMAIN releases :
           i <= r.after /\ Format[releases[i].line] = "bare" /\ BandAdmits(l, Run(i).version) =>
              Below(Run(i).version, r.version)

\* A line's head reaches every target the line was planned at, and a target
\* the ones minted before it was planned.
Following(l) ==
  \A h \in DOMAIN commits : \A r \in Planned(l) :
     /\ h = heads[l] => r.target \in Anc(h)
     /\ h = r.target => \A i \in Before(l, r) : Run(i).target \in Anc(h)

\* A run starts where the line's highest release ended of those there were
\* when it was planned, or where the line started.
SinceLast(l) ==
  Orderly(l) /\ Alone(l) => \A r \in Planned(l) :
     \/ Before(l, r) = {} /\ r.since = BaseUpTo(l)
     \/ \E k \in Before(l, r) :
           /\ r.since = Run(k).target
           /\ \A i \in Before(l, r) :
                 Run(i).version = Run(k).version \/ Below(Run(i).version, Run(k).version)

\* No two releases of a line whose releases follow one another carry one
\* change.
Once(l) ==
  Orderly(l) /\ Alone(l) /\ Sequential(l) =>
     \A i, j \in Of(l) : i # j => Run(i).changes \cap Run(j).changes = {}

\* What the releases of a line contain beyond where it started, they carried.
Kept(l) ==
  Orderly(l) /\ Alone(l) =>
     \A i \in Of(l) :
        (\A j \in Of(l) : j <= i => Run(j).head = Run(j).target) =>
           \A s, t \in Names :
              s = BaseUpTo(l) /\ t = Run(i).target =>
                 \A c \in WorthySpan(s, t) : \E j \in Of(l) : j <= i /\ c \in Run(j).changes

\* Every run is sound.
AllSound == \A r \in InPlay : Sound(r)

\* The inductive invariant.
IInv ==
  /\ HistoryInv /\ PolicyInv /\ TagsInv /\ LogInv /\ AfterInv /\ AllSound
  /\ \A l \in Lines : /\ Rising(l) /\ Following(l) /\ SinceLast(l)
                      /\ Once(l) /\ Kept(l)

-----------------------------------------------------------------------------
(* The order of versions.                                                  *)

\* Three numbers are compared from the left.
LEMMA CoreUnfolds ==
  ASSUME NEW x \in Nat \X Nat \X Nat, NEW y \in Nat \X Nat \X Nat
  PROVE  Precedes(x, y) <=>
            \/ x[1] < y[1]
            \/ x[1] = y[1] /\ x[2] < y[2]
            \/ x[1] = y[1] /\ x[2] = y[2] /\ x[3] < y[3]
  <1>1. PICK a \in Nat, b \in Nat, c \in Nat : x = <<a, b, c>>
    OBVIOUS
  <1>2. PICK d \in Nat, e \in Nat, f \in Nat : y = <<d, e, f>>
    OBVIOUS
  <1>3. Len(x) = 3 /\ Len(y) = 3
    BY <1>1, <1>2
  <1>4. 1..Len(x) \cap 1..Len(y) = {1, 2, 3}
    BY <1>3
  <1>5. 1..(1 - 1) = {} /\ 1..(2 - 1) = {1} /\ 1..(3 - 1) = {1, 2}
    OBVIOUS
  <1> QED
    BY <1>1, <1>2, <1>3, <1>4, <1>5 DEF Precedes

\* So are a stream and its sequence.
LEMMA PreUnfolds ==
  ASSUME NEW x \in Nat \X Nat, NEW y \in Nat \X Nat
  PROVE  Precedes(x, y) <=> x[1] < y[1] \/ (x[1] = y[1] /\ x[2] < y[2])
  <1>1. PICK a \in Nat, b \in Nat : x = <<a, b>>
    OBVIOUS
  <1>2. PICK d \in Nat, e \in Nat : y = <<d, e>>
    OBVIOUS
  <1>3. Len(x) = 2 /\ Len(y) = 2
    BY <1>1, <1>2
  <1>4. 1..Len(x) \cap 1..Len(y) = {1, 2}
    BY <1>3
  <1>5. 1..(1 - 1) = {} /\ 1..(2 - 1) = {1}
    OBVIOUS
  <1>6. Precedes(x, y) <=> \E i \in {1, 2} :
                              x[i] < y[i] /\ \A j \in 1..(i - 1) : x[j] = y[j]
    BY <1>3, <1>4 DEF Precedes
  <1>7. Precedes(x, y) <=> \/ x[1] < y[1] /\ \A j \in 1..(1 - 1) : x[j] = y[j]
                           \/ x[2] < y[2] /\ \A j \in 1..(2 - 1) : x[j] = y[j]
    BY <1>6
  <1> QED
    BY <1>5, <1>7

\* Cores are strictly and totally ordered.
LEMMA CoreOrder ==
  ASSUME NEW x \in Nat \X Nat \X Nat, NEW y \in Nat \X Nat \X Nat,
         NEW z \in Nat \X Nat \X Nat
  PROVE  /\ ~Precedes(x, x)
         /\ Precedes(x, y) /\ Precedes(y, z) => Precedes(x, z)
         /\ Precedes(x, y) \/ x = y \/ Precedes(y, x)
  <1>1. /\ x[1] \in Nat /\ x[2] \in Nat /\ x[3] \in Nat
        /\ y[1] \in Nat /\ y[2] \in Nat /\ y[3] \in Nat
        /\ z[1] \in Nat /\ z[2] \in Nat /\ z[3] \in Nat
    OBVIOUS
  <1>2. x[1] = y[1] /\ x[2] = y[2] /\ x[3] = y[3] => x = y
    OBVIOUS
  <1>3. ~Precedes(x, x)
    BY <1>1, CoreUnfolds
  <1>4. Precedes(x, y) /\ Precedes(y, z) => Precedes(x, z)
    BY <1>1, CoreUnfolds
  <1>5. Precedes(x, y) \/ x = y \/ Precedes(y, x)
    BY <1>1, <1>2, CoreUnfolds
  <1> QED
    BY <1>3, <1>4, <1>5

\* So are prereleases.
LEMMA PreOrder ==
  ASSUME NEW x \in Nat \X Nat, NEW y \in Nat \X Nat, NEW z \in Nat \X Nat
  PROVE  /\ ~Precedes(x, x)
         /\ Precedes(x, y) /\ Precedes(y, z) => Precedes(x, z)
         /\ Precedes(x, y) \/ x = y \/ Precedes(y, x)
  <1>1. /\ x[1] \in Nat /\ x[2] \in Nat
        /\ y[1] \in Nat /\ y[2] \in Nat
        /\ z[1] \in Nat /\ z[2] \in Nat
    OBVIOUS
  <1>2. x[1] = y[1] /\ x[2] = y[2] => x = y
    OBVIOUS
  <1>3. ~Precedes(x, x)
    BY <1>1, PreUnfolds
  <1>4. Precedes(x, y) /\ Precedes(y, z) => Precedes(x, z)
    BY <1>1, PreUnfolds
  <1>5. Precedes(x, y) \/ x = y \/ Precedes(y, x)
    <2>1. Precedes(x, y) <=> x[1] < y[1] \/ (x[1] = y[1] /\ x[2] < y[2])
      BY PreUnfolds
    <2>2. Precedes(y, x) <=> y[1] < x[1] \/ (y[1] = x[1] /\ y[2] < x[2])
      BY PreUnfolds
    <2> QED
      BY <1>1, <1>2, <2>1, <2>2
  <1> QED
    BY <1>3, <1>4, <1>5

\* And so are versions.
LEMMA VersionOrder ==
  ASSUME NEW u \in Semantic, NEW v \in Semantic, NEW x \in Semantic
  PROVE  /\ ~Below(v, v)
         /\ Below(u, v) /\ Below(v, x) => Below(u, x)
         /\ Below(u, v) \/ u = v \/ Below(v, u)
  <1>1. /\ u.core \in Nat \X Nat \X Nat /\ u.pre \in {<< >>} \cup (Nat \X Nat)
        /\ v.core \in Nat \X Nat \X Nat /\ v.pre \in {<< >>} \cup (Nat \X Nat)
        /\ x.core \in Nat \X Nat \X Nat /\ x.pre \in {<< >>} \cup (Nat \X Nat)
    BY DEF Semantic
  <1>2. u.core = v.core /\ u.pre = v.pre => u = v
    BY DEF Semantic
  <1>3. \A p \in Nat \X Nat \X Nat, q \in Nat \X Nat \X Nat, r \in Nat \X Nat \X Nat :
            /\ ~Precedes(p, p)
            /\ Precedes(p, q) /\ Precedes(q, r) => Precedes(p, r)
            /\ Precedes(p, q) \/ p = q \/ Precedes(q, p)
    BY CoreOrder
  <1>4. \A p \in Nat \X Nat, q \in Nat \X Nat, r \in Nat \X Nat :
            /\ ~Precedes(p, p)
            /\ Precedes(p, q) /\ Precedes(q, r) => Precedes(p, r)
            /\ Precedes(p, q) \/ p = q \/ Precedes(q, p)
    BY PreOrder
  <1>5. ~Below(v, v)
    BY <1>1, <1>3, <1>4 DEF Below, IsPrerelease
  <1>6. Below(u, v) /\ Below(v, x) => Below(u, x)
    BY <1>1, <1>3, <1>4 DEF Below, IsPrerelease
  <1>7. Below(u, v) \/ u = v \/ Below(v, u)
    BY <1>1, <1>2, <1>3, <1>4 DEF Below, IsPrerelease
  <1> QED
    BY <1>5, <1>6, <1>7

\* A nonempty set of naturals has a least element.
LEMMA LeastIs ==
  ASSUME NEW S, S # {}, S \subseteq Nat
  PROVE  \E n \in S : \A m \in S : n <= m
  <1>1. IsWellFoundedOn(OpToRel(<, Nat), Nat)
    BY NatLessThanWellFounded
  <1>2. PICK n \in S : \A m \in S : ~(<<m, n>> \in OpToRel(<, Nat))
    BY <1>1, WFMin
  <1>3. \A m \in S : ~(m < n)
    BY <1>2 DEF OpToRel
  <1> QED
    BY <1>3

\* A finite nonempty set has a maximal element of every strict order.
LEMMA Maximal ==
  ASSUME NEW S, IsFiniteSet(S), S # {}, NEW R,
         \A v \in S : <<v, v>> \notin R,
         \A u, v, x \in S : <<u, v>> \in R /\ <<v, x>> \in R => <<u, x>> \in R
  PROVE  \E v \in S : \A x \in S : <<v, x>> \notin R
  <1> DEFINE Above(v) == {x \in S : <<v, x>> \in R}
             T == {Cardinality(Above(v)) : v \in S}
  <1>1. \A v \in S : IsFiniteSet(Above(v)) /\ Cardinality(Above(v)) \in Nat
    <2> TAKE v \in S
    <2>1. Above(v) \in SUBSET S
      OBVIOUS
    <2>2. IsFiniteSet(Above(v))
      BY <2>1, FS_Subset
    <2> QED
      BY <2>2, FS_CardinalityType
  <1>2. T \subseteq Nat /\ T # {}
    <2> HIDE DEF Above
    <2> QED
      BY <1>1
  <1>4. PICK n \in T : \A m \in T : n <= m
    <2> HIDE DEF T
    <2> QED
      BY <1>2, LeastIs
  <1>5. PICK v \in S : n = Cardinality(Above(v))
    OBVIOUS
  <1>6. ASSUME NEW x \in S, <<v, x>> \in R
        PROVE  FALSE
    <2>1. Above(x) \in SUBSET Above(v)
      BY <1>6
    <2>2. x \in Above(v) /\ x \notin Above(x)
      BY <1>6
    <2>3. /\ Cardinality(Above(x)) <= Cardinality(Above(v))
          /\ Cardinality(Above(v)) = Cardinality(Above(x)) => Above(v) = Above(x)
      <3> HIDE DEF Above
      <3> QED
        BY <1>1, <2>1, FS_Subset
    <2>4. Cardinality(Above(x)) # Cardinality(Above(v))
      BY <2>2, <2>3
    <2>5. Cardinality(Above(x)) < Cardinality(Above(v))
      <3> HIDE DEF Above
      <3> QED
        BY <1>1, <2>3, <2>4
    <2>6. Cardinality(Above(x)) \in T
      OBVIOUS
    <2>7. Cardinality(Above(v)) <= Cardinality(Above(x))
      BY <1>4, <1>5, <2>6
    <2>8. Cardinality(Above(v)) \in Nat /\ Cardinality(Above(x)) \in Nat
      BY <1>1
    <2> HIDE DEF Above
    <2> QED
      BY <2>5, <2>7, <2>8
  <1> QED
    BY <1>6

\* Highest is what it says.
LEMMA HighestIs ==
  ASSUME NEW S, IsFiniteSet(S), S # {}, S \subseteq Semantic
  PROVE  /\ Highest(S) \in S
         /\ \A v \in S : v = Highest(S) \/ Below(v, Highest(S))
  <1> DEFINE R == {p \in S \X S : Below(p[1], p[2])}
  <1>1. \A v \in S : <<v, v>> \notin R
    BY VersionOrder
  <1>2. \A u, v, x \in S : <<u, v>> \in R /\ <<v, x>> \in R => <<u, x>> \in R
    BY VersionOrder
  <1>3. \E v \in S : \A x \in S : <<v, x>> \notin R
    <2> HIDE DEF R
    <2> QED
      BY <1>1, <1>2, Maximal
  <1>4. \E v \in S : \A x \in S : ~Below(v, x)
    BY <1>3
  <1>5. Highest(S) \in S /\ \A x \in S : ~Below(Highest(S), x)
    BY <1>4 DEF Highest
  <1> QED
    BY <1>5, VersionOrder

\* A finite nonempty set of naturals has a greatest element.
LEMMA GreatestIs ==
  ASSUME NEW S, IsFiniteSet(S), S # {}, S \subseteq Nat
  PROVE  \E n \in S : \A m \in S : m <= n
  <1> DEFINE R == {p \in S \X S : p[1] < p[2]}
  <1>1. \A v \in S : <<v, v>> \notin R
    OBVIOUS
  <1>2. \A u, v, x \in S : <<u, v>> \in R /\ <<v, x>> \in R => <<u, x>> \in R
    OBVIOUS
  <1>3. \E v \in S : \A x \in S : <<v, x>> \notin R
    <2> HIDE DEF R
    <2> QED
      BY <1>1, <1>2, Maximal
  <1>4. PICK v \in S : \A x \in S : ~(v < x)
    BY <1>3
  <1>5. \A x \in S : x <= v
    BY <1>4
  <1> QED
    BY <1>5

\* A patch bump is a stable version above its base, and above a prerelease
\* that prerelease's own target.
LEMMA PatchIsAbove ==
  ASSUME NEW v \in Semantic
  PROVE  /\ BumpPatch(v) \in Semantic
         /\ ~IsPrerelease(BumpPatch(v))
         /\ Below(v, BumpPatch(v))
         /\ IsPrerelease(v) => BumpPatch(v).core = v.core
  <1>1. /\ v.core \in Nat \X Nat \X Nat /\ v.pre \in {<< >>} \cup (Nat \X Nat)
        /\ v = [core |-> v.core, pre |-> v.pre]
    BY DEF Semantic
  <1>2. CASE IsPrerelease(v)
    <2>1. BumpPatch(v) = [core |-> v.core, pre |-> << >>]
      BY <1>1, <1>2 DEF BumpPatch
    <2> QED
      BY <1>1, <1>2, <2>1 DEF Semantic, IsPrerelease, Below
  <1>3. CASE ~IsPrerelease(v)
    <2> DEFINE c == <<v.core[1], v.core[2], v.core[3] + 1>>
    <2>1. c \in Nat \X Nat \X Nat /\ c[1] = v.core[1] /\ c[2] = v.core[2]
          /\ c[3] = v.core[3] + 1
      BY <1>1
    <2>2. BumpPatch(v) = [core |-> c, pre |-> << >>]
      BY <1>3 DEF BumpPatch, Version
    <2> HIDE DEF c
    <2>3. v.core[3] \in Nat
      BY <1>1
    <2>4. Precedes(v.core, c)
      BY <1>1, <2>1, <2>3, CoreUnfolds
    <2> QED
      BY <1>1, <1>3, <2>1, <2>2, <2>4 DEF Semantic, IsPrerelease, Below
  <1> QED
    BY <1>2, <1>3

\* A bump of a stable version is above it.
LEMMA BumpIsAbove ==
  ASSUME NEW v \in Semantic, NEW bump \in {"major", "minor", "patch"}
  PROVE  /\ ApplyBump(v, bump) \in Semantic
         /\ ~IsPrerelease(v) => Below(v, ApplyBump(v, bump))
  <1>1. /\ v.core \in Nat \X Nat \X Nat /\ v.pre \in {<< >>} \cup (Nat \X Nat)
        /\ v = [core |-> v.core, pre |-> v.pre]
    BY DEF Semantic
  <1>a. v.core[1] \in Nat /\ v.core[2] \in Nat /\ v.core[3] \in Nat
    BY <1>1
  <1>2. CASE bump = "major"
    <2> DEFINE c == <<v.core[1] + 1, 0, 0>>
    <2>1. c \in Nat \X Nat \X Nat /\ c[1] = v.core[1] + 1
      BY <1>1
    <2>2. ApplyBump(v, bump) = [core |-> c, pre |-> << >>]
      BY <1>2 DEF ApplyBump, Version, Major
    <2> HIDE DEF c
    <2>4. Precedes(v.core, c)
      BY <1>1, <1>a, <2>1, CoreUnfolds
    <2> QED
      BY <1>1, <2>1, <2>2, <2>4 DEF Semantic, IsPrerelease, Below
  <1>3. CASE bump = "minor"
    <2> DEFINE c == <<v.core[1], v.core[2] + 1, 0>>
    <2>1. c \in Nat \X Nat \X Nat /\ c[1] = v.core[1] /\ c[2] = v.core[2] + 1
      BY <1>1
    <2>2. ApplyBump(v, bump) = [core |-> c, pre |-> << >>]
      BY <1>3 DEF ApplyBump, Version, Major
    <2> HIDE DEF c
    <2>4. Precedes(v.core, c)
      BY <1>1, <1>a, <2>1, CoreUnfolds
    <2> QED
      BY <1>1, <2>1, <2>2, <2>4 DEF Semantic, IsPrerelease, Below
  <1>4. CASE bump = "patch"
    <2>1. ApplyBump(v, bump) = BumpPatch(v)
      BY <1>4 DEF ApplyBump
    <2> QED
      BY <2>1, PatchIsAbove
  <1> QED
    BY <1>2, <1>3, <1>4

-----------------------------------------------------------------------------
(* Ancestry.                                                               *)

\* What a commit reaches is the commit and what its parents reach: the
\* recursive definition has a solution, one length of history at a time.
LEMMA ReachesUnfolds ==
  ASSUME NEW w, IsHistory(w.commits)
  PROVE  /\ DOMAIN Reaches(w) = Commits(w)
         /\ \A n \in Commits(w) :
               Reaches(w)[n] = {n} \cup UNION {Reaches(w)[p] : p \in w.commits[n].parents}
  <1> DEFINE N == Len(w.commits)
             Solves(f, m) ==
               f = [n \in 1..m |-> {n} \cup UNION {f[p] : p \in w.commits[n].parents}]
             Bad == {m \in 0..N : ~ \E f : Solves(f, m)}
  <1>1. N \in Nat /\ Commits(w) = 1..N
        /\ \A c \in 1..N : w.commits[c].parents \subseteq 1..(c - 1)
    BY DEF IsHistory, Commits
  <1>2. Bad = {}
    <2> SUFFICES ASSUME Bad # {} PROVE FALSE
      OBVIOUS
    <2>1. Bad \subseteq Nat
      BY <1>1
    <2>2. PICK m \in Bad : \A k \in Bad : m <= k
      <3> HIDE DEF Bad
      <3> QED
        BY <2>1, LeastIs
    <2>3. CASE m = 0
      <3>1. Solves([n \in 1..0 |-> {}], 0)
        OBVIOUS
      <3> QED
        BY <2>3, <3>1
    <2>4. CASE m # 0
      <3>1. m \in 1..N /\ m - 1 \in 0..N /\ m - 1 < m
        BY <1>1, <2>4
      <3>2. m - 1 \notin Bad
        <4>1. m \in Nat /\ ~(m <= m - 1)
          BY <3>1
        <4> HIDE DEF Bad
        <4> QED
          BY <2>2, <4>1
      <3>3. PICK f : Solves(f, m - 1)
        BY <3>1, <3>2
      <3> DEFINE g == [n \in 1..m |->
                         IF n = m THEN {m} \cup UNION {f[p] : p \in w.commits[m].parents}
                         ELSE f[n]]
      <3>4. \A n \in 1..m : w.commits[n].parents \subseteq 1..(m - 1)
        BY <1>1, <3>1
      <3>5. \A n \in 1..m : \A p \in w.commits[n].parents : g[p] = f[p]
        <4> TAKE n \in 1..m
        <4> TAKE p \in w.commits[n].parents
        <4>1. p \in 1..(m - 1)
          BY <3>4
        <4>2. p \in 1..m /\ p # m
          BY <3>1, <4>1
        <4> QED
          BY <4>2
      <3>6. \A n \in 1..m : {g[p] : p \in w.commits[n].parents}
                            = {f[p] : p \in w.commits[n].parents}
        <4> HIDE DEF g
        <4> QED
          BY <3>5
      <3>7. \A n \in 1..m : g[n] = {n} \cup UNION {f[p] : p \in w.commits[n].parents}
        <4> TAKE n \in 1..m
        <4>1. CASE n = m
          BY <4>1
        <4>2. CASE n # m
          <5>1. n \in 1..(m - 1)
            BY <3>1, <4>2
          <5> QED
            BY <3>3, <4>2, <5>1
        <4> QED
          BY <4>1, <4>2
      <3>8. Solves(g, m)
        <4>1. g = [n \in 1..m |-> g[n]]
          OBVIOUS
        <4> HIDE DEF g
        <4> QED
          BY <3>6, <3>7, <4>1
      <3> QED
        BY <3>8
    <2> QED
      BY <2>3, <2>4
  <1>a. \A m \in 0..N : \E f : Solves(f, m)
    <2> TAKE m \in 0..N
    <2>1. m \notin Bad
      BY <1>2
    <2> HIDE DEF Solves
    <2> QED
      BY <2>1
  <1>3. PICK f : Solves(f, N)
    <2>1. N \in 0..N
      BY <1>1
    <2> HIDE DEF Solves, N
    <2> QED
      BY <1>a, <2>1
  <1>4. f = [n \in Commits(w) |-> {n} \cup UNION {f[p] : p \in w.commits[n].parents}]
    BY <1>1, <1>3
  <1>5. Reaches(w) = [n \in Commits(w) |->
                        {n} \cup UNION {Reaches(w)[p] : p \in w.commits[n].parents}]
    BY <1>4 DEF Reaches
  <1> QED
    BY <1>5

\* A commit reaches itself and only older ones.
LEMMA ReachesOlder ==
  ASSUME NEW w, IsHistory(w.commits)
  PROVE  \A n \in Commits(w) : n \in Reaches(w)[n] /\ Reaches(w)[n] \subseteq 1..n
  <1> DEFINE Bad == {n \in Commits(w) : ~(Reaches(w)[n] \subseteq 1..n)}
  <1>1. Commits(w) = 1..Len(w.commits) /\ Len(w.commits) \in Nat
    BY DEF IsHistory, Commits
  <1>2. Bad = {}
    <2> SUFFICES ASSUME Bad # {} PROVE FALSE
      OBVIOUS
    <2>1. Bad \subseteq Nat
      BY <1>1
    <2>2. PICK n \in Bad : \A k \in Bad : n <= k
      <3> HIDE DEF Bad
      <3> QED
        BY <2>1, LeastIs
    <2>3. n \in Commits(w) /\ w.commits[n].parents \subseteq 1..(n - 1)
      BY <1>1 DEF IsHistory
    <2>4. \A p \in w.commits[n].parents : Reaches(w)[p] \subseteq 1..n
      <3> TAKE p \in w.commits[n].parents
      <3>1. p \in Commits(w) /\ p < n /\ p \in Nat /\ n \in Nat
        BY <1>1, <2>3
      <3>2. p \notin Bad
        <4> HIDE DEF Bad
        <4> QED
          BY <2>2, <3>1
      <3>3. Reaches(w)[p] \subseteq 1..p
        BY <3>1, <3>2
      <3> QED
        BY <3>1, <3>3
    <2>5. Reaches(w)[n] = {n} \cup UNION {Reaches(w)[p] : p \in w.commits[n].parents}
      BY <2>3, ReachesUnfolds
    <2>6. n \in 1..n
      BY <1>1
    <2>7. Reaches(w)[n] \subseteq 1..n
      BY <2>4, <2>5, <2>6
    <2> QED
      BY <2>7
  <1>3. \A n \in Commits(w) : n \in Reaches(w)[n]
    BY ReachesUnfolds
  <1> QED
    BY <1>2, <1>3

\* A set that holds the parents of its members holds all they reach.
LEMMA ReachesClosed ==
  ASSUME NEW w, IsHistory(w.commits), NEW S \in SUBSET Commits(w),
         \A c \in S : w.commits[c].parents \subseteq S
  PROVE  \A n \in S : Reaches(w)[n] \subseteq S
  <1> DEFINE Bad == {n \in S : ~(Reaches(w)[n] \subseteq S)}
  <1>1. Commits(w) = 1..Len(w.commits) /\ Len(w.commits) \in Nat
    BY DEF IsHistory, Commits
  <1>2. Bad = {}
    <2> SUFFICES ASSUME Bad # {} PROVE FALSE
      OBVIOUS
    <2>1. Bad \subseteq Nat
      BY <1>1
    <2>2. PICK n \in Bad : \A k \in Bad : n <= k
      <3> HIDE DEF Bad
      <3> QED
        BY <2>1, LeastIs
    <2>3. n \in Commits(w) /\ w.commits[n].parents \subseteq 1..(n - 1)
      BY <1>1 DEF IsHistory
    <2>4. \A p \in w.commits[n].parents : Reaches(w)[p] \subseteq S
      <3> TAKE p \in w.commits[n].parents
      <3>1. p \in S /\ p < n /\ p \in Nat /\ n \in Nat
        BY <1>1, <2>3
      <3>2. p \notin Bad
        <4> HIDE DEF Bad
        <4> QED
          BY <2>2, <3>1
      <3> QED
        BY <3>1, <3>2
    <2>5. Reaches(w)[n] = {n} \cup UNION {Reaches(w)[p] : p \in w.commits[n].parents}
      BY <2>3, ReachesUnfolds
    <2>7. Reaches(w)[n] \subseteq S
      BY <2>4, <2>5
    <2> QED
      BY <2>7
  <1> QED
    BY <1>2

\* To reach is transitive.
LEMMA ReachesTransitive ==
  ASSUME NEW w, IsHistory(w.commits), NEW n \in Commits(w), NEW c \in Reaches(w)[n]
  PROVE  c \in Commits(w) /\ Reaches(w)[c] \subseteq Reaches(w)[n]
  <1> DEFINE Bad == {k \in Commits(w) : \E d \in Reaches(w)[k] :
                                          ~(Reaches(w)[d] \subseteq Reaches(w)[k])}
  <1>1. Commits(w) = 1..Len(w.commits) /\ Len(w.commits) \in Nat
    BY DEF IsHistory, Commits
  <1>2. Bad = {}
    <2> SUFFICES ASSUME Bad # {} PROVE FALSE
      OBVIOUS
    <2>1. Bad \subseteq Nat
      BY <1>1
    <2>2. PICK k \in Bad : \A j \in Bad : k <= j
      <3> HIDE DEF Bad
      <3> QED
        BY <2>1, LeastIs
    <2>3. k \in Commits(w) /\ w.commits[k].parents \subseteq 1..(k - 1)
      BY <1>1 DEF IsHistory
    <2>4. Reaches(w)[k] = {k} \cup UNION {Reaches(w)[p] : p \in w.commits[k].parents}
      BY <2>3, ReachesUnfolds
    <2>5. \A p \in w.commits[k].parents : \A d \in Reaches(w)[p] :
             Reaches(w)[d] \subseteq Reaches(w)[p]
      <3> TAKE p \in w.commits[k].parents
      <3>1. p \in Commits(w) /\ p < k /\ p \in Nat /\ k \in Nat
        BY <1>1, <2>3
      <3>2. p \notin Bad
        <4> HIDE DEF Bad
        <4> QED
          BY <2>2, <3>1
      <3> QED
        BY <3>1, <3>2
    <2>6. \A d \in Reaches(w)[k] : Reaches(w)[d] \subseteq Reaches(w)[k]
      <3> TAKE d \in Reaches(w)[k]
      <3>1. CASE d = k
        BY <3>1
      <3>2. CASE d # k
        <4>1. PICK p \in w.commits[k].parents : d \in Reaches(w)[p]
          BY <2>4, <3>2
        <4>2. Reaches(w)[d] \subseteq Reaches(w)[p]
          BY <2>5, <4>1
        <4>3. Reaches(w)[p] \subseteq Reaches(w)[k]
          BY <2>4
        <4> QED
          BY <4>2, <4>3
      <3> QED
        BY <3>1, <3>2
    <2> QED
      BY <2>6
  <1>3. Reaches(w)[n] \subseteq 1..n
    BY ReachesOlder
  <1>4. c \in Commits(w)
    BY <1>1, <1>3
  <1> QED
    BY <1>2, <1>4

\* What a commit reaches does not change as the history grows.
LEMMA ReachesGrows ==
  ASSUME NEW w, NEW x, IsHistory(w.commits), IsHistory(x.commits),
         Commits(w) \subseteq Commits(x),
         \A c \in Commits(w) : x.commits[c] = w.commits[c]
  PROVE  \A n \in Commits(w) : Reaches(x)[n] = Reaches(w)[n]
  <1> DEFINE Bad == {n \in Commits(w) : Reaches(x)[n] # Reaches(w)[n]}
  <1>1. Commits(w) = 1..Len(w.commits) /\ Len(w.commits) \in Nat
    BY DEF IsHistory, Commits
  <1>2. Bad = {}
    <2> SUFFICES ASSUME Bad # {} PROVE FALSE
      OBVIOUS
    <2>1. Bad \subseteq Nat
      BY <1>1
    <2>2. PICK n \in Bad : \A k \in Bad : n <= k
      <3> HIDE DEF Bad
      <3> QED
        BY <2>1, LeastIs
    <2>3. n \in Commits(w) /\ w.commits[n].parents \subseteq 1..(n - 1)
      BY <1>1 DEF IsHistory
    <2>4. \A p \in w.commits[n].parents : Reaches(x)[p] = Reaches(w)[p]
      <3> TAKE p \in w.commits[n].parents
      <3>1. p \in Commits(w) /\ p < n /\ p \in Nat /\ n \in Nat
        BY <1>1, <2>3
      <3>2. p \notin Bad
        <4> HIDE DEF Bad
        <4> QED
          BY <2>2, <3>1
      <3> QED
        BY <3>1, <3>2
    <2>5. Reaches(w)[n] = {n} \cup UNION {Reaches(w)[p] : p \in w.commits[n].parents}
      BY <2>3, ReachesUnfolds
    <2>6. Reaches(x)[n] = {n} \cup UNION {Reaches(x)[p] : p \in x.commits[n].parents}
      BY <2>3, ReachesUnfolds
    <2>7. x.commits[n].parents = w.commits[n].parents
      BY <2>3
    <2>8. {Reaches(x)[p] : p \in x.commits[n].parents}
          = {Reaches(w)[p] : p \in w.commits[n].parents}
      BY <2>4, <2>7
    <2>9. Reaches(x)[n] = Reaches(w)[n]
      BY <2>5, <2>6, <2>8
    <2> QED
      BY <2>9
  <1> QED
    BY <1>2

-----------------------------------------------------------------------------
(* A line's plan.                                                          *)

\* A line's history has finitely many versions.
LEMMA VersionsAre ==
  ASSUME NEW w, NEW l, ReadableTags(w)
  PROVE  IsFiniteSet(Versions(w, l)) /\ Versions(w, l) \subseteq Semantic
  <1> DEFINE A == Admitted(w, l)
             f == [t \in A |-> t.version]
  <1>1. A \in SUBSET w.tags
    BY DEF Admitted
  <1>2. IsFiniteSet(A)
    BY <1>1, FS_Subset DEF ReadableTags
  <1>3. Versions(w, l) = {t.version : t \in A}
    BY DEF Versions
  <1>4. f \in Surjection(A, Versions(w, l))
    BY <1>3 DEF Surjection
  <1>5. IsFiniteSet(Versions(w, l))
    <2> HIDE DEF f, A
    <2> QED
      BY <1>2, <1>4, FS_Surjection
  <1> QED
    BY <1>1, <1>3, <1>5 DEF ReadableTags

\* The pointer is the highest version of the line's history, and the range
\* starts at its tag.
LEMMA PointerIs ==
  ASSUME NEW w, NEW l, ReadableTags(w), Released(w, l)
  PROVE  /\ Pointer(w, l) \in Versions(w, l) /\ Pointer(w, l) \in Semantic
         /\ \A v \in Versions(w, l) : v = Pointer(w, l) \/ Below(v, Pointer(w, l))
         /\ \E t \in Admitted(w, l) : t.version = Pointer(w, l) /\ t.commit = ReleasedUpTo(w, l)
  <1>1. IsFiniteSet(Versions(w, l)) /\ Versions(w, l) \subseteq Semantic
    BY VersionsAre
  <1>2. /\ Pointer(w, l) \in Versions(w, l)
        /\ \A v \in Versions(w, l) : v = Pointer(w, l) \/ Below(v, Pointer(w, l))
    BY <1>1, HighestIs DEF Pointer, Released
  <1>3. \E t \in Admitted(w, l) : t.version = Pointer(w, l)
    BY <1>2 DEF Versions
  <1>4. \E t \in Admitted(w, l) : t.version = Pointer(w, l) /\ t.commit = ReleasedUpTo(w, l)
    BY <1>3 DEF ReleasedUpTo
  <1> QED
    BY <1>1, <1>2, <1>4

\* The largest of some bumps is a bump.
LEMMA MaxBumpIs ==
  ASSUME NEW S
  PROVE  MaxBump(S) \in {"major", "minor", "patch"}
  BY DEF MaxBump

\* A dampened bump is a bump.
LEMMA DampenedIs ==
  ASSUME NEW bump \in {"major", "minor", "patch"}, NEW base
  PROVE  Dampened(bump, base) \in {"major", "minor", "patch"}
  BY DEF Dampened

\* The stable version a release computes is above the pointer.
LEMMA ComputedIs ==
  ASSUME NEW w, NEW l, ReadableTags(w), Released(w, l),
         NEW bump \in {"major", "minor", "patch", "promotion"},
         bump = "promotion" => IsPrerelease(Pointer(w, l))
  PROVE  /\ ComputedStable(w, l, bump) \in Semantic
         /\ Below(Pointer(w, l), ComputedStable(w, l, bump))
         /\ bump = "promotion" => ComputedStable(w, l, bump) = BumpPatch(Pointer(w, l))
  <1> DEFINE pointer == Pointer(w, l)
             base == IF StableVersions(w, l) = {} THEN Version(0, 0, 0)
                     ELSE Highest(StableVersions(w, l))
             bumped == ApplyBump(base, Dampened(bump, base))
  <1>1. pointer \in Semantic
    BY PointerIs
  <1>2. base \in Semantic
    <2>1. CASE StableVersions(w, l) = {}
      <3>1. <<0, 0, 0>> \in Nat \X Nat \X Nat
        OBVIOUS
      <3> QED
        BY <2>1, <3>1 DEF Version, Semantic
    <2>2. CASE StableVersions(w, l) # {}
      <3>1. IsFiniteSet(Versions(w, l)) /\ Versions(w, l) \subseteq Semantic
        BY VersionsAre
      <3>2. StableVersions(w, l) \in SUBSET Versions(w, l)
        BY DEF StableVersions
      <3>3. IsFiniteSet(StableVersions(w, l))
        BY <3>1, <3>2, FS_Subset
      <3>4. StableVersions(w, l) \subseteq Semantic
        BY <3>1, <3>2
      <3>5. Highest(StableVersions(w, l)) \in StableVersions(w, l)
        BY <2>2, <3>3, <3>4, HighestIs
      <3> QED
        BY <2>2, <3>4, <3>5
    <2> QED
      BY <2>1, <2>2
  <1>3. CASE bump = "promotion"
    <2>1. ComputedStable(w, l, bump) = BumpPatch(pointer)
      BY <1>3 DEF ComputedStable
    <2> QED
      BY <1>1, <2>1, PatchIsAbove
  <1>4. CASE bump # "promotion" /\ IsPrerelease(pointer)
    <2>1. ComputedStable(w, l, bump) = Highest({bumped, BumpPatch(pointer)})
      BY <1>4 DEF ComputedStable
    <2> HIDE DEF base
    <2>2. bumped \in Semantic
      BY <1>2, <1>4, DampenedIs, BumpIsAbove
    <2>3. BumpPatch(pointer) \in Semantic /\ Below(pointer, BumpPatch(pointer))
      BY <1>1, PatchIsAbove
    <2> HIDE DEF bumped, pointer
    <2>4. IsFiniteSet({bumped, BumpPatch(pointer)})
      <3>1. IsFiniteSet({bumped}) /\ IsFiniteSet({BumpPatch(pointer)})
        BY FS_Singleton
      <3>2. IsFiniteSet({bumped} \cup {BumpPatch(pointer)})
        BY <3>1, FS_Union
      <3>3. {bumped} \cup {BumpPatch(pointer)} = {bumped, BumpPatch(pointer)}
        OBVIOUS
      <3> QED
        BY <3>2, <3>3
    <2> DEFINE S == {bumped, BumpPatch(pointer)}
    <2>5. S # {} /\ S \subseteq Semantic /\ BumpPatch(pointer) \in S /\ IsFiniteSet(S)
      BY <2>2, <2>3, <2>4
    <2> HIDE DEF S
    <2>6. /\ Highest(S) \in S
          /\ \A v \in S : v = Highest(S) \/ Below(v, Highest(S))
      BY <2>5, HighestIs
    <2>7. BumpPatch(pointer) = Highest(S) \/ Below(BumpPatch(pointer), Highest(S))
      BY <2>5, <2>6
    <2>8. Highest(S) \in Semantic /\ Below(pointer, Highest(S))
      BY <1>1, <2>3, <2>5, <2>6, <2>7, VersionOrder
    <2>9. ComputedStable(w, l, bump) = Highest(S)
      BY <2>1 DEF S
    <2> QED
      BY <1>4, <2>8, <2>9 DEF pointer
  <1>5. CASE bump # "promotion" /\ ~IsPrerelease(pointer)
    <2>1. ComputedStable(w, l, bump) = ApplyBump(pointer, Dampened(bump, pointer))
      BY <1>5 DEF ComputedStable
    <2>2. Dampened(bump, pointer) \in {"major", "minor", "patch"}
      BY <1>5, DampenedIs
    <2> HIDE DEF pointer
    <2>3. /\ ApplyBump(pointer, Dampened(bump, pointer)) \in Semantic
          /\ Below(pointer, ApplyBump(pointer, Dampened(bump, pointer)))
      BY <1>1, <1>5, <2>2, BumpIsAbove
    <2> QED
      BY <1>5, <2>1, <2>3 DEF pointer
  <1> QED
    BY <1>3, <1>4, <1>5

\* The next version of a stream is none of the line's history.
LEMMA StreamIs ==
  ASSUME NEW w, NEW l, ReadableTags(w), NEW target \in Semantic, NEW stream \in Nat
  PROVE  /\ NextOfStream(w, l, target, stream) \in Semantic
         /\ NextOfStream(w, l, target, stream) \notin Versions(w, l)
  <1> DEFINE used == Sequences(w, l, target, stream)
             U == {u \in Versions(w, l) : /\ IsPrerelease(u) /\ u.core = target.core
                                          /\ u.pre[1] = stream}
             f == [u \in U |-> u.pre[2]]
             next == IF used = {} THEN Seed ELSE 1 + CHOOSE n \in used : \A m \in used : m <= n
  <1>1. IsFiniteSet(Versions(w, l)) /\ Versions(w, l) \subseteq Semantic
    BY VersionsAre
  <1>2. U \in SUBSET Versions(w, l)
    OBVIOUS
  <1>3. IsFiniteSet(U)
    BY <1>1, <1>2, FS_Subset
  <1>4. used = {u.pre[2] : u \in U}
    BY DEF Sequences
  <1>5. f \in Surjection(U, used)
    BY <1>4 DEF Surjection
  <1>6. IsFiniteSet(used)
    <2> HIDE DEF f, U, used
    <2> QED
      BY <1>3, <1>5, FS_Surjection
  <1>7. used \subseteq Nat
    <2> SUFFICES ASSUME NEW u \in U PROVE u.pre[2] \in Nat
      BY <1>4
    <2>1. u.pre \in {<< >>} \cup (Nat \X Nat) /\ u.pre # << >>
      BY <1>1 DEF Semantic, IsPrerelease
    <2> QED
      BY <2>1
  <1>8. next \in Nat /\ next \notin used
    <2>1. CASE used = {}
      BY <2>1, PolicyAdmitted
    <2>2. CASE used # {}
      <3> HIDE DEF used
      <3>1. \E n \in used : \A m \in used : m <= n
        BY <1>6, <1>7, <2>2, GreatestIs
      <3> DEFINE top == CHOOSE n \in used : \A m \in used : m <= n
      <3>2. top \in used /\ \A m \in used : m <= top
        BY <3>1
      <3>3. next = 1 + top
        BY <2>2
      <3> HIDE DEF top, next
      <3>4. top \in Nat /\ next \in Nat /\ ~(next <= top)
        BY <1>7, <3>2, <3>3
      <3> QED
        BY <3>2, <3>4
    <2> QED
      BY <2>1, <2>2
  <1>9. NextOfStream(w, l, target, stream) = [core |-> target.core, pre |-> <<stream, next>>]
    BY DEF NextOfStream, Prerelease
  <1> HIDE DEF next
  <1>10. target.core \in Nat \X Nat \X Nat
    BY DEF Semantic
  <1>11. <<stream, next>> \in Nat \X Nat /\ <<stream, next>> # << >>
    BY <1>8
  <1>12. ASSUME [core |-> target.core, pre |-> <<stream, next>>] \in Versions(w, l)
         PROVE  FALSE
    <2> DEFINE u == [core |-> target.core, pre |-> <<stream, next>>]
    <2>1. u \in U
      BY <1>11, <1>12 DEF IsPrerelease
    <2>2. u.pre[2] = next
      OBVIOUS
    <2>3. next \in used
      BY <1>4, <2>1, <2>2
    <2> QED
      BY <1>8, <2>3
  <1> QED
    BY <1>9, <1>10, <1>11, <1>12 DEF Semantic

\* What the rules of a decision leave: nothing to release, nothing pending,
\* a promotion with nothing pending, all that is pending, or what survives
\* below the earliest withheld change.
LEMMA DecisionIs ==
  ASSUME NEW w, NEW l, NEW intents, NEW d,
         w.lifecycle[l] \in {"active", "frozen", "retired"},
         d = Decision(w, l, intents)
  PROVE  \/ d.kind \in {"refused", "blocked", "withheld"}
         \/ d.kind \in {"forced", "no-op"} /\ WorthyPending(w, l) = {}
         \/ /\ d = Promotion(w, l) /\ WorthyPending(w, l) = {}
            /\ Released(w, l) /\ IsPrerelease(Pointer(w, l))
         \/ /\ d = Carried(w, WorthyPending(w, l), w.heads[l], {})
            /\ WorthyPending(w, l) # {}
         \/ /\ d = Carried(w, Surviving(w, l), CHOOSE p \in PinnedHead(w, l) : TRUE,
                           Withheld(w, l))
            /\ Surviving(w, l) # {} /\ PinnedHead(w, l) # {} /\ Withheld(w, l) # {}
  <1> DEFINE pending == WorthyPending(w, l)
             Fine(x) ==
               \/ x.kind \in {"refused", "blocked", "withheld"}
               \/ x.kind \in {"forced", "no-op"} /\ pending = {}
               \/ /\ x = Promotion(w, l) /\ pending = {}
                  /\ Released(w, l) /\ IsPrerelease(Pointer(w, l))
               \/ x = Carried(w, pending, w.heads[l], {}) /\ pending # {}
               \/ /\ x = Carried(w, Surviving(w, l), CHOOSE p \in PinnedHead(w, l) : TRUE,
                                 Withheld(w, l))
                  /\ Surviving(w, l) # {} /\ PinnedHead(w, l) # {} /\ Withheld(w, l) # {}
  <1>1. \A cause : Fine(Refused(cause)) /\ Fine(Blocked(cause))
    BY DEF Refused, Blocked
  <1>2. Fine([kind |-> "withheld", withheld |-> Withheld(w, l)])
    OBVIOUS
  <1>3. pending = {} => Fine([kind |-> "forced"]) /\ Fine([kind |-> "no-op"])
    OBVIOUS
  <1>4. Fine(PromoteDecision(w, l, intents))
    <2>1. PromoteDecision(w, l, intents) = Refused("operator-contradiction")
          \/ /\ PromoteDecision(w, l, intents) = Promotion(w, l) /\ pending = {}
             /\ Released(w, l) /\ IsPrerelease(Pointer(w, l))
      BY DEF PromoteDecision
    <2> QED
      BY <1>1, <2>1
  <1>5. \A changes, head, withheld :
           Releases(w, changes, head, withheld)
             \in {Carried(w, changes, head, withheld), Refused("kernel-rejection")}
    BY DEF Releases, Carried
  <1>6. Withheld(w, l) # {} => Fine(WithheldDecision(w, l))
    <2>1. CASE PinnedHead(w, l) # {} /\ Surviving(w, l) # {}
      <3>1. WithheldDecision(w, l) =
              Releases(w, Surviving(w, l), CHOOSE p \in PinnedHead(w, l) : TRUE, Withheld(w, l))
        BY <2>1 DEF WithheldDecision
      <3>2. WithheldDecision(w, l) \in
              {Carried(w, Surviving(w, l), CHOOSE p \in PinnedHead(w, l) : TRUE, Withheld(w, l)),
               Refused("kernel-rejection")}
        BY <1>5, <3>1
      <3> QED
        BY <1>1, <2>1, <3>2
    <2>2. CASE ~(PinnedHead(w, l) # {} /\ Surviving(w, l) # {})
      <3>1. WithheldDecision(w, l) = [kind |-> "withheld", withheld |-> Withheld(w, l)]
        BY <2>2 DEF WithheldDecision
      <3> QED
        BY <1>2, <3>1
    <2> QED
      BY <2>1, <2>2
  <1>7. pending # {} => Fine(Releases(w, pending, w.heads[l], {}))
    BY <1>1, <1>5
  <1> HIDE DEF Fine
  <1>8. Fine(d)
    BY <1>1, <1>3, <1>4, <1>6, <1>7 DEF Decision
  <1> QED
    BY <1>8 DEF Fine

\* A first release has a recorded version.
LEMMA BirthRecorded ==
  ASSUME NEW w, NEW l, NEW intents, w.lifecycle[l] \in {"active", "frozen", "retired"},
         Decision(w, l, intents).kind = "release", ~Released(w, l)
  PROVE  w.bootstrap # NoBootstrap
  <1> DEFINE d == Decision(w, l, intents)
  <1>a. \/ d.kind \in {"refused", "blocked", "withheld", "forced", "no-op"}
        \/ Released(w, l)
        \/ WorthyPending(w, l) # {}
        \/ Surviving(w, l) # {}
    BY DecisionIs
  <1>b. Surviving(w, l) \subseteq WorthyPending(w, l)
    BY DEF Surviving
  <1>1. WorthyPending(w, l) # {}
    BY <1>a, <1>b
  <1>2. Pending(w, l) # {}
    BY <1>1 DEF WorthyPending
  <1> SUFFICES ASSUME w.bootstrap = NoBootstrap PROVE FALSE
    OBVIOUS
  <1>3. Decision(w, l, intents) \in {Refused("line-frozen"), Refused("line-retired"),
                                     Blocked("bootstrap-required")}
    BY <1>2 DEF Decision
  <1> QED
    BY <1>3 DEF Refused, Blocked

\* An operator names a version.
LEMMA DemandedIs ==
  ASSUME NEW intents \in IntentSets, Asks(intents, "release-as")
  PROVE  DemandedVersion(intents) \in Semantic
  <1>1. PICK i \in intents : i.kind = "release-as" /\ DemandedVersion(intents) = i.version
    BY DEF Asks, DemandedVersion
  <1>2. IsIntent(i)
    BY PolicyAdmitted
  <1> QED
    BY <1>1, <1>2 DEF IsIntent

\* A stable target is a version, above the pointer unless an operator named it.
LEMMA StableTargetIs ==
  ASSUME NEW w, NEW l, NEW intents \in IntentSets, NEW d, ReadableTags(w),
         w.lifecycle[l] \in {"active", "frozen", "retired"},
         d = Decision(w, l, intents),
         StableTarget(w, l, intents, d) # None
  PROVE  /\ StableTarget(w, l, intents, d).version \in Semantic
         /\ Released(w, l) /\ d.kind = "release"
         /\ ~Asks(intents, "release-as") =>
               Below(Pointer(w, l), StableTarget(w, l, intents, d).version)
         /\ ~Asks(intents, "release-as") /\ IsPromotion(d) =>
               StableTarget(w, l, intents, d).version = BumpPatch(Pointer(w, l))
  <1>1. d.kind = "release" /\ Released(w, l)
    BY DEF StableTarget
  <1>2. CASE Asks(intents, "release-as")
    <2>1. StableTarget(w, l, intents, d) = Target(DemandedVersion(intents))
      BY <1>1, <1>2 DEF StableTarget
    <2> QED
      BY <1>1, <1>2, <2>1, DemandedIs DEF Target
  <1>3. CASE ~Asks(intents, "release-as")
    <2>1. StableTarget(w, l, intents, d) = Target(ComputedStable(w, l, d.bump))
      BY <1>1, <1>3 DEF StableTarget
    <2>2. /\ d.bump \in {"major", "minor", "patch", "promotion"}
          /\ d.bump = "promotion" => IsPrerelease(Pointer(w, l))
      <3>1. \/ d = Promotion(w, l) /\ IsPrerelease(Pointer(w, l))
            \/ \E changes, head, withheld : d = Carried(w, changes, head, withheld) /\ changes # {}
        BY <1>1, DecisionIs
      <3>2. CASE d = Promotion(w, l) /\ IsPrerelease(Pointer(w, l))
        BY <3>2 DEF Promotion
      <3>3. ASSUME NEW changes, NEW head, NEW withheld,
                   d = Carried(w, changes, head, withheld), changes # {}
            PROVE  d.bump \in {"major", "minor", "patch"}
        <4>1. d.bump = Bump(w, changes)
          BY <3>3 DEF Carried
        <4>2. d.bump = MaxBump({BumpOf(w.commits[c].type) : c \in changes})
          BY <3>3, <4>1 DEF Bump
        <4> QED
          BY <4>2, MaxBumpIs
      <3> QED
        BY <3>1, <3>2, <3>3
    <2> QED
      BY <1>1, <1>3, <2>1, <2>2, ComputedIs DEF Target, IsPromotion
  <1> QED
    BY <1>2, <1>3

\* Streams go towards a version.
LEMMA StreamTargetIs ==
  ASSUME NEW w, NEW l, NEW intents \in IntentSets, NEW d, ReadableTags(w),
         w.lifecycle[l] \in {"active", "frozen", "retired"},
         d = Decision(w, l, intents)
  PROVE  StreamTarget(w, l, intents, d) \in Semantic
  <1>1. CASE StableTarget(w, l, intents, d) # None
    BY <1>1, StableTargetIs DEF StreamTarget
  <1>2. CASE StableTarget(w, l, intents, d) = None /\ Released(w, l)
    BY <1>2, PointerIs, PatchIsAbove DEF StreamTarget
  <1>3. CASE StableTarget(w, l, intents, d) = None /\ ~Released(w, l)
    <2>1. <<0, 0, 0>> \in Nat \X Nat \X Nat
      OBVIOUS
    <2>2. Version(0, 0, 0) \in Semantic
      BY <2>1 DEF Version, Semantic
    <2> QED
      BY <1>3, <2>2, PatchIsAbove DEF StreamTarget
  <1> QED
    BY <1>1, <1>2, <1>3

\* A planned version is above the pointer unless an operator named one.
LEMMA PlannedIs ==
  ASSUME NEW w, NEW l, NEW intents \in IntentSets, NEW d, NEW v, NEW plan,
         ReadableTags(w),
         w.lifecycle[l] \in {"active", "frozen", "retired"},
         w.bootstrap \in Semantic \cup {NoBootstrap},
         d = Decision(w, l, intents),
         plan = LinePlan(w, l, intents),
         ~BelowPointer(w, l, plan.streams),
         v \in PlannedVersions(plan)
  PROVE  /\ v \in Semantic
         /\ ~Asks(intents, "release-as") /\ Released(w, l) => Below(Pointer(w, l), v)
         /\ ~Asks(intents, "release-as") /\ IsPromotion(d) => v = BumpPatch(Pointer(w, l))
         /\ d.kind \notin {"refused", "withheld"}
  <1>1. plan.decision = d /\ plan.stable = PlannedStable(w, l, intents, d)
        /\ plan.streams = PlannedStreams(w, l, intents, d)
    BY DEF LinePlan
  <1>2. CASE v \in plan.streams
    <2>1. /\ plan.streams = Streams(w, l, intents, d)
          /\ d.kind \notin {"refused", "withheld"}
      BY <1>1, <1>2 DEF PlannedStreams
    <2>2. /\ ~IsPromotion(d)
          /\ \E i \in Allowed(w, intents, l) :
                v = NextOfStream(w, l, StreamTarget(w, l, intents, d), i.stream)
      BY <1>2, <2>1 DEF Streams
    <2>3. PICK i \in Allowed(w, intents, l) :
             v = NextOfStream(w, l, StreamTarget(w, l, intents, d), i.stream)
      BY <2>2
    <2>4. i \in intents /\ i.kind = "prerelease" /\ IsIntent(i)
      BY PolicyAdmitted DEF Allowed, Demands
    <2>5. i.stream \in Nat
      BY <2>4 DEF IsIntent
    <2>6. v \in Semantic /\ v \notin Versions(w, l)
      BY <2>3, <2>5, StreamTargetIs, StreamIs
    <2>7. Released(w, l) => Below(Pointer(w, l), v)
      <3> SUFFICES ASSUME Released(w, l) PROVE Below(Pointer(w, l), v)
        OBVIOUS
      <3>1. ~Below(v, Pointer(w, l))
        BY <1>2 DEF BelowPointer
      <3>2. Pointer(w, l) \in Versions(w, l) /\ Pointer(w, l) \in Semantic
        BY PointerIs
      <3> QED
        BY <2>6, <3>1, <3>2, VersionOrder
    <2> QED
      BY <2>1, <2>2, <2>6, <2>7
  <1>3. CASE v \notin plan.streams
    <2>1. plan.stable # None /\ v = plan.stable.version
      BY <1>3 DEF PlannedVersions, Minted
    <2>2. d.kind \notin {"refused", "withheld"}
      BY <1>1, <2>1 DEF PlannedStable
    <2>3. CASE d.kind = "release" /\ ~Released(w, l)
      <3>1. plan.stable = BirthStable(w, l, intents)
        BY <1>1, <2>3 DEF PlannedStable
      <3>2. v = w.bootstrap
        BY <2>1, <3>1 DEF BirthStable, Target
      <3>3. w.bootstrap # NoBootstrap
        BY <2>3, BirthRecorded
      <3>4. ~IsPromotion(d)
        <4>3. \E changes, head, withheld : d = Carried(w, changes, head, withheld) /\ changes # {}
          BY <2>3, DecisionIs
        <4>4. PICK changes, head, withheld :
                 d = Carried(w, changes, head, withheld) /\ changes # {}
          BY <4>3
        <4>5. d.bump = MaxBump({BumpOf(w.commits[c].type) : c \in changes})
          BY <4>4 DEF Carried, Bump
        <4>6. d.bump \in {"major", "minor", "patch"}
          BY <4>5, MaxBumpIs
        <4> QED
          BY <4>6 DEF IsPromotion
      <3> QED
        BY <2>2, <2>3, <3>2, <3>3, <3>4
    <2>4. CASE ~(d.kind = "release" /\ ~Released(w, l))
      <3>1. plan.stable = StableTarget(w, l, intents, d)
        BY <1>1, <2>1, <2>2, <2>4 DEF PlannedStable
      <3> QED
        BY <2>1, <2>2, <3>1, StableTargetIs
    <2> QED
      BY <2>3, <2>4
  <1> QED
    BY <1>2, <1>3

\* A plan carries pending release-worthy changes, all of them where its range
\* ends at the head of the line: a pinned head is older.
LEMMA ChangesAre ==
  ASSUME NEW w, NEW l, NEW intents, NEW d, NEW plan,
         IsHistory(w.commits), w.seen \subseteq Commits(w), w.heads[l] \in Commits(w),
         w.lifecycle[l] \in {"active", "frozen", "retired"},
         d = Decision(w, l, intents), plan.decision = d,
         d.kind \notin {"refused", "blocked", "withheld"}
  PROVE  /\ Changes(plan) \subseteq WorthyPending(w, l)
         /\ RangeHead(w, l, plan) = w.heads[l] => Changes(plan) = WorthyPending(w, l)
         /\ IsPromotion(d) => /\ WorthyPending(w, l) = {}
                              /\ Released(w, l) /\ IsPrerelease(Pointer(w, l))
  <1>1. \/ d.kind \in {"forced", "no-op"} /\ WorthyPending(w, l) = {}
        \/ /\ d = Promotion(w, l) /\ WorthyPending(w, l) = {}
           /\ Released(w, l) /\ IsPrerelease(Pointer(w, l))
        \/ /\ d = Carried(w, WorthyPending(w, l), w.heads[l], {})
           /\ WorthyPending(w, l) # {}
        \/ /\ d = Carried(w, Surviving(w, l), CHOOSE p \in PinnedHead(w, l) : TRUE,
                          Withheld(w, l))
           /\ Surviving(w, l) # {} /\ PinnedHead(w, l) # {} /\ Withheld(w, l) # {}
    BY DecisionIs
  <1>2. \A changes : Bump(w, changes) # "promotion"
    <2> TAKE changes
    <2>1. CASE changes = {}
      BY <2>1 DEF Bump
    <2>2. CASE changes # {}
      <3>1. Bump(w, changes) = MaxBump({BumpOf(w.commits[c].type) : c \in changes})
        BY <2>2 DEF Bump
      <3>2. Bump(w, changes) \in {"major", "minor", "patch"}
        BY <3>1, MaxBumpIs
      <3> QED
        BY <3>2
    <2> QED
      BY <2>1, <2>2
  <1>3. CASE d.kind \in {"forced", "no-op"} /\ WorthyPending(w, l) = {}
    BY <1>3 DEF Changes, IsPromotion
  <1>4. CASE /\ d = Promotion(w, l) /\ WorthyPending(w, l) = {}
             /\ Released(w, l) /\ IsPrerelease(Pointer(w, l))
    BY <1>4 DEF Changes, Promotion
  <1>5. CASE /\ d = Carried(w, WorthyPending(w, l), w.heads[l], {})
             /\ WorthyPending(w, l) # {}
    BY <1>2, <1>5 DEF Changes, Carried, IsPromotion
  <1>6. CASE /\ d = Carried(w, Surviving(w, l), CHOOSE p \in PinnedHead(w, l) : TRUE,
                            Withheld(w, l))
             /\ Surviving(w, l) # {} /\ PinnedHead(w, l) # {} /\ Withheld(w, l) # {}
    <2>1. /\ d.kind = "release" /\ d.changes = Surviving(w, l)
          /\ d.bump # "promotion" /\ d.head \in PinnedHead(w, l)
      BY <1>2, <1>6 DEF Carried
    <2>2. Surviving(w, l) \subseteq WorthyPending(w, l)
      BY DEF Surviving
    <2>3. Withheld(w, l) \subseteq Ancestry(w, w.heads[l])
      BY DEF Withheld, WorthyPending, Pending, PendingSpan, Span
    <2>4. w.heads[l] \in Nat /\ Commits(w) \subseteq Nat /\ w.heads[l] # NoCommit
      BY BaselineAdmitted DEF Commits, IsHistory
    <2>5. Ancestry(w, w.heads[l]) \subseteq 1..w.heads[l] \cap Commits(w)
      <3>1. Reaches(w)[w.heads[l]] \subseteq 1..w.heads[l]
        BY ReachesOlder
      <3> QED
        BY <2>4, <3>1 DEF Ancestry
    <2>6. \E c \in Withheld(w, l) : \A e \in Withheld(w, l) : c <= e
      <3>1. Withheld(w, l) \subseteq Nat
        BY <2>3, <2>5
      <3> QED
        BY <1>6, <3>1, LeastIs
    <2>7. Earliest(Withheld(w, l)) \in Withheld(w, l)
      BY <2>6 DEF Earliest
    <2> DEFINE e == Earliest(Withheld(w, l))
    <2>8. e \in 1..w.heads[l] /\ e \in Commits(w)
      BY <2>3, <2>5, <2>7
    <2>9. PinnedHead(w, l) \subseteq 1..(e - 1)
      BY <2>8 DEF PinnedHead, IsHistory, Commits
    <2>10. d.head # w.heads[l]
      <3> HIDE DEF e
      <3> QED
        BY <2>1, <2>4, <2>8, <2>9
    <2> QED
      BY <2>1, <2>2, <2>10 DEF Changes, RangeHead, IsPromotion
  <1> QED
    BY <1>1, <1>3, <1>4, <1>5, <1>6

-----------------------------------------------------------------------------
(* The repository.                                                         *)

\* Ancestry in a wholly observed world.
LEMMA AncestryIs ==
  ASSUME NEW w, IsHistory(w.commits), w.seen = DOMAIN w.commits
  PROVE  /\ DOMAIN w.commits \subseteq Nat
         /\ NoCommit \notin DOMAIN w.commits
         /\ Ancestry(w, NoCommit) = {}
         /\ \A c \in DOMAIN w.commits :
               /\ c \in Ancestry(w, c)
               /\ Ancestry(w, c) = Reaches(w)[c]
               /\ Ancestry(w, c) \subseteq DOMAIN w.commits
               /\ \A b \in Ancestry(w, c) : Ancestry(w, b) \subseteq Ancestry(w, c)
               /\ \A p \in w.commits[c].parents : Ancestry(w, p) \subseteq Ancestry(w, c)
  <1>2. Len(w.commits) \in Nat /\ DOMAIN w.commits = 1..Len(w.commits)
    BY DEF IsHistory
  <1>3. Commits(w) = DOMAIN w.commits
    BY DEF Commits
  <1>4. NoCommit \notin DOMAIN w.commits
    BY <1>2, BaselineAdmitted
  <1>5. \A c \in DOMAIN w.commits : Ancestry(w, c) = Reaches(w)[c] \cap DOMAIN w.commits
    BY <1>4 DEF Ancestry
  <1>6. \A c \in DOMAIN w.commits : c \in Reaches(w)[c] /\ Reaches(w)[c] \subseteq 1..c
    BY <1>3, ReachesOlder
  <1>7. \A c \in DOMAIN w.commits : Ancestry(w, c) = Reaches(w)[c]
    <2> TAKE c \in DOMAIN w.commits
    <2>1. c \in Nat /\ c <= Len(w.commits)
      BY <1>2
    <2>2. 1..c \subseteq DOMAIN w.commits
      BY <1>2, <2>1
    <2> QED
      BY <1>5, <1>6, <2>2
  <1>8. \A c \in DOMAIN w.commits : \A b \in Ancestry(w, c) : Ancestry(w, b) \subseteq Ancestry(w, c)
    <2> TAKE c \in DOMAIN w.commits
    <2> TAKE b \in Ancestry(w, c)
    <2>1. b \in Reaches(w)[c]
      BY <1>7
    <2>2. b \in Commits(w) /\ Reaches(w)[b] \subseteq Reaches(w)[c]
      BY <1>3, <2>1, ReachesTransitive
    <2> QED
      BY <1>3, <1>7, <2>2
  <1>9. \A c \in DOMAIN w.commits : \A p \in w.commits[c].parents :
           Ancestry(w, p) \subseteq Ancestry(w, c)
    <2> TAKE c \in DOMAIN w.commits
    <2> TAKE p \in w.commits[c].parents
    <2>1. Reaches(w)[c] = {c} \cup UNION {Reaches(w)[b] : b \in w.commits[c].parents}
      BY <1>3, ReachesUnfolds
    <2>2. p \in DOMAIN w.commits
      BY <1>2 DEF IsHistory
    <2>3. Reaches(w)[p] \subseteq Reaches(w)[c]
      BY <2>1
    <2> QED
      BY <1>7, <2>2, <2>3
  <1>10. Ancestry(w, NoCommit) = {}
    BY DEF Ancestry
  <1>11. DOMAIN w.commits \subseteq Nat
    BY <1>2
  <1>12. \A c \in DOMAIN w.commits : c \in Ancestry(w, c) /\ Ancestry(w, c) \subseteq DOMAIN w.commits
    BY <1>5, <1>6, <1>7
  <1> QED
    BY <1>4, <1>7, <1>8, <1>9, <1>10, <1>11, <1>12

\* The first depth observes everything.
LEMMA WholeWorld ==
  ASSUME HistoryInv
  PROVE  /\ World(1).commits = commits
         /\ World(1).seen = DOMAIN commits
         /\ IsHistory(World(1).commits)
  <1>1. Len(commits) \in Nat /\ DOMAIN commits = 1..Len(commits)
    BY DEF HistoryInv, IsHistory
  <1>2. World(1).commits = commits /\ World(1).seen = {c \in DOMAIN commits : c >= 1}
    BY DEF World
  <1>3. {c \in DOMAIN commits : c >= 1} = DOMAIN commits
    BY <1>1
  <1> QED
    BY <1>2, <1>3 DEF HistoryInv

\* Ancestry in the repository.
LEMMA AncIs ==
  ASSUME HistoryInv
  PROVE  /\ DOMAIN commits \subseteq Nat
         /\ NoCommit \notin DOMAIN commits
         /\ Anc(NoCommit) = {}
         /\ \A c \in DOMAIN commits :
               /\ c \in Anc(c)
               /\ Anc(c) \subseteq DOMAIN commits
               /\ \A b \in Anc(c) : Anc(b) \subseteq Anc(c)
  <1> DEFINE w == World(1)
  <1>1. w.commits = commits /\ w.seen = DOMAIN w.commits /\ IsHistory(w.commits)
    BY WholeWorld
  <1>2. \A c : Anc(c) = Ancestry(w, c)
    BY DEF Anc
  <1> HIDE DEF w
  <1> QED
    BY <1>1, <1>2, AncestryIs

\* Commits that land change nothing about the ranges there are.
LEMMA Grows ==
  ASSUME HistoryInv, HistoryInv', DOMAIN commits \subseteq DOMAIN commits',
         \A c \in DOMAIN commits : commits'[c] = commits[c]
  PROVE  /\ Names \subseteq Names'
         /\ \A c \in Names : Anc(c)' = Anc(c)
         /\ \A s \in Names, t \in Names : WorthySpan(s, t)' = WorthySpan(s, t)
  <1> DEFINE w == World(1)
             x == World(1)'
  <1>1. w.commits = commits /\ w.seen = DOMAIN w.commits /\ IsHistory(w.commits)
    BY WholeWorld
  <1>2. x.commits = commits' /\ x.seen = DOMAIN x.commits /\ IsHistory(x.commits)
    <2>1. Len(commits') \in Nat /\ DOMAIN commits' = 1..Len(commits')
      BY DEF HistoryInv, IsHistory
    <2>2. x.commits = commits' /\ x.seen = {c \in DOMAIN commits' : c >= 1}
      BY DEF World
    <2> HIDE DEF x
    <2> QED
      BY <2>1, <2>2 DEF HistoryInv
  <1>3. \A c : Anc(c) = Ancestry(w, c) /\ Anc(c)' = Ancestry(x, c)
    BY DEF Anc
  <1>4. \A s, t : WorthySpan(s, t) = {c \in Span(w, s, t) : Worthy(w, c)}
    BY DEF WorthySpan
  <1>5. \A s, t : WorthySpan(s, t)' = {c \in Span(x, s, t) : Worthy(x, c)}
    BY DEF WorthySpan
  <1> HIDE DEF w, x
  <1>6. \A c \in DOMAIN commits : Reaches(x)[c] = Reaches(w)[c]
    <2>1. Commits(w) = DOMAIN commits /\ Commits(x) = DOMAIN commits'
      BY <1>1, <1>2 DEF Commits
    <2> QED
      BY <1>1, <1>2, <2>1, ReachesGrows
  <1>7. \A c \in Names : Ancestry(x, c) = Ancestry(w, c)
    <2>1. \A c \in DOMAIN commits : Ancestry(x, c) = Ancestry(w, c)
      BY <1>1, <1>2, <1>6, AncestryIs
    <2>2. Ancestry(x, NoCommit) = {} /\ Ancestry(w, NoCommit) = {}
      BY DEF Ancestry
    <2> QED
      BY <2>1, <2>2 DEF Names
  <1>8. \A c \in DOMAIN commits : Worthy(x, c) <=> Worthy(w, c)
    BY <1>1, <1>2 DEF Worthy, Candidates, Classification
  <1>9. \A s, t \in Names : Span(x, s, t) = Span(w, s, t) /\ Span(w, s, t) \subseteq DOMAIN commits
    <2>1. \A c \in Names : Ancestry(w, c) \subseteq DOMAIN commits
      BY <1>1, AncestryIs DEF Names, Ancestry
    <2> QED
      BY <1>7, <2>1 DEF Span
  <1>10. \A s, t \in Names : WorthySpan(s, t)' = WorthySpan(s, t)
    BY <1>4, <1>5, <1>8, <1>9
  <1> QED
    BY <1>3, <1>7, <1>10 DEF Names

\* A caller that observes a closed part of the history sees the ancestry whole.
LEMMA ClosedSees ==
  ASSUME HistoryInv, NEW depth, NEW w, w = World(depth), Closed(w)
  PROVE  /\ w.commits = commits /\ w.seen \subseteq Commits(w) /\ IsHistory(w.commits)
         /\ Commits(w) = DOMAIN commits
         /\ \A c \in w.seen \cup {NoCommit} : Ancestry(w, c) = Anc(c)
         /\ \A c \in w.seen : Worthy(w, c) <=> Worthy(World(1), c)
  <1> DEFINE x == World(1)
  <1>1. x.commits = commits /\ x.seen = DOMAIN x.commits /\ IsHistory(x.commits)
    BY WholeWorld
  <1>2. w.commits = commits /\ w.seen \subseteq DOMAIN commits
    BY DEF World
  <1>3. \A c : Anc(c) = Ancestry(x, c)
    BY DEF Anc
  <1>4. \A c \in w.seen : w.commits[c].parents \subseteq w.seen
    BY DEF Closed
  <1> HIDE DEF x
  <1>5. Commits(w) = DOMAIN commits /\ Commits(x) = DOMAIN commits /\ IsHistory(w.commits)
    BY <1>1, <1>2 DEF Commits
  <1>6. \A c \in w.seen : Reaches(w)[c] \subseteq w.seen
    BY <1>2, <1>4, <1>5, ReachesClosed
  <1>7. \A c \in DOMAIN commits : Reaches(x)[c] = Reaches(w)[c]
    BY <1>1, <1>2, <1>5, ReachesGrows
  <1>8. \A c \in w.seen : Ancestry(w, c) = Ancestry(x, c)
    <2> TAKE c \in w.seen
    <2>1. c \in DOMAIN commits /\ c # NoCommit
      BY <1>1, <1>2, AncestryIs
    <2>2. Ancestry(x, c) = Reaches(x)[c]
      BY <1>1, <2>1, AncestryIs
    <2>3. Ancestry(w, c) = Reaches(w)[c] \cap w.seen
      BY <2>1 DEF Ancestry
    <2> QED
      BY <1>6, <1>7, <2>1, <2>2, <2>3
  <1>9. Ancestry(w, NoCommit) = {} /\ Ancestry(x, NoCommit) = {}
    BY DEF Ancestry
  <1>10. \A c \in w.seen : Worthy(w, c) <=> Worthy(x, c)
    BY <1>1, <1>2 DEF Worthy, Candidates, Classification
  <1> QED
    BY <1>2, <1>3, <1>5, <1>8, <1>9, <1>10 DEF x

\* Where a line's range starts is read off the tags its history admits.
LEMMA SameTags ==
  ASSUME NEW l, NEW w, NEW x, Admitted(w, l) = Admitted(x, l)
  PROVE  ReleasedUpTo(w, l) = ReleasedUpTo(x, l)
  <1> DEFINE At(S, v) == (CHOOSE t \in S : t.version = v).commit
  <1>1. Versions(w, l) = Versions(x, l)
    BY DEF Versions
  <1>2. Pointer(w, l) = Pointer(x, l) /\ (Released(w, l) <=> Released(x, l))
    BY <1>1 DEF Pointer, Released
  <1>3. At(Admitted(w, l), Pointer(w, l)) = At(Admitted(x, l), Pointer(x, l))
    <2> HIDE DEF At
    <2> QED
      BY <1>2
  <1> QED
    BY <1>2, <1>3 DEF ReleasedUpTo

\* A planned run is grounded in the history of its line.
LEMMA PlansIs ==
  ASSUME HistoryInv, PolicyInv, TagsInv, NEW l \in Lines, Plans(l)
  PROVE  \E r : runs' = [runs EXCEPT ![l] = @ \cup {r}] /\ Grounded(l, r)
  <1>1. PICK depth \in Depths : \E w \in {World(depth)} :
          /\ Closed(w)
          /\ \E intents \in IntentSets : \E plans \in {Assembled(w, intents)} :
                /\ ~Throws(w, plans)
                /\ Runnable(plans[l])
                /\ \E v \in PlannedVersions(plans[l]) :
                      runs' = [runs EXCEPT ![l] = @ \cup {RunOf(w, l, intents, plans[l], v)}]
    BY DEF Plans
  <1>2. PICK w : w = World(depth) /\ Closed(w)
          /\ \E intents \in IntentSets : \E plans \in {Assembled(w, intents)} :
                /\ ~Throws(w, plans)
                /\ Runnable(plans[l])
                /\ \E v \in PlannedVersions(plans[l]) :
                      runs' = [runs EXCEPT ![l] = @ \cup {RunOf(w, l, intents, plans[l], v)}]
    BY <1>1
  <1>3. PICK intents, plan :
          /\ intents \in IntentSets
          /\ plan = LinePlan(w, l, intents)
          /\ ~BelowPointer(w, l, plan.streams)
          /\ Runnable(plan)
          /\ \E v \in PlannedVersions(plan) :
                      runs' = [runs EXCEPT ![l] = @ \cup {RunOf(w, l, intents, plan, v)}]
    <2>1. PICK intents \in IntentSets : \E plans \in {Assembled(w, intents)} :
                /\ ~Throws(w, plans)
                /\ Runnable(plans[l])
                /\ \E v \in PlannedVersions(plans[l]) :
                      runs' = [runs EXCEPT ![l] = @ \cup {RunOf(w, l, intents, plans[l], v)}]
      BY <1>2
    <2>2. Assembled(w, intents)[l] = LinePlan(w, l, intents)
      BY DEF Assembled
    <2>3. ~Throws(w, Assembled(w, intents))
          => ~BelowPointer(w, l, Assembled(w, intents)[l].streams)
      BY DEF Throws
    <2> QED
      BY <2>1, <2>2, <2>3
  <1>4. PICK v \in PlannedVersions(plan) :
          runs' = [runs EXCEPT ![l] = @ \cup {RunOf(w, l, intents, plan, v)}]
    BY <1>3
  <1> DEFINE r == RunOf(w, l, intents, plan, v)
             d == Decision(w, l, intents)
  <1>5. /\ r.version = v /\ r.target = heads[l] /\ r.changes = Changes(plan)
        /\ r.head = RangeHead(w, l, plan) /\ r.promotion = IsPromotion(d)
        /\ r.asked = Asks(intents, "release-as") /\ r.since = ReleasedUpTo(w, l)
        /\ r.after = Len(releases)
    BY <1>3 DEF RunOf, LinePlan
  <1>6. /\ w.tags = tags /\ w.heads = heads /\ w.lifecycle = policy.lifecycle
        /\ w.bootstrap = policy.bootstrap
    BY <1>2 DEF World
  <1>7. /\ ReadableTags(w)
        /\ w.lifecycle[l] \in {"active", "frozen", "retired"}
        /\ w.bootstrap \in Semantic \cup {NoBootstrap}
    BY <1>6 DEF TagsInv, PolicyInv, ReadableTags
  <1>8. plan.decision = d /\ d.kind # "blocked"
    BY <1>3 DEF LinePlan, Runnable
  <1>9. /\ v \in Semantic
        /\ ~Asks(intents, "release-as") /\ Released(w, l) => Below(Pointer(w, l), v)
        /\ ~Asks(intents, "release-as") /\ IsPromotion(d) => v = BumpPatch(Pointer(w, l))
        /\ d.kind \notin {"refused", "withheld"}
    <2> HIDE DEF r
    <2> QED
      BY <1>3, <1>4, <1>7, PlannedIs
  <1>10. /\ w.commits = commits /\ w.seen \subseteq Commits(w) /\ IsHistory(w.commits)
         /\ Commits(w) = DOMAIN commits
         /\ \A c \in w.seen \cup {NoCommit} : Ancestry(w, c) = Anc(c)
         /\ \A c \in w.seen : Worthy(w, c) <=> Worthy(World(1), c)
    BY <1>2, ClosedSees
  <1>11. heads[l] \in w.seen /\ heads[l] \in DOMAIN commits
    BY <1>2, <1>6 DEF Closed, HistoryInv
  <1>12. Admitted(w, l) = Admits(l)
    BY <1>6 DEF Admitted, Admits
  <1>13. Released(w, l) <=> Admits(l) # {}
    BY <1>12 DEF Released, Versions
  <1>14. Released(w, l) =>
           \E t \in Admits(l) :
              /\ t.version = Pointer(w, l) /\ t.commit = ReleasedUpTo(w, l)
              /\ \A u \in Admits(l) : u.version = t.version \/ Below(u.version, t.version)
    BY <1>7, <1>12, PointerIs DEF Versions
  <1>15. ReleasedUpTo(w, l) \in w.seen \cup {NoCommit}
    <2>1. CASE Released(w, l)
      BY <1>2, <1>6, <1>14, <2>1 DEF Closed, Admits
    <2>2. CASE ~Released(w, l)
      BY <2>2 DEF ReleasedUpTo
    <2> QED
      BY <2>1, <2>2
  <1>16. WorthyPending(w, l) = WorthySpan(r.since, r.target)
    <2>1. Ancestry(w, heads[l]) = Anc(heads[l])
          /\ Ancestry(w, ReleasedUpTo(w, l)) = Anc(ReleasedUpTo(w, l))
      BY <1>10, <1>11, <1>15
    <2>2. Ancestry(w, heads[l]) \subseteq w.seen
      BY DEF Ancestry
    <2>4. WorthyPending(w, l) = {c \in PendingSpan(w, l) : Worthy(w, c)}
      BY DEF WorthyPending, Pending, Worthy
    <2>5. PendingSpan(w, l) = Span(World(1), ReleasedUpTo(w, l), heads[l])
      BY <1>6, <2>1 DEF PendingSpan, Span, Anc
    <2>6. PendingSpan(w, l) \subseteq w.seen
      BY <1>6, <2>2 DEF PendingSpan, Span
    <2> QED
      BY <1>5, <1>10, <2>4, <2>5, <2>6 DEF WorthySpan
  <1>17. /\ Changes(plan) \subseteq WorthyPending(w, l)
         /\ RangeHead(w, l, plan) = w.heads[l] => Changes(plan) = WorthyPending(w, l)
         /\ IsPromotion(d) => /\ WorthyPending(w, l) = {}
                              /\ Released(w, l) /\ IsPrerelease(Pointer(w, l))
    BY <1>6, <1>7, <1>8, <1>9, <1>10, <1>11, ChangesAre
  <1> HIDE DEF r, d
  <1>18. r.promotion /\ ~r.asked =>
        /\ WorthySpan(r.since, r.target) = {}
        /\ \E t \in tags : /\ t.commit = r.since
                           /\ IsPrerelease(t.version)
                           /\ t.version.core = r.version.core
    <2> SUFFICES ASSUME r.promotion, ~r.asked
                 PROVE  /\ WorthySpan(r.since, r.target) = {}
                        /\ \E t \in tags : /\ t.commit = r.since
                                           /\ IsPrerelease(t.version)
                                           /\ t.version.core = r.version.core
      OBVIOUS
    <2>1. /\ WorthyPending(w, l) = {} /\ Released(w, l) /\ IsPrerelease(Pointer(w, l))
          /\ v = BumpPatch(Pointer(w, l))
      BY <1>5, <1>9, <1>17
    <2>2. PICK t \in Admits(l) : t.version = Pointer(w, l) /\ t.commit = ReleasedUpTo(w, l)
      BY <1>14, <2>1
    <2>3. t \in tags /\ t.version \in Semantic
      BY DEF Admits, TagsInv
    <2>4. v.core = t.version.core
      BY <2>1, <2>2, <2>3, PatchIsAbove
    <2> QED
      BY <1>5, <1>16, <2>1, <2>2, <2>3, <2>4
  <1>19. r.since \in Names
    BY <1>5, <1>10, <1>15 DEF Names
  <1>20. Sound(r)
    BY <1>5, <1>6, <1>9, <1>11, <1>16, <1>17, <1>18, <1>19 DEF Sound
  <1>21. ~r.asked => \A t \in Admits(l) : Below(t.version, r.version)
    <2> SUFFICES ASSUME ~r.asked, NEW t \in Admits(l) PROVE Below(t.version, r.version)
      OBVIOUS
    <2>1. Below(Pointer(w, l), v)
      BY <1>5, <1>9, <1>13
    <2>2. t.version = Pointer(w, l) \/ Below(t.version, Pointer(w, l))
      BY <1>13, <1>14
    <2>3. t.version \in Semantic /\ Pointer(w, l) \in Semantic
      BY <1>7, <1>13, PointerIs DEF Admits, TagsInv
    <2> QED
      BY <1>5, <1>9, <2>1, <2>2, <2>3, VersionOrder
  <1>22. r.since = ReleasedUpTo(World(1), l)
    <2>1. Admitted(w, l) = Admitted(World(1), l)
      BY <1>6 DEF Admitted, World
    <2> QED
      BY <1>5, <2>1, SameTags
  <1>23. Grounded(l, r)
    BY <1>5, <1>13, <1>14, <1>20, <1>21, <1>22 DEF Grounded
  <1> QED
    BY <1>4, <1>23 DEF r

-----------------------------------------------------------------------------
(* The steps.                                                              *)

\* A sound run stays sound as commits land and tags are minted.
LEMMA SoundStable ==
  ASSUME HistoryInv, HistoryInv', DOMAIN commits \subseteq DOMAIN commits',
         \A c \in DOMAIN commits : commits'[c] = commits[c],
         tags \subseteq tags'
  PROVE  \A r : Sound(r) => Sound(r)'
  <1> TAKE r
  <1> SUFFICES ASSUME Sound(r) PROVE Sound(r)'
    OBVIOUS
  <1>1. r.target \in Names /\ r.since \in Names
    BY DEF Sound, Names
  <1>2. Names \subseteq Names'
        /\ WorthySpan(r.since, r.target)' = WorthySpan(r.since, r.target)
    BY <1>1, Grows
  <1>3. r.target \in DOMAIN commits' /\ r.since \in Names'
    BY <1>1, <1>2 DEF Sound
  <1>4. r.promotion /\ ~r.asked =>
          /\ WorthySpan(r.since, r.target) = {}
          /\ \E t \in tags' : /\ t.commit = r.since
                              /\ IsPrerelease(t.version)
                              /\ t.version.core = r.version.core
    BY DEF Sound
  <1> QED
    BY <1>2, <1>3, <1>4 DEF Sound

\* What the invariant says of a line's runs, said of the releases.
LEMMA InPlayIs ==
  /\ \A l \in Lines : \A r \in runs[l] : r \in Planned(l)
  /\ \A l \in Lines : \A i \in Of(l) : Run(i) \in Planned(l)
  /\ \A l \in Lines : \A r \in Planned(l) : r \in InPlay
  BY DEF Planned, InPlay

\* The releases are numbered from one.
LEMMA LogIs ==
  ASSUME LogInv
  PROVE  /\ Len(releases) \in Nat
         /\ DOMAIN releases = 1..Len(releases)
         /\ \A l : Of(l) \subseteq 1..Len(releases)
  BY DEF LogInv, Of

\* The first release of a line started where the line did.
LEMMA FirstStarts ==
  ASSUME IInv, NEW l \in Lines, Orderly(l), Alone(l), NEW i \in Of(l)
  PROVE  /\ BaseUpTo(l) \in Names
         /\ \A f \in Of(l) : (\A k \in Of(l) : f <= k) => Run(f).since = BaseUpTo(l)
  <1> USE DEF IInv
  <1>1. Of(l) \subseteq Nat /\ Of(l) # {}
    BY LogIs
  <1>2. ASSUME NEW f \in Of(l), \A k \in Of(l) : f <= k
        PROVE  Run(f).since = BaseUpTo(l)
    <2>1. Run(f).after \in Nat /\ Run(f).after < f
      BY InPlayIs DEF AfterInv, Of
    <2>2. Before(l, Run(f)) = {}
      BY <1>1, <1>2, <2>1 DEF Before
    <2> QED
      BY <2>2, InPlayIs DEF SinceLast
  <1>3. \E f \in Of(l) : \A k \in Of(l) : f <= k
    BY <1>1, LeastIs
  <1>4. \A f \in Of(l) : Run(f).since \in Names
    BY InPlayIs DEF AllSound, Sound
  <1> QED
    BY <1>2, <1>3, <1>4

\* Runs that only end, and releases that stay, keep what a line's runs know.
LEMMA QuietStep ==
  ASSUME IInv, HistoryInv', PolicyInv', DOMAIN commits \subseteq DOMAIN commits',
         \A c \in DOMAIN commits : commits'[c] = commits[c],
         \A l \in Lines : \A h : h = heads'[l] => Anc(heads[l]) \subseteq Anc(h)',
         UNCHANGED <<tags, releases>>,
         runs' = [l \in Lines |-> runs'[l]],
         \A l \in Lines : runs'[l] \subseteq runs[l]
  PROVE  IInv'
  <1> USE DEF IInv
  <1>1. /\ Names \subseteq Names'
        /\ \A c \in Names : Anc(c)' = Anc(c)
        /\ \A s \in Names, t \in Names : WorthySpan(s, t)' = WorthySpan(s, t)
    BY Grows
  <1>2. TagsInv'
    BY DEF TagsInv
  <1>3. LogInv'
    BY DEF LogInv, Run
  <1>4. /\ \A i : Run(i)' = Run(i)
        /\ \A l : Of(l)' = Of(l)
        /\ \A l, r : Before(l, r)' = Before(l, r)
        /\ \A l \in Lines : (Orderly(l)' <=> Orderly(l)) /\ (Alone(l)' <=> Alone(l))
                            /\ (Sequential(l)' <=> Sequential(l))
    BY DEF Run, Of, Before, Orderly, Regular, Alone, Sequential, InBand
  <1>5. \A l \in Lines : Planned(l)' \subseteq Planned(l)
    BY <1>4 DEF Planned
  <1>6. InPlay' \subseteq InPlay
    BY <1>5 DEF InPlay
  <1>7. AllSound' /\ AfterInv'
    <2>1. \A r \in InPlay : Sound(r)'
      BY SoundStable DEF AllSound
    <2> QED
      BY <1>4, <1>6, <2>1 DEF AllSound, AfterInv
  <1>8. ASSUME NEW l \in Lines PROVE Rising(l)'
    BY <1>4, <1>5 DEF Rising, Tops
  <1>9. ASSUME NEW l \in Lines PROVE Following(l)'
    <2> SUFFICES ASSUME NEW h \in DOMAIN commits', NEW r \in Planned(l)
                 PROVE  /\ h = heads'[l] => r.target \in Anc(h)'
                        /\ h = r.target => \A i \in Before(l, r) : Run(i).target \in Anc(h)'
      BY <1>4, <1>5 DEF Following
    <2>1. heads[l] \in DOMAIN commits
      BY DEF HistoryInv
    <2>2. h = heads'[l] => r.target \in Anc(h)'
      BY <2>1 DEF Following
    <2>3. \A g \in DOMAIN commits : Anc(g)' = Anc(g)
      BY <1>1 DEF Names
    <2>4. r.target \in DOMAIN commits
      BY InPlayIs DEF AllSound, Sound
    <2>5. h = r.target => \A i \in Before(l, r) : Run(i).target \in Anc(h)'
      BY <2>3, <2>4 DEF Following
    <2> QED
      BY <2>2, <2>5
  <1>10. ASSUME NEW l \in Lines PROVE SinceLast(l)'
    <2>1. BaseUpTo(l)' = BaseUpTo(l)
      BY DEF BaseUpTo
    <2> QED
      BY <1>4, <1>5, <2>1 DEF SinceLast
  <1>11. ASSUME NEW l \in Lines PROVE Once(l)'
    BY <1>4 DEF Once
  <1>12. ASSUME NEW l \in Lines PROVE Kept(l)'
    <2>1. \A i \in Of(l) : Run(i).target \in Names
      BY InPlayIs DEF AllSound, Sound, Names
    <2>2. BaseUpTo(l)' = BaseUpTo(l)
      BY DEF BaseUpTo
    <2> SUFFICES ASSUME Orderly(l), Alone(l), NEW i \in Of(l),
                        \A j \in Of(l) : j <= i => Run(j).head = Run(j).target,
                        NEW s, NEW t, s = BaseUpTo(l), t = Run(i).target,
                        NEW c \in WorthySpan(s, t)'
                 PROVE  \E j \in Of(l) : j <= i /\ c \in Run(j).changes
      BY <1>4, <2>2 DEF Kept
    <2>3. s \in Names /\ t \in Names
      BY <2>1, FirstStarts
    <2>4. c \in WorthySpan(s, t)
      BY <1>1, <2>3
    <2> QED
      BY <2>3, <2>4 DEF Kept
  <1> QED
    BY <1>2, <1>3, <1>7, <1>8, <1>9, <1>10, <1>11, <1>12

\* While no other line's release is in a line's band, what is tagged for the
\* line beyond the baseline is its own releases', and a plan starts at the
\* highest of them, or where the line started.
LEMMA PlansFromHighest ==
  ASSUME IInv, NEW l \in Lines, NEW r, Grounded(l, r), Orderly(l), Alone(l)
  PROVE  \/ Of(l) = {} /\ r.since = BaseUpTo(l)
         \/ \E k \in Of(l) :
               /\ r.since = Run(k).target
               /\ \A i \in Of(l) :
                     Run(i).version = Run(k).version \/ Below(Run(i).version, Run(k).version)
  <1> USE DEF IInv
  <1> DEFINE TagOf(i) == [name |-> Format[releases[i].line], version |-> Run(i).version,
                          commit |-> Run(i).target]
  <1>1. \A t \in Admits(l) : t \in Baseline.tags \/ \E i \in Of(l) : t = TagOf(i)
    <2> SUFFICES ASSUME NEW t \in Admits(l), t \notin Baseline.tags
                 PROVE  \E i \in Of(l) : t = TagOf(i)
      OBVIOUS
    <2>1. PICK i \in DOMAIN releases : t = TagOf(i)
      BY DEF Admits, LogInv
    <2>2. Format[releases[i].line] = "bare" /\ BandAdmits(l, Run(i).version)
      BY <2>1 DEF Admits
    <2>3. releases[i].line = l
      BY <2>2 DEF Alone
    <2> QED
      BY <2>1, <2>3 DEF Of
  <1>2. CASE Of(l) = {}
    <2> DEFINE b == [tags |-> Baseline.tags]
    <2>1. Admits(l) \subseteq Baseline.tags /\ Baseline.tags \subseteq tags
      BY <1>1, <1>2 DEF LogInv
    <2>2. Admitted(World(1), l) = Admits(l)
      BY DEF Admitted, Admits, World
    <2>3. Admitted(b, l) = {t \in Baseline.tags : t.name = "bare" /\ BandAdmits(l, t.version)}
      BY DEF Admitted
    <2>4. Admitted(b, l) = Admits(l)
      BY <2>1, <2>3 DEF Admits
    <2>5. ReleasedUpTo(World(1), l) = ReleasedUpTo(b, l)
      <3> HIDE DEF b
      <3> QED
        BY <2>2, <2>4, SameTags
    <2> QED
      BY <1>2, <2>5 DEF Grounded, BaseUpTo
  <1>3. CASE Of(l) # {}
    <2>1. \A i \in Of(l) : TagOf(i) \in Admits(l)
      <3> TAKE i \in Of(l)
      <3>1. i \in DOMAIN releases /\ releases[i].line = l
        BY DEF Of
      <3>2. InBand(l, Run(i).version)
        BY <3>1 DEF Orderly, Regular
      <3>3. TagOf(i) \in tags
        BY <3>1 DEF LogInv
      <3> QED
        BY <3>1, <3>2, <3>3 DEF Admits, InBand
    <2>2. PICK t \in Admits(l) :
             /\ r.since = t.commit
             /\ \A u \in Admits(l) : u.version = t.version \/ Below(u.version, t.version)
      BY <1>3, <2>1 DEF Grounded
    <2>3. \A i \in Of(l) : Run(i).version = t.version \/ Below(Run(i).version, t.version)
      BY <2>1, <2>2
    <2>4. t \notin Baseline.tags
      <3> SUFFICES ASSUME t \in Baseline.tags PROVE FALSE
        OBVIOUS
      <3>1. PICK i : i \in Of(l)
        BY <1>3
      <3>2. Tops(l, Run(i).version)
        BY <3>1, InPlayIs DEF Rising, Orderly, Regular
      <3>3. Below(t.version, Run(i).version)
        BY <3>2 DEF Tops, Admits
      <3>4. t.version \in Semantic /\ Run(i).version \in Semantic
        BY <3>1, InPlayIs DEF Admits, TagsInv, AllSound, Sound
      <3> QED
        BY <2>3, <3>1, <3>3, <3>4, VersionOrder
    <2>5. PICK k \in Of(l) : t = TagOf(k)
      BY <1>1, <2>4
    <2> QED
      BY <2>2, <2>3, <2>5
  <1> QED
    BY <1>2, <1>3

\* Planning keeps the invariant.
LEMMA PlansStep ==
  ASSUME IInv, NEW l \in Lines, NEW r, Grounded(l, r),
         runs' = [runs EXCEPT ![l] = @ \cup {r}],
         UNCHANGED <<commits, heads, tags, policy, releases, edits>>
  PROVE  IInv'
  <1> USE DEF IInv
  <1>1. HistoryInv' /\ PolicyInv' /\ TagsInv'
    BY DEF HistoryInv, PolicyInv, TagsInv
  <1>2. /\ Names' = Names
        /\ \A c \in Names : Anc(c)' = Anc(c)
        /\ \A s \in Names, t \in Names : WorthySpan(s, t)' = WorthySpan(s, t)
    BY <1>1, Grows DEF Names
  <1>3. runs' = [m \in Lines |-> IF m = l THEN runs[m] \cup {r} ELSE runs[m]]
    BY DEF LogInv
  <1>4. LogInv'
    <2>1. runs' = [m \in Lines |-> runs'[m]]
      BY <1>3
    <2> QED
      BY <2>1 DEF LogInv, Run
  <1>5. /\ \A i : Run(i)' = Run(i)
        /\ \A m : Of(m)' = Of(m)
        /\ \A m, q : Before(m, q)' = Before(m, q)
        /\ \A m \in Lines : (Orderly(m)' <=> Orderly(m)) /\ (Alone(m)' <=> Alone(m))
                            /\ (Sequential(m)' <=> Sequential(m))
    BY DEF Run, Of, Before, Orderly, Regular, Alone, Sequential, InBand
  <1>6. \A m \in Lines : Planned(m)' = IF m = l THEN Planned(m) \cup {r} ELSE Planned(m)
    BY <1>3, <1>5 DEF Planned
  <1>7. InPlay' \subseteq InPlay \cup {r}
    BY <1>6 DEF InPlay
  <1>8. /\ Len(releases) \in Nat
        /\ DOMAIN releases = 1..Len(releases)
        /\ r.after = Len(releases)
    BY LogIs DEF Grounded
  <1>9. Before(l, r) = Of(l)
    BY <1>8 DEF Before, Of
  <1>10. AllSound' /\ AfterInv'
    <2>1. \A q : Sound(q) => Sound(q)'
      BY <1>1, SoundStable
    <2>2. \A q \in InPlay \cup {r} : Sound(q)'
      BY <2>1 DEF AllSound, Grounded
    <2>3. AllSound'
      BY <1>7, <2>2 DEF AllSound
    <2>4. \A q \in InPlay \cup {r} : q.after \in Nat /\ q.after <= Len(releases)
      BY <1>8 DEF AfterInv
    <2>5. AfterInv'
      BY <1>5, <1>7, <2>4 DEF AfterInv
    <2> QED
      BY <2>3, <2>5
  <1>11. ~r.asked =>
           /\ Tops(l, r.version)
           /\ \A i \in DOMAIN releases :
                 Format[releases[i].line] = "bare" /\ BandAdmits(l, Run(i).version) =>
                    Below(Run(i).version, r.version)
    <2> SUFFICES ASSUME ~r.asked
                 PROVE  /\ Tops(l, r.version)
                        /\ \A i \in DOMAIN releases :
                              Format[releases[i].line] = "bare" /\ BandAdmits(l, Run(i).version) =>
                                 Below(Run(i).version, r.version)
      OBVIOUS
    <2>1. \A t \in tags : t.name = "bare" /\ BandAdmits(l, t.version) => Below(t.version, r.version)
      BY DEF Grounded, Admits
    <2>2. Tops(l, r.version)
      BY <2>1 DEF Tops, LogInv
    <2>3. ASSUME NEW i \in DOMAIN releases, Format[releases[i].line] = "bare",
                 BandAdmits(l, Run(i).version)
          PROVE  Below(Run(i).version, r.version)
      <3> DEFINE t == [name |-> Format[releases[i].line], version |-> Run(i).version,
                       commit |-> Run(i).target]
      <3>1. t \in tags
        BY DEF LogInv
      <3>2. t.name = "bare" /\ t.version = Run(i).version
        BY <2>3
      <3> HIDE DEF t
      <3> QED
        BY <2>1, <2>3, <3>1, <3>2
    <2> QED
      BY <2>2, <2>3
  <1>12. ASSUME NEW m \in Lines PROVE Rising(m)'
    BY <1>5, <1>6, <1>11 DEF Rising, Tops
  <1>13. ASSUME NEW m \in Lines PROVE Following(m)'
    <2> SUFFICES ASSUME NEW h \in DOMAIN commits, NEW q \in Planned(m)'
                 PROVE  /\ h = heads[m] => q.target \in Anc(h)
                        /\ h = q.target => \A i \in Before(m, q) : Run(i).target \in Anc(h)
      BY <1>2, <1>5 DEF Following, Names
    <2>1. CASE q \in Planned(m)
      BY <2>1 DEF Following
    <2>2. CASE q \notin Planned(m)
      <3>1. m = l /\ q = r /\ r.target = heads[l]
        BY <1>6, <2>2 DEF Grounded
      <3>2. h \in Anc(h)
        BY AncIs
      <3>3. h = heads[l] => \A i \in Of(l) : Run(i).target \in Anc(h)
        BY InPlayIs DEF Following
      <3> QED
        BY <1>9, <3>1, <3>2, <3>3
    <2> QED
      BY <2>1, <2>2
  <1>14. ASSUME NEW m \in Lines PROVE SinceLast(m)'
    <2>1. BaseUpTo(m)' = BaseUpTo(m)
      BY DEF BaseUpTo
    <2> SUFFICES ASSUME Orderly(m), Alone(m), NEW q \in Planned(m)'
                 PROVE  \/ Before(m, q) = {} /\ q.since = BaseUpTo(m)
                        \/ \E k \in Before(m, q) :
                              /\ q.since = Run(k).target
                              /\ \A i \in Before(m, q) :
                                    \/ Run(i).version = Run(k).version
                                    \/ Below(Run(i).version, Run(k).version)
      BY <1>5, <2>1 DEF SinceLast
    <2>2. CASE q \in Planned(m)
      BY <2>2 DEF SinceLast
    <2>3. CASE q \notin Planned(m)
      <3>1. m = l /\ q = r
        BY <1>6, <2>3
      <3> QED
        BY <1>9, <3>1, PlansFromHighest
    <2> QED
      BY <2>2, <2>3
  <1>15. ASSUME NEW m \in Lines PROVE Once(m)'
    BY <1>5 DEF Once
  <1>16. ASSUME NEW m \in Lines PROVE Kept(m)'
    <2>1. BaseUpTo(m)' = BaseUpTo(m)
      BY DEF BaseUpTo
    <2> QED
      BY <1>2, <1>5, <2>1 DEF Kept
  <1> QED
    BY <1>1, <1>4, <1>10, <1>12, <1>13, <1>14, <1>15, <1>16

\* Where a line's releases follow one another, the highest of them is the
\* last, and its target reaches every other's.
LEMMA SequentialReach ==
  ASSUME IInv, NEW l \in Lines, Orderly(l), Sequential(l), NEW k \in Of(l), NEW i \in Of(l),
         Run(i).version = Run(k).version \/ Below(Run(i).version, Run(k).version)
  PROVE  Run(i).target \in Anc(Run(k).target)
  <1> USE DEF IInv
  <1>1. i \in Nat /\ k \in Nat /\ i \in DOMAIN releases /\ k \in DOMAIN releases
    BY LogIs DEF Of
  <1>2. /\ Run(i).version \in Semantic /\ Run(k).version \in Semantic
        /\ Run(k).target \in DOMAIN commits
    BY InPlayIs DEF AllSound, Sound
  <1>3. CASE i = k
    BY <1>2, <1>3, AncIs
  <1>4. CASE i < k
    <2>1. i \in Before(l, Run(k))
      BY <1>4 DEF Sequential, Before
    <2> QED
      BY <1>2, <2>1, InPlayIs DEF Following
  <1>5. CASE k < i
    <2>1. k <= Run(i).after /\ ~Run(i).asked
      BY <1>5 DEF Sequential, Orderly, Regular
    <2>2. releases[k].line = l /\ InBand(l, Run(k).version)
      BY DEF Orderly, Regular, Of
    <2>3. Format[releases[k].line] = "bare" /\ BandAdmits(l, Run(k).version)
      BY <2>2 DEF InBand
    <2>4. Run(i) \in Planned(l)
      BY InPlayIs
    <2>5. Below(Run(k).version, Run(i).version)
      BY <1>1, <2>1, <2>3, <2>4 DEF Rising
    <2> QED
      BY <1>2, <2>5, VersionOrder
  <1> QED
    BY <1>1, <1>3, <1>4, <1>5

\* Minting keeps the invariant.
LEMMA MintsStep ==
  ASSUME IInv, NEW l \in Lines, Mints(l)
  PROVE  IInv'
  <1> USE DEF IInv
  <1>b. PICK n : n = Len(releases) + 1
    OBVIOUS
  <1>1. PICK r \in runs[l] :
          /\ tags' = tags \cup {[name |-> Format[l], version |-> r.version, commit |-> r.target]}
          /\ releases' = Append(releases, [line |-> l, run |-> r])
          /\ runs' = [runs EXCEPT ![l] = @ \ {r}]
          /\ UNCHANGED <<commits, heads, policy, edits>>
    BY DEF Mints
  <1> DEFINE minted == [name |-> Format[l], version |-> r.version, commit |-> r.target]
  <1>2. Sound(r) /\ r \in Planned(l)
    BY InPlayIs DEF AllSound
  <1>3. HistoryInv' /\ PolicyInv'
    BY <1>1 DEF HistoryInv, PolicyInv
  <1>4. /\ Names' = Names
        /\ \A c \in Names : Anc(c)' = Anc(c)
        /\ \A s \in Names, t \in Names : WorthySpan(s, t)' = WorthySpan(s, t)
    BY <1>1, <1>3, Grows DEF Names
  <1>5. TagsInv'
    <2>1. IsFiniteSet({minted})
      BY FS_Singleton
    <2>2. IsFiniteSet(tags \cup {minted})
      BY <2>1, FS_Union DEF TagsInv
    <2>3. minted.version \in Semantic /\ minted.commit \in DOMAIN commits
      BY <1>2 DEF Sound
    <2>4. tags' = tags \cup {minted}
      BY <1>1
    <2> HIDE DEF minted
    <2> QED
      BY <1>1, <2>2, <2>3, <2>4 DEF TagsInv
  <1>6. runs' = [m \in Lines |-> IF m = l THEN runs[m] \ {r} ELSE runs[m]]
    BY <1>1 DEF LogInv
  <1>7. /\ Len(releases) \in Nat /\ DOMAIN releases = 1..Len(releases)
        /\ n \in Nat /\ n \notin DOMAIN releases
        /\ \A i \in DOMAIN releases : i \in Nat /\ i < n
    BY <1>b, LogIs
  <1>8. /\ DOMAIN releases' = DOMAIN releases \cup {n}
        /\ \A i \in DOMAIN releases : releases'[i] = releases[i]
        /\ releases'[n].line = l /\ releases'[n].run = r
        /\ \E S : releases' \in Seq(S)
        /\ Len(releases') = n
    <2>1. PICK S : releases \in Seq(S)
      BY DEF LogInv
    <2> DEFINE e == [line |-> l, run |-> r]
               T == S \cup {e}
    <2>2. releases \in Seq(T) /\ e \in T
      BY <2>1
    <2>3. e.line = l /\ e.run = r
      OBVIOUS
    <2>4. releases' = Append(releases, e)
      BY <1>1
    <2> HIDE DEF e, T
    <2>5. /\ Append(releases, e) \in Seq(T)
          /\ Len(Append(releases, e)) = n
          /\ \A i \in 1..Len(releases) : Append(releases, e)[i] = releases[i]
          /\ Append(releases, e)[n] = e
      BY <1>b, <2>2
    <2>6. DOMAIN releases' = 1..n
      BY <2>4, <2>5
    <2>7. 1..n = 1..Len(releases) \cup {n}
      BY <1>b, <1>7
    <2> QED
      BY <1>7, <2>3, <2>4, <2>5, <2>6, <2>7
  <1>9. /\ \A i \in DOMAIN releases : Run(i)' = Run(i)
        /\ Run(n)' = r
    BY <1>8 DEF Run
  <1>10. /\ Of(l)' = Of(l) \cup {n}
         /\ \A m \in Lines : m # l => Of(m)' = Of(m)
         /\ \A m \in Lines : Of(m) \subseteq DOMAIN releases /\ Of(m) \subseteq Of(m)'
    <2>1. \A m \in Lines : Of(m)' = {i \in DOMAIN releases \cup {n} : releases'[i].line = m}
      BY <1>8 DEF Of
    <2> QED
      BY <1>7, <1>8, <2>1 DEF Of
  <1>11. \A m \in Lines : (Orderly(m)' => Orderly(m)) /\ (Alone(m)' => Alone(m))
                          /\ (Sequential(m)' => Sequential(m))
    <2>1. \A m \in Lines : Orderly(m)' => Orderly(m)
      <3>1. \A m \in Lines : \A i \in Of(m) : Regular(i)' <=> Regular(i)
        BY <1>8, <1>9, <1>10 DEF Regular, InBand
      <3> QED
        BY <1>10, <3>1 DEF Orderly
    <2>2. \A m \in Lines : Alone(m)' => Alone(m)
      BY <1>8, <1>9 DEF Alone
    <2>3. \A m \in Lines : Sequential(m)' => Sequential(m)
      BY <1>9, <1>10 DEF Sequential
    <2> QED
      BY <2>1, <2>2, <2>3
  <1>12. LogInv'
    <2>1. \A i \in DOMAIN releases' : releases'[i].line \in Lines
      BY <1>8 DEF LogInv
    <2> DEFINE TagOf(i) == [name |-> Format[releases[i].line], version |-> Run(i).version,
                            commit |-> Run(i).target]
    <2>2. \A i \in DOMAIN releases : TagOf(i)' = TagOf(i)
      BY <1>8, <1>9
    <2>3. TagOf(n)' = minted
      BY <1>8, <1>9
    <2>4. {TagOf(i)' : i \in DOMAIN releases'}
          = {TagOf(i) : i \in DOMAIN releases} \cup {minted}
      <3> HIDE DEF TagOf, minted
      <3> QED
        BY <1>8, <2>2, <2>3
    <2>5. tags = Baseline.tags \cup {TagOf(i) : i \in DOMAIN releases}
      BY DEF LogInv
    <2>6. tags' = tags \cup {minted}
      BY <1>1
    <2>7. tags' = Baseline.tags \cup {TagOf(i)' : i \in DOMAIN releases'}
      <3> HIDE DEF TagOf, minted
      <3> QED
        BY <2>4, <2>5, <2>6
    <2>8. runs' = [m \in Lines |-> runs'[m]]
      BY <1>6
    <2> QED
      BY <1>8, <2>1, <2>7, <2>8 DEF LogInv
  <1> HIDE DEF minted
  <1>13. \A m \in Lines : Planned(m)' \subseteq Planned(m)
    <2> SUFFICES ASSUME NEW m \in Lines, NEW q \in Planned(m)' PROVE q \in Planned(m)
      OBVIOUS
    <2>1. CASE q \in runs'[m]
      BY <1>6, <2>1 DEF Planned
    <2>2. CASE q \notin runs'[m]
      <3>1. PICK i \in Of(m)' : q = Run(i)'
        BY <2>2 DEF Planned
      <3>2. CASE i \in Of(m)
        BY <1>9, <1>10, <3>1, <3>2, InPlayIs
      <3>3. CASE i \notin Of(m)
        BY <1>2, <1>9, <1>10, <3>1, <3>3
      <3> QED
        BY <3>2, <3>3
    <2> QED
      BY <2>1, <2>2
  <1>14. InPlay' \subseteq InPlay
    BY <1>13 DEF InPlay
  <1>15. \A q \in InPlay : q.after \in Nat /\ q.after < n
    BY <1>b, <1>7 DEF AfterInv
  <1>16. \A m \in Lines : \A q \in Planned(m) : Before(m, q)' = Before(m, q)
    <2> TAKE m \in Lines
    <2> TAKE q \in Planned(m)
    <2>1. q.after \in Nat /\ ~(n <= q.after)
      BY <1>7, <1>15, InPlayIs
    <2> QED
      BY <1>10, <2>1 DEF Before
  <1>17. AllSound' /\ AfterInv'
    <2>1. \A q : Sound(q) => Sound(q)'
      BY <1>1, <1>3, SoundStable
    <2>2. AllSound'
      BY <1>14, <2>1 DEF AllSound
    <2>3. \A i \in DOMAIN releases' : Run(i)'.after < i
      BY <1>2, <1>8, <1>9, <1>15, InPlayIs DEF AfterInv
    <2>4. \A q \in InPlay' : q.after \in Nat /\ q.after <= n
      BY <1>7, <1>14, <1>15
    <2> QED
      BY <1>8, <2>2, <2>3, <2>4 DEF AfterInv
  <1>18. ASSUME NEW m \in Lines PROVE Rising(m)'
    <2> SUFFICES ASSUME NEW q \in Planned(m), ~q.asked
                 PROVE  /\ Tops(m, q.version)
                        /\ \A i \in DOMAIN releases' :
                              /\ i <= q.after
                              /\ Format[releases'[i].line] = "bare"
                              /\ BandAdmits(m, Run(i)'.version)
                              => Below(Run(i)'.version, q.version)
      BY <1>13 DEF Rising, Tops
    <2>1. q.after \in Nat /\ ~(n <= q.after)
      BY <1>7, <1>15, InPlayIs
    <2> QED
      BY <1>8, <1>9, <2>1 DEF Rising
  <1>19. ASSUME NEW m \in Lines PROVE Following(m)'
    <2> SUFFICES ASSUME NEW h \in DOMAIN commits, NEW q \in Planned(m)
                 PROVE  /\ h = heads[m] => q.target \in Anc(h)
                        /\ h = q.target => \A i \in Before(m, q) : Run(i)'.target \in Anc(h)
      BY <1>1, <1>4, <1>13, <1>16 DEF Following, Names
    <2>1. \A i \in Before(m, q) : Run(i)' = Run(i)
      BY <1>9, <1>10 DEF Before
    <2> QED
      BY <2>1 DEF Following
  <1>20. ASSUME NEW m \in Lines PROVE SinceLast(m)'
    <2>1. BaseUpTo(m)' = BaseUpTo(m)
      BY DEF BaseUpTo
    <2> SUFFICES ASSUME Orderly(m), Alone(m), NEW q \in Planned(m)
                 PROVE  \/ Before(m, q) = {} /\ q.since = BaseUpTo(m)
                        \/ \E k \in Before(m, q) :
                              /\ q.since = Run(k)'.target
                              /\ \A i \in Before(m, q) :
                                    \/ Run(i)'.version = Run(k)'.version
                                    \/ Below(Run(i)'.version, Run(k)'.version)
      BY <1>11, <1>13, <1>16, <2>1 DEF SinceLast
    <2>2. \A i \in Before(m, q) : Run(i)' = Run(i)
      BY <1>9, <1>10 DEF Before
    <2> QED
      BY <2>2 DEF SinceLast
  <1>21. r.target \in DOMAIN commits /\ r.target \in Names
    BY <1>2 DEF Sound, Names
  <1>22. ASSUME NEW s, NEW t
         PROVE  WorthySpan(s, t) = {c \in Anc(t) \ Anc(s) : Worthy(World(1), c)}
    BY DEF WorthySpan, Span, Anc
  <1>23. \A i \in Of(l) : /\ Sound(Run(i)) /\ Run(i).target \in DOMAIN commits
                          /\ Run(i).changes \subseteq Anc(Run(i).target)
    <2> TAKE i \in Of(l)
    <2>1. Sound(Run(i))
      BY InPlayIs DEF AllSound
    <2> QED
      BY <1>22, <2>1 DEF Sound
  <1>24. ASSUME NEW m \in Lines PROVE Once(m)'
    <2>1. CASE m # l
      BY <1>9, <1>10, <1>11, <2>1 DEF Once
    <2>2. CASE m = l
      <3>1. ASSUME Orderly(l)', Alone(l)', Sequential(l)', NEW i \in Of(l)
            PROVE  Run(i).changes \cap r.changes = {}
        <4>1. Orderly(l) /\ Alone(l) /\ Sequential(l)
          BY <1>11, <3>1
        <4>2. \A j \in Of(l) : j <= r.after
          BY <1>7, <1>9, <1>10, <3>1 DEF Sequential
        <4>3. Before(l, r) = Of(l)
          BY <4>2 DEF Before
        <4>4. PICK k \in Of(l) :
                 /\ r.since = Run(k).target
                 /\ \A j \in Of(l) : \/ Run(j).version = Run(k).version
                                     \/ Below(Run(j).version, Run(k).version)
          BY <1>2, <3>1, <4>1, <4>3 DEF SinceLast
        <4>5. Run(i).target \in Anc(Run(k).target)
          BY <4>1, <4>4, SequentialReach
        <4>6. Run(i).changes \subseteq Anc(Run(k).target)
          BY <1>23, <4>5, AncIs
        <4>7. r.changes \cap Anc(r.since) = {}
          BY <1>2, <1>22 DEF Sound
        <4> QED
          BY <4>4, <4>6, <4>7
      <3> QED
        BY <1>9, <1>10, <1>11, <2>2, <3>1 DEF Once
    <2> QED
      BY <2>1, <2>2
  <1>25. ASSUME NEW m \in Lines PROVE Kept(m)'
    <2>1. BaseUpTo(m)' = BaseUpTo(m)
      BY DEF BaseUpTo
    <2> SUFFICES ASSUME Orderly(m)', Alone(m)', NEW i \in Of(m)',
                        \A j \in Of(m)' : j <= i => Run(j)'.head = Run(j)'.target,
                        NEW s \in Names, NEW t \in Names,
                        s = BaseUpTo(m), t = Run(i)'.target,
                        NEW c \in WorthySpan(s, t)
                 PROVE  \E j \in Of(m)' : j <= i /\ c \in Run(j)'.changes
      BY <1>4, <2>1 DEF Kept
    <2>2. Orderly(m) /\ Alone(m)
      BY <1>11
    <2>3. CASE i \in Of(m)
      <3>1. \A j \in Of(m) : j <= i => Run(j).head = Run(j).target
        BY <1>9, <1>10
      <3>2. t = Run(i).target
        BY <1>9, <1>10, <2>3
      <3>3. \E j \in Of(m) : j <= i /\ c \in Run(j).changes
        BY <2>2, <2>3, <3>1, <3>2 DEF Kept
      <3> QED
        BY <1>9, <1>10, <3>3
    <2>4. CASE i \notin Of(m)
      <3>1. m = l /\ i = n
        BY <1>10, <2>4
      <3>2. t = r.target /\ r.head = r.target /\ i <= i
        BY <1>7, <1>9, <3>1
      <3>3. r.changes = WorthySpan(r.since, r.target)
        BY <1>2, <3>2 DEF Sound
      <3>4. CASE c \in r.changes
        BY <1>9, <3>1, <3>2, <3>4
      <3>5. CASE c \notin r.changes
        <4>1. r.since # s
          BY <3>2, <3>3, <3>5
        <4>2. PICK k \in Before(l, r) : r.since = Run(k).target
          BY <1>2, <2>2, <3>1, <4>1 DEF SinceLast
        <4>3. k \in Of(l) /\ k \in Nat /\ k <= n
          BY <1>7, <1>10, <4>2 DEF Before
        <4>4. Run(k).target \in Names
          BY <1>23, <4>3 DEF Names
        <4>5. c \in Anc(r.since)
          BY <1>22, <3>2, <3>3, <3>5
        <4>6. c \in WorthySpan(s, Run(k).target)
          BY <1>22, <4>2, <4>5
        <4>7. \A j \in Of(l) : j <= k => Run(j).head = Run(j).target
          BY <1>7, <1>9, <1>10, <3>1, <4>3
        <4>8. \E j \in Of(l) : j <= k /\ c \in Run(j).changes
          BY <2>2, <3>1, <4>3, <4>4, <4>6, <4>7 DEF Kept
        <4>9. \A j \in Of(l) : j <= n
          BY <1>7, <1>10
        <4> QED
          BY <1>9, <1>10, <3>1, <4>8, <4>9
      <3> QED
        BY <3>4, <3>5
    <2> QED
      BY <2>3, <2>4
  <1> QED
    BY <1>3, <1>5, <1>12, <1>17, <1>18, <1>19, <1>20, <1>24, <1>25

\* A run that ends without a tag only leaves the runs in flight.
LEMMA EndsStep ==
  ASSUME IInv, NEW l \in Lines, Ends(l)
  PROVE  IInv'
  <1>1. PICK r \in runs[l] :
           /\ runs' = [runs EXCEPT ![l] = @ \ {r}]
           /\ UNCHANGED <<commits, heads, tags, policy, releases, edits>>
    BY DEF Ends
  <1>2. HistoryInv' /\ PolicyInv'
    BY <1>1 DEF IInv, HistoryInv, PolicyInv
  <1>3. \A m \in Lines : \A h : h = heads'[m] => Anc(heads[m]) \subseteq Anc(h)'
    <2>1. \A c \in Names : Anc(c)' = Anc(c)
      BY <1>1, <1>2, Grows DEF IInv
    <2>2. \A m \in Lines : heads'[m] = heads[m] /\ heads[m] \in Names
      BY <1>1 DEF IInv, HistoryInv, Names
    <2> QED
      BY <2>1, <2>2
  <1>4. runs' = [m \in Lines |-> IF m = l THEN runs[m] \ {r} ELSE runs[m]]
    BY <1>1 DEF IInv, LogInv
  <1> QED
    BY <1>1, <1>2, <1>3, <1>4, QuietStep

\* A commit that lands on a line has the head of the line as a parent.
LEMMA LandsStep ==
  ASSUME IInv, NEW l \in Lines, NEW commit, Lands(l, commit),
         heads[l] \in commit.parents, commit.parents \subseteq DOMAIN commits
  PROVE  IInv'
  <1>1. HistoryInv
    BY DEF IInv
  <1>2. /\ Len(commits) \in Nat /\ DOMAIN commits = 1..Len(commits)
        /\ \A c \in 1..Len(commits) : commits[c].parents \subseteq 1..(c - 1)
    BY <1>1 DEF HistoryInv, IsHistory
  <1>3. PICK n : n = Len(commits) + 1
    OBVIOUS
  <1>4. PICK S : commits \in Seq(S)
    BY <1>1 DEF HistoryInv
  <1> DEFINE T == S \cup {commit}
  <1>5. commits \in Seq(T) /\ commit \in T
    BY <1>4
  <1> HIDE DEF T
  <1>6. /\ commits' \in Seq(T) /\ Len(commits') = n
        /\ \A c \in 1..Len(commits) : commits'[c] = commits[c]
        /\ commits'[n] = commit
    <2>1. /\ Append(commits, commit) \in Seq(T)
          /\ Len(Append(commits, commit)) = Len(commits) + 1
          /\ \A c \in 1..Len(commits) : Append(commits, commit)[c] = commits[c]
          /\ Append(commits, commit)[Len(commits) + 1] = commit
      BY <1>5
    <2> QED
      BY <1>3, <2>1 DEF Lands
  <1>7. DOMAIN commits' = 1..n /\ 1..n = 1..Len(commits) \cup {n} /\ n \in Nat
    <2>1. DOMAIN commits' = 1..n
      BY <1>6
    <2> QED
      BY <1>2, <1>3, <2>1
  <1>8. heads' = [heads EXCEPT ![l] = n]
    BY <1>6 DEF Lands
  <1>9. HistoryInv'
    <2>1. \A c \in 1..n : commits'[c].parents \subseteq 1..(c - 1)
      <3> TAKE c \in 1..n
      <3>1. CASE c = n
        <4>1. 1..(n - 1) = DOMAIN commits
          BY <1>2, <1>3
        <4> QED
          BY <1>6, <3>1, <4>1
      <3>2. CASE c # n
        BY <1>2, <1>6, <1>7, <3>2
      <3> QED
        BY <3>1, <3>2
    <2>2. IsHistory(commits')
      BY <1>6, <1>7, <2>1 DEF IsHistory
    <2>3. heads' \in [Lines -> DOMAIN commits']
      BY <1>1, <1>2, <1>7, <1>8 DEF HistoryInv
    <2> QED
      BY <1>6, <2>2, <2>3 DEF HistoryInv
  <1>10. PolicyInv'
    BY DEF IInv, PolicyInv, Lands
  <1>11. DOMAIN commits \subseteq DOMAIN commits' /\ \A c \in DOMAIN commits : commits'[c] = commits[c]
    BY <1>2, <1>6, <1>7
  <1>12. \A c \in Names : Anc(c)' = Anc(c)
    BY <1>1, <1>9, <1>11, Grows
  <1>13. ASSUME NEW g, g = heads[l]
         PROVE  Anc(g)' \subseteq Anc(n)'
    <2> DEFINE x == World(1)'
    <2>1. x.commits = commits' /\ x.seen = DOMAIN x.commits /\ IsHistory(x.commits)
      <3>1. x.commits = commits' /\ x.seen = {c \in DOMAIN commits' : c >= 1}
        BY DEF World
      <3>2. {c \in DOMAIN commits' : c >= 1} = DOMAIN commits'
        BY <1>7
      <3> HIDE DEF x
      <3> QED
        BY <1>9, <3>1, <3>2 DEF HistoryInv
    <2>2. \A c : Anc(c)' = Ancestry(x, c)
      BY DEF Anc
    <2> HIDE DEF x
    <2>3. n \in DOMAIN x.commits /\ g \in x.commits[n].parents
      BY <1>6, <1>7, <1>13, <2>1
    <2>4. Ancestry(x, g) \subseteq Ancestry(x, n)
      BY <2>1, <2>3, AncestryIs
    <2> QED
      BY <2>2, <2>4
  <1>14. ASSUME NEW m \in Lines, NEW h, h = heads'[m]
         PROVE  Anc(heads[m]) \subseteq Anc(h)'
    <2>1. heads[m] \in Names
      BY <1>1 DEF HistoryInv, Names
    <2>2. CASE m = l
      <3>1. h = n
        BY <1>1, <1>8, <1>14, <2>2 DEF HistoryInv
      <3>2. PICK g : g = heads[l]
        OBVIOUS
      <3>3. Anc(g)' \subseteq Anc(n)'
        BY <1>13, <3>2
      <3> QED
        BY <1>12, <2>1, <2>2, <3>1, <3>2, <3>3
    <2>3. CASE m # l
      <3>1. h = heads[m]
        BY <1>1, <1>8, <1>14, <2>3 DEF HistoryInv
      <3> QED
        BY <1>12, <2>1, <3>1
    <2> QED
      BY <2>2, <2>3
  <1>15. UNCHANGED <<tags, releases, runs>>
    BY DEF Lands
  <1>16. runs' = [m \in Lines |-> runs'[m]] /\ \A m \in Lines : runs'[m] \subseteq runs[m]
    BY <1>15 DEF IInv, LogInv
  <1> QED
    BY <1>9, <1>10, <1>11, <1>14, <1>15, <1>16, QuietStep

\* An edit touches only the policy.
LEMMA EditsStep ==
  ASSUME IInv, PolicyInv', UNCHANGED <<commits, heads, tags, runs, releases>>
  PROVE  IInv'
  <1>1. HistoryInv /\ HistoryInv'
    BY DEF IInv, HistoryInv
  <1>2. \A m \in Lines : \A h : h = heads'[m] => Anc(heads[m]) \subseteq Anc(h)'
    <2>1. \A c \in Names : Anc(c)' = Anc(c)
      BY <1>1, Grows
    <2>2. \A m \in Lines : heads'[m] = heads[m] /\ heads[m] \in Names
      BY <1>1 DEF HistoryInv, Names
    <2> QED
      BY <2>1, <2>2
  <1>3. runs' = [m \in Lines |-> runs'[m]] /\ \A m \in Lines : runs'[m] \subseteq runs[m]
    BY DEF IInv, LogInv
  <1> QED
    BY <1>1, <1>2, <1>3, QuietStep

\* A freeze leaves a policy.
LEMMA FreezesKeepsPolicy ==
  ASSUME PolicyInv, NEW l \in Lines, Freezes(l)
  PROVE  PolicyInv'
  <1>1. PICK value \in {"active", "frozen"} :
           policy' = [policy EXCEPT !["lifecycle"] = [policy["lifecycle"] EXCEPT ![l] = value]]
    BY DEF Freezes, Edits
  <1> QED
    BY <1>1 DEF PolicyInv

\* A withholding leaves a policy.
LEMMA WithholdsKeepsPolicy ==
  ASSUME PolicyInv, NEW l \in Lines, Withholds(l)
  PROVE  PolicyInv'
  <1>1. PICK value \in SUBSET {"held"} :
           policy' = [policy EXCEPT !["withhold"] = [policy["withhold"] EXCEPT ![l] = value]]
    BY DEF Withholds, Edits
  <1> QED
    BY <1>1 DEF PolicyInv

\* The invariant holds initially.
LEMMA InitHolds == Init => IInv
  <1> SUFFICES ASSUME Init PROVE IInv
    OBVIOUS
  <1>1. HistoryInv
    <2>1. Len(commits) \in Nat /\ DOMAIN commits = 1..Len(commits)
      BY BaselineAdmitted DEF Init
    <2> QED
      BY <2>1, BaselineAdmitted DEF Init, HistoryInv, IsHistory
  <1>2. PolicyInv
    BY PolicyAdmitted DEF Init, PolicyInv
  <1>3. TagsInv
    BY BaselineAdmitted DEF Init, TagsInv
  <1>4. releases = << >> /\ DOMAIN releases = {} /\ (\A l \in Lines : runs[l] = {})
    BY DEF Init
  <1>5. \A l : Of(l) = {}
    BY <1>4 DEF Of
  <1>6. LogInv
    <2>1. releases \in Seq({})
      BY <1>4
    <2> QED
      BY <1>4, <2>1 DEF Init, LogInv
  <1>7. \A l \in Lines : Planned(l) = {}
    BY <1>4, <1>5 DEF Planned
  <1>8. InPlay = {}
    BY <1>7 DEF InPlay
  <1>9. AllSound /\ AfterInv
    BY <1>4, <1>8 DEF AllSound, AfterInv
  <1>10. ASSUME NEW l \in Lines
         PROVE  Rising(l) /\ Following(l) /\ SinceLast(l) /\ Once(l) /\ Kept(l)
    BY <1>5, <1>7 DEF Rising, Following, SinceLast, Once, Kept
  <1> QED
    BY <1>1, <1>2, <1>3, <1>6, <1>9, <1>10 DEF IInv

\* And every step keeps it.
LEMMA NextKeeps == IInv /\ [Next]_vars => IInv'
  <1> SUFFICES ASSUME IInv, [Next]_vars PROVE IInv'
    OBVIOUS
  <1>0. HistoryInv /\ PolicyInv /\ TagsInv
    BY DEF IInv
  <1>1. CASE UNCHANGED vars
    <2>1. PolicyInv'
      BY <1>0, <1>1 DEF PolicyInv, vars
    <2> QED
      BY <1>1, <2>1, EditsStep DEF vars
  <1>2. ASSUME NEW l \in Lines, Plans(l) PROVE IInv'
    <2>1. PICK r : runs' = [runs EXCEPT ![l] = @ \cup {r}] /\ Grounded(l, r)
      BY <1>0, <1>2, PlansIs
    <2>2. UNCHANGED <<commits, heads, tags, policy, releases, edits>>
      BY <1>2 DEF Plans
    <2> QED
      BY <2>1, <2>2, PlansStep
  <1>3. ASSUME NEW l \in Lines, CommitsTo(l) PROVE IInv'
    <2>1. PICK s \in Shapes :
             Lands(l, [type |-> s.type, scope |-> s.scope, footer |-> s.footer,
                       pick |-> NoCommit, parents |-> {heads[l]}])
      BY <1>3 DEF CommitsTo
    <2>2. heads[l] \in DOMAIN commits
      BY <1>0 DEF HistoryInv
    <2> QED
      BY <2>1, <2>2, LandsStep
  <1>4. ASSUME NEW l \in Lines, CherryPicks(l) PROVE IInv'
    <2>1. PICK c \in DOMAIN commits :
             Lands(l, [type |-> commits[c].type, scope |-> commits[c].scope,
                       footer |-> commits[c].footer, pick |-> c, parents |-> {heads[l]}])
      BY <1>4 DEF CherryPicks
    <2>2. heads[l] \in DOMAIN commits
      BY <1>0 DEF HistoryInv
    <2> QED
      BY <2>1, <2>2, LandsStep
  <1>5. ASSUME NEW l \in Lines, Merges(l) PROVE IInv'
    <2>1. PICK m \in Lines :
             Lands(l, [type |-> "free", scope |-> "none", footer |-> NoFooter,
                       pick |-> NoCommit, parents |-> {heads[l], heads[m]}])
      BY <1>5 DEF Merges
    <2>2. heads[l] \in DOMAIN commits /\ heads[m] \in DOMAIN commits
      BY <1>0 DEF HistoryInv
    <2> QED
      BY <2>1, <2>2, LandsStep
  <1>6. ASSUME NEW l \in Lines, Freezes(l) PROVE IInv'
    BY <1>0, <1>6, FreezesKeepsPolicy, EditsStep DEF Freezes, Edits
  <1>7. ASSUME NEW l \in Lines, Withholds(l) PROVE IInv'
    BY <1>0, <1>7, WithholdsKeepsPolicy, EditsStep DEF Withholds, Edits
  <1> QED
    BY <1>1, <1>2, <1>3, <1>4, <1>5, <1>6, <1>7, MintsStep, EndsStep DEF Next

-----------------------------------------------------------------------------
(* The theorems.                                                           *)

\* The inductive invariant of the planner.
THEOREM PlannerInductive == Spec => []IInv
  BY InitHolds, NextKeeps, PTL DEF Spec

\* A release of a line, planned from its history, is above what the line
\* started at and every release its plan could know, whichever runs
\* overlapped (plan.ts, state.ts).
THEOREM VersionsOnlyRise == Spec => []VersionsRise
  <1>1. IInv => VersionsRise
    <2> SUFFICES ASSUME IInv, NEW l \in Lines, NEW j \in Of(l), ~Run(j).asked
                 PROVE  /\ Tops(l, Run(j).version)
                        /\ \A i \in Of(l) :
                              i <= Run(j).after /\ InBand(l, Run(i).version) =>
                                 Below(Run(i).version, Run(j).version)
      BY DEF VersionsRise, Tops
    <2>1. Run(j) \in Planned(l)
      BY InPlayIs
    <2>2. \A i \in Of(l) : InBand(l, Run(i).version) =>
             /\ i \in DOMAIN releases /\ Format[releases[i].line] = "bare"
             /\ BandAdmits(l, Run(i).version)
      BY DEF Of, InBand
    <2> QED
      BY <2>1, <2>2 DEF IInv, Rising
  <1> QED
    BY <1>1, PlannerInductive, PTL

\* No release carries a commit its tag does not contain, and none is carried
\* twice on a line whose history is its own and whose releases follow one
\* another (attribute.ts, decide.ts).
THEOREM ChangesAreReleasedOnce == Spec => []ReleasedOnce
  <1>1. IInv => ReleasedOnce
    <2> SUFFICES ASSUME IInv, NEW l \in Lines
                 PROVE  /\ \A i \in Of(l) : Run(i).changes \subseteq Ancestry(World(1), Run(i).target)
                        /\ Orderly(l) /\ Alone(l) /\ Sequential(l) =>
                              \A i, j \in Of(l) : i # j => Run(i).changes \cap Run(j).changes = {}
      BY DEF ReleasedOnce
    <2>1. ASSUME NEW i \in Of(l)
          PROVE  Run(i).changes \subseteq Ancestry(World(1), Run(i).target)
      <3>1. Sound(Run(i))
        BY InPlayIs DEF IInv, AllSound
      <3> QED
        BY <3>1 DEF Sound, WorthySpan, Span
    <2> QED
      BY <2>1 DEF IInv, Once
  <1> QED
    BY <1>1, PlannerInductive, PTL

\* No release-worthy commit a release contains is left out of all of them,
\* however its line's runs overlapped, as long as none was pinned below a
\* withheld change.
THEOREM NoChangeIsLost == Spec => []NothingLost
  <1>1. IInv => NothingLost
    <2> SUFFICES ASSUME IInv, NEW l \in Lines, Orderly(l), Alone(l), NEW i \in Of(l),
                        \A j \in Of(l) : j <= i => Run(j).head = Run(j).target,
                        NEW f, f = CHOOSE j \in Of(l) : \A k \in Of(l) : j <= k,
                        NEW c \in Span(World(1), Run(f).since, Run(i).target),
                        Worthy(World(1), c)
                 PROVE  \E j \in Of(l) : j <= i /\ c \in Run(j).changes
      BY DEF NothingLost
    <2>1. Of(l) \subseteq Nat /\ Of(l) # {}
      BY LogIs DEF IInv
    <2>2. \E j \in Of(l) : \A k \in Of(l) : j <= k
      BY <2>1, LeastIs
    <2>3. f \in Of(l) /\ \A k \in Of(l) : f <= k
      BY <2>2
    <2>4. Run(f).since \in Names /\ Run(i).target \in Names
      BY <2>3, InPlayIs DEF IInv, AllSound, Sound, Names
    <2>5. Run(f).since = BaseUpTo(l)
      BY <2>3, FirstStarts
    <2>6. c \in WorthySpan(Run(f).since, Run(i).target)
      BY DEF WorthySpan
    <2> QED
      BY <2>4, <2>5, <2>6 DEF IInv, Kept
  <1> QED
    BY <1>1, PlannerInductive, PTL

\* A promotion's stable version holds what its prerelease held: decide.ts
\* refuses one with anything pending.
THEOREM PromotionsAreValidated == Spec => []PromotionIsValidated
  <1>1. IInv => PromotionIsValidated
    <2> SUFFICES ASSUME IInv, NEW i \in DOMAIN releases, Run(i).promotion, ~Run(i).asked
                 PROVE  /\ {c \in Span(World(1), Run(i).since, Run(i).target) :
                               Worthy(World(1), c)} = {}
                        /\ \E t \in tags : /\ t.commit = Run(i).since
                                           /\ IsPrerelease(t.version)
                                           /\ t.version.core = Run(i).version.core
      BY DEF PromotionIsValidated
    <2>1. releases[i].line \in Lines /\ i \in Of(releases[i].line)
      BY DEF IInv, LogInv, Of
    <2>2. Sound(Run(i))
      BY <2>1, InPlayIs DEF IInv, AllSound
    <2> QED
      BY <2>2 DEF Sound, WorthySpan
  <1> QED
    BY <1>1, PlannerInductive, PTL

\* A planned tag is taken only by a run that overlapped, and by another
\* line's only out of its band (assemble.ts, input.ts).
THEOREM TagsAreTakenByRivals == Spec => []OnlyRivalsTakeTags
  <1>1. IInv => OnlyRivalsTakeTags
    <2> SUFFICES ASSUME IInv, NEW l \in Lines, NEW r \in runs[l],
                        InBand(l, r.version), ~r.asked
                 PROVE  /\ \A t \in Baseline.tags : t.name = Format[l] => t.version # r.version
                        /\ \A i \in DOMAIN releases :
                              Format[releases[i].line] = Format[l] /\ Run(i).version = r.version =>
                                 /\ i > r.after
                                 /\ \/ releases[i].line = l
                                    \/ ~Regular(i)
                                    \/ NoBand \in {Band[l], Band[releases[i].line]}
      BY DEF OnlyRivalsTakeTags
    <2>1. r \in Planned(l) /\ r.version \in Semantic /\ r.after \in Nat
      BY InPlayIs DEF IInv, AllSound, Sound, AfterInv
    <2>2. ~Below(r.version, r.version)
      BY <2>1, VersionOrder
    <2>3. Format[l] = "bare" /\ BandAdmits(l, r.version)
      BY DEF InBand
    <2>4. ASSUME NEW t \in Baseline.tags, t.name = Format[l], t.version = r.version
          PROVE  FALSE
      BY <2>1, <2>2, <2>3, <2>4 DEF IInv, Rising, Tops
    <2>5. ASSUME NEW i \in DOMAIN releases, Format[releases[i].line] = Format[l],
                 Run(i).version = r.version
          PROVE  i > r.after
      <3>1. i \in Nat
        BY LogIs DEF IInv
      <3>2. ~(i <= r.after)
        BY <2>1, <2>2, <2>3, <2>5 DEF IInv, Rising
      <3> QED
        BY <2>1, <3>1, <3>2
    <2>6. ASSUME NEW i \in DOMAIN releases, Run(i).version = r.version,
                 releases[i].line # l, Regular(i),
                 NoBand \notin {Band[l], Band[releases[i].line]}
          PROVE  FALSE
      <3>1. releases[i].line \in Lines
        BY DEF IInv, LogInv
      <3>2. BandAdmits(releases[i].line, r.version)
        BY <2>6 DEF Regular, InBand
      <3> QED
        BY <2>3, <2>6, <3>1, <3>2, PolicyAdmitted DEF BandsDisjoint, BandAdmits
    <2> QED
      BY <2>4, <2>5, <2>6
  <1> QED
    BY <1>1, PlannerInductive, PTL
=============================================================================
