------------------------------ MODULE Versions ------------------------------
(***************************************************************************)
(* Semantic versions as the planner orders and bumps them                  *)
(* (core/domain/version.ts, core/domain/changeset.ts).  A version is a     *)
(* core, three numbers, and a prerelease: no identifiers, or a stream and  *)
(* its sequence.  Streams are numbers here, in the order of their ASCII    *)
(* names.  Build metadata is left out: no planned version carries any.     *)
(***************************************************************************)
EXTENDS Integers, Sequences

Version(major, minor, patch) == [core |-> <<major, minor, patch>>, pre |-> << >>]
Prerelease(target, stream, sequence) ==
    [core |-> target.core, pre |-> <<stream, sequence>>]

(* Every version the planner reads or writes.                              *)
Semantic == [core : Nat \X Nat \X Nat, pre : {<< >>} \cup (Nat \X Nat)]

IsPrerelease(v) == v.pre # << >>
Major(v) == v.core[1]
Minor(v) == v.core[2]

(* Numbers compared from the left; a proper prefix comes first.            *)
Precedes(x, y) ==
    \/ Len(x) < Len(y) /\ \A i \in 1..Len(x) : x[i] = y[i]
    \/ \E i \in 1..Len(x) \cap 1..Len(y) :
          x[i] < y[i] /\ \A j \in 1..(i - 1) : x[j] = y[j]

(* The order of compare: cores first, and a version without a prerelease   *)
(* after every prerelease of its core.                                     *)
Below(v, w) ==
    \/ Precedes(v.core, w.core)
    \/ /\ v.core = w.core
       /\ IsPrerelease(v)
       /\ ~IsPrerelease(w) \/ Precedes(v.pre, w.pre)

Highest(S) == CHOOSE v \in S : \A w \in S : ~Below(v, w)

(* A patch bump of a prerelease is its own core.                           *)
BumpPatch(v) ==
    IF IsPrerelease(v) THEN [v EXCEPT !.pre = << >>]
    ELSE Version(v.core[1], v.core[2], v.core[3] + 1)

ApplyBump(v, bump) ==
    CASE bump = "major" -> Version(Major(v) + 1, 0, 0)
      [] bump = "minor" -> Version(Major(v), v.core[2] + 1, 0)
      [] bump = "patch" -> BumpPatch(v)

(* The largest bump of a nonempty set.                                     *)
MaxBump(bumps) ==
    CASE "major" \in bumps -> "major"
      [] "major" \notin bumps /\ "minor" \in bumps -> "minor"
      [] OTHER -> "patch"

=============================================================================
