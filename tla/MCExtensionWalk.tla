--------------------------- MODULE MCExtensionWalk --------------------------
(* A small instance of ExtensionWalk: one stage, a hook on each side of it,  *)
(* an artifact and a mutation before it.                                   *)
EXTENDS ExtensionWalk, TLC

MCStages == <<"publish">>
MCMutating == {"publish"}
MCHooks == << [id |-> "h1", stage |-> "publish", position |-> "before"],
              [id |-> "h2", stage |-> "publish", position |-> "after"] >>
MCArtifacts == << [id |-> "a1", stage |-> "publish", position |-> "before", deps |-> {}] >>
MCMutations == << [id |-> "m1", stage |-> "publish", position |-> "before"] >>

\* A hook whose effect may answer differently each time, and an artifact
\* whose digest may be malformed.
MCProduced == [h1 |-> {"c1", "c2"}, h2 |-> {"c1"}, a1 |-> {"c1", Bad}]

Symmetry == Permutations(Process)
=============================================================================
