--------------------------- MODULE MCReleaseEngine --------------------------
(* Small instances of ReleaseEngine. *)
EXTENDS ReleaseEngine, TLC

\* A canonical walk cut down to its two kinds of stage, one that only records
\* and a mutating one behind the claim guard (CANONICAL_STAGES and
\* MUTATING_STAGES, src/execution/types.ts, have nine and five).
Short == <<"claim", "tag">>
ShortMutating == {"tag"}

Symmetry == Permutations(Process)
=============================================================================
