------------------------------ MODULE MCTagDoor ------------------------------
(* A small instance of the mint door for TLC: processes and commits are     *)
(* interchangeable, and so are attempts: no constant tells them apart.      *)
EXTENDS TagDoor, TLC

Symmetry == Permutations(Process) \union Permutations(Commit) \union Permutations(Attempt)

\* The answers of the claim port: no action reads them.
View == <<claims, supersessions, nextToken, doorVars>>

=============================================================================
