------------------------------- MODULE TagDoor -------------------------------
(***************************************************************************)
(* The tag mint door of the git binding (src/adapters/git/tag-door.ts):    *)
(* one walk of the claim registers decides whether the calling attempt may *)
(* mint the tag, then the tag ref is read, created and read again, each a  *)
(* git command of its own, while claims land and leave and other processes *)
(* mint.  The claims behave as ClaimStore, which the registers implement;  *)
(* the door reads them and takes no answer of the port.                    *)
(*                                                                         *)
(* The declared naming derives one tag from each stable or prerelease      *)
(* scope and none from a release-line scope, so a tag is named here by the *)
(* scope that derives it.                                                  *)
(***************************************************************************)
EXTENDS ClaimStore, FiniteSets

CONSTANTS
  Commit,     \* commits a mint may target
  NoCommit,   \* an absent tag ref
  MaxMints    \* bound: mints answered `minted`

ASSUME NoCommitAssumption == NoCommit \notin Commit

VARIABLES
  tags,       \* the tag refs
  door,       \* each process's mint call, and how far it is
  minted      \* history: every `minted` answer

doorVars == <<tags, door, minted>>

Tag == StableScope \union PrereleaseScope
Outside == [op |-> "outside"]

InitDoor ==
  /\ Init
  /\ tags = [t \in Tag |-> NoCommit]
  /\ door = [p \in Process |-> Outside]
  /\ minted = {}

\* The claims of `attempt` no recorded takeover of their scope has passed.
Unpassed(attempt) ==
  {c \in claims : c.holder = attempt /\ \A r \in supersessions : r.superseded.scope # c.scope}

\* Mutant: whoever holds the claim.
MutantMayMint(attempt, tag, token) ==
  \E c \in claims : c.scope = tag

\* Held and unpassed, deriving the requested tag, under the caller's token.
MayMint(attempt, tag, token) ==
  \E c \in Unpassed(attempt) : c.scope = tag /\ c.token = token

\* Everything that refuses (unclaimed, foreign-token, a takeover) refuses
\* here, before any ref moves, and leaves no state behind.
MintWalks(p, attempt, tag, token, target) ==
  /\ door[p] = Outside
  /\ Cardinality(minted) < MaxMints
  /\ MayMint(attempt, tag, token)
  /\ door' = [door EXCEPT ![p] = [op |-> "read", attempt |-> attempt, tag |-> tag, target |-> target]]
  /\ UNCHANGED <<tags, minted>>

MintReads(p) ==
  /\ door[p].op = "read"
  /\ door' = [door EXCEPT ![p].op = IF tags[door[p].tag] = NoCommit THEN "create" ELSE "settle"]
  /\ UNCHANGED <<tags, minted>>

\* `git tag` creates the ref or, when a rival created it first, fails; the
\* failure is swallowed, the second read decides.
MintCreates(p) ==
  /\ door[p].op = "create"
  /\ tags' = [tags EXCEPT ![door[p].tag] = IF @ = NoCommit THEN door[p].target ELSE @]
  /\ door' = [door EXCEPT ![p].op = "settle"]
  /\ UNCHANGED minted

\* Mutant: an existing tag is a mint, whatever it points at.
MutantMintSettles(p) ==
  /\ door[p].op = "settle"
  /\ minted' = minted \union {[tag |-> door[p].tag, attempt |-> door[p].attempt,
                               target |-> door[p].target]}
  /\ door' = [door EXCEPT ![p] = Outside]
  /\ UNCHANGED tags

\* The same target is the idempotent re-mint, another one is a conflict.
MintSettles(p) ==
  /\ door[p].op = "settle"
  /\ minted' = IF tags[door[p].tag] = door[p].target
               THEN minted \union {[tag |-> door[p].tag, attempt |-> door[p].attempt,
                                    target |-> door[p].target]}
               ELSE minted
  /\ door' = [door EXCEPT ![p] = Outside]
  /\ UNCHANGED tags

\* The process dies inside the door, or a git fault (an unresolvable target,
\* a tag absent after its create) is thrown.
MintCrashes(p) ==
  /\ door[p] # Outside
  /\ door' = [door EXCEPT ![p] = Outside]
  /\ UNCHANGED <<tags, minted>>

NextDoor ==
  \/ Next /\ UNCHANGED doorVars   \* claims land and leave beside the door
  \/ \E p \in Process :
       /\ \/ \E attempt \in Attempt, tag \in Tag, token \in 1 .. nextToken - 1, target \in Commit :
               MintWalks(p, attempt, tag, token, target)
          \/ MintReads(p) \/ MintCreates(p) \/ MintSettles(p) \/ MintCrashes(p)
       /\ UNCHANGED vars

SpecDoor == InitDoor /\ [][NextDoor]_<<vars, doorVars>>

-----------------------------------------------------------------------------
(* Properties.                                                             *)

\* A door that settles has found or created its tag.
DoorTypeOK ==
  /\ TypeOK
  /\ tags \in [Tag -> Commit \union {NoCommit}]
  /\ door \in [Process -> {Outside} \union
                 [op : {"read", "create", "settle"}, attempt : Attempt, tag : Tag, target : Commit]]
  /\ \A p \in Process : door[p].op = "settle" => tags[door[p].tag] # NoCommit
  /\ minted \subseteq [tag : Tag, attempt : Attempt, target : Commit]

\* What was answered `minted` is true for ever: the tag stands at the target
\* the answer named, however many processes raced to create it.
MintedTagsStand == \A m \in minted : tags[m.tag] = m.target

\* No two attempts are ever both told they minted one stable version, and
\* the one that was still holds the version's claim.
OneMinterPerVersion ==
  \A m \in minted : m.tag.kind = "stable-version" =>
    \E c \in claims : c.scope = m.tag /\ c.holder = m.attempt

\* "a record whose lease a takeover has passed no longer admits the mint":
\* when a tag comes into being, no recorded takeover has passed its scope.
NoTagPastATakeover ==
  [][\A t \in Tag : tags[t] = NoCommit /\ tags'[t] # NoCommit
       => \A r \in supersessions : r.superseded.scope # t]_<<vars, doorVars>>

=============================================================================
