--------------------------- MODULE OrdinalRegister --------------------------
(***************************************************************************)
(* The git-backed attempt register (src/adapters/git/register-git.ts): the *)
(* ordinal counter of one plan, a ref whose tip commit holds the last      *)
(* ordinal allocated.  nextOrdinal is a loop of at most MaxRounds reads    *)
(* and compare-and-set landings.                                           *)
(*                                                                         *)
(* The commit that allocates an ordinal is determined by the ordinal (the  *)
(* binding commits with a fixed identity and clock), so the ref is the     *)
(* number its tip holds, 0 when the ref is absent.                         *)
(***************************************************************************)
EXTENDS Integers

CONSTANTS
  Caller,     \* the processes that open attempts of the plan
  MaxRounds,  \* MAX_CAS_ATTEMPTS of register-git.ts
  MaxCalls,   \* bound: calls a process issues
  MaxFaults   \* bound: landings whose update-ref reports a failure

ASSUME MaxRoundsAssumption == MaxRounds \in Nat \ {0}

VARIABLES
  counter,  \* the ordinal the ref's tip holds
  call,     \* each process's current or last call
  calls,    \* how many calls each process has issued
  issued,   \* history: every ordinal a call returned
  faults    \* unreported landings so far

ordinalVars == <<counter, call, calls, issued, faults>>

\* `start` is the counter when the call was issued, kept for the properties.
Idle == [op |-> "idle", start |-> 0, lost |-> 0, base |-> 0]

InitOrdinals ==
  /\ counter = 0
  /\ call = [p \in Caller |-> Idle]
  /\ calls = [p \in Caller |-> 0]
  /\ issued = {}
  /\ faults = 0

Calls(p) ==
  /\ call[p].op \in {"idle", "exhausted"}
  /\ calls[p] < MaxCalls
  /\ call' = [call EXCEPT ![p] = [op |-> "read", start |-> counter, lost |-> 0, base |-> 0]]
  /\ calls' = [calls EXCEPT ![p] = @ + 1]
  /\ UNCHANGED <<counter, issued, faults>>

Reads(p) ==
  /\ call[p].op = "read"
  /\ call' = [call EXCEPT ![p].op = "land", ![p].base = counter]
  /\ UNCHANGED <<counter, calls, issued, faults>>

\* Mutant: the update-ref carries no old value.
MutantAllocates(p) ==
  /\ call[p].op = "land"
  /\ counter' = call[p].base + 1

\* The compare-and-set: the ref still is what this round read.
Allocates(p) ==
  /\ call[p].op = "land"
  /\ counter = call[p].base
  /\ counter' = call[p].base + 1

Lands(p) ==
  /\ Allocates(p)
  /\ issued' = issued \union {[by |-> p, call |-> calls[p], ordinal |-> call[p].base + 1,
                               start |-> call[p].start]}
  /\ call' = [call EXCEPT ![p] = Idle]
  /\ UNCHANGED <<calls, faults>>

\* Mutant: the next round lands on the base the lost one read.
MutantNextRound(p) ==
  call' = [call EXCEPT ![p].op = IF call[p].lost + 1 = MaxRounds THEN "exhausted" ELSE "land",
                       ![p].lost = @ + 1]

\* A lost round re-reads the ref; the last one fails closed.
NextRound(p) ==
  call' = [call EXCEPT ![p].op = IF call[p].lost + 1 = MaxRounds THEN "exhausted" ELSE "read",
                       ![p].lost = @ + 1]

Loses(p) ==
  /\ call[p].op = "land"
  /\ counter # call[p].base
  /\ NextRound(p)
  /\ UNCHANGED <<counter, calls, issued, faults>>

\* update-ref moved the ref and then failed: the re-read finds it moved,
\* which reads as a loss.  The ordinal is burnt.
LandsUnreported(p) ==
  /\ faults < MaxFaults
  /\ Allocates(p)
  /\ NextRound(p)
  /\ faults' = faults + 1
  /\ UNCHANGED <<calls, issued>>

\* The process dies inside the call, or a git fault is thrown.
Crash(p) ==
  /\ call[p].op \in {"read", "land"}
  /\ call' = [call EXCEPT ![p] = Idle]
  /\ UNCHANGED <<counter, calls, issued, faults>>

NextOrdinals ==
  \E p \in Caller :
    Calls(p) \/ Reads(p) \/ Lands(p) \/ Loses(p) \/ LandsUnreported(p) \/ Crash(p)

SpecOrdinals == InitOrdinals /\ [][NextOrdinals]_ordinalVars

-----------------------------------------------------------------------------
(* Properties.                                                             *)

Call == [op : {"idle", "read", "land", "exhausted"}, start : Nat, lost : 0 .. MaxRounds, base : Nat]
Issue == [by : Caller, call : Nat, ordinal : Nat \ {0}, start : Nat]

OrdinalsTypeOK ==
  /\ counter \in Nat
  /\ call \in [Caller -> Call]
  /\ calls \in [Caller -> Nat]
  /\ issued \subseteq Issue
  /\ faults \in Nat

\* nextOrdinal "fails closed rather than double-allocating": no two calls
\* return the same ordinal, so no two attempts of a plan share an identity.
OrdinalsUnique ==
  \A i, j \in issued : i.ordinal = j.ordinal => i = j

\* Ordinals order attempts in time: a call returns more than every ordinal
\* that had been returned when it was issued.
OrdinalsFollowTime ==
  \A i \in issued : i.start < i.ordinal /\ i.ordinal <= counter

\* The budget is spent on real contention only: a call that fails closed saw
\* the counter move in each of its rounds, so at least MaxRounds allocations
\* landed while it ran.
ExhaustionIsContention ==
  \A p \in Caller : call[p].op = "exhausted" => counter >= call[p].start + MaxRounds

=============================================================================
