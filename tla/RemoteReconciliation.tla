------------------------- MODULE RemoteReconciliation -------------------------
(***************************************************************************)
(* reconcile (src/adapters/github/reconciliation.ts, response.ts) over the *)
(* remote of ReleasePublication: the remote's tags are listed page by page *)
(* along the answers' next links, and compared with the recorded ones.     *)
(* With it the module composes the remote's callers: syncRemote, the       *)
(* publishers and the reconciliation, over one remote others edit.         *)
(*                                                                         *)
(* A page is the rows at its places in the listing as the remote holds it  *)
(* then: the tags that stand, in their order, each with its commit.  A     *)
(* fault strips a page's link, breaks it, or leads it back.                *)
(***************************************************************************)
EXTENDS ReleasePublication

CONSTANTS
    PerPage       \* the page size (100 in the code)

ASSUME PagesAssumption == Tags \subseteq Nat /\ IsFiniteSet(Tags) /\ PerPage \in Nat \ {0}

VARIABLES
    walk,         \* the reconcile call
    listed,       \* what each tag held since the call began
    deleted       \* whether one was deleted since

vars == <<local, remote, visible, sync, calls, edits, faults, stood,
          release, pub, seen, walk, listed, deleted>>

(* The remote's listing: a tag's place in it, the page of the places after *)
(* the first `from`, and whether there is one after that.                  *)
Present == {t \in Tags : remote[t] # NoCommit}
Place(t) == Cardinality({u \in Present : u <= t})
Page(from) == {[tag |-> t, at |-> remote[t]] :
                  t \in {u \in Present : Place(u) \in from + 1 .. from + PerPage}}
HasNext(from) == Cardinality(Present) > from + PerPage

InitWalk ==
    /\ walk = [pc |-> "idle"]
    /\ listed = [t \in Tags |-> {}]
    /\ deleted = FALSE

-----------------------------------------------------------------------------
(* The binding's tags are read before the remote is listed.                *)
WalkCalls ==
    /\ walk.pc \in {"idle", "done"}
    /\ Call
    /\ walk' = [pc |-> "page", recorded |-> [t \in Tags |-> local[t]], from |-> 0, rows |-> {}]
    /\ UNCHANGED remoteVars

(* comparedTags: the tags verified, and those reported as unadopted.       *)
Compared(rows) ==
    LET verified == {row \in rows : row.at = walk.recorded[row.tag]}
    IN [verified |-> {row.tag : row \in verified},
        unadopted |-> {row.tag : row \in rows \ verified}]
Ends(state, rows) ==
    walk' = [pc |-> "done", recorded |-> walk.recorded, state |-> state,
             report |-> Compared(rows)]

(* A bug: the end of the chain is read off the missing link.               *)
MutantCompleteness(page) == "complete"

(* Only a short page has no successor; a full one may have lost its link.  *)
Completeness(page) == IF Cardinality(page) < PerPage THEN "complete" ELSE "truncated"

WalkTurns ==
    /\ walk.pc = "page"
    /\ visible
    /\ HasNext(walk.from)
    /\ walk' = [walk EXCEPT !.from = @ + PerPage, !.rows = @ \cup Page(walk.from)]
    /\ UNCHANGED <<remoteVars, calls>>

(* The last page, or one whose link was stripped.                          *)
WalkEnds ==
    /\ walk.pc = "page"
    /\ visible
    /\ IF HasNext(walk.from) THEN Fault ELSE Budget
    /\ Ends(Completeness(Page(walk.from)), walk.rows \cup Page(walk.from))
    /\ UNCHANGED <<local, remote, visible, edits, calls>>

(* An answer that is no page, a broken link, one that leads back, or a     *)
(* repository out of sight: the whole listing claims nothing.              *)
WalkFails ==
    /\ walk.pc = "page"
    /\ IF visible THEN Fault ELSE Budget
    /\ \E state \in {"refused", "transport-failure"} :
          (visible \/ state = "refused") /\ Ends(state, {})
    /\ UNCHANGED <<local, remote, visible, edits, calls>>

Walks ==
    \/ WalkCalls
    \/ WalkTurns
    \/ WalkEnds
    \/ WalkFails

(* History: reset as a call begins.                                        *)
Lists ==
    LET begins == walk.pc # "page" /\ walk'.pc = "page"
    IN /\ listed' = [t \in Tags |-> IF begins THEN {remote'[t]} ELSE listed[t] \cup {remote'[t]}]
       /\ deleted' = (~begins /\ (deleted \/ \E t \in Tags :
                         remote[t] # NoCommit /\ remote'[t] = NoCommit))

-----------------------------------------------------------------------------
Init == InitRemote /\ InitPublication /\ InitWalk

Next ==
    /\ \/ Syncs /\ UNCHANGED <<pubVars, walk>>
       \/ (\E p \in Publishers : PublisherSteps(p)) /\ UNCHANGED <<sync, walk>>
       \/ Walks /\ UNCHANGED <<sync, pubVars>>
       \/ (ClaimsAdvance \/ Hides \/ OthersPush) /\ UNCHANGED <<pubVars, walk>>
       \/ OthersRelease /\ UNCHANGED <<sync, walk>>
    /\ Witnesses
    /\ Sees
    /\ Lists

Spec == Init /\ [][Next]_vars

-----------------------------------------------------------------------------
(* A reconciliation is true of the remote: a tag reported verified stood   *)
(* at its recorded commit during the call, one reported unadopted at       *)
(* another; and a complete report misses no tag that stood all along - if  *)
(* none was deleted meanwhile, which moves the rows up the pages.          *)
ReconcileReportsTrue ==
    walk.pc = "done" =>
        /\ \A t \in walk.report.verified : walk.recorded[t] \in listed[t]
        /\ \A t \in walk.report.unadopted : listed[t] \ {NoCommit, walk.recorded[t]} # {}
        /\ walk.state = "complete" /\ ~deleted =>
              \A t \in Tags : NoCommit \in listed[t]
                  \/ t \in walk.report.verified \cup walk.report.unadopted
=============================================================================
