------------------------------ MODULE ReleasePR ------------------------------
(***************************************************************************)
(* The release pull request: the gate (src/app/release-pr.ts) over its     *)
(* GitHub port (src/adapters/github/release-pr.ts) and its record sink     *)
(* (src/release-pr-sink.ts), for one identity.  The identity's component,  *)
(* line and target name one derived head branch and one claim marker.      *)
(*                                                                         *)
(* A plan stands for everything rendered from it: a pull request's claim   *)
(* is the plan its marker names, intact says that body and title are that  *)
(* plan's render, and a branch's files are the plan they were rendered     *)
(* from.  The order of the sink's records is GitLedger's subject; here the *)
(* sink is what has been recorded.                                         *)
(***************************************************************************)
EXTENDS Integers, Sequences, FiniteSets

CONSTANTS
    Process,
    Plans,        \* the plans with something pending on the line
    Supersedes,   \* plan -> the plan it supersedes, or NoPlan
    NoPlan,
    Foreign,      \* the claim of a body without the marker
    Malformed,    \* the claim of a body whose marker does not parse
    Human,        \* files no plan was rendered to
    MaxCalls, MaxFaults, MaxEdits

ASSUME PlansAssumption ==
    /\ Plans \cap {NoPlan, Foreign, Malformed, Human} = {}
    /\ Human # NoPlan

VARIABLES
    pulls,      \* GitHub: the pull requests, by number
    branch,     \* GitHub: the derived head branch
    sink,       \* the records appended
    call,       \* each process's call in flight, or its last
    calls, faults, edits,
    disorder,   \* history: whether two calls were ever in flight at once, or
                \* a listing ever missed an open pull request
    touched     \* history: the calls in whose course another actor wrote, or
                \* whose own listing missed an open pull request

vars == <<pulls, branch, sink, call, calls, faults, edits, disorder, touched>>
remote == <<pulls, branch>>
bounds == <<calls, edits>>

(* An absent branch has no files; a tip is never used twice.               *)
Exists == branch.files # NoPlan
Idle == [pc |-> "idle", door |-> "none", plan |-> NoPlan, pull |-> 0,
         tip |-> 0, outcome |-> "none"]

Live(p) == call[p].pc \notin {"idle", "done"}
Goes(p, pc) == call' = [call EXCEPT ![p].pc = pc]
Disturbs(p) == touched' = touched \cup {q \in Process \ {p} : Live(q)}

(* A verdict that is recorded, and one that is only returned.              *)
Settles(p, outcome) == call' = [call EXCEPT ![p].pc = "record", ![p].outcome = outcome]
Answers(p, outcome) == call' = [call EXCEPT ![p].pc = "done", ![p].outcome = outcome]

(* Whatever the port classified, the gate records a transport failure.     *)
Refused(p) == Settles(p, "transport-failure") /\ UNCHANGED faults
Faults(p) == faults < MaxFaults /\ faults' = faults + 1 /\ Settles(p, "transport-failure")

(* A write that landed: its answer arrives, or is lost.                    *)
Landed(p, settles) == (settles /\ UNCHANGED faults) \/ Faults(p)

-----------------------------------------------------------------------------
(* Discovery: the listing of the open pull requests, page by page.  Those  *)
(* that move to an earlier page while the pages are read are not seen; one *)
(* seen on two pages is refused as two claimants (a transport failure).    *)
(* An unreadable marker, and two pull requests with the claim, are refused *)
(* as well.                                                                *)
Open == {n \in DOMAIN pulls : pulls[n].open}
Listings == SUBSET Open
Sees(p, listing) ==
    /\ disorder' = IF listing = Open THEN disorder ELSE TRUE
    /\ touched' = IF listing = Open THEN touched ELSE touched \cup {p}
Claimants(listing) == {n \in listing : pulls[n].claim \in Plans}
Readable(listing) ==
    /\ \A n \in listing : pulls[n].claim # Malformed
    /\ Cardinality(Claimants(listing)) <= 1

Calls(p) ==
    /\ ~Live(p)
    /\ calls < MaxCalls
    /\ calls' = calls + 1
    /\ \E door \in {"detect", "create", "update"}, plan \in Plans :
          call' = [call EXCEPT ![p] = [Idle EXCEPT !.pc = "find", !.door = door, !.plan = plan]]
    /\ disorder' = (disorder \/ \E q \in Process : Live(q))
    /\ touched' = touched \ {p}
    /\ UNCHANGED <<pulls, branch, sink, faults, edits>>

(* Body and title are the render of the plan the claim names.              *)
Intact(n) == pulls[n].body /\ pulls[n].title

(* A bug: any plan replaces any other.                                     *)
MutantJudged(plan, n) == IF pulls[n].claim # plan THEN "update" ELSE "current"

(* What update makes of the pull request found: a different plan must      *)
(* supersede the recorded one, and an equal one must find its own render.  *)
(* The port finds by the claim, so the gate's own refusals of a body       *)
(* without one and of another identity are never reached through it.       *)
Judged(plan, n) ==
    CASE pulls[n].claim # plan ->
            IF Supersedes[plan] = pulls[n].claim THEN "update" ELSE "plan-conflict"
      [] pulls[n].claim = plan ->
            CASE Intact(n) -> "current"
              [] pulls[n].body /\ ~pulls[n].title -> "update"
              [] OTHER -> "plan-conflict"
FindsNone(p) ==
    IF call[p].door = "create" THEN Goes(p, "start") ELSE Answers(p, "detected")
FindsOne(p, n) ==
    CASE call[p].door # "update" -> Answers(p, "found")
      [] call[p].door = "update" /\ Judged(call[p].plan, n) = "update" ->
            call' = [call EXCEPT ![p].pc = "start", ![p].pull = n]
      [] OTHER -> Settles(p, Judged(call[p].plan, n))

Finds(p) ==
    /\ call[p].pc = "find"
    /\ \/ \E listing \in Listings :
             /\ Sees(p, listing)
             /\ UNCHANGED faults
             /\ \/ ~Readable(listing) /\ Settles(p, "transport-failure")
                \/ Readable(listing) /\ Claimants(listing) = {} /\ FindsNone(p)
                \/ /\ Readable(listing)
                   /\ \E n \in Claimants(listing) : FindsOne(p, n)
       \/ Faults(p) /\ UNCHANGED <<disorder, touched>>
    /\ UNCHANGED <<pulls, branch, sink, bounds>>

(* A bug: the write-ahead record is left for the outcome.                  *)
MutantStarts(p) ==
    /\ call[p].pc = "start"
    /\ Goes(p, IF call[p].door = "create" THEN "head" ELSE "read")
    /\ UNCHANGED <<pulls, branch, sink, faults, bounds, disorder, touched>>

(* The write-ahead record, then the port's door.                           *)
Starts(p) ==
    /\ call[p].pc = "start"
    /\ sink' = sink \cup {[kind |-> "gate-start", plan |-> call[p].plan, door |-> call[p].door]}
    /\ Goes(p, IF call[p].door = "create" THEN "head" ELSE "read")
    /\ UNCHANGED <<pulls, branch, faults, bounds, disorder, touched>>

-----------------------------------------------------------------------------
(* The port.  updatePR reads the pull request again by its number: it must *)
(* be open, carry a claim, sit on the derived branch and be the draft the  *)
(* gate found (drafts are left out: nothing else depends on them).         *)
Updatable(n) == pulls[n].open /\ pulls[n].claim \in Plans /\ pulls[n].derived

Rereads(p) ==
    /\ call[p].pc = "read"
    /\ \/ /\ UNCHANGED faults
          /\ IF Updatable(call[p].pull) THEN Goes(p, "head") ELSE Settles(p, "transport-failure")
       \/ Faults(p)
    /\ UNCHANGED <<pulls, branch, sink, bounds, disorder, touched>>

(* The head of the derived branch; a create starts an absent one at the    *)
(* target branch.  The tree and the commit are written before the ref is,  *)
(* where nothing sees them.                                                *)
ReadsHead(p) ==
    /\ call[p].pc = "head"
    /\ \/ /\ UNCHANGED faults
          /\ IF ~Exists /\ call[p].door = "update"
             THEN Settles(p, "transport-failure")
             ELSE call' = [call EXCEPT ![p].tip = IF Exists THEN branch.tip ELSE 0,
                             ![p].pc = IF branch.files = call[p].plan THEN "open" ELSE "push"]
       \/ Faults(p)
    /\ UNCHANGED <<pulls, branch, sink, bounds, disorder, touched>>

(* The ref moves only from the head that was read, and is created only     *)
(* where there was none.                                                   *)
Pushable(p) == IF call[p].tip = 0 THEN ~Exists ELSE Exists /\ branch.tip = call[p].tip

Pushes(p) ==
    /\ call[p].pc = "push"
    /\ \/ /\ Pushable(p)
          /\ branch' = [tip |-> branch.tip + 1, files |-> call[p].plan]
          /\ Disturbs(p)
          /\ Landed(p, Goes(p, "open"))
       \/ UNCHANGED <<branch, touched>> /\ ~Pushable(p) /\ Refused(p)
       \/ UNCHANGED <<branch, touched>> /\ Faults(p)
    /\ UNCHANGED <<pulls, sink, bounds, disorder>>

(* GitHub opens one pull request of a branch; a second create is told that *)
(* one exists already, and the port adopts the one with the claim.         *)
Opened == {n \in Open : pulls[n].derived}
Pull(plan) == [claim |-> plan, body |-> TRUE, title |-> TRUE, open |-> TRUE,
               derived |-> TRUE, labelled |-> FALSE]

Opens(p) ==
    /\ call[p].pc = "open"
    /\ call[p].door = "create"
    /\ \/ /\ Opened = {}
          /\ Exists
          /\ pulls' = Append(pulls, Pull(call[p].plan))
          /\ Disturbs(p)
          /\ Landed(p, call' = [call EXCEPT ![p].pc = "label", ![p].pull = Len(pulls')])
       \/ /\ UNCHANGED <<pulls, touched>>
          /\ \/ Opened # {} /\ Goes(p, "adopt") /\ UNCHANGED faults
             \/ ~Exists /\ Refused(p)
             \/ Faults(p)
    /\ UNCHANGED <<branch, sink, bounds, disorder>>

Adopts(p) ==
    /\ call[p].pc = "adopt"
    /\ \/ \E listing \in Listings :
             /\ Sees(p, listing)
             /\ UNCHANGED faults
             /\ \/ /\ Readable(listing)
                   /\ \E n \in Claimants(listing) :
                         call' = [call EXCEPT ![p].pc = "label", ![p].pull = n]
                \/ /\ ~Readable(listing) \/ Claimants(listing) = {}
                   /\ Settles(p, "transport-failure")
       \/ Faults(p) /\ UNCHANGED <<disorder, touched>>
    /\ UNCHANGED <<pulls, branch, sink, bounds>>

(* A bug: a body the branch's files already match is not patched.          *)
MutantPatches(p) ==
    /\ call[p].pc = "open"
    /\ call[p].door = "update"
    /\ Goes(p, "label")
    /\ UNCHANGED <<pulls, branch, sink, faults, bounds, disorder, touched>>

(* The body and the title move after the files, in one request.            *)
Patched(p) ==
    [pulls EXCEPT ![call[p].pull].claim = call[p].plan, ![call[p].pull].body = TRUE,
                  ![call[p].pull].title = TRUE]
Patches(p) ==
    /\ call[p].pc = "open"
    /\ call[p].door = "update"
    /\ \/ /\ pulls' = Patched(p)
          /\ Disturbs(p)
          /\ Landed(p, Goes(p, "label"))
       \/ UNCHANGED <<pulls, touched>> /\ Faults(p)
    /\ UNCHANGED <<branch, sink, bounds, disorder>>

Succeeds(p) == Settles(p, IF call[p].door = "create" THEN "created" ELSE "updated")

(* An update writes the labels only where they differ.                     *)
Labels(p) ==
    /\ call[p].pc = "label"
    /\ \/ /\ pulls' = [pulls EXCEPT ![call[p].pull].labelled = TRUE]
          /\ Disturbs(p)
          /\ Landed(p, Succeeds(p))
       \/ UNCHANGED <<pulls, touched>> /\ Faults(p)
    /\ UNCHANGED <<branch, sink, bounds, disorder>>

(* The verdict's record.  The sink fails closed when its append loses too  *)
(* many races, whether or not the record is there: a success is then a     *)
(* transport failure, and any other verdict's failure leaves the door as   *)
(* an exception, which is Dies.                                            *)
Recorded(p) == sink \cup {[kind |-> "gate-outcome", plan |-> call[p].plan,
                          door |-> call[p].door, outcome |-> call[p].outcome]}
Records(p) ==
    /\ call[p].pc = "record"
    /\ \/ sink' = Recorded(p) /\ Goes(p, "done") /\ UNCHANGED faults
       \/ /\ call[p].outcome \in {"created", "updated"}
          /\ sink' \in {sink, Recorded(p)}
          /\ Faults(p)
    /\ UNCHANGED <<pulls, branch, bounds, disorder, touched>>

Dies(p) ==
    /\ Live(p)
    /\ faults < MaxFaults
    /\ faults' = faults + 1
    /\ call' = [call EXCEPT ![p] = Idle]
    /\ UNCHANGED <<pulls, branch, sink, bounds, disorder, touched>>

-----------------------------------------------------------------------------
(* People, at the provider.                                                *)
Edits(newPulls, newBranch) ==
    /\ edits < MaxEdits
    /\ edits' = edits + 1
    /\ pulls' = newPulls
    /\ branch' = newBranch
    /\ touched' = touched \cup {q \in Process : Live(q)}
    /\ UNCHANGED <<sink, call, calls, faults, disorder>>

EditsBody(n) == Edits([pulls EXCEPT ![n].body = FALSE], branch)
EditsTitle(n) == Edits([pulls EXCEPT ![n].title = FALSE], branch)
EditsClaim(n) ==
    \E claim \in {Foreign, Malformed} :
        Edits([pulls EXCEPT ![n].claim = claim, ![n].body = FALSE], branch)
Closes(n) == Edits([pulls EXCEPT ![n].open = FALSE], branch)
Copies(n) == Edits(Append(pulls, [pulls[n] EXCEPT !.derived = FALSE]), branch)
PushesByHand == Exists /\ Edits(pulls, [branch EXCEPT !.tip = @ + 1, !.files = Human])
(* Deleting the branch closes its pull request.                            *)
DeletesBranch ==
    /\ Exists
    /\ Edits([n \in DOMAIN pulls |->
                [pulls[n] EXCEPT !.open = pulls[n].open /\ ~pulls[n].derived]],
             [branch EXCEPT !.files = NoPlan])

Init ==
    /\ pulls = << >>
    /\ branch = [tip |-> 0, files |-> NoPlan]
    /\ sink = {}
    /\ call = [p \in Process |-> Idle]
    /\ calls = 0 /\ faults = 0 /\ edits = 0
    /\ disorder = FALSE
    /\ touched = {}

Gate(p) ==
    \/ Calls(p) \/ Finds(p) \/ Starts(p) \/ Records(p) \/ Dies(p)
    \/ Rereads(p) \/ ReadsHead(p) \/ Pushes(p) \/ Opens(p) \/ Adopts(p)
    \/ Patches(p) \/ Labels(p)
People ==
    \/ PushesByHand
    \/ DeletesBranch
    \/ \E n \in Open :
          EditsBody(n) \/ EditsTitle(n) \/ EditsClaim(n) \/ Closes(n) \/ Copies(n)

Next == People \/ \E p \in Process : Gate(p)

Spec == Init /\ [][Next]_vars

-----------------------------------------------------------------------------
Ours(n) == pulls[n].open /\ pulls[n].derived /\ pulls[n].claim \in Plans
Superseding(plan) == {q \in Plans : Supersedes[q] = plan}

(* A plan that is anywhere on the remote is on record: whoever died, and   *)
(* whatever answer was lost, the sink names every plan whose files or      *)
(* claim a call of the gate put there (src/app/release-pr.ts, gate-start   *)
(* before any port mutation).                                              *)
RemoteIsOnRecord ==
    \A plan \in Plans :
        \/ branch.files = plan
        \/ \E n \in DOMAIN pulls : pulls[n].claim = plan
        => \E r \in sink : r.kind = "gate-start" /\ r.plan = plan

(* A call that answered created or updated, whose listing missed no pull   *)
(* request and in whose course nobody else wrote, left what it names: an   *)
(* open pull request with the plan's claim, body, title, labels and files, *)
(* whatever calls before it died or went unanswered half way.  Without     *)
(* either premise it does not hold.                                        *)
SuccessIsExact ==
    \A p \in Process \ touched :
        call[p].pc = "record" /\ call[p].outcome \in {"created", "updated"} =>
            LET n == call[p].pull
            IN /\ Ours(n)
               /\ pulls[n].claim = call[p].plan
               /\ Intact(n)
               /\ pulls[n].labelled
               /\ branch.files = call[p].plan

(* The claim moves last: as long as calls do not overlap and no listing    *)
(* has missed a pull request, a pull request never claims a plan its       *)
(* branch has not received, at whatever step a call died and whatever      *)
(* people did - the branch has that plan's files, or already those of a    *)
(* plan that supersedes it, or a person's.  Without either premise it does *)
(* not hold.                                                               *)
ClaimFollowsFiles ==
    ~disorder =>
        \A n \in DOMAIN pulls :
            Ours(n) => branch.files \in {pulls[n].claim, Human} \cup Superseding(pulls[n].claim)

(* The gate's answer current says that the pull request carries the exact  *)
(* projection, labels included, and that no write was needed               *)
(* (src/app/release-pr-types.ts).  Asked where calls did not overlap and   *)
(* no listing missed a pull request.                                       *)
CurrentIsExact ==
    ~disorder => \A p \in Process \ touched :
        call[p].pc = "record" /\ call[p].outcome = "current" =>
            \E n \in Open : /\ pulls[n].claim = call[p].plan
                            /\ pulls[n].labelled
                            /\ branch.files = call[p].plan
=============================================================================
