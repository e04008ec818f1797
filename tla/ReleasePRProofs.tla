--------------------------- MODULE ReleasePRProofs ---------------------------
(***************************************************************************)
(* The release pull request for every number of processes, plans, calls,   *)
(* faults and edits.  First, what stands at the provider is on record: a   *)
(* call writes files or a claim only past its gate-start record, and the   *)
(* sink forgets nothing, so the record is there whoever dies and whatever  *)
(* answer is lost; people add no plan that was not there already.  Then,   *)
(* what a success means and in which order files and claim move.           *)
(***************************************************************************)
EXTENDS ReleasePR, FiniteSetTheorems, TLAPS

OnRecord(plan, records) == \E r \in records : r.kind = "gate-start" /\ r.plan = plan

\* The steps of a call that come after its write-ahead record, those which
\* write at the provider among them.
PastTheRecord == {"head", "read", "open", "push", "adopt", "label"}

PullType == [claim : Plans \cup {Foreign, Malformed}, body : BOOLEAN, title : BOOLEAN,
             open : BOOLEAN, derived : BOOLEAN, labelled : BOOLEAN]
Outcomes == {"none", "detected", "found", "created", "updated", "current", "plan-conflict",
             "transport-failure"}
CallType == [pc : PastTheRecord \cup {"idle", "find", "start", "record", "done"},
             door : {"none", "detect", "create", "update"}, plan : Plans \cup {NoPlan},
             pull : Nat, tip : Nat, outcome : Outcomes]

RemoteTypeOK ==
    /\ pulls \in Seq(PullType)
    /\ branch \in [tip : Nat, files : Plans \cup {NoPlan, Human}]
    /\ call \in [Process -> CallType]

\* A call past its record is of a plan, and that plan is on record.
CallsAreOnRecord ==
    \A p \in Process : call[p].pc \in PastTheRecord =>
        call[p].plan \in Plans /\ OnRecord(call[p].plan, sink)
\* A call that has begun is of a plan.
CallsHavePlans ==
    \A p \in Process : call[p].pc \in {"find", "start"} => call[p].plan \in Plans

RecordInv == RemoteTypeOK /\ CallsAreOnRecord /\ CallsHavePlans /\ RemoteIsOnRecord

-----------------------------------------------------------------------------
\* The call ends, or goes on with its plan on its side of the record.
Continues(p) ==
    \E c \in CallType :
        /\ call' = [call EXCEPT ![p] = c]
        /\ \/ c.pc \in {"record", "done", "idle"}
           \/ /\ c.plan = call[p].plan
              /\ \/ c.pc \in PastTheRecord /\ call[p].pc \in PastTheRecord
                 \/ c.pc \in {"find", "start"} /\ call[p].pc \in {"find", "start"}

\* A call that continues is still on record.
LEMMA CallContinues ==
    ASSUME RecordInv, NEW p \in Process, Continues(p), sink \subseteq sink'
    PROVE  call' \in [Process -> CallType] /\ CallsAreOnRecord' /\ CallsHavePlans'
<1> PICK c \in CallType :
        /\ call' = [call EXCEPT ![p] = c]
        /\ \/ c.pc \in {"record", "done", "idle"}
           \/ /\ c.plan = call[p].plan
              /\ \/ c.pc \in PastTheRecord /\ call[p].pc \in PastTheRecord
                 \/ c.pc \in {"find", "start"} /\ call[p].pc \in {"find", "start"}
    BY DEF Continues
<1>0. call \in [Process -> CallType]
    BY DEF RecordInv, RemoteTypeOK
<1>1. call' \in [Process -> CallType]
    BY <1>0
<1>2. \A plan : OnRecord(plan, sink) => OnRecord(plan, sink')
    BY DEF OnRecord
<1>3. CallsAreOnRecord'
    <2> SUFFICES ASSUME NEW q \in Process, call'[q].pc \in PastTheRecord
                 PROVE  call'[q].plan \in Plans /\ OnRecord(call'[q].plan, sink')
        BY DEF CallsAreOnRecord
    <2>1. call'[q].plan = call[q].plan /\ call[q].pc \in PastTheRecord
        BY <1>0 DEF PastTheRecord
    <2> QED BY <1>2, <2>1 DEF RecordInv, CallsAreOnRecord
<1>4. CallsHavePlans'
    BY <1>0 DEF RecordInv, CallsHavePlans, PastTheRecord
<1> QED BY <1>1, <1>3, <1>4

\* What stands at the provider stays on record where a step brings only
\* what stood there, what is no plan's, and what is on record.
LEMMA RemoteStaysOnRecord ==
    ASSUME RecordInv, sink \subseteq sink',
           \A n \in DOMAIN pulls' :
              \/ pulls'[n].claim \notin Plans
              \/ OnRecord(pulls'[n].claim, sink)
              \/ \E m \in DOMAIN pulls : pulls'[n].claim = pulls[m].claim,
           branch'.files \notin Plans \/ OnRecord(branch'.files, sink) \/ branch'.files = branch.files
    PROVE  RemoteIsOnRecord'
<1> SUFFICES ASSUME NEW plan \in Plans,
                    branch'.files = plan \/ \E n \in DOMAIN pulls' : pulls'[n].claim = plan
             PROVE  \E r \in sink' : r.kind = "gate-start" /\ r.plan = plan
    BY DEF RemoteIsOnRecord
<1>1. OnRecord(plan, sink) \/ branch.files = plan \/ \E m \in DOMAIN pulls : pulls[m].claim = plan
    OBVIOUS
<1>2. OnRecord(plan, sink)
    BY <1>1 DEF RecordInv, RemoteIsOnRecord, OnRecord
<1> QED BY <1>2 DEF OnRecord

\* A step of a call that leaves the provider alone.
LEMMA QuietStep ==
    ASSUME RecordInv, UNCHANGED remote, sink \subseteq sink',
           call' \in [Process -> CallType] /\ CallsAreOnRecord' /\ CallsHavePlans'
    PROVE  RecordInv'
BY RemoteStaysOnRecord DEF RecordInv, RemoteTypeOK, remote

\* The initial state has nothing at the provider and no call begun.
LEMMA InitRecordInv == Init => RecordInv
<1> SUFFICES ASSUME Init PROVE RecordInv
    OBVIOUS
<1>1. Idle \in CallType
    BY DEF Idle, CallType, Outcomes
<1>2. RemoteTypeOK
    BY <1>1 DEF Init, RemoteTypeOK
<1>3. CallsAreOnRecord /\ CallsHavePlans
    BY DEF Init, Idle, CallsAreOnRecord, CallsHavePlans, PastTheRecord
<1>4. RemoteIsOnRecord
    BY PlansAssumption DEF Init, RemoteIsOnRecord
<1> QED BY <1>2, <1>3, <1>4 DEF RecordInv

-----------------------------------------------------------------------------
(* The steps of a call.                                                    *)

\* A call begins with a plan, before any record.
LEMMA CallsRecordInv ==
    ASSUME RecordInv, NEW p \in Process, Calls(p)
    PROVE  RecordInv'
<1>1. PICK door \in {"detect", "create", "update"}, plan \in Plans :
          call' = [call EXCEPT ![p] = [Idle EXCEPT !.pc = "find", !.door = door, !.plan = plan]]
    BY DEF Calls
<1> DEFINE c == [pc |-> "find", door |-> door, plan |-> plan, pull |-> 0, tip |-> 0,
                 outcome |-> "none"]
<1>2. call' = [call EXCEPT ![p] = c] /\ c \in CallType /\ UNCHANGED <<pulls, branch, sink>>
    BY <1>1 DEF Calls, Idle, CallType, Outcomes
<1>3. call \in [Process -> CallType]
    BY DEF RecordInv, RemoteTypeOK
<1>4. call' \in [Process -> CallType]
    BY <1>2, <1>3
<1>5. CallsAreOnRecord' /\ CallsHavePlans'
    BY <1>2, <1>3 DEF RecordInv, CallsAreOnRecord, CallsHavePlans, PastTheRecord, OnRecord
<1> QED BY <1>2, <1>4, <1>5, QuietStep DEF remote

\* The write-ahead record puts the call's plan on record.
LEMMA StartsRecordInv ==
    ASSUME RecordInv, NEW p \in Process, Starts(p)
    PROVE  RecordInv'
<1> DEFINE c == [call[p] EXCEPT !.pc = IF call[p].door = "create" THEN "head" ELSE "read"]
<1>1. call \in [Process -> CallType] /\ call[p] \in CallType
    BY DEF RecordInv, RemoteTypeOK
<1>2. /\ call' = [call EXCEPT ![p] = c] /\ c \in CallType /\ c.plan = call[p].plan
      /\ sink \subseteq sink' /\ UNCHANGED <<pulls, branch>>
    BY <1>1 DEF Starts, Goes, CallType, Outcomes, PastTheRecord
<1>3. OnRecord(c.plan, sink') /\ c.plan \in Plans /\ c.pc \notin {"find", "start"}
    <2>1. [kind |-> "gate-start", plan |-> call[p].plan, door |-> call[p].door] \in sink'
        BY DEF Starts
    <2>2. OnRecord(call[p].plan, sink')
        BY <2>1 DEF OnRecord
    <2>3. call[p].plan \in Plans
        BY DEF Starts, RecordInv, CallsHavePlans
    <2>4. c.pc \notin {"find", "start"}
        BY <1>1 DEF CallType
    <2> QED BY <1>2, <2>2, <2>3, <2>4
<1>4. call' \in [Process -> CallType]
    BY <1>1, <1>2
<1>5. \A plan : OnRecord(plan, sink) => OnRecord(plan, sink')
    BY <1>2 DEF OnRecord
<1>6. CallsAreOnRecord' /\ CallsHavePlans'
    BY <1>1, <1>2, <1>3, <1>5 DEF RecordInv, CallsAreOnRecord, CallsHavePlans
<1> QED BY <1>2, <1>4, <1>6, QuietStep DEF remote

\* The four ways a step moves its call on.
LEMMA MovesOn ==
    ASSUME RecordInv, NEW p \in Process,
           \/ call[p].pc \in PastTheRecord /\ \E pc \in PastTheRecord : Goes(p, pc)
           \/ call[p].pc = "find" /\ Goes(p, "start")
           \/ \E outcome \in Outcomes : Settles(p, outcome) \/ Answers(p, outcome)
           \/ Faults(p)
    PROVE  Continues(p)
<1>0. call \in [Process -> CallType] /\ call[p] \in CallType
    BY DEF RecordInv, RemoteTypeOK
<1>1. ASSUME NEW pc \in PastTheRecord, call[p].pc \in PastTheRecord, Goes(p, pc)
      PROVE  Continues(p)
    <2> DEFINE c == [call[p] EXCEPT !.pc = pc]
    <2>1. c \in CallType /\ c.plan = call[p].plan /\ c.pc = pc /\ call' = [call EXCEPT ![p] = c]
        BY <1>0, <1>1 DEF Goes, CallType, Outcomes
    <2> QED BY <1>1, <2>1 DEF Continues
<1>2. ASSUME call[p].pc = "find", Goes(p, "start")
      PROVE  Continues(p)
    <2> DEFINE c == [call[p] EXCEPT !.pc = "start"]
    <2>1. c \in CallType /\ c.plan = call[p].plan /\ c.pc = "start" /\ call' = [call EXCEPT ![p] = c]
        BY <1>0, <1>2 DEF Goes, CallType, Outcomes
    <2> QED BY <1>2, <2>1 DEF Continues
<1>3. ASSUME NEW outcome \in Outcomes, Settles(p, outcome)
      PROVE  Continues(p)
    <2> DEFINE c == [call[p] EXCEPT !.pc = "record", !.outcome = outcome]
    <2>1. c \in CallType /\ c.pc = "record" /\ call' = [call EXCEPT ![p] = c]
        BY <1>0, <1>3 DEF Settles, CallType, Outcomes
    <2> QED BY <2>1 DEF Continues
<1>4. ASSUME NEW outcome \in Outcomes, Answers(p, outcome)
      PROVE  Continues(p)
    <2> DEFINE c == [call[p] EXCEPT !.pc = "done", !.outcome = outcome]
    <2>1. c \in CallType /\ c.pc = "done" /\ call' = [call EXCEPT ![p] = c]
        BY <1>0, <1>4 DEF Answers, CallType, Outcomes
    <2> QED BY <2>1 DEF Continues
<1>5. ASSUME Faults(p) PROVE Continues(p)
    BY <1>3, <1>5 DEF Faults, Outcomes
<1> QED BY <1>1, <1>2, <1>3, <1>4, <1>5

\* Discovery continues the call, whatever the listing shows.
LEMMA FindsContinues ==
    ASSUME RecordInv, NEW p \in Process, Finds(p)
    PROVE  Continues(p)
<1>0. call \in [Process -> CallType] /\ call[p] \in CallType /\ call[p].pc = "find"
    BY DEF RecordInv, RemoteTypeOK, Finds
<1>1. ASSUME NEW n \in Open, FindsOne(p, n)
      PROVE  Continues(p)
    <2>1. Judged(call[p].plan, n) \in {"update"} \cup Outcomes
        BY DEF Judged, Outcomes
    <2> DEFINE c == [call[p] EXCEPT !.pc = "start", !.pull = n]
    <2>2. CASE call' = [call EXCEPT ![p] = c]
        <3>1. n \in Nat
            BY DEF Open, RecordInv, RemoteTypeOK
        <3>2. c \in CallType /\ c.plan = call[p].plan /\ c.pc = "start"
            BY <1>0, <3>1 DEF CallType, Outcomes
        <3> QED BY <1>0, <2>2, <3>2 DEF Continues
    <2> QED BY <1>1, <2>1, <2>2, MovesOn DEF Outcomes, FindsOne
<1>2. ASSUME FindsNone(p) PROVE Continues(p)
    BY <1>0, <1>2, MovesOn DEF Outcomes, FindsNone
<1>3. \A listing \in Listings : Claimants(listing) \subseteq Open
    BY DEF Listings, Claimants
<1> QED BY <1>1, <1>2, <1>3, MovesOn DEF Outcomes, Finds

\* The other steps that leave the provider alone continue the call.
LEMMA ReadsContinues ==
    ASSUME RecordInv, NEW p \in Process,
           Rereads(p) \/ ReadsHead(p) \/ Adopts(p) \/ Records(p) \/ Dies(p)
    PROVE  Continues(p)
<1>0. call \in [Process -> CallType] /\ call[p] \in CallType
    BY DEF RecordInv, RemoteTypeOK
<1>1. CASE Rereads(p)
    BY <1>1, MovesOn DEF Outcomes, Rereads, PastTheRecord
<1>2. CASE ReadsHead(p)
    <2> DEFINE c == [call[p] EXCEPT !.tip = IF Exists THEN branch.tip ELSE 0,
                        !.pc = IF branch.files = call[p].plan THEN "open" ELSE "push"]
    <2>1. CASE call' = [call EXCEPT ![p] = c]
        <3>1. c \in CallType /\ c.plan = call[p].plan /\ c.pc \in PastTheRecord
            BY <1>0 DEF CallType, Outcomes, PastTheRecord, RecordInv, RemoteTypeOK
        <3>2. call[p].pc \in PastTheRecord
            BY <1>2 DEF ReadsHead, PastTheRecord
        <3> HIDE DEF c
        <3> QED BY <2>1, <3>1, <3>2 DEF Continues
    <2> QED BY <1>2, <2>1, MovesOn DEF Outcomes, ReadsHead
<1>3. CASE Adopts(p)
    <2>1. ASSUME NEW n \in Open, call' = [call EXCEPT ![p].pc = "label", ![p].pull = n]
          PROVE  Continues(p)
        <3> DEFINE c == [call[p] EXCEPT !.pc = "label", !.pull = n]
        <3>1. n \in Nat
            BY DEF Open, RecordInv, RemoteTypeOK
        <3>2. c \in CallType /\ c.plan = call[p].plan /\ c.pc \in PastTheRecord
            BY <1>0, <3>1 DEF CallType, Outcomes, PastTheRecord
        <3>3. call[p].pc \in PastTheRecord
            BY <1>3 DEF Adopts, PastTheRecord
        <3> QED BY <2>1, <3>2, <3>3 DEF Continues
    <2>2. \A listing \in Listings : Claimants(listing) \subseteq Open
        BY DEF Listings, Claimants
    <2> QED BY <1>3, <2>1, <2>2, MovesOn DEF Outcomes, Adopts
<1>4. CASE Records(p)
    <2>1. CASE Goes(p, "done")
        <3> DEFINE c == [call[p] EXCEPT !.pc = "done"]
        <3>1. c \in CallType /\ c.pc = "done" /\ call' = [call EXCEPT ![p] = c]
            BY <1>0, <2>1 DEF CallType, Outcomes, Goes
        <3> QED BY <3>1 DEF Continues
    <2>2. CASE Faults(p)
        BY <2>2, MovesOn
    <2> QED BY <1>4, <2>1, <2>2 DEF Records
<1>5. CASE Dies(p)
    <2>1. Idle \in CallType /\ Idle.pc = "idle"
        BY DEF Idle, CallType, Outcomes
    <2> QED BY <1>5, <2>1 DEF Continues, Dies
<1> QED BY <1>1, <1>2, <1>3, <1>4, <1>5

\* The steps that read, answer, record or end: the provider is left alone.
LEMMA ReadsRecordInv ==
    ASSUME RecordInv, NEW p \in Process,
           Finds(p) \/ Rereads(p) \/ ReadsHead(p) \/ Adopts(p) \/ Records(p) \/ Dies(p)
    PROVE  RecordInv'
<1>1. UNCHANGED remote /\ sink \subseteq sink'
    BY DEF remote, Finds, Rereads, ReadsHead, Adopts, Records, Recorded, Dies
<1> QED BY <1>1, FindsContinues, ReadsContinues, CallContinues, QuietStep

\* The steps that write at the provider: files, a pull request, its claim or
\* its labels, each of a plan that is on record; the answer arrives or not.
LEMMA WritesRecordInv ==
    ASSUME RecordInv, NEW p \in Process,
           Pushes(p) \/ Opens(p) \/ Patches(p) \/ Labels(p)
    PROVE  RecordInv'
<1>0. /\ call \in [Process -> CallType] /\ call[p] \in CallType
      /\ pulls \in Seq(PullType) /\ branch \in [tip : Nat, files : Plans \cup {NoPlan, Human}]
    BY DEF RecordInv, RemoteTypeOK
<1>1. call[p].pc \in {"push", "open", "label"} /\ call[p].plan \in Plans /\ OnRecord(call[p].plan, sink)
    BY DEF Pushes, Opens, Patches, Labels, RecordInv, CallsAreOnRecord, PastTheRecord
<1>2. sink' = sink
    BY DEF Pushes, Opens, Patches, Labels
<1>3. Continues(p)
    <2>1. CASE Pushes(p)
        BY <2>1, MovesOn DEF Outcomes, Pushes, Landed, Refused, PastTheRecord
    <2>2. CASE Opens(p)
        <3> DEFINE c == [call[p] EXCEPT !.pc = "label", !.pull = Len(pulls')]
        <3>1. CASE pulls' = Append(pulls, Pull(call[p].plan)) /\ call' = [call EXCEPT ![p] = c]
            <4>1. Len(pulls') \in Nat
                BY <1>0, <3>1
            <4>2. c \in CallType /\ c.plan = call[p].plan /\ c.pc = "label"
                BY <1>0, <4>1 DEF CallType, Outcomes, PastTheRecord
            <4> QED BY <1>1, <3>1, <4>2 DEF Continues, PastTheRecord
        <3> QED BY <1>1, <2>2, <3>1, MovesOn DEF Outcomes, Opens, Landed, Refused, PastTheRecord
    <2>3. CASE Patches(p)
        BY <2>3, MovesOn DEF Outcomes, Patches, Landed, PastTheRecord
    <2>4. CASE Labels(p)
        BY <2>4, MovesOn DEF Outcomes, Labels, Landed, Succeeds
    <2> QED BY <2>1, <2>2, <2>3, <2>4
<1>4. call' \in [Process -> CallType] /\ CallsAreOnRecord' /\ CallsHavePlans'
    BY <1>2, <1>3, CallContinues
<1>5. /\ branch' \in [tip : Nat, files : Plans \cup {NoPlan, Human}]
      /\ branch'.files = branch.files \/ OnRecord(branch'.files, sink)
    <2>1. CASE branch' = [tip |-> branch.tip + 1, files |-> call[p].plan]
        BY <1>0, <1>1, <2>1
    <2>2. CASE branch' = branch
        BY <1>0, <2>2
    <2> QED BY <2>1, <2>2 DEF Pushes, Opens, Patches, Labels
<1>6. /\ pulls' \in Seq(PullType)
      /\ \A n \in DOMAIN pulls' : \/ OnRecord(pulls'[n].claim, sink)
                                  \/ \E m \in DOMAIN pulls : pulls'[n].claim = pulls[m].claim
    <2>1. CASE pulls' = Append(pulls, Pull(call[p].plan))
        <3>1. Pull(call[p].plan) \in PullType /\ Pull(call[p].plan).claim = call[p].plan
            BY <1>1 DEF Pull, PullType
        <3> QED BY <1>0, <1>1, <2>1, <3>1
    <2>2. CASE pulls' = Patched(p)
        <3> DEFINE k == call[p].pull
        <3> DEFINE e == [pulls[k] EXCEPT !.claim = call[p].plan, !.body = TRUE, !.title = TRUE]
        <3>1. pulls' = [pulls EXCEPT ![k] = e]
            BY <2>2 DEF Patched
        <3>2. CASE k \in DOMAIN pulls
            <4>1. pulls[k] \in PullType
                BY <1>0, <3>2
            <4>2. e \in PullType /\ e.claim = call[p].plan
                BY <1>1, <4>1 DEF PullType
            <4> HIDE DEF e, k
            <4> QED BY <1>0, <1>1, <3>1, <3>2, <4>2
        <3>3. CASE k \notin DOMAIN pulls
            <4> HIDE DEF e, k
            <4>1. pulls' = pulls
                BY <1>0, <3>1, <3>3
            <4> QED BY <1>0, <4>1
        <3> QED BY <3>2, <3>3
    <2>3. CASE pulls' = [pulls EXCEPT ![call[p].pull].labelled = TRUE]
        <3> DEFINE k == call[p].pull
        <3> DEFINE e == [pulls[k] EXCEPT !.labelled = TRUE]
        <3>1. pulls' = [pulls EXCEPT ![k] = e]
            BY <2>3
        <3>2. CASE k \in DOMAIN pulls
            <4>1. pulls[k] \in PullType
                BY <1>0, <3>2
            <4>2. e \in PullType /\ e.claim = pulls[k].claim
                BY <4>1 DEF PullType
            <4> HIDE DEF e, k
            <4> QED BY <1>0, <3>1, <3>2, <4>2
        <3>3. CASE k \notin DOMAIN pulls
            <4> HIDE DEF e, k
            <4>1. pulls' = pulls
                BY <1>0, <3>1, <3>3
            <4> QED BY <1>0, <4>1
        <3> QED BY <3>2, <3>3
    <2>4. CASE pulls' = pulls
        BY <1>0, <2>4
    <2> QED BY <2>1, <2>2, <2>3, <2>4 DEF Pushes, Opens, Patches, Labels
<1>7. RemoteIsOnRecord'
    BY <1>2, <1>5, <1>6, RemoteStaysOnRecord
<1> QED BY <1>4, <1>5, <1>6, <1>7 DEF RecordInv, RemoteTypeOK

\* People take plans away, or copy a pull request that was there.
LEMMA PeopleRecordInv ==
    ASSUME RecordInv, People
    PROVE  RecordInv'
<1>0. pulls \in Seq(PullType) /\ branch \in [tip : Nat, files : Plans \cup {NoPlan, Human}]
    BY DEF RecordInv, RemoteTypeOK
<1>1. call' = call /\ sink' = sink
    BY DEF People, PushesByHand, DeletesBranch, EditsBody, EditsTitle, EditsClaim, Closes, Copies,
           Edits
<1>2. /\ branch' \in [tip : Nat, files : Plans \cup {NoPlan, Human}]
      /\ branch'.files = branch.files \/ branch'.files \notin Plans
    <2>1. CASE PushesByHand
        <3>1. branch' = [branch EXCEPT !.tip = branch.tip + 1, !.files = Human]
            BY <2>1 DEF PushesByHand, Edits
        <3>2. branch.tip + 1 \in Nat
            BY <1>0
        <3> QED BY <1>0, <3>1, <3>2, PlansAssumption
    <2>2. CASE DeletesBranch
        BY <1>0, <2>2, PlansAssumption DEF DeletesBranch, Edits
    <2>3. CASE branch' = branch
        BY <1>0, <2>3
    <2> QED BY <2>1, <2>2, <2>3 DEF People, EditsBody, EditsTitle, EditsClaim, Closes, Copies, Edits
<1> DEFINE Kept == \A n \in DOMAIN pulls' :
                       \/ pulls'[n].claim \notin Plans
                       \/ \E m \in DOMAIN pulls : pulls'[n].claim = pulls[m].claim
<1>3. ASSUME NEW k \in DOMAIN pulls, NEW e \in PullType, pulls' = [pulls EXCEPT ![k] = e],
             e.claim \notin Plans \/ e.claim = pulls[k].claim
      PROVE  pulls' \in Seq(PullType) /\ Kept
    BY <1>0, <1>3
<1>4. ASSUME NEW n \in Open,
             EditsBody(n) \/ EditsTitle(n) \/ EditsClaim(n) \/ Closes(n) \/ Copies(n)
      PROVE  pulls' \in Seq(PullType) /\ Kept
    <2>0. n \in DOMAIN pulls /\ pulls[n] \in PullType
        BY <1>0 DEF Open
    <2>1. CASE EditsBody(n)
        <3> DEFINE e == [pulls[n] EXCEPT !.body = FALSE]
        <3>1. e \in PullType /\ e.claim = pulls[n].claim /\ pulls' = [pulls EXCEPT ![n] = e]
            BY <2>0, <2>1 DEF EditsBody, Edits, PullType
        <3> QED BY <1>3, <2>0, <3>1
    <2>2. CASE EditsTitle(n)
        <3> DEFINE e == [pulls[n] EXCEPT !.title = FALSE]
        <3>1. e \in PullType /\ e.claim = pulls[n].claim /\ pulls' = [pulls EXCEPT ![n] = e]
            BY <2>0, <2>2 DEF EditsTitle, Edits, PullType
        <3> QED BY <1>3, <2>0, <3>1
    <2>3. CASE EditsClaim(n)
        <3>1. PICK claim \in {Foreign, Malformed} :
                  pulls' = [pulls EXCEPT ![n].claim = claim, ![n].body = FALSE]
            BY <2>3 DEF EditsClaim, Edits
        <3> DEFINE e == [pulls[n] EXCEPT !.claim = claim, !.body = FALSE]
        <3>2. e \in PullType /\ e.claim \notin Plans /\ pulls' = [pulls EXCEPT ![n] = e]
            BY <2>0, <3>1, PlansAssumption DEF PullType
        <3> QED BY <1>3, <2>0, <3>2
    <2>4. CASE Closes(n)
        <3> DEFINE e == [pulls[n] EXCEPT !.open = FALSE]
        <3>1. e \in PullType /\ e.claim = pulls[n].claim /\ pulls' = [pulls EXCEPT ![n] = e]
            BY <2>0, <2>4 DEF Closes, Edits, PullType
        <3> QED BY <1>3, <2>0, <3>1
    <2>5. CASE Copies(n)
        <3> DEFINE e == [pulls[n] EXCEPT !.derived = FALSE]
        <3>1. e \in PullType /\ e.claim = pulls[n].claim /\ pulls' = Append(pulls, e)
            BY <2>0, <2>5 DEF Copies, Edits, PullType
        <3> HIDE DEF e
        <3> QED BY <1>0, <2>0, <3>1
    <2> QED BY <1>4, <2>1, <2>2, <2>3, <2>4, <2>5
<1>5. CASE PushesByHand
    BY <1>0, <1>1, <1>2, <1>5, RemoteStaysOnRecord
       DEF PushesByHand, Edits, RecordInv, RemoteTypeOK, CallsAreOnRecord, CallsHavePlans
<1>6. CASE DeletesBranch
    <2> DEFINE e(n) == [pulls[n] EXCEPT !.open = pulls[n].open /\ ~pulls[n].derived]
    <2>1. \A n \in DOMAIN pulls : e(n) \in PullType /\ e(n).claim = pulls[n].claim
        <3> SUFFICES ASSUME NEW n \in DOMAIN pulls
                     PROVE  e(n) \in PullType /\ e(n).claim = pulls[n].claim
            OBVIOUS
        <3>1. pulls[n] \in PullType
            BY <1>0
        <3> DEFINE open == pulls[n].open /\ ~pulls[n].derived
        <3>2. open \in BOOLEAN
            OBVIOUS
        <3> HIDE DEF open
        <3>3. e(n) = [pulls[n] EXCEPT !.open = open]
            BY DEF open
        <3> QED BY <3>1, <3>2, <3>3 DEF PullType
    <2>2. pulls' = [n \in DOMAIN pulls |-> e(n)]
        BY <1>6 DEF DeletesBranch, Edits
    <2> HIDE DEF e
    <2>3. pulls' \in Seq(PullType) /\ Kept
        BY <1>0, <2>1, <2>2
    <2> QED BY <1>1, <1>2, <2>3, RemoteStaysOnRecord
            DEF RecordInv, RemoteTypeOK, CallsAreOnRecord, CallsHavePlans
<1>7. CASE pulls' \in Seq(PullType) /\ Kept
    BY <1>1, <1>2, <1>7, RemoteStaysOnRecord
       DEF RecordInv, RemoteTypeOK, CallsAreOnRecord, CallsHavePlans
<1> QED BY <1>4, <1>5, <1>6, <1>7 DEF People

-----------------------------------------------------------------------------
\* Every step, of a call or of a person, keeps the invariant.
LEMMA NextRecordInv == RecordInv /\ [Next]_vars => RecordInv'
<1> SUFFICES ASSUME RecordInv, [Next]_vars PROVE RecordInv'
    OBVIOUS
<1>1. CASE People
    BY <1>1, PeopleRecordInv
<1>2. ASSUME NEW p \in Process, Gate(p) PROVE RecordInv'
    BY <1>2, CallsRecordInv, StartsRecordInv, ReadsRecordInv, WritesRecordInv DEF Gate
<1>3. CASE UNCHANGED vars
    BY <1>3 DEF vars, RecordInv, RemoteTypeOK, CallsAreOnRecord, CallsHavePlans, RemoteIsOnRecord,
                OnRecord
<1> QED BY <1>1, <1>2, <1>3 DEF Next

\* Whoever dies and whatever answer is lost, a plan whose files or claim
\* stand at the provider has its gate-start record in the sink.
THEOREM ProviderIsOnRecord == Spec => []RemoteIsOnRecord
<1>1. RecordInv => RemoteIsOnRecord BY DEF RecordInv
<1> QED BY <1>1, InitRecordInv, NextRecordInv, PTL DEF Spec

-----------------------------------------------------------------------------
(* What the gate's success means, and the order of files and claim.  The   *)
(* history says which calls met another's write or a listing that missed a *)
(* pull request, and of those nothing is claimed.                          *)

NoClaimant == \A n \in Open : pulls[n].claim \notin Plans
Succeeded(p) == call[p].pc = "record" /\ call[p].outcome \in {"created", "updated"}

\* What an undisturbed call knows of the provider, step by step.
Undisturbed(p) ==
    /\ call[p].door = "create" /\ call[p].pc \in {"start", "head", "push", "open", "adopt"}
         => NoClaimant
    /\ call[p].door = "update" /\ call[p].pc \in {"start", "read"} => call[p].pull \in DOMAIN pulls
    /\ call[p].door = "update" /\ call[p].pc \in {"head", "push", "open"}
         => call[p].pull \in Open /\ pulls[call[p].pull].derived
    /\ call[p].pc \in {"open", "adopt", "label"} \/ Succeeded(p) => branch.files = call[p].plan
    /\ call[p].pc = "label" \/ Succeeded(p) =>
         /\ call[p].pull \in DOMAIN pulls
         /\ Ours(call[p].pull)
         /\ pulls[call[p].pull].claim = call[p].plan
         /\ Intact(call[p].pull)
    /\ Succeeded(p) => pulls[call[p].pull].labelled

\* What a call that is alone knows, whatever people do in its course.
Alone(p) ==
    /\ call[p].door = "create" /\ call[p].pc \in {"start", "head", "push", "open"} => NoClaimant
    /\ call[p].door = "update" /\ call[p].pc \in {"start", "read", "head", "push", "open"} =>
         \A n \in DOMAIN pulls :
            Ours(n) => call[p].plan = pulls[n].claim \/ call[p].plan \in Superseding(pulls[n].claim)
    /\ call[p].pc = "open" => branch.files \in {call[p].plan, Human, NoPlan}

\* A deleted branch has no open pull request.
BranchlessIsClosed ==
    ~Exists => \A n \in DOMAIN pulls : ~(pulls[n].open /\ pulls[n].derived)

\* A call past its discovery writes through one of the port's two doors.
CallsHaveDoors ==
    \A p \in Process :
        /\ call[p].pc \in PastTheRecord \cup {"start"} => call[p].door \in {"create", "update"}
        /\ call[p].pc = "adopt" => call[p].door = "create"
        /\ call[p].pc = "read" => call[p].door = "update"

AloneInv ==
    ~disorder =>
        /\ \A p, q \in Process : Live(p) /\ Live(q) => p = q
        /\ \A p \in Process : Alone(p)

GateInv ==
    /\ RecordInv /\ CallsHaveDoors
    /\ \A p \in Process \ touched : Undisturbed(p)
    /\ AloneInv
    /\ BranchlessIsClosed
    /\ ClaimFollowsFiles

-----------------------------------------------------------------------------
(* What a step leaves as it was.                                           *)

\* A step of a call that only moves its program counter.
LEMMA GoesFields ==
    ASSUME RecordInv, NEW p \in Process, NEW pc, Goes(p, pc)
    PROVE  /\ call'[p].pc = pc
           /\ call'[p].door = call[p].door /\ call'[p].plan = call[p].plan
           /\ call'[p].pull = call[p].pull /\ call'[p].outcome = call[p].outcome
BY DEF RecordInv, RemoteTypeOK, CallType, Goes

\* A step that settles a call keeps what it was about.
LEMMA SettlesFields ==
    ASSUME RecordInv, NEW p \in Process, NEW outcome, Settles(p, outcome)
    PROVE  /\ call'[p].pc = "record" /\ call'[p].outcome = outcome
           /\ call'[p].door = call[p].door /\ call'[p].plan = call[p].plan
           /\ call'[p].pull = call[p].pull
BY DEF RecordInv, RemoteTypeOK, CallType, Settles

\* A call that settles in a failure, or is only answered, promises nothing.
LEMMA FailurePromisesNothing ==
    ASSUME RecordInv, NEW p \in Process, NEW outcome \in Outcomes \ {"created", "updated"},
           Settles(p, outcome) \/ Answers(p, outcome)
    PROVE  Undisturbed(p)' /\ Alone(p)'
<1>0. call \in [Process -> CallType]
    BY DEF RecordInv, RemoteTypeOK
<1>1. call'[p].pc \in {"record", "done"} /\ call'[p].outcome \notin {"created", "updated"}
    BY <1>0 DEF Settles, Answers, CallType, Outcomes
<1> QED BY <1>1 DEF Undisturbed, Alone, Succeeded

\* The other calls are undisturbed by a step that writes nothing, and known
\* to be disturbed by one that writes.
LEMMA OthersUndisturbed ==
    ASSUME GateInv, NEW p \in Process, NEW q \in Process, q # p, q \notin touched',
           call'[q] = call[q],
           \/ UNCHANGED remote /\ touched \ {p} \subseteq touched'
           \/ Disturbs(p)
    PROVE  Undisturbed(q)'
<1>1. CASE UNCHANGED remote /\ touched \ {p} \subseteq touched'
    <2>1. Undisturbed(q)
        BY <1>1 DEF GateInv
    <2> QED BY <1>1, <2>1 DEF remote, Undisturbed, NoClaimant, Open, Succeeded, Ours, Intact
<1>2. CASE Disturbs(p)
    <2>1. call'[q].pc \in {"idle", "done"}
        BY <1>2 DEF Disturbs, Live
    <2> QED BY <2>1 DEF Undisturbed, Succeeded
<1> QED BY <1>1, <1>2

\* A call in flight that is alone has nobody beside it.
LEMMA OthersAlone ==
    ASSUME GateInv, NEW p \in Process, NEW q \in Process, q # p, ~disorder, Live(p),
           call'[q] = call[q]
    PROVE  Alone(q)' /\ ~Live(q) /\ ~Live(q)'
<1>1. call[q].pc \in {"idle", "done"} /\ ~Live(q)
    BY DEF GateInv, AloneInv, Live
<1> QED BY <1>1 DEF Alone, Live

\* A step of a call in flight keeps the invariant where it keeps what this
\* call knows and what is known of the provider.
LEMMA GateStep ==
    ASSUME GateInv, RecordInv', CallsHaveDoors', NEW p \in Process, Live(p),
           \A q \in Process \ {p} : call'[q] = call[q],
           UNCHANGED disorder,
           UNCHANGED <<remote, touched>> \/ Disturbs(p),
           p \notin touched => Undisturbed(p)',
           ~disorder => Alone(p)' /\ ClaimFollowsFiles',
           BranchlessIsClosed'
    PROVE  GateInv'
<1>1. \A q \in Process \ touched' : Undisturbed(q)'
    <2> SUFFICES ASSUME NEW q \in Process, q \notin touched' PROVE Undisturbed(q)'
        OBVIOUS
    <2>1. CASE q = p
        BY <2>1 DEF Disturbs
    <2>2. CASE q # p
        BY <2>2, OthersUndisturbed
    <2> QED BY <2>1, <2>2
<1>2. AloneInv'
    <2> SUFFICES ASSUME ~disorder
                 PROVE  /\ \A q, r \in Process : Live(q)' /\ Live(r)' => q = r
                        /\ \A q \in Process : Alone(q)'
        BY DEF AloneInv
    <2>1. \A q \in Process : q # p => Alone(q)' /\ ~Live(q)'
        BY OthersAlone
    <2> QED BY <2>1
<1>3. ClaimFollowsFiles'
    BY DEF ClaimFollowsFiles
<1> QED BY <1>1, <1>2, <1>3 DEF GateInv

\* Where the provider is left alone, what is known of it stands.
LEMMA QuietGateStep ==
    ASSUME GateInv, RecordInv', CallsHaveDoors', NEW p \in Process, Live(p),
           \A q \in Process \ {p} : call'[q] = call[q],
           UNCHANGED <<remote, disorder, touched>>,
           p \notin touched => Undisturbed(p)',
           ~disorder => Alone(p)'
    PROVE  GateInv'
<1>1. BranchlessIsClosed' /\ (~disorder => ClaimFollowsFiles')
    BY DEF GateInv, BranchlessIsClosed, ClaimFollowsFiles, Exists, Ours, remote
<1> QED BY <1>1, GateStep

\* A listing that missed a pull request leaves its call disturbed, and puts
\* an end to what is claimed where no listing has.
LEMMA ListingMisses ==
    ASSUME GateInv, RecordInv', CallsHaveDoors', NEW p \in Process,
           \A q \in Process \ {p} : call'[q] = call[q],
           UNCHANGED remote, disorder', touched' = touched \cup {p}
    PROVE  GateInv'
<1>1. \A q \in Process \ touched' : Undisturbed(q)'
    BY OthersUndisturbed
<1>2. AloneInv' /\ ClaimFollowsFiles'
    BY DEF AloneInv, ClaimFollowsFiles
<1>3. BranchlessIsClosed'
    BY DEF GateInv, BranchlessIsClosed, Exists, remote
<1> QED BY <1>1, <1>2, <1>3 DEF GateInv

-----------------------------------------------------------------------------
(* The steps of a call that read.                                          *)

\* The steps that settle a call in a failure.
LEMMA FailsGateInv ==
    ASSUME GateInv, RecordInv', CallsHaveDoors', NEW p \in Process, Live(p), Settles(p, "transport-failure"),
           UNCHANGED <<remote, disorder, touched>>
    PROVE  GateInv'
<1>1. RecordInv /\ \A q \in Process \ {p} : call'[q] = call[q]
    BY DEF GateInv, RecordInv, RemoteTypeOK, Settles
<1>2. Undisturbed(p)' /\ Alone(p)'
    BY <1>1, FailurePromisesNothing DEF Outcomes
<1> QED BY <1>1, <1>2, QuietGateStep

\* A call that begins knows nothing.
LEMMA CallsGateInv ==
    ASSUME GateInv, RecordInv', CallsHaveDoors', NEW p \in Process, Calls(p)
    PROVE  GateInv'
<1>0. call \in [Process -> CallType]
    BY DEF GateInv, RecordInv, RemoteTypeOK
<1>1. /\ call'[p].pc = "find" /\ \A q \in Process \ {p} : call'[q] = call[q]
      /\ UNCHANGED remote /\ touched' = touched \ {p}
    BY <1>0 DEF Calls, Idle, remote
<1>2. Undisturbed(p)' /\ Alone(p)'
    BY <1>1 DEF Undisturbed, Alone, Succeeded
<1>3. \A q \in Process \ touched' : Undisturbed(q)'
    BY <1>1, <1>2, OthersUndisturbed
<1>4. AloneInv'
    <2> SUFFICES ASSUME ~disorder'
                 PROVE  /\ \A q, r \in Process : Live(q)' /\ Live(r)' => q = r
                        /\ \A q \in Process : Alone(q)'
        BY DEF AloneInv
    <2>1. \A q \in Process : ~Live(q)
        BY DEF Calls
    <2>2. \A q \in Process \ {p} : call'[q].pc \in {"idle", "done"}
        BY <1>1, <2>1 DEF Live
    <2> QED BY <1>2, <2>2 DEF Live, Alone
<1>5. BranchlessIsClosed' /\ ClaimFollowsFiles'
    BY <1>1 DEF GateInv, BranchlessIsClosed, ClaimFollowsFiles, Exists, Ours, remote, Calls
<1> QED BY <1>3, <1>4, <1>5 DEF GateInv

\* A listing that misses nothing tells a create that nobody has a claim, and
\* an update that the pull request found is the only one with a claim.
LEMMA FindsGateInv ==
    ASSUME GateInv, RecordInv', CallsHaveDoors', NEW p \in Process, Finds(p)
    PROVE  GateInv'
<1>0. /\ RecordInv /\ call \in [Process -> CallType] /\ call[p] \in CallType
      /\ pulls \in Seq(PullType) /\ call[p].pc = "find" /\ Live(p)
    BY DEF GateInv, RecordInv, RemoteTypeOK, Finds, Live
<1>1. UNCHANGED remote /\ \A q \in Process \ {p} : call'[q] = call[q]
    <2>1. Continues(p)
        BY <1>0, FindsContinues
    <2> QED BY <1>0, <2>1 DEF Finds, remote, Continues
<1>2. CASE Faults(p) /\ UNCHANGED <<disorder, touched>>
    BY <1>0, <1>1, <1>2, FailsGateInv DEF Faults
<1>3. ASSUME NEW listing \in Listings, listing # Open, Sees(p, listing)
      PROVE  GateInv'
    BY <1>0, <1>1, <1>3, ListingMisses DEF Sees
<1>4. ASSUME /\ Sees(p, Open)
             /\ \/ ~Readable(Open) /\ Settles(p, "transport-failure")
                \/ Readable(Open) /\ Claimants(Open) = {} /\ FindsNone(p)
                \/ Readable(Open) /\ \E n \in Claimants(Open) : FindsOne(p, n)
      PROVE  Undisturbed(p)' /\ (~disorder => Alone(p)')
    <2>1. ASSUME NEW outcome \in Outcomes \ {"created", "updated"},
                 Settles(p, outcome) \/ Answers(p, outcome)
          PROVE  Undisturbed(p)' /\ Alone(p)'
        BY <1>0, <2>1, FailurePromisesNothing
    <2>2. CASE Claimants(Open) = {} /\ FindsNone(p)
        <3>1. CASE call[p].door = "create" /\ Goes(p, "start")
            <4>1. call'[p].pc = "start" /\ call'[p].door = "create"
                BY <1>0, <3>1, GoesFields
            <4>2. NoClaimant'
                BY <1>1, <2>2 DEF NoClaimant, Claimants, Open, remote
            <4> QED BY <4>1, <4>2 DEF Undisturbed, Alone, Succeeded
        <3> QED BY <2>1, <2>2, <3>1 DEF FindsNone, Outcomes
    <2>3. ASSUME NEW n \in Claimants(Open), Readable(Open), FindsOne(p, n)
          PROVE  Undisturbed(p)' /\ (~disorder => Alone(p)')
        <3>1. CASE /\ call[p].door = "update" /\ Judged(call[p].plan, n) = "update"
                   /\ call' = [call EXCEPT ![p].pc = "start", ![p].pull = n]
            <4>1. /\ call'[p].pc = "start" /\ call'[p].door = "update"
                  /\ call'[p].plan = call[p].plan /\ call'[p].pull = n
                BY <1>0, <3>1 DEF CallType
            <4>7. n \in DOMAIN pulls'
                BY <1>1 DEF Claimants, Open, remote
            <4>2. call[p].plan \in Plans
                BY <1>0 DEF RecordInv, CallsHavePlans
            <4>3. call[p].plan = pulls[n].claim \/ call[p].plan \in Superseding(pulls[n].claim)
                BY <3>1, <4>2 DEF Judged, Superseding
            <4>4. \A m \in Claimants(Open) : m = n
                <5>1. IsFiniteSet(Claimants(Open)) /\ Cardinality(Claimants(Open)) <= 1
                    <6>1. Claimants(Open) \subseteq 1 .. Len(pulls) /\ Len(pulls) \in Nat
                        BY <1>0 DEF Claimants, Open
                    <6>2. IsFiniteSet(1 .. Len(pulls))
                        BY <6>1, FS_Interval
                    <6>3. IsFiniteSet(Claimants(Open))
                        BY <6>1, <6>2, FS_Subset
                    <6> QED BY <2>3, <6>3 DEF Readable
                <5>2. SUFFICES ASSUME NEW m \in Claimants(Open), m # n PROVE FALSE
                    OBVIOUS
                <5>3. {m, n} \subseteq Claimants(Open) /\ Cardinality({m, n}) = 2
                    <6>1. {m, n} = {m} \union {n} /\ IsFiniteSet({m}) /\ Cardinality({m}) = 1
                        BY FS_Singleton
                    <6>2. n \notin {m}
                        BY <5>2
                    <6>3. Cardinality({m} \union {n}) = 2
                        BY <6>1, <6>2, FS_AddElement
                    <6> QED BY <2>3, <5>2, <6>1, <6>3
                <5>4. Cardinality({m, n}) <= Cardinality(Claimants(Open))
                    BY <5>1, <5>3, FS_Subset
                <5>5. Cardinality(Claimants(Open)) \in Nat
                    BY <5>1, FS_CardinalityType
                <5> QED BY <5>1, <5>3, <5>4, <5>5
            <4>5. \A m \in DOMAIN pulls : Ours(m) => m = n
                BY <4>4 DEF Ours, Claimants, Open
            <4>6. Alone(p)'
                BY <1>1, <4>1, <4>3, <4>5 DEF Alone, Ours, remote
            <4> QED BY <4>1, <4>6, <4>7 DEF Undisturbed, Succeeded
        <3>2. CASE Answers(p, "found")
            BY <2>1, <3>2 DEF Outcomes
        <3>3. CASE Settles(p, Judged(call[p].plan, n)) /\ Judged(call[p].plan, n) # "update"
            <4>1. Judged(call[p].plan, n) \in Outcomes \ {"created", "updated"}
                BY <3>3 DEF Judged, Outcomes
            <4> QED BY <2>1, <3>3, <4>1
        <3> QED BY <2>3, <3>1, <3>2, <3>3 DEF FindsOne
    <2>4. CASE Settles(p, "transport-failure")
        BY <2>1, <2>4 DEF Outcomes
    <2> QED BY <1>4, <2>2, <2>3, <2>4
<1>5. ASSUME Sees(p, Open), Undisturbed(p)', ~disorder => Alone(p)'
      PROVE  GateInv'
    BY <1>0, <1>1, <1>5, QuietGateStep DEF Sees
<1> QED BY <1>2, <1>3, <1>4, <1>5 DEF Finds

\* The write-ahead record: a create is at the head next, an update reads its
\* pull request again.
LEMMA StartsGateInv ==
    ASSUME GateInv, RecordInv', CallsHaveDoors', NEW p \in Process, Starts(p)
    PROVE  GateInv'
<1>0. RecordInv /\ call \in [Process -> CallType] /\ Live(p) /\ call[p].pc = "start"
    BY DEF GateInv, RecordInv, RemoteTypeOK, Starts, Live
<1>1. PICK pc \in {"head", "read"} :
          Goes(p, pc) /\ pc = IF call[p].door = "create" THEN "head" ELSE "read"
    BY DEF Starts
<1>2. /\ UNCHANGED <<remote, disorder, touched>>
      /\ \A q \in Process \ {p} : call'[q] = call[q]
    BY <1>0, <1>1 DEF Starts, remote, Goes
<1>3. /\ call'[p].pc = pc /\ call'[p].door = call[p].door /\ call'[p].plan = call[p].plan
      /\ call'[p].pull = call[p].pull
    BY <1>0, <1>1, GoesFields
<1>4. ASSUME p \notin touched PROVE Undisturbed(p)'
    <2>1. Undisturbed(p)
        BY <1>4 DEF GateInv
    <2> QED BY <1>0, <1>1, <1>2, <1>3, <2>1
            DEF Undisturbed, Succeeded, NoClaimant, Open, remote
<1>5. ASSUME ~disorder PROVE Alone(p)'
    <2>1. Alone(p)
        BY <1>5 DEF GateInv, AloneInv
    <2> QED BY <1>0, <1>1, <1>2, <1>3, <2>1 DEF Alone, NoClaimant, Open, Ours, remote
<1> QED BY <1>0, <1>2, <1>4, <1>5, QuietGateStep

\* What an update reads again: its pull request is open, on the branch.
LEMMA RereadsGateInv ==
    ASSUME GateInv, RecordInv', CallsHaveDoors', NEW p \in Process, Rereads(p)
    PROVE  GateInv'
<1>0. RecordInv /\ call \in [Process -> CallType] /\ Live(p) /\ call[p].pc = "read"
    BY DEF GateInv, RecordInv, RemoteTypeOK, Rereads, Live
<1>1. UNCHANGED <<remote, disorder, touched>>
    BY DEF Rereads, remote
<1>2. CASE Settles(p, "transport-failure")
    BY <1>0, <1>1, <1>2, FailsGateInv
<1>3. CASE Updatable(call[p].pull) /\ Goes(p, "head")
    <2>1. /\ call'[p].pc = "head" /\ call'[p].door = call[p].door /\ call'[p].plan = call[p].plan
          /\ call'[p].pull = call[p].pull /\ \A q \in Process \ {p} : call'[q] = call[q]
        BY <1>0, <1>3, GoesFields DEF Goes
    <2>2. ASSUME p \notin touched PROVE Undisturbed(p)'
        <3>1. Undisturbed(p) /\ call[p].door = "update"
            BY <1>0, <2>2 DEF GateInv, CallsHaveDoors
        <3> QED BY <1>0, <1>1, <1>3, <2>1, <3>1
                DEF Undisturbed, Succeeded, Updatable, Open, remote
    <2>3. ASSUME ~disorder PROVE Alone(p)'
        <3>1. Alone(p) /\ call[p].door = "update"
            BY <1>0, <2>3 DEF GateInv, AloneInv, CallsHaveDoors
        <3> QED BY <1>0, <1>1, <2>1, <3>1 DEF Alone, Ours, remote
    <2> QED BY <1>0, <1>1, <2>1, <2>2, <2>3, QuietGateStep
<1> QED BY <1>2, <1>3 DEF Rereads, Faults

\* The head that is read: the plan's files are there already, or are pushed.
LEMMA ReadsHeadGateInv ==
    ASSUME GateInv, RecordInv', CallsHaveDoors', NEW p \in Process, ReadsHead(p)
    PROVE  GateInv'
<1>0. RecordInv /\ call \in [Process -> CallType] /\ Live(p) /\ call[p].pc = "head"
    BY DEF GateInv, RecordInv, RemoteTypeOK, ReadsHead, Live
<1>1. UNCHANGED <<remote, disorder, touched>>
    BY DEF ReadsHead, remote
<1>2. CASE Settles(p, "transport-failure")
    BY <1>0, <1>1, <1>2, FailsGateInv
<1>3. CASE call' = [call EXCEPT ![p].tip = IF Exists THEN branch.tip ELSE 0,
                      ![p].pc = IF branch.files = call[p].plan THEN "open" ELSE "push"]
    <2>1. /\ call'[p].pc \in {"open", "push"}
          /\ call'[p].pc = "open" => branch.files = call[p].plan
          /\ call'[p].door = call[p].door /\ call'[p].plan = call[p].plan
          /\ call'[p].pull = call[p].pull /\ \A q \in Process \ {p} : call'[q] = call[q]
        BY <1>0, <1>3 DEF CallType
    <2>2. ASSUME p \notin touched PROVE Undisturbed(p)'
        <3>1. Undisturbed(p)
            BY <2>2 DEF GateInv
        <3> QED BY <1>0, <1>1, <2>1, <3>1 DEF Undisturbed, Succeeded, NoClaimant, Open, remote
    <2>3. ASSUME ~disorder PROVE Alone(p)'
        <3>1. Alone(p)
            BY <2>3 DEF GateInv, AloneInv
        <3> QED BY <1>0, <1>1, <2>1, <3>1 DEF Alone, NoClaimant, Open, Ours, remote
    <2> QED BY <1>0, <1>1, <2>1, <2>2, <2>3, QuietGateStep
<1> QED BY <1>2, <1>3 DEF ReadsHead, Faults

\* A create that is told its pull request exists adopts one with a claim: it
\* found none, and an undisturbed one still finds none.
LEMMA AdoptsGateInv ==
    ASSUME GateInv, RecordInv', CallsHaveDoors', NEW p \in Process, Adopts(p)
    PROVE  GateInv'
<1>0. RecordInv /\ call \in [Process -> CallType] /\ Live(p) /\ call[p].pc = "adopt"
    BY DEF GateInv, RecordInv, RemoteTypeOK, Adopts, Live
<1>1. UNCHANGED remote
    BY DEF Adopts, remote
<1>2. CASE Settles(p, "transport-failure") /\ UNCHANGED <<disorder, touched>>
    BY <1>0, <1>1, <1>2, FailsGateInv
<1>3. ASSUME NEW n \in Claimants(Open), UNCHANGED <<disorder, touched>>,
             call' = [call EXCEPT ![p].pc = "label", ![p].pull = n]
      PROVE  GateInv'
    <2>1. call'[p].pc = "label" /\ \A q \in Process \ {p} : call'[q] = call[q]
        BY <1>0, <1>3 DEF CallType
    <2>2. p \in touched
        <3> SUFFICES ASSUME p \notin touched PROVE FALSE
            OBVIOUS
        <3>1. Undisturbed(p) /\ call[p].door = "create"
            BY <1>0 DEF GateInv, CallsHaveDoors
        <3> QED BY <1>0, <1>3, <3>1 DEF Undisturbed, NoClaimant, Claimants
    <2>3. Alone(p)'
        BY <2>1 DEF Alone
    <2> QED BY <1>0, <1>1, <1>3, <2>1, <2>2, <2>3, QuietGateStep
<1>4. ASSUME NEW listing \in Listings, listing # Open, Sees(p, listing)
      PROVE  GateInv'
    <2>1. \A q \in Process \ {p} : call'[q] = call[q]
        <3>1. Continues(p)
            BY <1>0, ReadsContinues
        <3> QED BY <1>0, <3>1 DEF Continues
    <2> QED BY <1>1, <1>4, <2>1, ListingMisses DEF Sees
<1>5. Sees(p, Open) => UNCHANGED <<disorder, touched>>
    BY DEF Sees
<1> QED BY <1>2, <1>3, <1>4, <1>5 DEF Adopts, Faults

\* The verdict's record, and the death of a process, end the call; a record
\* that fails closed settles it in a failure.
LEMMA EndsGateInv ==
    ASSUME GateInv, RecordInv', CallsHaveDoors', NEW p \in Process, Records(p) \/ Dies(p)
    PROVE  GateInv'
<1>0. RecordInv /\ call \in [Process -> CallType] /\ Live(p)
    BY DEF GateInv, RecordInv, RemoteTypeOK, Records, Dies, Live
<1>1. UNCHANGED <<remote, disorder, touched>>
    BY DEF Records, Dies, remote
<1>2. CASE Settles(p, "transport-failure")
    BY <1>0, <1>1, <1>2, FailsGateInv
<1>3. CASE Goes(p, "done") \/ call' = [call EXCEPT ![p] = Idle]
    <2>1. call'[p].pc \in {"idle", "done"} /\ \A q \in Process \ {p} : call'[q] = call[q]
        BY <1>0, <1>3 DEF Goes, Idle, CallType
    <2>2. Undisturbed(p)' /\ Alone(p)'
        BY <2>1 DEF Undisturbed, Alone, Succeeded
    <2> QED BY <1>0, <1>1, <2>1, <2>2, QuietGateStep
<1> QED BY <1>2, <1>3 DEF Records, Dies, Faults

-----------------------------------------------------------------------------
(* The steps of a call that write.                                         *)

\* A write that landed moves the call on, or its answer is lost.
LEMMA LandedOn ==
    ASSUME GateInv, NEW p \in Process, NEW pc, Landed(p, Goes(p, pc)), Live(p)
    PROVE  /\ \A q \in Process \ {p} : call'[q] = call[q]
           /\ \/ /\ call'[p].pc = "record" /\ call'[p].outcome = "transport-failure"
              \/ /\ call'[p].pc = pc /\ call'[p].door = call[p].door
                 /\ call'[p].plan = call[p].plan /\ call'[p].pull = call[p].pull
<1>0. RecordInv /\ call \in [Process -> CallType]
    BY DEF GateInv, RecordInv, RemoteTypeOK
<1>1. CASE Goes(p, pc)
    BY <1>0, <1>1, GoesFields DEF Goes
<1>2. CASE Settles(p, "transport-failure")
    BY <1>0, <1>2, SettlesFields DEF Settles
<1> QED BY <1>1, <1>2 DEF Landed, Faults

\* The files move to the plan's: nobody has a claim, or all that is open on
\* the branch is claimed by the plan or by one it supersedes.
LEMMA PushesGateInv ==
    ASSUME GateInv, RecordInv', CallsHaveDoors', NEW p \in Process, Pushes(p)
    PROVE  GateInv'
<1>0. RecordInv /\ call \in [Process -> CallType] /\ Live(p) /\ call[p].pc = "push"
    BY DEF GateInv, RecordInv, RemoteTypeOK, Pushes, Live
<1>1. CASE Settles(p, "transport-failure") /\ UNCHANGED <<branch, touched>>
    <2>1. UNCHANGED <<remote, disorder, touched>>
        BY <1>1 DEF Pushes, remote
    <2> QED BY <1>0, <1>1, <2>1, FailsGateInv
<1>2. CASE /\ branch' = [tip |-> branch.tip + 1, files |-> call[p].plan]
           /\ Disturbs(p) /\ Landed(p, Goes(p, "open"))
    <2>1. UNCHANGED <<pulls, disorder>> /\ branch'.files = call[p].plan
        BY <1>2 DEF Pushes
    <2>2. call[p].plan \in Plans /\ call[p].plan # NoPlan
        BY <1>0, PlansAssumption DEF RecordInv, CallsAreOnRecord, PastTheRecord
    <2>3. BranchlessIsClosed'
        BY <2>1, <2>2 DEF BranchlessIsClosed, Exists
    <2>4. ASSUME p \notin touched PROVE Undisturbed(p)'
        <3>1. Undisturbed(p)
            BY <2>4 DEF GateInv
        <3> QED BY <1>0, <1>2, <2>1, <3>1, LandedOn DEF Undisturbed, Succeeded, NoClaimant, Open
    <2>5. ASSUME ~disorder PROVE Alone(p)' /\ ClaimFollowsFiles'
        <3>1. Alone(p) /\ call[p].door \in {"create", "update"}
            BY <1>0, <2>5 DEF GateInv, AloneInv, CallsHaveDoors, PastTheRecord
        <3>2. Alone(p)'
            <4>1. \/ call'[p].pc = "record"
                  \/ /\ call'[p].pc = "open" /\ call'[p].door = call[p].door
                     /\ call'[p].plan = call[p].plan
                BY <1>0, <1>2, LandedOn
            <4>2. CASE call'[p].pc = "record"
                BY <4>2 DEF Alone
            <4>3. CASE call'[p].pc # "record"
                BY <1>0, <2>1, <3>1, <4>1, <4>3 DEF Alone, NoClaimant, Open, Ours
            <4> QED BY <4>2, <4>3
        <3>3. \A n \in DOMAIN pulls : Ours(n) =>
                  call[p].plan = pulls[n].claim \/ call[p].plan \in Superseding(pulls[n].claim)
            <4>1. CASE call[p].door = "create"
                BY <1>0, <3>1, <4>1 DEF Alone, NoClaimant, Open, Ours
            <4>2. CASE call[p].door = "update"
                BY <1>0, <3>1, <4>2 DEF Alone
            <4> QED BY <3>1, <4>1, <4>2
        <3> QED BY <2>1, <3>2, <3>3 DEF ClaimFollowsFiles, Ours, Superseding
    <2> QED BY <1>0, <1>2, <2>1, <2>3, <2>4, <2>5, LandedOn, GateStep
<1> QED BY <1>1, <1>2 DEF Pushes, Refused, Faults

\* A create opens the pull request of its plan, where the branch has one
\* open already it adopts.
LEMMA OpensGateInv ==
    ASSUME GateInv, RecordInv', CallsHaveDoors', NEW p \in Process, Opens(p)
    PROVE  GateInv'
<1>0. /\ RecordInv /\ call \in [Process -> CallType] /\ Live(p) /\ call[p].pc = "open"
      /\ call[p].door = "create" /\ pulls \in Seq(PullType)
    BY DEF GateInv, RecordInv, RemoteTypeOK, Opens, Live
<1>1. CASE Settles(p, "transport-failure") /\ UNCHANGED <<pulls, touched>>
    <2>1. UNCHANGED <<remote, disorder, touched>>
        BY <1>1 DEF Opens, remote
    <2> QED BY <1>0, <1>1, <2>1, FailsGateInv
<1>2. CASE Goes(p, "adopt") /\ UNCHANGED <<pulls, touched>>
    <2>1. UNCHANGED <<remote, disorder, touched>>
        BY <1>2 DEF Opens, remote
    <2>2. /\ call'[p].pc = "adopt" /\ call'[p].door = call[p].door /\ call'[p].plan = call[p].plan
          /\ \A q \in Process \ {p} : call'[q] = call[q]
        BY <1>0, <1>2, GoesFields DEF Goes
    <2>3. ASSUME p \notin touched PROVE Undisturbed(p)'
        <3>1. Undisturbed(p)
            BY <2>3 DEF GateInv
        <3> QED BY <1>0, <2>1, <2>2, <3>1 DEF Undisturbed, Succeeded, NoClaimant, Open, remote
    <2>4. Alone(p)'
        BY <2>2 DEF Alone
    <2> QED BY <1>0, <2>1, <2>2, <2>3, <2>4, QuietGateStep
<1>3. CASE /\ Exists /\ pulls' = Append(pulls, Pull(call[p].plan)) /\ Disturbs(p)
           /\ Landed(p, call' = [call EXCEPT ![p].pc = "label", ![p].pull = Len(pulls')])
    <2> DEFINE new == Len(pulls')
    <2>1. UNCHANGED <<branch, disorder>>
        BY DEF Opens
    <2>2. /\ new = Len(pulls) + 1 /\ DOMAIN pulls' = DOMAIN pulls \cup {new}
          /\ pulls'[new] = Pull(call[p].plan) /\ new \notin DOMAIN pulls
          /\ \A n \in DOMAIN pulls : pulls'[n] = pulls[n]
        BY <1>0, <1>3
    <2>3. call[p].plan \in Plans
        BY <1>0 DEF RecordInv, CallsAreOnRecord, PastTheRecord
    <2>4. /\ \A q \in Process \ {p} : call'[q] = call[q]
          /\ \/ call'[p].pc = "record" /\ call'[p].outcome = "transport-failure"
             \/ call'[p].pc = "label" /\ call'[p].pull = new /\ call'[p].plan = call[p].plan
        <3>1. CASE call' = [call EXCEPT ![p].pc = "label", ![p].pull = Len(pulls')]
            BY <1>0, <3>1 DEF CallType
        <3>2. CASE Settles(p, "transport-failure")
            BY <1>0, <3>2, SettlesFields DEF Settles
        <3> QED BY <1>3, <3>1, <3>2 DEF Landed, Faults
    <2> HIDE DEF new
    <2>5. BranchlessIsClosed'
        BY <1>3, <2>1 DEF BranchlessIsClosed, Exists
    <2>6. ASSUME p \notin touched PROVE Undisturbed(p)'
        <3>1. Undisturbed(p)
            BY <2>6 DEF GateInv
        <3>2. branch.files = call[p].plan
            BY <1>0, <3>1 DEF Undisturbed
        <3> QED BY <2>1, <2>2, <2>3, <2>4, <3>2 DEF Undisturbed, Succeeded, Ours, Intact, Pull
    <2>7. ASSUME ~disorder PROVE Alone(p)' /\ ClaimFollowsFiles'
        <3>1. Alone(p)
            BY <2>7 DEF GateInv, AloneInv
        <3>2. branch.files \in {call[p].plan, Human} /\ NoClaimant
            BY <1>0, <1>3, <3>1 DEF Alone, Exists
        <3>3. \A n \in DOMAIN pulls' : Ours(n)' => n = new
            BY <2>2, <3>2 DEF Ours, NoClaimant, Open
        <3>4. Pull(call[p].plan).claim = call[p].plan
            BY DEF Pull
        <3>5. ClaimFollowsFiles'
            BY <2>1, <2>2, <3>2, <3>3, <3>4 DEF ClaimFollowsFiles
        <3> QED BY <2>4, <3>5 DEF Alone
    <2> QED BY <1>0, <1>3, <2>1, <2>4, <2>5, <2>6, <2>7, GateStep
<1> QED BY <1>1, <1>2, <1>3 DEF Opens, Refused, Faults, Landed

\* An update's body and title follow its files.
LEMMA PatchesGateInv ==
    ASSUME GateInv, RecordInv', CallsHaveDoors', NEW p \in Process, Patches(p)
    PROVE  GateInv'
<1>0. /\ RecordInv /\ call \in [Process -> CallType] /\ Live(p) /\ call[p].pc = "open"
      /\ call[p].door = "update" /\ pulls \in Seq(PullType)
    BY DEF GateInv, RecordInv, RemoteTypeOK, Patches, Live
<1>1. CASE Settles(p, "transport-failure") /\ UNCHANGED <<pulls, touched>>
    <2>1. UNCHANGED <<remote, disorder, touched>>
        BY <1>1 DEF Patches, remote
    <2> QED BY <1>0, <1>1, <2>1, FailsGateInv
<1>2. CASE pulls' = Patched(p) /\ Disturbs(p) /\ Landed(p, Goes(p, "label"))
    <2> DEFINE k == call[p].pull
    <2>1. UNCHANGED <<branch, disorder>>
        BY DEF Patches
    <2>2. /\ DOMAIN pulls' = DOMAIN pulls
          /\ \A n \in DOMAIN pulls : n # k => pulls'[n] = pulls[n]
          /\ k \in DOMAIN pulls =>
               /\ pulls'[k].claim = call[p].plan /\ pulls'[k].body /\ pulls'[k].title
               /\ pulls'[k].open = pulls[k].open /\ pulls'[k].derived = pulls[k].derived
        <3> DEFINE e == [pulls[k] EXCEPT !.claim = call[p].plan, !.body = TRUE, !.title = TRUE]
        <3>1. pulls' = [pulls EXCEPT ![k] = e]
            BY <1>2 DEF Patched
        <3>2. k \in DOMAIN pulls => /\ e.claim = call[p].plan /\ e.body /\ e.title
                                    /\ e.open = pulls[k].open /\ e.derived = pulls[k].derived
            BY <1>0 DEF PullType
        <3> HIDE DEF e, k
        <3> QED BY <1>0, <3>1, <3>2
    <2>3. call[p].plan \in Plans
        BY <1>0 DEF RecordInv, CallsAreOnRecord, PastTheRecord
    <2>4. /\ \A q \in Process \ {p} : call'[q] = call[q]
          /\ \/ /\ call'[p].pc = "record" /\ call'[p].outcome = "transport-failure"
             \/ /\ call'[p].pc = "label" /\ call'[p].plan = call[p].plan
                /\ call'[p].pull = k
        BY <1>0, <1>2, LandedOn
    <2> HIDE DEF k
    <2>5. \A n \in DOMAIN pulls : pulls'[n].open = pulls[n].open /\ pulls'[n].derived = pulls[n].derived
        BY <2>2
    <2>6. BranchlessIsClosed'
        BY <2>1, <2>2, <2>5 DEF GateInv, BranchlessIsClosed, Exists
    <2>7. ASSUME p \notin touched PROVE Undisturbed(p)'
        <3>1. Undisturbed(p)
            BY <2>7 DEF GateInv
        <3>2. branch.files = call[p].plan /\ k \in DOMAIN pulls /\ pulls[k].open /\ pulls[k].derived
            BY <1>0, <3>1 DEF Undisturbed, Open, k
        <3> QED BY <2>1, <2>2, <2>3, <2>4, <3>2 DEF Undisturbed, Succeeded, Ours, Intact
    <2>8. ASSUME ~disorder PROVE Alone(p)' /\ ClaimFollowsFiles'
        <3>1. Alone(p) /\ ClaimFollowsFiles
            BY <2>8 DEF GateInv, AloneInv
        <3>2. branch.files \in {call[p].plan, Human, NoPlan}
            BY <1>0, <3>1 DEF Alone
        <3>3. ASSUME NEW n \in DOMAIN pulls, Ours(n)'
              PROVE  branch.files \in {pulls'[n].claim, Human} \cup Superseding(pulls'[n].claim)
            <4>1. CASE n = k
                <5>1. branch.files # NoPlan
                    BY <2>5, <3>3 DEF GateInv, BranchlessIsClosed, Exists, Ours
                <5> QED BY <2>2, <3>2, <4>1, <5>1
            <4>2. CASE n # k
                <5>1. pulls'[n] = pulls[n] /\ Ours(n)
                    BY <2>2, <3>3, <4>2 DEF Ours
                <5> QED BY <2>8, <3>1, <5>1 DEF ClaimFollowsFiles
            <4> QED BY <4>1, <4>2
        <3>4. ClaimFollowsFiles'
            BY <2>1, <2>2, <3>3 DEF ClaimFollowsFiles, Superseding
        <3> QED BY <2>4, <3>4 DEF Alone
    <2> QED BY <1>0, <1>2, <2>1, <2>4, <2>6, <2>7, <2>8, GateStep
<1> QED BY <1>1, <1>2 DEF Patches, Faults, Landed

\* The labels are the last write of a success.
LEMMA LabelsGateInv ==
    ASSUME GateInv, RecordInv', CallsHaveDoors', NEW p \in Process, Labels(p)
    PROVE  GateInv'
<1>0. /\ RecordInv /\ call \in [Process -> CallType] /\ Live(p) /\ call[p].pc = "label"
      /\ pulls \in Seq(PullType)
    BY DEF GateInv, RecordInv, RemoteTypeOK, Labels, Live
<1>1. CASE Settles(p, "transport-failure") /\ UNCHANGED <<pulls, touched>>
    <2>1. UNCHANGED <<remote, disorder, touched>>
        BY <1>1 DEF Labels, remote
    <2> QED BY <1>0, <1>1, <2>1, FailsGateInv
<1>2. CASE /\ pulls' = [pulls EXCEPT ![call[p].pull].labelled = TRUE]
           /\ Disturbs(p) /\ Landed(p, Succeeds(p))
    <2> DEFINE k == call[p].pull
    <2>1. UNCHANGED <<branch, disorder>>
        BY DEF Labels
    <2>2. /\ DOMAIN pulls' = DOMAIN pulls
          /\ \A n \in DOMAIN pulls :
               /\ pulls'[n].claim = pulls[n].claim /\ pulls'[n].open = pulls[n].open
               /\ pulls'[n].derived = pulls[n].derived /\ pulls'[n].body = pulls[n].body
               /\ pulls'[n].title = pulls[n].title
          /\ k \in DOMAIN pulls => pulls'[k].labelled
        <3> DEFINE e == [pulls[k] EXCEPT !.labelled = TRUE]
        <3>1. pulls' = [pulls EXCEPT ![k] = e]
            BY <1>2
        <3>2. k \in DOMAIN pulls =>
                /\ e.claim = pulls[k].claim /\ e.open = pulls[k].open /\ e.labelled
                /\ e.derived = pulls[k].derived /\ e.body = pulls[k].body /\ e.title = pulls[k].title
            BY <1>0 DEF PullType
        <3> HIDE DEF e, k
        <3> QED BY <1>0, <3>1, <3>2
    <2>3. /\ \A q \in Process \ {p} : call'[q] = call[q]
          /\ call'[p].pc = "record" /\ call'[p].plan = call[p].plan /\ call'[p].pull = k
        BY <1>0, <1>2, SettlesFields DEF Landed, Faults, Succeeds, Settles
    <2> HIDE DEF k
    <2>4. BranchlessIsClosed' /\ Alone(p)'
        BY <2>1, <2>2, <2>3 DEF GateInv, BranchlessIsClosed, Exists, Alone
    <2>5. ASSUME p \notin touched PROVE Undisturbed(p)'
        <3>1. Undisturbed(p)
            BY <2>5 DEF GateInv
        <3>2. /\ branch.files = call[p].plan /\ k \in DOMAIN pulls
              /\ Ours(k) /\ pulls[k].claim = call[p].plan /\ Intact(k)
            BY <1>0, <3>1 DEF Undisturbed, k
        <3> QED BY <2>1, <2>2, <2>3, <3>2 DEF Undisturbed, Succeeded, Ours, Intact
    <2>6. ~disorder => ClaimFollowsFiles'
        BY <2>1, <2>2 DEF GateInv, ClaimFollowsFiles, Ours, Superseding
    <2> QED BY <1>0, <1>2, <2>1, <2>3, <2>4, <2>5, <2>6, GateStep
<1> QED BY <1>1, <1>2 DEF Labels, Faults, Landed

-----------------------------------------------------------------------------
(* People, and the whole.                                                  *)

\* People take claims away, close, and copy onto branches of their own.
LEMMA PeopleTakeAway ==
    ASSUME GateInv, People
    PROVE  /\ \A n \in DOMAIN pulls' :
                 \/ /\ n \in DOMAIN pulls
                    /\ pulls'[n].open => pulls[n].open
                    /\ pulls'[n].derived => pulls[n].derived
                    /\ pulls'[n].claim \in Plans => pulls'[n].claim = pulls[n].claim
                 \/ /\ ~pulls'[n].derived
                    /\ \E m \in Open : pulls'[n].claim = pulls[m].claim
           /\ \/ branch' = branch
              \/ Exists /\ branch'.files = Human
              \/ branch'.files = NoPlan /\ \A n \in DOMAIN pulls' : ~(pulls'[n].open /\ pulls'[n].derived)
           /\ UNCHANGED <<call, disorder>>
           /\ \A q \in Process : Live(q) => q \in touched'
           /\ touched \subseteq touched'
<1>0. pulls \in Seq(PullType) /\ branch \in [tip : Nat, files : Plans \cup {NoPlan, Human}]
    BY DEF GateInv, RecordInv, RemoteTypeOK
<1>1. /\ UNCHANGED <<call, disorder>> /\ touched \subseteq touched'
      /\ \A q \in Process : Live(q) => q \in touched'
    BY DEF People, PushesByHand, DeletesBranch, EditsBody, EditsTitle, EditsClaim, Closes, Copies, Edits
<1> DEFINE Taken == \A n \in DOMAIN pulls' :
              \/ /\ n \in DOMAIN pulls
                 /\ pulls'[n].open => pulls[n].open
                 /\ pulls'[n].derived => pulls[n].derived
                 /\ pulls'[n].claim \in Plans => pulls'[n].claim = pulls[n].claim
              \/ /\ ~pulls'[n].derived
                 /\ \E m \in Open : pulls'[n].claim = pulls[m].claim
<1>2. ASSUME NEW k \in DOMAIN pulls, NEW e \in PullType, pulls' = [pulls EXCEPT ![k] = e],
             e.open => pulls[k].open, e.derived => pulls[k].derived,
             e.claim \in Plans => e.claim = pulls[k].claim
      PROVE  Taken
    BY <1>0, <1>2
<1>3. ASSUME NEW n \in Open,
             EditsBody(n) \/ EditsTitle(n) \/ EditsClaim(n) \/ Closes(n) \/ Copies(n)
      PROVE  Taken /\ branch' = branch
    <2>0. n \in DOMAIN pulls /\ pulls[n] \in PullType
        BY <1>0 DEF Open
    <2>1. CASE EditsBody(n)
        <3> DEFINE e == [pulls[n] EXCEPT !.body = FALSE]
        <3>1. /\ e \in PullType /\ e.claim = pulls[n].claim /\ e.open = pulls[n].open
              /\ e.derived = pulls[n].derived /\ pulls' = [pulls EXCEPT ![n] = e] /\ branch' = branch
            BY <2>0, <2>1 DEF EditsBody, Edits, PullType
        <3> HIDE DEF e
        <3> QED BY <1>2, <2>0, <3>1
    <2>2. CASE EditsTitle(n)
        <3> DEFINE e == [pulls[n] EXCEPT !.title = FALSE]
        <3>1. /\ e \in PullType /\ e.claim = pulls[n].claim /\ e.open = pulls[n].open
              /\ e.derived = pulls[n].derived /\ pulls' = [pulls EXCEPT ![n] = e] /\ branch' = branch
            BY <2>0, <2>2 DEF EditsTitle, Edits, PullType
        <3> HIDE DEF e
        <3> QED BY <1>2, <2>0, <3>1
    <2>3. CASE EditsClaim(n)
        <3>1. PICK claim \in {Foreign, Malformed} :
                  pulls' = [pulls EXCEPT ![n].claim = claim, ![n].body = FALSE] /\ branch' = branch
            BY <2>3 DEF EditsClaim, Edits
        <3> DEFINE e == [pulls[n] EXCEPT !.claim = claim, !.body = FALSE]
        <3>2. /\ e \in PullType /\ e.claim \notin Plans /\ e.open = pulls[n].open
              /\ e.derived = pulls[n].derived /\ pulls' = [pulls EXCEPT ![n] = e]
            BY <2>0, <3>1, PlansAssumption DEF PullType
        <3> HIDE DEF e
        <3> QED BY <1>2, <2>0, <3>1, <3>2
    <2>4. CASE Closes(n)
        <3> DEFINE e == [pulls[n] EXCEPT !.open = FALSE]
        <3>1. /\ e \in PullType /\ e.claim = pulls[n].claim /\ ~e.open
              /\ e.derived = pulls[n].derived /\ pulls' = [pulls EXCEPT ![n] = e] /\ branch' = branch
            BY <2>0, <2>4 DEF Closes, Edits, PullType
        <3> HIDE DEF e
        <3> QED BY <1>2, <2>0, <3>1
    <2>5. CASE Copies(n)
        <3> DEFINE e == [pulls[n] EXCEPT !.derived = FALSE]
        <3>1. /\ e \in PullType /\ e.claim = pulls[n].claim /\ ~e.derived
              /\ pulls' = Append(pulls, e) /\ branch' = branch
            BY <2>0, <2>5 DEF Copies, Edits, PullType
        <3> HIDE DEF e
        <3> QED BY <1>0, <3>1
    <2> QED BY <1>3, <2>1, <2>2, <2>3, <2>4, <2>5
<1>4. CASE PushesByHand
    <2>1. pulls' = pulls /\ Exists /\ branch' = [branch EXCEPT !.tip = branch.tip + 1, !.files = Human]
        BY <1>4 DEF PushesByHand, Edits
    <2>2. branch'.files = Human
        BY <1>0, <2>1
    <2> QED BY <1>1, <2>1, <2>2
<1>5. CASE DeletesBranch
    <2>1. /\ branch' = [branch EXCEPT !.files = NoPlan]
          /\ pulls' = [n \in DOMAIN pulls |->
                         [pulls[n] EXCEPT !.open = pulls[n].open /\ ~pulls[n].derived]]
        BY <1>5 DEF DeletesBranch, Edits
    <2>2. branch'.files = NoPlan
        BY <1>0, <2>1
    <2>3. DOMAIN pulls' = DOMAIN pulls
        BY <2>1
    <2>4. ASSUME NEW n \in DOMAIN pulls
          PROVE  /\ pulls'[n].open = (pulls[n].open /\ ~pulls[n].derived)
                 /\ pulls'[n].derived = pulls[n].derived /\ pulls'[n].claim = pulls[n].claim
        <3>1. pulls[n] \in PullType
            BY <1>0
        <3> DEFINE open == pulls[n].open /\ ~pulls[n].derived
        <3>2. pulls'[n] = [pulls[n] EXCEPT !.open = open]
            BY <2>1
        <3> HIDE DEF open
        <3>3. pulls'[n].open = open /\ pulls'[n].derived = pulls[n].derived /\ pulls'[n].claim = pulls[n].claim
            BY <3>1, <3>2 DEF PullType
        <3> QED BY <3>3 DEF open
    <2> QED BY <1>1, <2>2, <2>3, <2>4
<1> QED BY <1>1, <1>3, <1>4, <1>5 DEF People

\* People disturb every call in flight, and leave a call that is alone what
\* it knows: nobody else's claim appears.
LEMMA PeopleGateInv ==
    ASSUME GateInv, RecordInv', CallsHaveDoors', People
    PROVE  GateInv'
<1>1. \A q \in Process \ touched' : Undisturbed(q)'
    <2> SUFFICES ASSUME NEW q \in Process, q \notin touched' PROVE Undisturbed(q)'
        OBVIOUS
    <2>1. call'[q].pc \in {"idle", "done"}
        BY PeopleTakeAway DEF Live
    <2> QED BY <2>1 DEF Undisturbed, Succeeded
<1>2. BranchlessIsClosed'
    <2> SUFFICES ASSUME ~Exists', NEW n \in DOMAIN pulls', pulls'[n].open /\ pulls'[n].derived
                 PROVE  FALSE
        BY DEF BranchlessIsClosed
    <2>1. branch' = branch /\ ~Exists
        BY PeopleTakeAway, PlansAssumption DEF Exists
    <2> QED BY <2>1, PeopleTakeAway DEF GateInv, BranchlessIsClosed
<1>3. NoClaimant => NoClaimant'
    BY PeopleTakeAway DEF NoClaimant, Open
<1>4. \A n \in DOMAIN pulls' : Ours(n)' => /\ n \in DOMAIN pulls /\ Ours(n)
                                         /\ pulls'[n].claim = pulls[n].claim
    BY PeopleTakeAway DEF Ours
<1>5. AloneInv'
    <2> SUFFICES ASSUME ~disorder
                 PROVE  /\ \A q, r \in Process : Live(q)' /\ Live(r)' => q = r
                        /\ \A q \in Process : Alone(q)'
        BY PeopleTakeAway DEF AloneInv
    <2>1. \A q, r \in Process : Live(q)' /\ Live(r)' => q = r
        BY PeopleTakeAway DEF GateInv, AloneInv, Live
    <2>2. ASSUME NEW q \in Process PROVE Alone(q)'
        <3>1. Alone(q) /\ call' = call
            BY PeopleTakeAway DEF GateInv, AloneInv
        <3>2. call[q].pc = "open" => branch'.files \in {call[q].plan, Human, NoPlan}
            BY <3>1, PeopleTakeAway DEF Alone
        <3>3. call[q].door = "update" /\ call[q].pc \in {"start", "read", "head", "push", "open"} =>
                \A n \in DOMAIN pulls' : Ours(n)' =>
                    call[q].plan = pulls'[n].claim \/ call[q].plan \in Superseding(pulls'[n].claim)
            BY <1>4, <3>1 DEF Alone
        <3> QED BY <1>3, <3>1, <3>2, <3>3 DEF Alone, Superseding
    <2> QED BY <2>1, <2>2
<1>6. ClaimFollowsFiles'
    <2> SUFFICES ASSUME ~disorder, NEW n \in DOMAIN pulls', Ours(n)'
                 PROVE  branch'.files \in {pulls'[n].claim, Human} \cup Superseding(pulls'[n].claim)
        BY PeopleTakeAway DEF ClaimFollowsFiles, Superseding
    <2>1. branch'.files = branch.files \/ branch'.files = Human
        BY PeopleTakeAway DEF Ours
    <2>2. branch.files \in {pulls[n].claim, Human} \cup Superseding(pulls[n].claim)
        BY <1>4 DEF GateInv, ClaimFollowsFiles
    <2> QED BY <1>4, <2>1, <2>2
<1> QED BY <1>1, <1>2, <1>5, <1>6 DEF GateInv

\* A call past its discovery keeps the door it was called through.
LEMMA DoorsStay ==
    ASSUME RecordInv, CallsHaveDoors, NEW p \in Process, Gate(p)
    PROVE  CallsHaveDoors'
<1>0. call \in [Process -> CallType] /\ call[p] \in CallType
    BY DEF RecordInv, RemoteTypeOK
<1> DEFINE Through ==
      \/ call'[p].pc \in {"idle", "find", "record", "done"}
      \/ /\ call'[p].door = call[p].door
         /\ \/ /\ call[p].pc \in PastTheRecord \cup {"start"}
               /\ call'[p].pc \in PastTheRecord \ {"adopt", "read"}
            \/ call'[p].pc = "start" /\ call[p].door \in {"create", "update"}
            \/ call'[p].pc = "adopt" /\ call[p].door = "create"
            \/ call'[p].pc = "read" /\ call[p].door = "update"
<1>1. ASSUME \A q \in Process \ {p} : call'[q] = call[q], Through
      PROVE  CallsHaveDoors'
    <2> SUFFICES ASSUME NEW q \in Process
                 PROVE  /\ call'[q].pc \in PastTheRecord \cup {"start"} =>
                              call'[q].door \in {"create", "update"}
                        /\ call'[q].pc = "adopt" => call'[q].door = "create"
                        /\ call'[q].pc = "read" => call'[q].door = "update"
        BY DEF CallsHaveDoors
    <2>1. CASE q # p
        BY <1>0, <1>1, <2>1 DEF CallsHaveDoors
    <2>2. CASE q = p
        BY <1>1, <2>2 DEF CallsHaveDoors, PastTheRecord
    <2> QED BY <2>1, <2>2
<1>2. ASSUME NEW outcome, Settles(p, outcome) \/ Answers(p, outcome)
      PROVE  CallsHaveDoors'
    <2>1. call'[p].pc \in {"record", "done"} /\ \A q \in Process \ {p} : call'[q] = call[q]
        BY <1>0, <1>2 DEF Settles, Answers, CallType
    <2> QED BY <1>1, <2>1
<1>3. ASSUME NEW pc, Goes(p, pc),
             \/ pc = "done"
             \/ call[p].pc \in PastTheRecord \cup {"start"} /\ pc \in PastTheRecord \ {"adopt", "read"}
             \/ pc = "start" /\ call[p].door \in {"create", "update"}
             \/ pc = "adopt" /\ call[p].door = "create"
             \/ pc = "read" /\ call[p].door = "update"
      PROVE  CallsHaveDoors'
    <2>1. /\ call'[p].pc = pc /\ call'[p].door = call[p].door
          /\ \A q \in Process \ {p} : call'[q] = call[q]
        BY <1>0, <1>3, GoesFields DEF Goes
    <2> QED BY <1>1, <1>3, <2>1
<1>4. ASSUME NEW n, NEW pc \in {"start", "label"}, call' = [call EXCEPT ![p].pc = pc, ![p].pull = n],
             \/ call[p].pc \in PastTheRecord /\ pc = "label"
             \/ pc = "start" /\ call[p].door \in {"create", "update"}
      PROVE  CallsHaveDoors'
    <2>1. /\ call'[p].pc = pc /\ call'[p].door = call[p].door
          /\ \A q \in Process \ {p} : call'[q] = call[q]
        BY <1>0, <1>4 DEF CallType
    <2> QED BY <1>1, <1>4, <2>1 DEF PastTheRecord
<1>5. CASE Calls(p)
    <2>1. call'[p].pc = "find" /\ \A q \in Process \ {p} : call'[q] = call[q]
        BY <1>0, <1>5 DEF Calls, Idle
    <2> QED BY <1>1, <2>1
<1>6. CASE Finds(p)
    <2>1. ASSUME NEW n, FindsOne(p, n) PROVE CallsHaveDoors'
        BY <1>2, <1>4, <2>1 DEF FindsOne
    <2>2. ASSUME FindsNone(p) PROVE CallsHaveDoors'
        BY <1>2, <1>3, <2>2 DEF FindsNone
    <2> QED BY <1>2, <1>6, <2>1, <2>2 DEF Finds, Faults
<1>7. CASE Starts(p)
    <2>1. call[p].pc = "start" /\ call[p].door \in {"create", "update"}
        BY <1>7 DEF Starts, CallsHaveDoors
    <2> QED BY <1>3, <1>7, <2>1 DEF Starts, PastTheRecord
<1>8. CASE Rereads(p)
    BY <1>2, <1>3, <1>8 DEF Rereads, Faults, PastTheRecord
<1>9. CASE ReadsHead(p)
    <2>1. CASE call' = [call EXCEPT ![p].tip = IF Exists THEN branch.tip ELSE 0,
                          ![p].pc = IF branch.files = call[p].plan THEN "open" ELSE "push"]
        <3>1. /\ call'[p].pc \in {"open", "push"} /\ call'[p].door = call[p].door
              /\ \A q \in Process \ {p} : call'[q] = call[q]
            BY <1>0, <2>1 DEF CallType
        <3> QED BY <1>1, <1>9, <3>1 DEF ReadsHead, PastTheRecord
    <2> QED BY <1>2, <1>9, <2>1 DEF ReadsHead, Faults
<1>10. CASE Pushes(p)
    BY <1>2, <1>3, <1>10 DEF Pushes, Landed, Refused, Faults, PastTheRecord
<1>11. CASE Opens(p)
    BY <1>2, <1>3, <1>4, <1>11 DEF Opens, Landed, Refused, Faults, PastTheRecord
<1>12. CASE Adopts(p)
    BY <1>2, <1>4, <1>12 DEF Adopts, Faults, PastTheRecord
<1>13. CASE Patches(p)
    BY <1>2, <1>3, <1>13 DEF Patches, Landed, Faults, PastTheRecord
<1>14. CASE Labels(p)
    BY <1>2, <1>14 DEF Labels, Landed, Faults, Succeeds
<1>15. CASE Records(p)
    BY <1>2, <1>3, <1>15 DEF Records, Faults
<1>16. CASE Dies(p)
    <2>1. call'[p].pc = "idle" /\ \A q \in Process \ {p} : call'[q] = call[q]
        BY <1>0, <1>16 DEF Dies, Idle
    <2> QED BY <1>1, <2>1
<1> QED BY <1>5, <1>6, <1>7, <1>8, <1>9, <1>10, <1>11, <1>12, <1>13, <1>14, <1>15, <1>16 DEF Gate

\* Initially nobody is in a call, and there is no branch.
LEMMA InitGateInv == Init => GateInv
<1> SUFFICES ASSUME Init PROVE GateInv
    OBVIOUS
<1>1. RecordInv
    BY InitRecordInv
<1>2. \A p \in Process : call[p].pc = "idle" /\ Undisturbed(p) /\ Alone(p) /\ ~Live(p)
    BY DEF Init, Idle, Undisturbed, Alone, Succeeded, Live
<1>3. CallsHaveDoors
    BY <1>2 DEF CallsHaveDoors, PastTheRecord
<1>4. BranchlessIsClosed /\ ClaimFollowsFiles
    BY DEF Init, BranchlessIsClosed, ClaimFollowsFiles
<1> QED BY <1>1, <1>2, <1>3, <1>4 DEF GateInv, AloneInv

\* Every step keeps what calls know.
LEMMA NextGateInv ==
    ASSUME GateInv, [Next]_vars
    PROVE  GateInv'
<1>1. RecordInv'
    BY NextRecordInv DEF GateInv
<1>2. CASE People
    <2>1. CallsHaveDoors'
        BY <1>2, PeopleTakeAway DEF GateInv, CallsHaveDoors
    <2> QED BY <1>1, <1>2, <2>1, PeopleGateInv
<1>3. ASSUME NEW p \in Process, Gate(p) PROVE GateInv'
    <2>1. CallsHaveDoors'
        BY <1>3, DoorsStay DEF GateInv
    <2>2. CASE Calls(p) BY <1>1, <2>1, <2>2, CallsGateInv
    <2>3. CASE Finds(p) BY <1>1, <2>1, <2>3, FindsGateInv
    <2>4. CASE Starts(p) BY <1>1, <2>1, <2>4, StartsGateInv
    <2>5. CASE Records(p) \/ Dies(p) BY <1>1, <2>1, <2>5, EndsGateInv
    <2>6. CASE Rereads(p) BY <1>1, <2>1, <2>6, RereadsGateInv
    <2>7. CASE ReadsHead(p) BY <1>1, <2>1, <2>7, ReadsHeadGateInv
    <2>8. CASE Pushes(p) BY <1>1, <2>1, <2>8, PushesGateInv
    <2>9. CASE Opens(p) BY <1>1, <2>1, <2>9, OpensGateInv
    <2>10. CASE Adopts(p) BY <1>1, <2>1, <2>10, AdoptsGateInv
    <2>11. CASE Patches(p) BY <1>1, <2>1, <2>11, PatchesGateInv
    <2>12. CASE Labels(p) BY <1>1, <2>1, <2>12, LabelsGateInv
    <2> QED BY <1>3, <2>2, <2>3, <2>4, <2>5, <2>6, <2>7, <2>8, <2>9, <2>10, <2>11, <2>12 DEF Gate
<1>4. CASE UNCHANGED vars
    BY <1>1, <1>4 DEF vars, GateInv, CallsHaveDoors, Undisturbed, AloneInv, Alone, Succeeded, NoClaimant, Open,
                Ours, Intact, Live, BranchlessIsClosed, Exists, ClaimFollowsFiles, Superseding
<1> QED BY <1>2, <1>3, <1>4 DEF Next

\* What calls know of the provider, and the order of files and claim, hold
\* in every reachable state, whatever the listings miss: a call that missed
\* a pull request is among the disturbed ones.
THEOREM GateInductive == Spec => []GateInv
BY InitGateInv, NextGateInv, PTL DEF Spec

\* A call that answers created or updated, whose own listing missed no pull
\* request and in whose course nobody else wrote, left an open pull request
\* with its plan's claim, body, title, labels and files, for every number of
\* processes, plans, faults and edits.
THEOREM SuccessMeansWhatItNames == Spec => []SuccessIsExact
<1>1. GateInv => SuccessIsExact
    BY DEF GateInv, SuccessIsExact, Undisturbed, Succeeded
<1> QED BY <1>1, GateInductive, PTL

\* As long as calls do not overlap and no listing has missed a pull request,
\* no pull request claims a plan its branch has not received, whoever died
\* in between and whatever people did.
THEOREM ClaimMovesLast == Spec => []ClaimFollowsFiles
<1>1. GateInv => ClaimFollowsFiles
    BY DEF GateInv
<1> QED BY <1>1, GateInductive, PTL

=============================================================================
