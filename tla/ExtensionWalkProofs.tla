------------------------- MODULE ExtensionWalkProofs -------------------------
(***************************************************************************)
(* The extensions of an attempt for every layout of stages, hooks,         *)
(* artifacts and mutations, every number of processes, deaths, resumes and *)
(* edits.  What was recorded stays recorded, so what a call has walked     *)
(* past stays behind it: the invariant says of each call that the stages   *)
(* and the extensions anchored before its station are completed, a resumed *)
(* call's included, which enters at the first stage that lacks one.  Only  *)
(* the hooks have an excuse, a claim that is gone for good or completions  *)
(* that disagree for good; artifacts are looked after by publish.          *)
(***************************************************************************)
EXTENDS ExtensionWalk, FiniteSetTheorems, WellFoundedInduction, TLAPS

Scheduling == {"scan", "guard", "start", "act", "reread", "reconcile", "settle"}
InHand == Scheduling \ {"scan"}
Content == {None, Planned, Bad} \union UNION {Produced[s] : s \in DOMAIN Produced}
FileState == {Absent, Planned, Edited}
Bytes == UNION {[paths -> FileState] : paths \in SUBSET Path}

RecordType == [step : Stage \union Extension, to : {"started", "completed", "failed", "resolved"},
               content : Content]
CallType == [at : Scheduling \union {"idle", "stage", "request", "collect", "mint"},
             station : Nat, left : SUBSET Nat, seen : Content \union Bytes,
             mode : {None, "carried", "durable"}]

TypeOK ==
  /\ tail \in Seq(RecordType)
  /\ claimed \in BOOLEAN /\ seam \in {"tree", "memory"} /\ edits \in Nat
  /\ files \in [Process \union {"tree"} -> [Path -> FileState]]
  /\ call \in [Process -> CallType]

Done(step) == At(step, "completed") # {}

\* A hook may be left uncompleted behind a refusal its boundary dropped.
HooksExcused == ~claimed \/ \E h \in Ids(Hooks) : Disagrees(h)

\* Everything at the stations before one is completed.
Behind(n) ==
  /\ Slot(n)[2] = "stage" => Done(StageAt(n))
  /\ \A i \in DOMAIN Hooks : Anchored("hook", i, n) => Done(Hooks[i].id) \/ HooksExcused
  /\ \A i \in DOMAIN Mutations : Anchored("mutation", i, n) => Done(Mutations[i].id)
Passed(station) == \A n \in 1 .. LastStation : n < station => Behind(n)

Carries(bytes) == DOMAIN bytes = Path /\ \A m \in Path : bytes[m] = Planned \/ edits > 0

\* A call that works at a station has passed those before it, and the steps
\* its scheduler has come past are completed.
CallInv(p) ==
  call[p] # Idle =>
    /\ call[p].at # "idle"
    /\ call[p].station \in 1 .. LastStation + 1
    /\ Passed(call[p].station)
    /\ call[p].at \in {"collect", "mint"} => call[p].station = LastStation + 1
    /\ call[p].at \in {"stage", "request"} =>
         Kind(p) = "stage" /\ call[p].station \in 1 .. LastStation
    /\ call[p].at \in Scheduling =>
         /\ Kind(p) \in Kinds /\ call[p].station \in 1 .. LastStation
         /\ call[p].left \subseteq DOMAIN Declared[Kind(p)]
         /\ \A i \in DOMAIN Declared[Kind(p)] \ call[p].left : Done(Declared[Kind(p)][i].id)
    /\ call[p].at \in InHand => call[p].left # {}
    /\ call[p].at \in {"reread", "reconcile"} => Kind(p) = "mutation"
    /\ call[p].at \in {"settle"} => call[p].seen \in Content
    /\ call[p].at = "mint" => Carries(call[p].seen)

WalkInv ==
  /\ \A p \in Process : CallInv(p)
  /\ Done("publish") => \A a \in Ids(Artifacts) : Done(a)
  /\ \A o \in Process \union {"tree"}, m \in Path : files[o][m] = Edited => edits > 0
  /\ TagFollowsExtensions
  /\ TagCarriesPlannedBytes

\* While one call at a time works on the attempt, a completion is the last
\* word on its step, and nobody has a completed step in hand.
Single(step) ==
  /\ \A i, j \in At(step, "completed") : i = j
  /\ \A i \in At(step, "completed"), j \in At(step, "started") \union At(step, "failed") : j < i
SequentialInv ==
  ~overlapped =>
    /\ \A p, q \in Process : call[p] # Idle /\ call[q] # Idle => p = q
    /\ \A s \in Extension : Single(s)
    /\ \A p \in Process : call[p].at \in InHand => ~Done(Current(p))

-----------------------------------------------------------------------------
(* The layout.                                                             *)

LEMMA Least ==
  ASSUME NEW T, T \subseteq Nat, T # {}
  PROVE  \E x \in T : \A y \in T : x <= y
<1>1. IsWellFoundedOn(OpToRel(<, Nat), Nat)
  BY NatLessThanWellFounded
<1>2. PICK x \in T : \A y \in T : ~ (<<y, x>> \in OpToRel(<, Nat))
  BY <1>1, WFMin
<1>3. \A y \in T : ~ (y < x)
  BY <1>2 DEF OpToRel
<1> QED BY <1>3

LEMMA Layout ==
  /\ Len(Stages) \in Nat /\ LastStation \in Nat /\ DOMAIN Stages = 1 .. Len(Stages)
  /\ \A kind \in Kinds : DOMAIN Declared[kind] \subseteq Nat
<1>1. Len(Stages) \in Nat /\ DOMAIN Stages = 1 .. Len(Stages)
  BY ExtensionAssumption
<1>2. ASSUME NEW kind \in Kinds PROVE DOMAIN Declared[kind] \subseteq Nat
  <2>1. PICK s : s = Declared[kind]
    OBVIOUS
  <2>2. s \in Seq(ToSet(s))
    BY <2>1, ExtensionAssumption
  <2> QED BY <2>1, <2>2
<1> QED BY <1>1, <1>2 DEF LastStation

\* The seven slots of a stage.
LEMMA SlotOf ==
  ASSUME NEW i \in 1 .. Len(Stages), NEW slot \in 1 .. 7
  PROVE  /\ 7 * (i - 1) + slot \in 1 .. LastStation
         /\ Slot(7 * (i - 1) + slot) = Slots[slot]
         /\ StageAt(7 * (i - 1) + slot) = Stages[i]
<1>1. /\ 7 * (i - 1) + slot \in 1 .. 7 * Len(Stages)
      /\ (7 * (i - 1) + slot - 1) \div 7 = i - 1
      /\ (7 * (i - 1) + slot - 1) % 7 = slot - 1
  BY Layout
<1> QED BY <1>1 DEF LastStation, Slot, StageAt

LEMMA SlotKinds ==
  ASSUME NEW n \in 1 .. LastStation
  PROVE  /\ Slot(n)[2] \in Kinds \union {"stage"}
         /\ StageAt(n) \in Stage
         /\ ((n - 1) \div 7) + 1 \in 1 .. Len(Stages)
<1>1. ((n - 1) \div 7) + 1 \in 1 .. Len(Stages) /\ ((n - 1) % 7) + 1 \in 1 .. 7
  BY Layout DEF LastStation
<1>2. \A m \in 1 .. 7 : Slots[m][2] \in Kinds \union {"stage"}
  BY DEF Slots, Kinds
<1>3. Slot(n)[2] \in Kinds \union {"stage"}
  BY <1>1, <1>2 DEF Slot
<1>4. StageAt(n) \in Stage
  BY <1>1, ExtensionAssumption DEF StageAt
<1> QED BY <1>1, <1>3, <1>4

\* Every stage, and every declared extension, has its station.
LEMMA StageHasStation ==
  ASSUME NEW stage \in Stage
  PROVE  \E n \in 1 .. LastStation : Slot(n)[2] = "stage" /\ StageAt(n) = stage
<1>1. PICK i \in 1 .. Len(Stages) : Stages[i] = stage
  BY Layout DEF Stage, ToSet
<1>2. Slots[4][2] = "stage"
  BY DEF Slots
<1> QED BY <1>1, <1>2, SlotOf

LEMMA ExtensionHasStation ==
  ASSUME NEW kind \in Kinds, NEW i \in DOMAIN Declared[kind]
  PROVE  \E n \in 1 .. LastStation : Anchored(kind, i, n)
<1>1. Declared[kind][i].stage \in Stage /\ Declared[kind][i].position \in {"before", "after"}
  BY ExtensionAssumption
<1>2. PICK s \in 1 .. Len(Stages) : Stages[s] = Declared[kind][i].stage
  BY <1>1, Layout DEF Stage, ToSet
<1>3. \E slot \in 1 .. 7 : Slots[slot] = <<Declared[kind][i].position, kind>>
  <2>1. /\ Slots[1] = <<"before", "hook">> /\ Slots[2] = <<"before", "artifact">>
        /\ Slots[3] = <<"before", "mutation">> /\ Slots[5] = <<"after", "hook">>
        /\ Slots[6] = <<"after", "artifact">> /\ Slots[7] = <<"after", "mutation">>
    BY DEF Slots
  <2> QED BY <1>1, <2>1 DEF Kinds
<1>4. PICK slot \in 1 .. 7 : Slots[slot] = <<Declared[kind][i].position, kind>>
  BY <1>3
<1> QED BY <1>2, <1>4, SlotOf DEF Anchored

\* Of the steps a scheduler has left one is first.
LEMMA FirstIsLeft ==
  ASSUME NEW kind \in Kinds, NEW left \in SUBSET DOMAIN Declared[kind], left # {}
  PROVE  First(kind, left) \in left
<1>1. \A i \in left : Anchor(kind, i) \in Nat
  <2> SUFFICES ASSUME NEW i \in left PROVE Anchor(kind, i) \in Nat
    OBVIOUS
  <2>1. \E n \in 1 .. LastStation : Anchored(kind, i, n)
    BY ExtensionHasStation
  <2> QED BY <2>1 DEF Anchor
<1>2. left \subseteq Nat
  BY Layout
<1>3. PICK a \in {Anchor(kind, i) : i \in left} : \A b \in {Anchor(kind, i) : i \in left} : a <= b
  <2>1. {Anchor(kind, i) : i \in left} \subseteq Nat /\ {Anchor(kind, i) : i \in left} # {}
    BY <1>1
  <2> QED BY <2>1, Least
<1>4. PICK i \in {j \in left : Anchor(kind, j) = a} : \A k \in {j \in left : Anchor(kind, j) = a} : i <= k
  <2>1. {j \in left : Anchor(kind, j) = a} \subseteq Nat /\ {j \in left : Anchor(kind, j) = a} # {}
    BY <1>2, <1>3
  <2> QED BY <2>1, Least
<1>5. ASSUME NEW j \in left
      PROVE  Anchor(kind, i) < Anchor(kind, j) \/ (Anchor(kind, i) = Anchor(kind, j) /\ i <= j)
  <2>1. a \in Nat /\ Anchor(kind, j) \in Nat /\ a <= Anchor(kind, j) /\ Anchor(kind, i) = a
    BY <1>1, <1>3, <1>4
  <2>2. CASE Anchor(kind, j) = a
    BY <1>4, <2>1, <2>2
  <2> QED BY <2>1, <2>2
<1> QED BY <1>4, <1>5 DEF First

\* The next station: none is passed over that is due.
LEMMA NextIsNext ==
  ASSUME NEW from \in 1 .. LastStation + 1
  PROVE  /\ NextStation(from) \in from .. LastStation + 1
         /\ NextStation(from) <= LastStation => Due(NextStation(from))
         /\ \A n \in from .. LastStation : n < NextStation(from) => ~Due(n)
<1> DEFINE due == {n \in from .. LastStation : Due(n)}
<1>0. LastStation \in Nat
  BY Layout
<1>1. CASE due = {}
  BY <1>0, <1>1 DEF NextStation
<1>2. CASE due # {}
  <2>0. due \subseteq Nat
    BY <1>0
  <2>1. PICK n \in due : \A m \in due : n <= m
    BY <1>2, <2>0, Least
  <2>2. NextStation(from) = CHOOSE x \in due : \A m \in due : x <= m
    BY <1>2 DEF NextStation
  <2>3. NextStation(from) \in due /\ \A m \in due : NextStation(from) <= m
    BY <2>1, <2>2
  <2> QED BY <1>0, <2>3
<1> QED BY <1>1, <1>2

-----------------------------------------------------------------------------
(* The stream.  An append only adds a record at the end, so what is        *)
(* completed, and what disagrees, is for good.                             *)

LEMMA Appends ==
  ASSUME TypeOK, NEW record \in RecordType, Records(record)
  PROVE  /\ tail' \in Seq(RecordType)
         /\ \/ tail' = tail /\ tail # <<>> /\ tail[Len(tail)] = record
            \/ tail' = Append(tail, record)
BY DEF TypeOK, Records, Last

LEMMA AtOfAppend ==
  ASSUME TypeOK, NEW record \in RecordType, tail' = Append(tail, record), NEW step, NEW to
  PROVE  /\ At(step, to)' = IF record.step = step /\ record.to = to
                            THEN At(step, to) \union {Len(tail) + 1} ELSE At(step, to)
         /\ At(step, to) \subseteq 1 .. Len(tail)
<1>1. /\ DOMAIN tail = 1 .. Len(tail) /\ Len(tail) \in Nat
      /\ DOMAIN tail' = 1 .. Len(tail) + 1
      /\ tail'[Len(tail) + 1] = record
      /\ \A i \in 1 .. Len(tail) : tail'[i] = tail[i]
  BY DEF TypeOK
<1> QED BY <1>1 DEF At

\* What one step leaves of what was recorded.
Grows ==
  /\ \A step : Done(step) => Done(step)'
  /\ \A step : Disagrees(step) => Disagrees(step)'
  /\ HooksExcused => HooksExcused'
  /\ edits' >= edits

LEMMA AppendsGrow ==
  ASSUME TypeOK, NEW record \in RecordType, Records(record)
  PROVE  \A step : (Done(step) => Done(step)') /\ (Disagrees(step) => Disagrees(step)')
<1>1. CASE tail' = tail
  BY <1>1 DEF Done, Disagrees, Contents, At
<1>2. CASE tail' = Append(tail, record)
  <2> SUFFICES ASSUME NEW step
               PROVE  (Done(step) => Done(step)') /\ (Disagrees(step) => Disagrees(step)')
    OBVIOUS
  <2>1. At(step, "completed") \subseteq At(step, "completed")' /\ At(step, "completed") \subseteq 1 .. Len(tail)
    BY <1>2, AtOfAppend
  <2>2. \A i \in 1 .. Len(tail) : tail'[i] = tail[i]
    BY <1>2 DEF TypeOK
  <2>3. Contents(step) \subseteq Contents(step)'
    BY <2>1, <2>2 DEF Contents
  <2> QED BY <2>1, <2>3 DEF Done, Disagrees
<1> QED BY <1>1, <1>2, Appends

LEMMA StepGrows ==
  ASSUME TypeOK, claimed' => claimed, edits' >= edits,
         tail' = tail \/ \E record \in RecordType : Records(record)
  PROVE  Grows
<1>1. \A step : (Done(step) => Done(step)') /\ (Disagrees(step) => Disagrees(step)')
  <2>1. CASE tail' = tail
    BY <2>1 DEF Done, Disagrees, Contents, At
  <2>2. ASSUME NEW record \in RecordType, Records(record)
        PROVE  \A step : (Done(step) => Done(step)') /\ (Disagrees(step) => Disagrees(step)')
    BY <2>2, AppendsGrow
  <2> QED BY <2>1, <2>2
<1> QED BY <1>1 DEF Grows, HooksExcused

\* A step's state is what its last record says.
LEMMA LastWord ==
  ASSUME TypeOK, NEW step
  PROVE  LET at == At(step, "started") \union At(step, "completed") \union At(step, "failed")
         IN \/ at = {} /\ StepState(step) = "none"
            \/ \E i \in at : StepState(step) = tail[i].to /\ \A j \in at : j <= i
<1> DEFINE at == At(step, "started") \union At(step, "completed") \union At(step, "failed")
<1>0. at \subseteq 1 .. Len(tail) /\ Len(tail) \in Nat
  BY DEF At, TypeOK
<1>1. CASE at = {}
  BY <1>1 DEF StepState
<1>2. CASE at # {}
  <2>1. {Len(tail) - i : i \in at} \subseteq Nat /\ {Len(tail) - i : i \in at} # {}
    BY <1>0, <1>2
  <2>2. PICK n \in {Len(tail) - i : i \in at} : \A m \in {Len(tail) - i : i \in at} : n <= m
    BY <2>1, Least
  <2>3. PICK i \in at : n = Len(tail) - i
    BY <2>2
  <2>4. ASSUME NEW j \in at PROVE j <= i
    <3>1. n <= Len(tail) - j
      BY <2>2
    <3> QED BY <1>0, <2>3, <3>1
  <2>5. (CHOOSE k \in at : \A j \in at : j <= k) \in {k \in at : \A j \in at : j <= k}
    BY <2>4
  <2>6. StepState(step) = tail[CHOOSE k \in at : \A j \in at : j <= k].to
    BY <1>2 DEF StepState
  <2> QED BY <2>5, <2>6
<1> QED BY <1>1, <1>2

\* A step whose state is completed has its completion, and one whose
\* completion is the last word has that state.
LEMMA CompletedIsDone ==
  ASSUME TypeOK, NEW step, StepState(step) = "completed"
  PROVE  Done(step)
<1> DEFINE at == At(step, "started") \union At(step, "completed") \union At(step, "failed")
<1>1. PICK i \in at : StepState(step) = tail[i].to
  BY LastWord
<1>2. i \in DOMAIN tail /\ tail[i].step = step
  BY <1>1 DEF At
<1> QED BY <1>1, <1>2 DEF Done, At

LEMMA SingleIsLast ==
  ASSUME TypeOK, NEW step, Done(step), Single(step)
  PROVE  StepState(step) = "completed"
<1> DEFINE at == At(step, "started") \union At(step, "completed") \union At(step, "failed")
<1>1. PICK i \in at : StepState(step) = tail[i].to /\ \A j \in at : j <= i
  BY LastWord DEF Done
<1>2. PICK d \in At(step, "completed") : TRUE
  BY DEF Done
<1>3. at \subseteq Nat
  BY DEF At, TypeOK
<1>4. i \in At(step, "completed")
  BY <1>1, <1>2, <1>3 DEF Single
<1> QED BY <1>1, <1>4 DEF At

-----------------------------------------------------------------------------
(* The moves of a call.                                                    *)

LEMMA BehindStays ==
  ASSUME Grows, NEW n, Behind(n)
  PROVE  Behind(n)'
BY DEF Grows, Behind, Anchored

LEMMA PassedStays ==
  ASSUME Grows, NEW n, Passed(n)
  PROVE  Passed(n)'
BY BehindStays DEF Passed

\* A call that does not move keeps what it has behind it.
LEMMA CallStays ==
  ASSUME Grows, edits \in Nat, edits' \in Nat, NEW q \in Process, CallInv(q), call'[q] = call[q]
  PROVE  CallInv(q)'
<1>1. PICK c, kind : c = call[q] /\ kind = Kind(q)
  OBVIOUS
<1>2. call'[q] = c /\ Kind(q)' = kind
  BY <1>1 DEF Kind
<1>3. Passed(c.station) => Passed(c.station)'
  BY PassedStays
<1>4. \A i : Done(Declared[kind][i].id) => Done(Declared[kind][i].id)'
  BY DEF Grows
<1>5. Carries(c.seen) => Carries(c.seen)'
  BY DEF Grows, Carries
<1> QED BY <1>1, <1>2, <1>3, <1>4, <1>5 DEF CallInv

\* Process p moves, and the others stay where they are.
Moved(p) ==
  /\ call' \in [Process -> CallType]
  /\ \A q \in Process \ {p} : call'[q] = call[q]
  /\ CallInv(p)'

LEMMA GoesTo ==
  ASSUME TypeOK, NEW p \in Process, NEW c \in CallType, Goto(p, c)
  PROVE  /\ call' \in [Process -> CallType] /\ call'[p] = c
         /\ \A q \in Process \ {p} : call'[q] = call[q]
BY DEF TypeOK, Goto

LEMMA Stopping ==
  ASSUME TypeOK, NEW p \in Process, Goto(p, Idle)
  PROVE  Moved(p) /\ call'[p] = Idle
<1>1. Idle \in CallType
  BY DEF Idle, CallType, Content
<1> QED BY <1>1, GoesTo DEF Moved, CallInv

\* A call that enters the walk, or goes on along it, passes nothing due.
LEMMA Entering ==
  ASSUME TypeOK, NEW p \in Process, NEW from \in 1 .. LastStation + 1,
         NEW mode \in {None, "carried", "durable"}, Goto(p, Walking(from, mode)),
         \A n \in 1 .. LastStation : n < from => Behind(n)'
  PROVE  Moved(p) /\ call'[p] # Idle /\ call'[p].at \notin InHand
<1>0. LastStation \in Nat
  BY Layout
<1>1. PICK n : n = NextStation(from)
  OBVIOUS
<1>2. /\ n \in from .. LastStation + 1 /\ n \in 1 .. LastStation + 1
      /\ \A m \in from .. LastStation : m < n => ~Due(m)
  BY <1>0, <1>1, NextIsNext
<1>3. ASSUME NEW m \in 1 .. LastStation, m < n, ~(m < from) PROVE Behind(m)'
  <2>1. ~Due(m)
    BY <1>0, <1>2, <1>3
  <2>2. \A i \in DOMAIN Hooks : ~Anchored("hook", i, m)
    <3>1. \A i : Anchored("hook", i, m) => Slot(m)[2] = "hook"
      BY DEF Anchored
    <3> QED BY <2>1, <3>1 DEF Due, Declared
  <2>3. \A i \in DOMAIN Mutations : ~Anchored("mutation", i, m)
    <3>1. \A i : Anchored("mutation", i, m) => Slot(m)[2] = "mutation"
      BY DEF Anchored
    <3> QED BY <2>1, <3>1 DEF Due, Declared
  <2>4. Slot(m)[2] # "stage"
    BY <2>1 DEF Due
  <2> QED BY <2>2, <2>3, <2>4 DEF Behind, Anchored
<1>4. Passed(n)'
  BY <1>3 DEF Passed
<1> DEFINE at == IF n > LastStation THEN "collect"
                 ELSE IF Slot(n)[2] = "stage" THEN "stage" ELSE "scan"
<1> DEFINE left == IF at = "scan" THEN DOMAIN Declared[Slot(n)[2]] ELSE {}
<1> DEFINE c == [at |-> at, station |-> n, seen |-> None, mode |-> mode, left |-> left]
<1>5. Walking(from, mode) = c
  BY <1>1 DEF Walking
<1>6. n \in 1 .. LastStation => Slot(n)[2] \in Kinds \union {"stage"}
  BY SlotKinds
<1>7. at \in {"collect", "stage", "scan"} /\ left \in SUBSET Nat
  <2>1. at = "scan" => Slot(n)[2] \in Kinds
    BY <1>0, <1>2, <1>6
  <2> QED BY <2>1, Layout
<1>8. c \in CallType
  BY <1>0, <1>2, <1>7 DEF CallType, Scheduling, Content
<1>9. call' \in [Process -> CallType] /\ call'[p] = c /\ \A q \in Process \ {p} : call'[q] = call[q]
  BY <1>5, <1>8, GoesTo
<1>10. /\ call'[p].at = at /\ call'[p].station = n /\ call'[p].left = left
       /\ call'[p] # Idle /\ Kind(p)' = Slot(n)[2]
  BY <1>7, <1>9 DEF Idle, Kind
<1>11. CallInv(p)'
  <2>1. n > LastStation => n = LastStation + 1
    BY <1>0, <1>2
  <2>2. CASE at = "collect"
    BY <1>0, <1>2, <1>4, <1>10, <2>1, <2>2 DEF CallInv, Scheduling, InHand
  <2>3. CASE at = "stage"
    BY <1>0, <1>2, <1>4, <1>6, <1>10, <2>3 DEF CallInv, Scheduling, InHand
  <2>4. CASE at = "scan"
    <3>1. Slot(n)[2] \in Kinds /\ n \in 1 .. LastStation /\ left = DOMAIN Declared[Slot(n)[2]]
      BY <1>0, <1>2, <1>6, <2>4
    <3> HIDE DEF left, at, c
    <3> QED BY <1>2, <1>4, <1>10, <2>4, <3>1 DEF CallInv, Scheduling, InHand
  <2> QED BY <1>7, <2>2, <2>3, <2>4
<1> HIDE DEF at, left, c
<1> QED BY <1>7, <1>9, <1>10, <1>11 DEF Moved, InHand, Scheduling

\* Past a station that is completed.
LEMMA Passing ==
  ASSUME TypeOK, Grows, NEW p \in Process, CallInv(p), call[p] # Idle,
         NEW n \in 1 .. LastStation, n = call[p].station, Behind(n)', Onward(p)
  PROVE  Moved(p) /\ call'[p] # Idle /\ call'[p].at \notin InHand
<1>0. LastStation \in Nat
  BY Layout
<1>1. Passed(n)'
  BY PassedStays DEF CallInv
<1>2. \A m \in 1 .. LastStation : m < n + 1 => Behind(m)'
  BY <1>0, <1>1 DEF Passed
<1>3. PICK mode : mode = call[p].mode
  OBVIOUS
<1>4. mode \in {None, "carried", "durable"} /\ n + 1 \in 1 .. LastStation + 1
      /\ Goto(p, Walking(n + 1, mode))
  BY <1>0, <1>3 DEF TypeOK, CallType, Onward
<1> QED BY <1>2, <1>4, Entering

\* A scheduler at work on its station.
LEMMA Working ==
  ASSUME TypeOK, Grows, NEW p \in Process, CallInv(p), call[p].at \in Scheduling,
         NEW c \in CallType, Goto(p, c), c.at \in Scheduling, c.station = call[p].station,
         c.left \subseteq call[p].left, c.at \in InHand => c.left # {},
         c.at = "settle" => c.seen \in Content,
         NEW kind, kind = Kind(p), c.at \in {"reread", "reconcile"} => kind = "mutation",
         \A i \in call[p].left \ c.left : Done(Declared[kind][i].id)'
  PROVE  /\ Moved(p) /\ call'[p] = c /\ call[p] # Idle /\ c # Idle
<1>1. call' \in [Process -> CallType] /\ call'[p] = c /\ \A q \in Process \ {p} : call'[q] = call[q]
  BY GoesTo
<1>2. call[p] # Idle /\ c # Idle /\ c.at # "idle"
  BY DEF Idle, Scheduling
<1>3. Kind(p)' = kind
  BY <1>1 DEF Kind
<1>4. Passed(c.station)'
  BY <1>2, PassedStays DEF CallInv
<1>5. \A i \in DOMAIN Declared[kind] \ c.left : Done(Declared[kind][i].id)'
  BY <1>2 DEF CallInv, Grows
<1>6. CallInv(p)'
  BY <1>1, <1>2, <1>3, <1>4, <1>5 DEF CallInv, Scheduling, InHand
<1> QED BY <1>1, <1>2, <1>6 DEF Moved

LEMMA Turning ==
  ASSUME TypeOK, Grows, NEW p \in Process, CallInv(p), call[p].at \in Scheduling,
         call[p].left # {}, NEW at \in InHand \ {"settle"}, Goto(p, [call[p] EXCEPT !.at = at]),
         at \in {"reread", "reconcile"} => Kind(p) = "mutation"
  PROVE  /\ Moved(p) /\ call[p] # Idle /\ call'[p].at = at /\ Current(p)' = Current(p)
<1> DEFINE c == [call[p] EXCEPT !.at = at]
<1>1. c \in CallType /\ c.at = at /\ c.station = call[p].station /\ c.left = call[p].left
  BY DEF TypeOK, CallType, InHand, Scheduling
<1>2. Goto(p, c)
  OBVIOUS
<1> HIDE DEF c
<1>3. PICK kind : kind = Kind(p)
  OBVIOUS
<1>4. Moved(p) /\ call'[p] = c /\ call[p] # Idle
  BY <1>1, <1>2, <1>3, Working DEF InHand, Scheduling
<1> QED BY <1>1, <1>4 DEF Current, Turned, Kind

LEMMA Settling ==
  ASSUME TypeOK, Grows, NEW p \in Process, CallInv(p), call[p].at \in Scheduling,
         call[p].left # {}, NEW seen \in Content,
         Goto(p, [call[p] EXCEPT !.at = "settle", !.seen = seen])
  PROVE  /\ Moved(p) /\ call[p] # Idle /\ Current(p)' = Current(p)
<1> DEFINE c == [call[p] EXCEPT !.at = "settle", !.seen = seen]
<1>1. c \in CallType /\ c.at = "settle" /\ c.seen = seen /\ c.station = call[p].station
      /\ c.left = call[p].left
  BY DEF TypeOK, CallType, InHand, Scheduling
<1>2. Goto(p, c)
  OBVIOUS
<1> HIDE DEF c
<1>3. PICK kind : kind = Kind(p)
  OBVIOUS
<1>4. Moved(p) /\ call'[p] = c /\ call[p] # Idle
  BY <1>1, <1>2, <1>3, Working DEF InHand, Scheduling
<1> QED BY <1>1, <1>4 DEF Current, Turned, Kind

\* The step a scheduler has in hand is a declared one.
LEMMA InTurn ==
  ASSUME NEW p \in Process, CallInv(p), call[p].at \in Scheduling, call[p].left # {}
  PROVE  /\ Turned(p) \in call[p].left /\ Turned(p) \in DOMAIN Declared[Kind(p)]
         /\ Current(p) \in Extension
         /\ Kind(p) \in Kinds /\ (Kind(p) = "mutation" => Current(p) \in Path)
         /\ (Kind(p) \in {"hook", "artifact"} => Current(p) \in DOMAIN Produced)
<1>1. call[p] # Idle
  BY DEF Idle, Scheduling
<1>2. Kind(p) \in Kinds /\ call[p].left \subseteq DOMAIN Declared[Kind(p)]
  BY <1>1 DEF CallInv
<1>3. Turned(p) \in call[p].left
  BY <1>2, FirstIsLeft DEF Turned
<1>4. \A kind \in Kinds : \A i \in DOMAIN Declared[kind] :
         /\ Declared[kind][i].id \in Extension
         /\ kind = "mutation" => Declared[kind][i].id \in Path
         /\ kind \in {"hook", "artifact"} => Declared[kind][i].id \in DOMAIN Produced
  BY ExtensionAssumption DEF Kinds, Declared, Extension, Ids, Path
<1> QED BY <1>2, <1>3, <1>4 DEF Current

LEMMA Advancing ==
  ASSUME TypeOK, Grows, NEW p \in Process, CallInv(p), call[p].at \in Scheduling,
         call[p].left # {}, NEW step, step = Current(p), Done(step)', Advances(p)
  PROVE  /\ Moved(p) /\ call[p] # Idle /\ call'[p].at = "scan"
<1> DEFINE c == [call[p] EXCEPT !.at = "scan", !.left = call[p].left \ {Turned(p)}]
<1>1. c \in CallType /\ c.at = "scan" /\ c.station = call[p].station
      /\ c.left = call[p].left \ {Turned(p)}
  BY DEF TypeOK, CallType, Scheduling
<1>2. Goto(p, c)
  BY DEF Advances
<1> HIDE DEF c
<1>3. PICK kind : kind = Kind(p)
  OBVIOUS
<1>4. \A i \in call[p].left \ c.left : Declared[kind][i].id = step
  BY <1>1, <1>3 DEF Current
<1>5. Moved(p) /\ call'[p] = c /\ call[p] # Idle
  BY <1>1, <1>2, <1>3, <1>4, Working DEF InHand, Scheduling
<1> QED BY <1>1, <1>5

\* A refusal: a mutation's stops the call, the others' is walked past.
LEMMA Refusing ==
  ASSUME TypeOK, Grows, NEW p \in Process, CallInv(p), call[p].at \in Scheduling,
         Kind(p) = "hook" => HooksExcused, Refused(p)
  PROVE  Moved(p) /\ call[p] # Idle /\ call'[p].at \notin InHand
<1>1. call[p] # Idle
  BY DEF Idle, Scheduling
<1>2. CASE Kind(p) = "mutation"
  BY <1>1, <1>2, Stopping DEF Refused, Stops, Idle, InHand, Scheduling
<1>3. CASE Kind(p) # "mutation"
  <2>1. PICK n : n = call[p].station
    OBVIOUS
  <2>2. Slot(n)[2] \in Kinds /\ Slot(n)[2] # "mutation" /\ n \in 1 .. LastStation
        /\ (Slot(n)[2] = "hook" => HooksExcused)
    BY <1>1, <1>3, <2>1 DEF CallInv, Kind
  <2>3. \A kind, i : Anchored(kind, i, n) => Slot(n)[2] = kind
    BY DEF Anchored
  <2>4. Behind(n)
    BY <2>2, <2>3 DEF Behind, Kinds
  <2>5. Behind(n)'
    BY <2>4, BehindStays
  <2> QED BY <1>1, <1>3, <2>1, <2>2, <2>5, Passing DEF Refused
<1> QED BY <1>2, <1>3

-----------------------------------------------------------------------------
(* Every step keeps what is behind a call, and what the tag stands for.    *)

\* What a step appends: publish only behind its artifacts.
Appending ==
  \/ tail' = tail
  \/ \E record \in RecordType :
       /\ Records(record)
       /\ record.step = "publish" /\ record.to = "completed" =>
            \A a \in Ids(Artifacts) : Done(a)

LEMMA TailStays ==
  ASSUME TypeOK, WalkInv, Appending, claimed' => claimed, edits' >= edits
  PROVE  /\ Grows /\ tail' \in Seq(RecordType)
         /\ (Done("publish") => \A a \in Ids(Artifacts) : Done(a))'
<1>1. Grows /\ tail' \in Seq(RecordType)
  <2>1. CASE tail' = tail
    BY <2>1, StepGrows DEF TypeOK
  <2>2. ASSUME NEW record \in RecordType, Records(record)
        PROVE  Grows /\ tail' \in Seq(RecordType)
    BY <2>2, StepGrows, Appends
  <2> QED BY <2>1, <2>2 DEF Appending
<1>2. Done("publish")' => \A a \in Ids(Artifacts) : Done(a)
  <2>0. Done("publish") => \A a \in Ids(Artifacts) : Done(a)
    BY DEF WalkInv
  <2>1. CASE tail' = tail
    BY <2>0, <2>1 DEF Done, At
  <2>2. ASSUME NEW record \in RecordType, Records(record),
               record.step = "publish" /\ record.to = "completed" =>
                  \A a \in Ids(Artifacts) : Done(a)
        PROVE  Done("publish")' => \A a \in Ids(Artifacts) : Done(a)
    <3>1. CASE tail' = tail
      BY <2>0, <3>1 DEF Done, At
    <3>2. CASE tail' = Append(tail, record) /\ ~(record.step = "publish" /\ record.to = "completed")
      BY <2>0, <2>2, <3>2, AtOfAppend DEF Done
    <3> QED BY <2>2, <3>1, <3>2, Appends
  <2> QED BY <2>1, <2>2 DEF Appending
<1>3. \A a : Done(a) => Done(a)'
  BY <1>1 DEF Grows
<1> QED BY <1>1, <1>2, <1>3 DEF WalkInv

LEMMA TagStays ==
  ASSUME TypeOK, WalkInv, Grows, edits' \in Nat, tag' = tag
  PROVE  TagFollowsExtensions' /\ TagCarriesPlannedBytes'
<1>1. TagFollowsExtensions'
  <2>1. \A s : (At(s, "completed") # {} => At(s, "completed")' # {})
                /\ (Disagrees(s) => Disagrees(s)')
    BY DEF Grows, Done
  <2> QED BY <2>1 DEF WalkInv, TagFollowsExtensions
<1>2. TagCarriesPlannedBytes'
  BY DEF WalkInv, TagCarriesPlannedBytes, Grows, TypeOK
<1> QED BY <1>1, <1>2

LEMMA CallsStay ==
  ASSUME TypeOK, WalkInv, Grows, edits' \in Nat, NEW p \in Process, Moved(p)
  PROVE  \A q \in Process : CallInv(q)'
<1> SUFFICES ASSUME NEW q \in Process, q # p PROVE CallInv(q)'
  BY DEF Moved
<1> QED BY CallStays DEF Moved, TypeOK, WalkInv

\* A step of a call that touches nothing but the stream and the call.
LEMMA QuietStep ==
  ASSUME TypeOK, WalkInv, NEW p \in Process, Moved(p), Appending,
         UNCHANGED <<claimed, seam, files, tag, edits>>
  PROVE  TypeOK' /\ WalkInv'
<1>1. /\ claimed' = claimed /\ seam' = seam /\ files' = files /\ tag' = tag /\ edits' = edits
  OBVIOUS
<1>2. /\ Grows /\ tail' \in Seq(RecordType)
      /\ (Done("publish") => \A a \in Ids(Artifacts) : Done(a))'
  BY <1>1, TailStays DEF TypeOK
<1>3. TypeOK'
  BY <1>1, <1>2 DEF TypeOK, Moved
<1>4. \A q \in Process : CallInv(q)'
  BY <1>1, <1>2, CallsStay DEF TypeOK
<1>5. TagFollowsExtensions' /\ TagCarriesPlannedBytes'
  BY <1>1, <1>2, TagStays DEF TypeOK
<1>6. \A o \in Process \union {"tree"}, m \in Path : files'[o][m] = Edited => edits' > 0
  BY <1>1 DEF WalkInv
<1> QED BY <1>2, <1>3, <1>4, <1>5, <1>6 DEF WalkInv

LEMMA QuietGrows ==
  ASSUME TypeOK, WalkInv, Appending, UNCHANGED worldVars
  PROVE  Grows
BY TailStays DEF worldVars, boundVars, TypeOK

\* The loop is over: all the steps of the kind are completed.
LEMMA LoopEndsStep ==
  ASSUME TypeOK, WalkInv, NEW p \in Process, LoopEnds(p)
  PROVE  Moved(p) /\ call[p] # Idle /\ call'[p].at \notin InHand
<1>0. CallInv(p) /\ call[p] # Idle /\ call[p].at \in Scheduling /\ call[p].left = {}
      /\ Onward(p)
  BY DEF WalkInv, LoopEnds, Idle, Scheduling
<1>1. PICK n : n = call[p].station
  OBVIOUS
<1>2. PICK kind : kind = Kind(p)
  OBVIOUS
<1>3. /\ Slot(n)[2] = kind /\ kind \in Kinds /\ n \in 1 .. LastStation
      /\ \A i \in DOMAIN Declared[kind] : Done(Declared[kind][i].id)
  BY <1>0, <1>1, <1>2 DEF CallInv, Kind
<1>4. Behind(n)
  <2>1. \A k, i : Anchored(k, i, n) => k = kind
    BY <1>3 DEF Anchored
  <2>2. Declared["hook"] = Hooks /\ Declared["mutation"] = Mutations
    BY DEF Declared
  <2> QED BY <1>3, <2>1, <2>2 DEF Behind, Kinds
<1>5. Grows
  BY QuietGrows DEF LoopEnds, Appending
<1> QED BY <1>0, <1>1, <1>3, <1>4, <1>5, BehindStays, Passing

-----------------------------------------------------------------------------
(* The steps of the schedulers.                                            *)

\* An append that is no second completion, and no record on a completed
\* extension, leaves every completion the last word.
LEMMA SingleStays ==
  ASSUME TypeOK, \A s \in Extension : Single(s), NEW record \in RecordType, Records(record),
         record.to = "resolved" \/ record.step \notin Extension \/ ~Done(record.step)
  PROVE  \A s \in Extension : Single(s)'
<1>1. CASE tail' = tail
  BY <1>1 DEF Single, At
<1>2. CASE tail' = Append(tail, record)
  <2> SUFFICES ASSUME NEW s \in Extension PROVE Single(s)'
    OBVIOUS
  <2>1. \A to : At(s, to) \subseteq 1 .. Len(tail)
    BY <1>2, AtOfAppend
  <2>2. Len(tail) \in Nat
    BY DEF TypeOK
  <2>3. CASE record.to = "resolved" \/ record.step # s
    <3>1. /\ At(s, "completed")' = At(s, "completed")
          /\ At(s, "started")' = At(s, "started")
          /\ At(s, "failed")' = At(s, "failed")
      BY <1>2, <2>3, AtOfAppend
    <3> QED BY <3>1 DEF Single
  <2>4. CASE record.to # "resolved" /\ record.step = s
    <3>0. At(s, "completed") = {}
      BY <2>4 DEF Done
    <3>1. CASE record.to = "completed"
      <4>1. /\ At(s, "completed")' = {Len(tail) + 1}
            /\ At(s, "started")' = At(s, "started")
            /\ At(s, "failed")' = At(s, "failed")
        BY <1>2, <2>4, <3>0, <3>1, AtOfAppend
      <4> QED BY <2>1, <2>2, <4>1 DEF Single
    <3>2. CASE record.to # "completed"
      <4>1. At(s, "completed")' = {}
        BY <1>2, <3>0, <3>2, AtOfAppend
      <4> QED BY <4>1 DEF Single
    <3> QED BY <3>1, <3>2
  <2> QED BY <2>3, <2>4
<1> QED BY <1>1, <1>2, Appends

LEMMA NothingCompleted ==
  ASSUME TypeOK, NEW record \in RecordType, Records(record), NEW step,
         record.step # step \/ record.to # "completed"
  PROVE  Done(step)' => Done(step)
<1>1. CASE tail' = tail
  BY <1>1 DEF Done, At
<1>2. CASE tail' = Append(tail, record)
  BY <1>2, AtOfAppend DEF Done
<1> QED BY <1>1, <1>2, Appends

\* The part of a step in the order of the sequential calls.
Orderly(p) ==
  ~overlapped /\ SequentialInv =>
    /\ \A s \in Extension : Single(s)'
    /\ call'[p].at \in InHand => ~Done(Current(p))'

Acts(p) == Moved(p) /\ Appending /\ call[p] # Idle /\ Orderly(p)

LEMMA QuietOrder ==
  ASSUME TypeOK, NEW p \in Process, tail' = tail,
         \/ call'[p].at \notin InHand
         \/ /\ Current(p)' = Current(p)
            /\ ~overlapped /\ SequentialInv => ~Done(Current(p))
  PROVE  Orderly(p)
<1>1. PICK step : step = Current(p)
  OBVIOUS
<1>2. Done(step)' <=> Done(step)
  BY DEF Done, At
<1>3. \A s : Single(s) => Single(s)'
  BY DEF Single, At
<1>4. Current(p)' = step => (Done(Current(p))' <=> Done(step)')
  BY DEF Done, At
<1> QED BY <1>1, <1>2, <1>3, <1>4 DEF Orderly, SequentialInv

\* What a scheduler finds not completed is not, while calls are sequential.
LEMMA NotCompleted ==
  ASSUME TypeOK, NEW p \in Process, Current(p) \in Extension, StepState(Current(p)) # "completed"
  PROVE  ~overlapped /\ SequentialInv => ~Done(Current(p))
BY SingleIsLast DEF SequentialInv

\* A scan turns to a step, comes past it, or is refused.
LEMMA Scans ==
  ASSUME TypeOK, WalkInv, NEW p \in Process, call[p].at = "scan", call[p].left # {},
         tail' = tail, UNCHANGED worldVars,
         \/ Refused(p) /\ (Kind(p) = "hook" => HooksExcused)
         \/ Advances(p) /\ StepState(Current(p)) = "completed"
         \/ /\ StepState(Current(p)) # "completed"
            /\ \E at \in {"guard", "reconcile"} :
                 /\ Goto(p, [call[p] EXCEPT !.at = at])
                 /\ at = "reconcile" => Kind(p) = "mutation"
  PROVE  Acts(p)
<1>0. CallInv(p) /\ call[p].at \in Scheduling /\ Appending
  BY DEF WalkInv, Scheduling, Appending
<1>1. Grows
  BY <1>0, QuietGrows
<1>2. CASE Refused(p) /\ (Kind(p) = "hook" => HooksExcused)
  BY <1>0, <1>1, <1>2, Refusing, QuietOrder DEF Acts
<1>3. CASE Advances(p) /\ StepState(Current(p)) = "completed"
  <2>1. PICK step : step = Current(p)
    OBVIOUS
  <2>2. Done(step)'
    BY <1>1, <1>3, <2>1, CompletedIsDone DEF Grows
  <2>3. Moved(p) /\ call[p] # Idle /\ call'[p].at = "scan"
    BY <1>0, <1>1, <1>3, <2>1, <2>2, Advancing
  <2>4. Orderly(p)
    BY <2>3, QuietOrder DEF InHand
  <2> QED BY <1>0, <2>3, <2>4 DEF Acts
<1>4. ASSUME StepState(Current(p)) # "completed", NEW at \in {"guard", "reconcile"},
             Goto(p, [call[p] EXCEPT !.at = at]), at = "reconcile" => Kind(p) = "mutation"
      PROVE  Acts(p)
  <2>1. Moved(p) /\ call[p] # Idle /\ Current(p)' = Current(p)
    BY <1>0, <1>1, <1>4, Turning DEF InHand, Scheduling
  <2>2. Current(p) \in Extension
    BY <1>0, InTurn
  <2>3. Orderly(p)
    BY <1>4, <2>1, <2>2, NotCompleted, QuietOrder
  <2> QED BY <1>0, <2>1, <2>3 DEF Acts
<1> QED BY <1>2, <1>3, <1>4

LEMMA ScansStep ==
  ASSUME TypeOK, WalkInv, NEW p \in Process,
         HookScans(p) \/ ArtifactScans(p) \/ MutationScans(p)
  PROVE  Acts(p) /\ UNCHANGED worldVars
<1>1. CallInv(p)
  BY DEF WalkInv
<1>2. ASSUME call[p].at = "scan", call[p].left # {}, Kind(p) = "hook", Disagrees(Current(p))
      PROVE  HooksExcused
  <2>1. Turned(p) \in DOMAIN Declared[Kind(p)] /\ Declared["hook"] = Hooks
    BY <1>1, <1>2, InTurn DEF Scheduling, Declared
  <2>2. Current(p) \in Ids(Hooks)
    BY <1>2, <2>1 DEF Current, Ids
  <2> QED BY <1>2, <2>2 DEF HooksExcused
<1>3. CASE HookScans(p)
  BY <1>2, <1>3, Scans DEF HookScans, Turn, Turns
<1>4. CASE ArtifactScans(p)
  BY <1>4, Scans DEF ArtifactScans, Turn, Turns
<1>5. CASE MutationScans(p)
  <2>1. StepState(Current(p)) # "completed" /\ ~Disagrees(Current(p)) =>
           \E at \in {"guard", "reconcile"} : Goto(p, [call[p] EXCEPT !.at = at])
    BY <1>5 DEF MutationScans, Turns
  <2>2. Kind(p) = "mutation"
    BY <1>5 DEF MutationScans, Turn
  <2> QED BY <1>5, <2>1, <2>2, Scans DEF MutationScans, Turn
<1> QED BY <1>3, <1>4, <1>5

\* A process that is in no call has no step in hand.
LEMMA IdleIsOut == Idle.at \notin InHand /\ Idle.at \notin Scheduling
BY DEF Idle, InHand, Scheduling

\* A step in hand that is not yet recorded: it turns on, is refused, or ends
\* the call by an exception.
LEMMA Handles ==
  ASSUME TypeOK, WalkInv, NEW p \in Process, call[p].at \in InHand,
         tail' = tail, UNCHANGED worldVars,
         \/ Refused(p) /\ (Kind(p) = "hook" => HooksExcused)
         \/ \E at \in {"start", "act"} : Goto(p, [call[p] EXCEPT !.at = at])
         \/ \E seen \in Content : Goto(p, [call[p] EXCEPT !.at = "settle", !.seen = seen])
         \/ Goto(p, Idle)
  PROVE  Acts(p)
<1>0. CallInv(p) /\ call[p].at \in Scheduling /\ Appending /\ call[p].left # {}
  <2>1. CallInv(p) /\ call[p].at \in Scheduling /\ call[p].at # "idle" /\ Idle.at = "idle"
    BY DEF WalkInv, InHand, Scheduling, Idle
  <2> QED BY <2>1 DEF CallInv, Appending
<1>1. Grows
  BY <1>0, QuietGrows
<1>2. ~overlapped /\ SequentialInv => ~Done(Current(p))
  BY DEF SequentialInv
<1>3. CASE Refused(p) /\ (Kind(p) = "hook" => HooksExcused)
  BY <1>0, <1>1, <1>3, Refusing, QuietOrder DEF Acts
<1>4. ASSUME NEW at \in {"start", "act"}, Goto(p, [call[p] EXCEPT !.at = at]) PROVE Acts(p)
  <2>1. Moved(p) /\ call[p] # Idle /\ Current(p)' = Current(p)
    BY <1>0, <1>1, <1>4, Turning DEF InHand, Scheduling
  <2> QED BY <1>0, <1>2, <2>1, QuietOrder DEF Acts
<1>5. ASSUME NEW seen \in Content, Goto(p, [call[p] EXCEPT !.at = "settle", !.seen = seen])
      PROVE  Acts(p)
  <2>1. Moved(p) /\ call[p] # Idle /\ Current(p)' = Current(p)
    BY <1>0, <1>1, <1>5, Settling
  <2> QED BY <1>0, <1>2, <2>1, QuietOrder DEF Acts
<1>6. CASE Goto(p, Idle)
  <2>1. Moved(p) /\ call'[p] = Idle
    BY <1>6, Stopping
  <2>2. call[p] # Idle /\ call'[p].at \notin InHand
    BY <1>0, <2>1, IdleIsOut
  <2> QED BY <1>0, <2>1, <2>2, QuietOrder DEF Acts
<1> QED BY <1>3, <1>4, <1>5, <1>6

LEMMA HandlesStep ==
  ASSUME TypeOK, WalkInv, NEW p \in Process,
         \/ HookGuards(p) \/ ArtifactGuards(p) \/ MutationGuards(p)
         \/ EffectRuns(p) \/ MutationRereads(p) \/ MutationReconciles(p)
  PROVE  Acts(p) /\ UNCHANGED worldVars
<1>0. {"guard", "act", "reread", "reconcile"} \subseteq InHand
  BY DEF InHand, Scheduling
<1>1. ASSUME StartNeeded(p)
      PROVE  \E at \in {"start", "act"} : Goto(p, [call[p] EXCEPT !.at = at])
  BY <1>0, <1>1 DEF StartNeeded, Turns
<1>2. CASE HookGuards(p)
  BY <1>0, <1>1, <1>2, Handles DEF HookGuards, HooksExcused
<1>3. CASE ArtifactGuards(p)
  BY <1>0, <1>1, <1>3, Handles DEF ArtifactGuards
<1>4. CASE MutationGuards(p)
  BY <1>0, <1>4, Handles DEF MutationGuards, Turns
<1>5. CASE EffectRuns(p)
  <2>1. call[p].at \in InHand /\ Kind(p) # "mutation" /\ tail' = tail /\ UNCHANGED worldVars
    BY <1>0, <1>5 DEF EffectRuns
  <2>2. PICK content \in Produced[Current(p)] :
           Goto(p, [call[p] EXCEPT !.at = "settle", !.seen = content])
    BY <1>5 DEF EffectRuns
  <2>3. Current(p) \in DOMAIN Produced
    <3>1. CallInv(p) /\ call[p].at \in Scheduling /\ call[p].left # {}
      BY <2>1 DEF WalkInv, InHand, Scheduling, CallInv, Idle
    <3> QED BY <2>1, <3>1, InTurn DEF Kinds
  <2>4. content \in Content
    BY <2>2, <2>3 DEF Content
  <2> QED BY <2>1, <2>2, <2>4, Handles
<1>6. CASE MutationRereads(p)
  <2>1. PICK seen \in {Planned, Bad} : Goto(p, [call[p] EXCEPT !.at = "settle", !.seen = seen])
    BY <1>6 DEF MutationRereads, MutationSees
  <2> QED BY <1>0, <1>6, <2>1, Handles DEF MutationRereads, Content
<1>7. CASE MutationReconciles(p)
  <2>1. \/ \E seen \in {Planned, Bad} : Goto(p, [call[p] EXCEPT !.at = "settle", !.seen = seen])
        \/ Refused(p)
    BY <1>7 DEF MutationReconciles, MutationSees
  <2>2. Kind(p) # "hook"
    <3>1. CallInv(p) /\ call[p] # Idle
      BY <1>7 DEF WalkInv, MutationReconciles, Idle
    <3> QED BY <1>7, <3>1 DEF CallInv, MutationReconciles
  <2> QED BY <1>0, <1>7, <2>1, <2>2, Handles DEF MutationReconciles, Content
<1> QED BY <1>2, <1>3, <1>4, <1>5, <1>6, <1>7

LEMMA RecordedIsDone ==
  ASSUME TypeOK, NEW record \in RecordType, Records(record), record.to = "completed"
  PROVE  Done(record.step)'
<1>1. CASE tail' = tail /\ tail # <<>> /\ tail[Len(tail)] = record
  <2>1. Len(tail) \in DOMAIN tail
    BY <1>1 DEF TypeOK
  <2>2. Len(tail) \in At(record.step, "completed")
    BY <1>1, <2>1 DEF At
  <2> QED BY <1>1, <2>2 DEF Done, At
<1>2. CASE tail' = Append(tail, record)
  BY <1>2, AtOfAppend DEF Done
<1> QED BY <1>1, <1>2, Appends

LEMMA RecordTypes ==
  ASSUME NEW step \in Stage \union Extension,
         NEW to \in {"started", "completed", "failed", "resolved"}, NEW content \in Content
  PROVE  /\ Record(step, to, content) \in RecordType
         /\ Record(step, to, content).step = step /\ Record(step, to, content).to = to
BY DEF Record, RecordType

LEMMA StartsStep ==
  ASSUME TypeOK, WalkInv, NEW p \in Process, Starts(p)
  PROVE  Acts(p) /\ UNCHANGED worldVars
<1>0. /\ CallInv(p) /\ call[p].at \in Scheduling /\ call[p].at \in InHand /\ call[p].left # {}
      /\ UNCHANGED worldVars
  <2>1. CallInv(p) /\ call[p].at = "start" /\ Idle.at = "idle"
    BY DEF WalkInv, Starts, Idle
  <2> QED BY <2>1 DEF CallInv, InHand, Scheduling, Starts
<1>1. PICK step \in Extension : step = Current(p)
  BY <1>0, InTurn
<1>2. PICK record \in RecordType : /\ Records(record) /\ record.step = step /\ record.to = "started"
  BY <1>1, RecordTypes DEF Starts, Content
<1>3. Appending
  BY <1>2 DEF Appending
<1>4. Grows
  BY <1>0, <1>3, QuietGrows
<1>5. Goto(p, [call[p] EXCEPT !.at = "act"])
  BY DEF Starts
<1>6. Moved(p) /\ call[p] # Idle /\ Current(p)' = Current(p)
  BY <1>0, <1>4, <1>5, Turning DEF InHand, Scheduling
<1>7. ASSUME ~overlapped, SequentialInv
      PROVE  (\A s \in Extension : Single(s)') /\ ~Done(Current(p))'
  <2>1. ~Done(step) /\ \A s \in Extension : Single(s)
    BY <1>0, <1>1, <1>7 DEF SequentialInv
  <2>2. \A s \in Extension : Single(s)'
    BY <1>2, <2>1, SingleStays
  <2>3. ~Done(step)'
    BY <1>2, <2>1, NothingCompleted
  <2>4. Done(Current(p))' <=> Done(step)'
    BY <1>1, <1>6 DEF Done, At
  <2> QED BY <2>2, <2>3, <2>4
<1> QED BY <1>0, <1>3, <1>6, <1>7 DEF Acts, Orderly

LEMMA SettlesStep ==
  ASSUME TypeOK, WalkInv, NEW p \in Process, NEW kind \in Kinds, Settles(p, kind)
  PROVE  Acts(p) /\ UNCHANGED worldVars
<1>0. /\ CallInv(p) /\ call[p].at \in Scheduling /\ call[p].at \in InHand /\ call[p].left # {}
      /\ call[p].seen \in Content /\ call[p] # Idle /\ UNCHANGED worldVars
  <2>1. CallInv(p) /\ call[p].at = "settle" /\ Idle.at = "idle"
    BY DEF WalkInv, Settles, Idle
  <2> QED BY <2>1 DEF CallInv, InHand, Scheduling, Settles
<1>1. PICK step \in Extension : step = Current(p)
  BY <1>0, InTurn
<1>2. step # "publish"
  BY ExtensionAssumption
<1>3. CASE call[p].seen = Bad
  <2>1. PICK record \in RecordType : Records(record) /\ record.step = step /\ record.to = "failed"
    BY <1>1, <1>3, RecordTypes DEF Settles, Content
  <2>2. Appending
    BY <2>1 DEF Appending
  <2>3. Moved(p) /\ call'[p] = Idle
    BY <1>3, Stopping DEF Settles, Stops
  <2>4. ASSUME ~overlapped, SequentialInv PROVE \A s \in Extension : Single(s)'
    <3>1. ~Done(step) /\ \A s \in Extension : Single(s)
      BY <1>0, <1>1, <2>4 DEF SequentialInv
    <3> QED BY <2>1, <3>1, SingleStays
  <2> QED BY <1>0, <2>2, <2>3, <2>4 DEF Acts, Orderly, Idle, InHand, Scheduling
<1>4. CASE call[p].seen # Bad
  <2>1. PICK record \in RecordType : Records(record) /\ record.step = step /\ record.to = "completed"
    BY <1>0, <1>1, <1>4, RecordTypes DEF Settles
  <2>2. Appending
    BY <1>2, <2>1 DEF Appending
  <2>3. Grows
    BY <1>0, <2>2, QuietGrows
  <2>4. Done(step)'
    BY <2>1, RecordedIsDone
  <2>5. Moved(p) /\ call'[p].at = "scan"
    BY <1>0, <1>1, <1>4, <2>3, <2>4, Advancing DEF Settles
  <2>6. ASSUME ~overlapped, SequentialInv PROVE \A s \in Extension : Single(s)'
    <3>1. ~Done(step) /\ \A s \in Extension : Single(s)
      BY <1>0, <1>1, <2>6 DEF SequentialInv
    <3> QED BY <2>1, <3>1, SingleStays
  <2> QED BY <1>0, <2>2, <2>5, <2>6 DEF Acts, Orderly, InHand
<1> QED BY <1>3, <1>4

-----------------------------------------------------------------------------
(* The steps of a stage.                                                   *)

LEMMA StageStartsStep ==
  ASSUME TypeOK, WalkInv, NEW p \in Process, StageStarts(p)
  PROVE  Acts(p) /\ UNCHANGED worldVars
<1>0. /\ CallInv(p) /\ call[p] # Idle /\ Kind(p) = "stage" /\ UNCHANGED worldVars
      /\ call[p].station \in 1 .. LastStation
  <2>1. CallInv(p) /\ call[p].at = "stage" /\ Idle.at = "idle"
    BY DEF WalkInv, StageStarts, Idle
  <2> QED BY <2>1 DEF CallInv, StageStarts
<1>1. PICK step \in Stage : step = StageNow(p)
  BY <1>0, SlotKinds DEF StageNow
<1>2. step \notin Extension
  BY ExtensionAssumption
<1>3. \/ tail' = tail
      \/ \E record \in RecordType : /\ Records(record) /\ record.step = step
                                    /\ record.to = "started"
  BY <1>1, RecordTypes DEF StageStarts, Content
<1>4. Appending
  BY <1>3 DEF Appending
<1>5. Grows
  BY <1>0, <1>4, QuietGrows
<1> DEFINE c == [call[p] EXCEPT !.at = "request"]
<1>6. c \in CallType /\ c.at = "request" /\ c.station = call[p].station
  <2>1. call[p] \in CallType
    BY DEF TypeOK
  <2> QED BY <2>1 DEF CallType, Scheduling
<1>7. Goto(p, c)
  BY DEF StageStarts
<1> HIDE DEF c
<1>8. /\ call' \in [Process -> CallType] /\ call'[p] = c
      /\ \A q \in Process \ {p} : call'[q] = call[q]
  BY <1>6, <1>7, GoesTo
<1>9. CallInv(p)'
  <2>1. PICK n : n = call[p].station
    OBVIOUS
  <2>2. Passed(n)'
    BY <1>0, <1>5, <2>1, PassedStays DEF CallInv
  <2>3. Kind(p)' = "stage"
    BY <1>0, <1>6, <1>8 DEF Kind
  <2> QED BY <1>0, <1>6, <1>8, <2>1, <2>2, <2>3 DEF CallInv, Scheduling, InHand
<1>10. ASSUME ~overlapped, SequentialInv PROVE \A s \in Extension : Single(s)'
  <2>1. CASE tail' = tail
    BY <1>10, <2>1 DEF SequentialInv, Single, At
  <2>2. CASE tail' # tail
    BY <1>2, <1>3, <1>10, <2>2, SingleStays DEF SequentialInv
  <2> QED BY <2>1, <2>2
<1> QED BY <1>0, <1>4, <1>6, <1>8, <1>9, <1>10 DEF Acts, Moved, Orderly, InHand, Scheduling

\* A stage walked past is completed, publish with its artifacts.
LEMMA StageRequestsStep ==
  ASSUME TypeOK, WalkInv, NEW p \in Process, StageRequests(p)
  PROVE  Acts(p) /\ UNCHANGED worldVars
<1>0. /\ CallInv(p) /\ call[p] # Idle /\ Kind(p) = "stage" /\ UNCHANGED worldVars
      /\ call[p].station \in 1 .. LastStation
  <2>1. CallInv(p) /\ call[p].at = "request" /\ Idle.at = "idle"
    BY DEF WalkInv, StageRequests, Idle
  <2> QED BY <2>1 DEF CallInv, StageRequests
<1>1. PICK n \in 1 .. LastStation : n = call[p].station
  BY <1>0
<1>2. PICK step \in Stage : step = StageNow(p)
  BY <1>0, SlotKinds DEF StageNow
<1>3. step = StageAt(n) /\ Slot(n)[2] = "stage"
  BY <1>0, <1>1, <1>2 DEF StageNow, Kind
<1>4. step \notin Extension
  BY ExtensionAssumption
<1>5. ASSUME Appending, Done(step)', Onward(p)
      PROVE  Moved(p) /\ call'[p].at \notin InHand
  <2>1. Grows
    BY <1>0, <1>5, QuietGrows
  <2>2. Behind(n)'
    BY <1>3, <1>5 DEF Behind, Anchored
  <2> QED BY <1>0, <1>1, <1>5, <2>1, <2>2, Passing
<1>6. CASE At(step, "completed") # {} /\ Onward(p) /\ tail' = tail
  <2>1. Appending /\ Done(step)'
    BY <1>6 DEF Appending, Done, At
  <2>2. Moved(p) /\ call'[p].at \notin InHand
    BY <1>5, <1>6, <2>1
  <2> QED BY <1>0, <1>6, <2>1, <2>2, QuietOrder DEF Acts
<1>7. CASE Admitted(step) /\ Records(Record(step, "completed", None)) /\ Onward(p)
  <2>1. PICK record \in RecordType : Records(record) /\ record.step = step /\ record.to = "completed"
    BY <1>7, RecordTypes DEF Content
  <2>2. Appending /\ Done(step)'
    BY <1>7, <2>1, RecordedIsDone DEF Appending, Admitted, Done
  <2>3. Moved(p) /\ call'[p].at \notin InHand
    BY <1>5, <1>7, <2>2
  <2>4. ASSUME ~overlapped, SequentialInv PROVE \A s \in Extension : Single(s)'
    BY <1>4, <2>1, <2>4, SingleStays DEF SequentialInv
  <2> QED BY <1>0, <2>2, <2>3, <2>4 DEF Acts, Orderly
<1>8. CASE Goto(p, Idle) /\ tail' = tail
  <2>1. Moved(p) /\ call'[p] = Idle /\ Appending
    BY <1>8, Stopping DEF Appending
  <2>2. call'[p].at \notin InHand
    BY <2>1 DEF Idle, InHand, Scheduling
  <2> QED BY <1>0, <1>8, <2>1, <2>2, QuietOrder DEF Acts
<1> QED BY <1>0, <1>2, <1>6, <1>7, <1>8 DEF StageRequests

-----------------------------------------------------------------------------
(* The end of the walk.                                                    *)

\* Everything is behind a call that is past the last station.
LEMMA WalkedThrough ==
  ASSUME WalkInv, Passed(LastStation + 1)
  PROVE  /\ \A m \in Path : Done(m)
         /\ \A a \in Ids(Artifacts) : Done(a)
         /\ \A h \in Ids(Hooks) : Done(h) \/ HooksExcused
<1>1. \A n \in 1 .. LastStation : Behind(n)
  BY Layout DEF Passed
<1>2. Declared["hook"] = Hooks /\ Declared["mutation"] = Mutations
  BY DEF Declared
<1>3. ASSUME NEW i \in DOMAIN Mutations PROVE Done(Mutations[i].id)
  <2>1. PICK n \in 1 .. LastStation : Anchored("mutation", i, n)
    BY <1>2, ExtensionHasStation DEF Kinds
  <2> QED BY <1>1, <2>1 DEF Behind
<1>4. ASSUME NEW i \in DOMAIN Hooks PROVE Done(Hooks[i].id) \/ HooksExcused
  <2>1. PICK n \in 1 .. LastStation : Anchored("hook", i, n)
    BY <1>2, ExtensionHasStation DEF Kinds
  <2> QED BY <1>1, <2>1 DEF Behind
<1>5. Done("publish")
  <2>1. PICK n \in 1 .. LastStation : Slot(n)[2] = "stage" /\ StageAt(n) = "publish"
    BY ExtensionAssumption, StageHasStation
  <2> QED BY <1>1, <2>1 DEF Behind
<1> QED BY <1>3, <1>4, <1>5 DEF WalkInv, Path, Ids

LEMMA CollectsStep ==
  ASSUME TypeOK, WalkInv, NEW p \in Process, Collects(p)
  PROVE  Acts(p) /\ UNCHANGED worldVars
<1>0. /\ CallInv(p) /\ call[p] # Idle /\ tail' = tail /\ UNCHANGED worldVars
      /\ Passed(LastStation + 1) /\ call[p].station = LastStation + 1
  <2>1. CallInv(p) /\ call[p].at = "collect" /\ Idle.at = "idle"
    BY DEF WalkInv, Collects, Idle
  <2>2. call[p] # Idle /\ Passed(call[p].station) /\ call[p].station = LastStation + 1
    BY <2>1 DEF CallInv
  <2> QED BY <2>1, <2>2 DEF Collects
<1> DEFINE bytes == [m \in CompletedMutations |-> files[Owner(p)][m]]
<1>1. CASE Goto(p, Idle)
  <2>1. Moved(p) /\ call'[p] = Idle /\ Appending
    BY <1>0, <1>1, Stopping DEF Appending
  <2>2. call'[p].at \notin InHand
    BY <2>1 DEF Idle, InHand, Scheduling
  <2> QED BY <1>0, <2>1, <2>2, QuietOrder DEF Acts
<1>2. CASE /\ \A m \in CompletedMutations : bytes[m] # Absent
           /\ Goto(p, [call[p] EXCEPT !.at = "mint", !.seen = bytes])
  <2>1. CompletedMutations = Path
    BY <1>0, WalkedThrough DEF CompletedMutations, Done
  <2>2. Owner(p) \in Process \union {"tree"}
    BY DEF Owner, TypeOK
  <2>3. bytes \in [Path -> FileState] /\ bytes \in Bytes
    BY <2>1, <2>2 DEF TypeOK, Bytes
  <2>4. Carries(bytes)
    <3>1. \A m \in Path : bytes[m] \in {Planned, Edited}
      BY <1>2, <2>1, <2>3 DEF FileState
    <3>2. \A m \in Path : bytes[m] = Edited => edits > 0
      BY <2>1, <2>2 DEF WalkInv
    <3> QED BY <2>3, <3>1, <3>2 DEF Carries
  <2>5. PICK b : b = bytes
    OBVIOUS
  <2> HIDE DEF bytes
  <2> DEFINE c == [call[p] EXCEPT !.at = "mint", !.seen = b]
  <2>6. c \in CallType /\ c.at = "mint" /\ c.seen = b /\ c.station = LastStation + 1
    <3>1. call[p] \in CallType /\ b \in Content \union Bytes
      BY <2>3, <2>5 DEF TypeOK
    <3> QED BY <1>0, <3>1 DEF CallType, Scheduling
  <2>7. Goto(p, c)
    BY <1>2, <2>5
  <2> HIDE DEF c
  <2>8. /\ call' \in [Process -> CallType] /\ call'[p] = c
        /\ \A q \in Process \ {p} : call'[q] = call[q]
    BY <2>6, <2>7, GoesTo
  <2>9. CallInv(p)'
    <3>1. Appending
      BY <1>0 DEF Appending
    <3>2. Grows
      BY <1>0, <3>1, QuietGrows
    <3>3. PICK n : n = LastStation + 1
      OBVIOUS
    <3>4. Passed(n)'
      BY <1>0, <3>2, <3>3, PassedStays
    <3>5. Carries(b)'
      BY <1>0, <2>4, <2>5 DEF Carries, worldVars, boundVars
    <3>6. LastStation + 1 \in 1 .. LastStation + 1
      BY Layout
    <3> QED BY <2>6, <2>8, <3>3, <3>4, <3>5, <3>6 DEF CallInv, Scheduling, InHand
  <2>10. call'[p].at \notin InHand
    BY <2>6, <2>8 DEF InHand, Scheduling
  <2> QED BY <1>0, <2>8, <2>9, <2>10, QuietOrder DEF Acts, Moved, Appending
<1> QED BY <1>1, <1>2 DEF Collects

\* A step of a call in progress keeps the calls sequential.
LEMMA InSequence ==
  ASSUME TypeOK, SequentialInv, overlapped' = overlapped, NEW p \in Process,
         Moved(p), Orderly(p), call[p] # Idle
  PROVE  SequentialInv'
<1> SUFFICES ASSUME ~overlapped
             PROVE  /\ \A q, r \in Process : call'[q] # Idle /\ call'[r] # Idle => q = r
                    /\ \A s \in Extension : Single(s)'
                    /\ \A q \in Process : call'[q].at \in InHand => ~Done(Current(q))'
  BY DEF SequentialInv
<1>1. \A q \in Process : call'[q] # Idle => q = p
  BY DEF SequentialInv, Moved
<1>2. \A q \in Process : call'[q].at \in InHand => q = p
  BY <1>1 DEF Idle, InHand, Scheduling
<1> QED BY <1>1, <1>2 DEF Orderly

\* The scheduler of the updater writes what the plan re-derives.
LEMMA MutationWritesStep ==
  ASSUME TypeOK, WalkInv, NEW p \in Process, MutationWrites(p)
  PROVE  TypeOK' /\ WalkInv' /\ Moved(p) /\ Orderly(p) /\ call[p] # Idle
<1>0. /\ CallInv(p) /\ call[p].at \in Scheduling /\ call[p].at \in InHand /\ call[p].left # {}
      /\ Kind(p) = "mutation" /\ UNCHANGED <<tail, claimed, seam, tag, edits, overlapped>>
  <2>1. CallInv(p) /\ call[p].at = "act" /\ Idle.at = "idle"
    BY DEF WalkInv, MutationWrites, Idle
  <2> QED BY <2>1 DEF CallInv, InHand, Scheduling, MutationWrites, boundVars
<1>1. Appending
  BY <1>0 DEF Appending
<1>2. Grows /\ (Done("publish") => \A a \in Ids(Artifacts) : Done(a))'
  BY <1>0, <1>1, TailStays DEF TypeOK
<1>3. Goto(p, [call[p] EXCEPT !.at = "reread"])
  BY DEF MutationWrites
<1>4. Moved(p) /\ call[p] # Idle /\ Current(p)' = Current(p)
  BY <1>0, <1>2, <1>3, Turning DEF InHand, Scheduling
<1>5. PICK step \in Path : step = Current(p)
  BY <1>0, InTurn
<1>6. PICK owner \in Process \union {"tree"} : owner = Owner(p)
  BY DEF Owner, TypeOK
<1>7. files' = [files EXCEPT ![owner][step] = Planned]
  BY <1>5, <1>6 DEF MutationWrites
<1>8. /\ files' \in [Process \union {"tree"} -> [Path -> FileState]]
      /\ \A o \in Process \union {"tree"}, m \in Path : files'[o][m] = Edited => edits' > 0
  <2>1. Planned \in FileState /\ Planned # Edited
    BY DEF FileState, Planned, Edited
  <2> QED BY <1>0, <1>7, <2>1 DEF TypeOK, WalkInv
<1>9. TypeOK'
  BY <1>0, <1>4, <1>8 DEF TypeOK, Moved
<1>10. \A q \in Process : CallInv(q)'
  BY <1>0, <1>2, <1>4, CallsStay DEF TypeOK
<1>11. TagFollowsExtensions' /\ TagCarriesPlannedBytes'
  BY <1>0, <1>2, TagStays DEF TypeOK
<1>12. WalkInv'
  BY <1>2, <1>8, <1>10, <1>11 DEF WalkInv
<1>13. Orderly(p)
  BY <1>0, <1>4, QuietOrder DEF SequentialInv
<1> QED BY <1>4, <1>9, <1>12, <1>13

\* The tag is made behind everything, of the bytes that were collected.
LEMMA MintsStep ==
  ASSUME TypeOK, WalkInv, NEW p \in Process, Mints(p)
  PROVE  TypeOK' /\ WalkInv' /\ Moved(p) /\ Orderly(p) /\ call[p] # Idle
<1>0. /\ CallInv(p) /\ call[p] # Idle /\ UNCHANGED <<tail, claimed, seam, files, edits, overlapped>>
      /\ Passed(LastStation + 1) /\ Carries(call[p].seen)
  <2>1. CallInv(p) /\ call[p].at = "mint" /\ Idle.at = "idle"
    BY DEF WalkInv, Mints, Idle
  <2>2. call[p] # Idle /\ Passed(call[p].station) /\ call[p].station = LastStation + 1
        /\ Carries(call[p].seen)
    BY <2>1 DEF CallInv
  <2> QED BY <2>1, <2>2 DEF Mints, boundVars
<1>1. Moved(p) /\ call'[p] = Idle
  BY Stopping DEF Mints, Stops
<1>2. Appending
  BY <1>0 DEF Appending
<1>3. Grows /\ (Done("publish") => \A a \in Ids(Artifacts) : Done(a))'
  BY <1>0, <1>2, TailStays DEF TypeOK
<1>4. TypeOK'
  BY <1>0, <1>1 DEF TypeOK, Moved
<1>5. \A q \in Process : CallInv(q)'
  BY <1>0, <1>1, <1>3, CallsStay DEF TypeOK
<1>6. TagFollowsExtensions' /\ TagCarriesPlannedBytes'
  <2>1. CASE tag' = tag
    BY <1>0, <1>3, <2>1, TagStays DEF TypeOK
  <2>2. CASE claimed /\ tag' = {call[p].seen}
    <3>1. \A s \in Extension :
             \/ At(s, "completed") # {}
             \/ s \in Ids(Hooks) /\ \E h \in Ids(Hooks) : Disagrees(h)
      BY <1>0, <2>2, WalkedThrough DEF Extension, Path, Done, HooksExcused
    <3>2. \A s : At(s, "completed")' = At(s, "completed") /\ Disagrees(s)' = Disagrees(s)
      BY <1>0 DEF At, Disagrees, Contents
    <3>3. TagFollowsExtensions'
      BY <3>1, <3>2 DEF TagFollowsExtensions
    <3>4. TagCarriesPlannedBytes'
      BY <1>0, <2>2 DEF TagCarriesPlannedBytes, Carries
    <3> QED BY <3>3, <3>4
  <2> QED BY <2>1, <2>2 DEF Mints
<1>7. WalkInv'
  BY <1>0, <1>3, <1>5, <1>6 DEF WalkInv
<1>8. Orderly(p)
  <2>1. call'[p].at \notin InHand
    BY <1>1 DEF Idle, InHand, Scheduling
  <2> QED BY <1>0, <2>1, QuietOrder
<1> QED BY <1>0, <1>1, <1>4, <1>7, <1>8

\* Every step of a call in progress keeps the invariants.
LEMMA WalkStep ==
  ASSUME TypeOK, WalkInv, SequentialInv, NEW p \in Process, Walk(p)
  PROVE  TypeOK' /\ WalkInv' /\ SequentialInv'
<1>1. ASSUME Acts(p), UNCHANGED worldVars PROVE TypeOK' /\ WalkInv' /\ SequentialInv'
  <2>1. UNCHANGED <<claimed, seam, files, tag, edits, overlapped>>
    BY <1>1 DEF worldVars, boundVars
  <2> QED BY <1>1, <2>1, QuietStep, InSequence DEF Acts
<1>2. CASE LoopEnds(p)
  <2>1. tail' = tail /\ UNCHANGED worldVars
    BY <1>2 DEF LoopEnds
  <2>2. Moved(p) /\ call[p] # Idle /\ call'[p].at \notin InHand
    BY <1>2, LoopEndsStep
  <2>3. Orderly(p) /\ Appending
    BY <2>1, <2>2, QuietOrder DEF Appending
  <2> QED BY <1>1, <2>1, <2>2, <2>3 DEF Acts
<1>3. CASE \/ Starts(p) \/ HookScans(p) \/ ArtifactScans(p) \/ MutationScans(p)
           \/ HookGuards(p) \/ ArtifactGuards(p) \/ MutationGuards(p)
           \/ EffectRuns(p) \/ MutationRereads(p) \/ MutationReconciles(p)
  BY <1>1, <1>3, StartsStep, ScansStep, HandlesStep
<1>4. CASE HookSettles(p) \/ ArtifactSettles(p) \/ MutationSettles(p)
  BY <1>1, <1>4, SettlesStep DEF HookSettles, ArtifactSettles, MutationSettles, Kinds
<1>5. CASE StageStarts(p) \/ StageRequests(p) \/ Collects(p)
  BY <1>1, <1>5, StageStartsStep, StageRequestsStep, CollectsStep
<1>6. CASE MutationWrites(p)
  BY <1>6, MutationWritesStep, InSequence DEF MutationWrites, boundVars
<1>7. CASE Mints(p)
  BY <1>7, MintsStep, InSequence DEF Mints, boundVars
<1> QED BY <1>2, <1>3, <1>4, <1>5, <1>6, <1>7 DEF Walk

-----------------------------------------------------------------------------
(* The steps outside a call in progress.                                   *)

\* A call that begins follows the others, or overlaps them for good.
LEMMA BeginsInSequence ==
  ASSUME TypeOK, SequentialInv, Begins, tail' = tail, NEW p \in Process, Moved(p),
         call'[p].at \notin InHand
  PROVE  SequentialInv'
<1> SUFFICES ASSUME ~overlapped'
             PROVE  /\ \A q, r \in Process : call'[q] # Idle /\ call'[r] # Idle => q = r
                    /\ \A s \in Extension : Single(s)'
                    /\ \A q \in Process : call'[q].at \in InHand => ~Done(Current(q))'
  BY DEF SequentialInv
<1>1. ~overlapped /\ \A q \in Process : call[q] = Idle
  BY DEF Begins
<1>2. \A q \in Process : call'[q] # Idle => q = p
  BY <1>1 DEF Moved
<1>3. \A q \in Process : call'[q].at \notin InHand
  BY <1>2 DEF Idle, InHand, Scheduling
<1>4. \A s \in Extension : Single(s)'
  BY <1>1 DEF SequentialInv, Single, At
<1> QED BY <1>2, <1>3, <1>4

LEMMA RunsStep ==
  ASSUME TypeOK, WalkInv, SequentialInv, NEW p \in Process, Runs(p)
  PROVE  TypeOK' /\ WalkInv' /\ SequentialInv'
<1>1. \A n \in 1 .. LastStation : n < 1 => Behind(n)'
  BY Layout
<1>2. Goto(p, Walking(1, "carried")) /\ 1 \in 1 .. LastStation + 1
  BY Layout DEF Runs
<1>3. Moved(p) /\ call'[p].at \notin InHand
  BY <1>1, <1>2, Entering
<1>4. TypeOK' /\ WalkInv'
  BY <1>3, QuietStep DEF Runs, Begins, Appending
<1> QED BY <1>3, <1>4, BeginsInSequence DEF Runs

\* The first stage with a step uncompleted: those before it have none.
LEMMA EntryIsFirst ==
  ASSUME Uncompleted # {}
  PROVE  /\ EntryStage \in 1 .. Len(Stages)
         /\ \A j \in 1 .. EntryStage - 1 : StepsOf(Stages[j]) \intersect Uncompleted = {}
<1> DEFINE open == {i \in DOMAIN Stages : StepsOf(Stages[i]) \intersect Uncompleted # {}}
<1>0. DOMAIN Stages = 1 .. Len(Stages) /\ Len(Stages) \in Nat
  BY Layout
<1>1. PICK s \in Stage \union Extension : s \in Uncompleted
  BY DEF Uncompleted
<1>2. \E stage \in Stage : s \in StepsOf(stage)
  <2>1. CASE s \in Stage
    BY <2>1 DEF StepsOf
  <2>2. CASE s \in Extension
    <3>1. PICK kind \in Kinds : s \in Ids(Declared[kind])
      BY <2>2 DEF Extension, Kinds, Declared
    <3>2. PICK i \in DOMAIN Declared[kind] : s = Declared[kind][i].id
      BY <3>1 DEF Ids
    <3>3. Declared[kind][i] \in ToSet(Declared[kind]) /\ Declared[kind][i].stage \in Stage
      BY <3>2, ExtensionAssumption DEF ToSet
    <3> QED BY <3>2, <3>3 DEF StepsOf
  <2> QED BY <1>1, <2>1, <2>2
<1>3. open # {} /\ open \subseteq Nat
  <2>1. PICK i \in DOMAIN Stages : s \in StepsOf(Stages[i])
    BY <1>2 DEF Stage, ToSet
  <2> QED BY <1>0, <1>1, <2>1
<1>4. PICK i \in open : \A j \in open : i <= j
  BY <1>3, Least
<1>5. ASSUME NEW j \in 1 .. i - 1 PROVE StepsOf(Stages[j]) \intersect Uncompleted = {}
  <2>1. j \in DOMAIN Stages /\ ~(i <= j)
    BY <1>0, <1>4, <1>5
  <2> QED BY <1>4, <2>1
<1>6. \E k \in DOMAIN Stages :
        /\ StepsOf(Stages[k]) \intersect Uncompleted # {}
        /\ \A j \in 1 .. k - 1 : StepsOf(Stages[j]) \intersect Uncompleted = {}
  BY <1>4, <1>5
<1>7. EntryStage = CHOOSE k \in DOMAIN Stages :
        /\ StepsOf(Stages[k]) \intersect Uncompleted # {}
        /\ \A j \in 1 .. k - 1 : StepsOf(Stages[j]) \intersect Uncompleted = {}
  BY DEF EntryStage
<1> QED BY <1>0, <1>6, <1>7

\* What belongs to a stage that has nothing uncompleted is behind a call.
LEMMA NothingOpen ==
  ASSUME TypeOK, NEW n \in 1 .. LastStation, StepsOf(StageAt(n)) \intersect Uncompleted = {}
  PROVE  Behind(n)
<1>1. \A s \in StepsOf(StageAt(n)) : s \in Stage \union Extension => Done(s)
  <2> SUFFICES ASSUME NEW s \in StepsOf(StageAt(n)), s \in Stage \union Extension PROVE Done(s)
    OBVIOUS
  <2>1. StepState(s) = "completed"
    BY DEF Uncompleted
  <2> QED BY <2>1, CompletedIsDone
<1>2. Done(StageAt(n))
  BY <1>1, SlotKinds DEF StepsOf
<1>3. ASSUME NEW kind \in Kinds, NEW i \in DOMAIN Declared[kind], Anchored(kind, i, n)
      PROVE  Done(Declared[kind][i].id)
  <2>1. Declared[kind][i] \in ToSet(Declared[kind]) /\ Declared[kind][i].stage = StageAt(n)
    BY <1>3 DEF Anchored, ToSet
  <2>2. Declared[kind][i].id \in StepsOf(StageAt(n))
    BY <2>1 DEF StepsOf
  <2>3. Declared[kind][i].id \in Extension
    BY DEF Extension, Ids, Kinds, Declared
  <2> QED BY <1>1, <2>2, <2>3
<1>4. Declared["hook"] = Hooks /\ Declared["mutation"] = Mutations
      /\ "hook" \in Kinds /\ "mutation" \in Kinds
  BY DEF Declared, Kinds
<1> QED BY <1>2, <1>3, <1>4 DEF Behind

\* A resumed call has behind it what it does not walk again.
LEMMA ResumesStep ==
  ASSUME TypeOK, WalkInv, SequentialInv, NEW p \in Process, Resumes(p)
  PROVE  TypeOK' /\ WalkInv' /\ SequentialInv'
<1>0. UNCHANGED <<tail, claimed, seam, files, tag, edits>> /\ Begins /\ Grows
  <2>1. UNCHANGED <<tail, claimed, seam, files, tag, edits>> /\ Begins
    BY DEF Resumes
  <2> QED BY <2>1, StepGrows DEF TypeOK
<1>1. PICK mode \in {"durable", "carried"} : mode = IF carried[p] = None THEN "durable" ELSE "carried"
  OBVIOUS
<1>2. \/ Uncompleted # {} /\ Goto(p, Walking(7 * (EntryStage - 1) + 1, mode))
      \/ Uncompleted = {} /\ Goto(p, Walking(LastStation + 1, mode))
  BY <1>1 DEF Resumes, Verdict
<1>3. CASE Uncompleted # {} /\ Goto(p, Walking(7 * (EntryStage - 1) + 1, mode))
  <2>1. PICK entry \in 1 .. Len(Stages) : entry = EntryStage
    BY <1>3, EntryIsFirst
  <2>2. 7 * (entry - 1) + 1 \in 1 .. LastStation + 1
    BY Layout DEF LastStation
  <2>3. ASSUME NEW n \in 1 .. LastStation, n < 7 * (entry - 1) + 1 PROVE Behind(n)'
    <3>1. ((n - 1) \div 7) + 1 \in 1 .. entry - 1
      BY <2>3, SlotKinds, Layout
    <3>2. StepsOf(StageAt(n)) \intersect Uncompleted = {}
      BY <1>3, <2>1, <3>1, EntryIsFirst DEF StageAt
    <3> QED BY <1>0, <3>2, NothingOpen, BehindStays
  <2>4. Goto(p, Walking(7 * (entry - 1) + 1, mode))
    BY <1>3, <2>1
  <2>5. Moved(p) /\ call'[p].at \notin InHand
    BY <2>2, <2>3, <2>4, Entering
  <2> QED BY <1>0, <2>5, QuietStep, BeginsInSequence DEF Appending
<1>4. CASE Uncompleted = {} /\ Goto(p, Walking(LastStation + 1, mode))
  <2>1. ASSUME NEW n \in 1 .. LastStation PROVE Behind(n)'
    BY <1>0, <1>4, NothingOpen, BehindStays
  <2>2. PICK from \in 1 .. LastStation + 1 : from = LastStation + 1
    BY Layout
  <2>3. Goto(p, Walking(from, mode))
    BY <1>4, <2>2
  <2>4. Moved(p) /\ call'[p].at \notin InHand
    BY <2>1, <2>3, Entering
  <2> QED BY <1>0, <2>4, QuietStep, BeginsInSequence DEF Appending
<1> QED BY <1>2, <1>3, <1>4

\* A step that moves no call: what was completed was and stays.
LEMMA NobodyMoves ==
  ASSUME TypeOK, WalkInv, SequentialInv, UNCHANGED <<call, tag, seam, overlapped>>,
         Appending, claimed' \in BOOLEAN, claimed' => claimed, edits' \in Nat, edits' >= edits,
         files' \in [Process \union {"tree"} -> [Path -> FileState]],
         \A o \in Process \union {"tree"}, m \in Path : files'[o][m] = Edited => edits' > 0,
         \A s \in Extension : Single(s) => Single(s)',
         \A s \in Extension : Done(s)' => Done(s)
  PROVE  TypeOK' /\ WalkInv' /\ SequentialInv'
<1>1. /\ Grows /\ tail' \in Seq(RecordType)
      /\ (Done("publish") => \A a \in Ids(Artifacts) : Done(a))'
  BY TailStays
<1>2. TypeOK'
  BY <1>1 DEF TypeOK
<1>3. \A q \in Process : CallInv(q)'
  BY <1>1, CallStays DEF WalkInv, TypeOK
<1>4. TagFollowsExtensions' /\ TagCarriesPlannedBytes'
  BY <1>1, TagStays
<1>5. WalkInv'
  BY <1>1, <1>3, <1>4 DEF WalkInv
<1>6. ASSUME ~overlapped, NEW q \in Process, call[q].at \in InHand PROVE ~Done(Current(q))'
  <2>1. CallInv(q) /\ call[q] # Idle /\ call[q].at \in Scheduling
    BY <1>6 DEF WalkInv, Idle, InHand, Scheduling
  <2>2. PICK step \in Extension : step = Current(q)
    BY <1>6, <2>1, InTurn DEF CallInv
  <2>3. Current(q)' = step
    BY <2>2 DEF Current, Turned, Kind
  <2>4. Done(Current(q))' <=> Done(step)'
    BY <2>3 DEF Done, At
  <2> QED BY <1>6, <2>2, <2>4 DEF SequentialInv
<1>7. SequentialInv'
  BY <1>6 DEF SequentialInv
<1> QED BY <1>2, <1>5, <1>7

LEMMA ResolvesStep ==
  ASSUME TypeOK, WalkInv, SequentialInv, NEW p \in Process, Resolves(p)
  PROVE  TypeOK' /\ WalkInv' /\ SequentialInv'
<1>1. PICK record \in RecordType : Records(record) /\ record.to = "resolved"
  <2>1. PICK step \in Uncompleted : Records(Record(step, "resolved", None))
    BY DEF Resolves
  <2> QED BY <2>1, RecordTypes DEF Uncompleted, Content
<1>2. Appending
  BY <1>1 DEF Appending
<1>3. \A s \in Extension : Done(s)' => Done(s)
  BY <1>1, NothingCompleted
<1>4. ASSUME NEW s \in Extension, Single(s) PROVE Single(s)'
  <2>1. CASE tail' = tail
    BY <1>4, <2>1 DEF Single, At
  <2>2. CASE tail' = Append(tail, record)
    <3>1. /\ At(s, "completed")' = At(s, "completed")
          /\ At(s, "started")' = At(s, "started")
          /\ At(s, "failed")' = At(s, "failed")
      BY <1>1, <2>2, AtOfAppend
    <3> QED BY <1>4, <3>1 DEF Single
  <2> QED BY <1>1, <2>1, <2>2, Appends
<1> QED BY <1>2, <1>3, <1>4, NobodyMoves DEF Resolves, TypeOK, WalkInv

\* The claim passes, or somebody edits a file.
LEMMA WorldStep ==
  ASSUME TypeOK, WalkInv, SequentialInv, ClaimPasses \/ \E m \in Path : OutsideEdits(m)
  PROVE  TypeOK' /\ WalkInv' /\ SequentialInv'
<1>0. /\ tail' = tail /\ UNCHANGED <<call, tag, seam, overlapped>>
      /\ claimed' \in BOOLEAN /\ (claimed' => claimed)
  <2>1. CASE ClaimPasses
    BY <2>1 DEF ClaimPasses, TypeOK, boundVars
  <2>2. CASE \E m \in Path : OutsideEdits(m)
    BY <2>2 DEF OutsideEdits, TypeOK
  <2> QED BY <2>1, <2>2
<1>1. /\ files' \in [Process \union {"tree"} -> [Path -> FileState]]
      /\ edits' \in Nat /\ edits' >= edits
      /\ \A o \in Process \union {"tree"}, m \in Path : files'[o][m] = Edited => edits' > 0
  <2>1. CASE ClaimPasses
    BY <2>1 DEF ClaimPasses, TypeOK, WalkInv, boundVars
  <2>2. ASSUME NEW m \in Path, OutsideEdits(m)
        PROVE  /\ files' \in [Process \union {"tree"} -> [Path -> FileState]]
               /\ edits' = edits + 1
    BY <2>2 DEF OutsideEdits, TypeOK, FileState
  <2> QED BY <2>1, <2>2 DEF TypeOK
<1>2. Appending /\ (\A s \in Extension : Single(s) => Single(s)')
      /\ (\A s \in Extension : Done(s)' => Done(s))
  BY <1>0 DEF Appending, Single, Done, At
<1> QED BY <1>0, <1>1, <1>2, NobodyMoves

\* A death ends the call and takes the process's memory.
LEMMA DiesStep ==
  ASSUME TypeOK, WalkInv, SequentialInv, NEW p \in Process, Dies(p)
  PROVE  TypeOK' /\ WalkInv' /\ SequentialInv'
<1>0. UNCHANGED <<tail, claimed, seam, tag, edits, overlapped>>
      /\ files' = [files EXCEPT ![p] = [m \in Path |-> Absent]]
  BY DEF Dies
<1>1. Moved(p) /\ call'[p] = Idle
  BY Stopping DEF Dies, Goto
<1>2. Appending
  BY <1>0 DEF Appending
<1>3. Grows /\ (Done("publish") => \A a \in Ids(Artifacts) : Done(a))'
  BY <1>0, <1>2, TailStays DEF TypeOK
<1>4. /\ files' \in [Process \union {"tree"} -> [Path -> FileState]]
      /\ \A o \in Process \union {"tree"}, m \in Path : files'[o][m] = Edited => edits' > 0
  <2>1. Absent \in FileState /\ Absent # Edited
    BY DEF FileState, Absent, Edited
  <2> QED BY <1>0, <2>1 DEF TypeOK, WalkInv
<1>5. TypeOK'
  BY <1>0, <1>1, <1>4 DEF TypeOK, Moved
<1>6. \A q \in Process : CallInv(q)'
  BY <1>0, <1>1, <1>3, CallsStay DEF TypeOK
<1>7. WalkInv'
  BY <1>0, <1>3, <1>4, <1>6, TagStays DEF WalkInv, TypeOK
<1>8. ASSUME ~overlapped, NEW q \in Process, call'[q].at \in InHand
      PROVE  ~Done(Current(q))'
  <2>1. q # p
    BY <1>1, <1>8 DEF Idle, InHand, Scheduling
  <2>2. call'[q] = call[q] /\ Current(q)' = Current(q)
    BY <2>1, <1>1 DEF Moved, Current, Turned, Kind
  <2>3. ~Done(Current(q))
    BY <1>8, <2>2 DEF SequentialInv
  <2> QED BY <1>0, <2>2, <2>3 DEF Done, At
<1>9. ASSUME ~overlapped PROVE \A s \in Extension : Single(s)'
  BY <1>0, <1>9 DEF SequentialInv, Single, At
<1>10. ASSUME ~overlapped, NEW q \in Process, NEW r \in Process, call'[q] # Idle, call'[r] # Idle
       PROVE  q = r
  BY <1>1, <1>10 DEF SequentialInv, Moved
<1> QED BY <1>0, <1>5, <1>7, <1>8, <1>9, <1>10 DEF SequentialInv

-----------------------------------------------------------------------------
IInv == TypeOK /\ WalkInv /\ SequentialInv

LEMMA InitIInv == Init => IInv
<1> SUFFICES ASSUME Init PROVE IInv
  OBVIOUS
<1>1. \A step, to : At(step, to) = {}
  BY DEF Init, At
<1>2. TypeOK
  BY DEF Init, TypeOK, FileState, Idle, CallType, Content
<1>3. \A p \in Process : CallInv(p)
  BY DEF Init, CallInv
<1>4. Absent # Edited
  BY DEF Absent, Edited
<1>5. WalkInv
  BY <1>1, <1>3, <1>4
     DEF Init, WalkInv, Done, TagFollowsExtensions, TagCarriesPlannedBytes
<1>6. SequentialInv
  BY <1>1 DEF Init, SequentialInv, Single, Done, Idle, InHand, Scheduling
<1> QED BY <1>2, <1>5, <1>6 DEF IInv

LEMMA NextIInv == IInv /\ [Next]_vars => IInv'
<1> SUFFICES ASSUME IInv, [Next]_vars PROVE IInv'
  OBVIOUS
<1>0. TypeOK /\ WalkInv /\ SequentialInv
  BY DEF IInv
<1>1. CASE UNCHANGED vars
  <2>1. UNCHANGED <<call, tag, seam, overlapped, tail, claimed, edits, files>>
    BY <1>1 DEF vars
  <2>2. Appending /\ (\A s \in Extension : Single(s) => Single(s)')
        /\ (\A s \in Extension : Done(s)' => Done(s))
    BY <2>1 DEF Appending, Single, Done, At
  <2> QED BY <1>0, <2>1, <2>2, NobodyMoves DEF IInv, TypeOK, WalkInv
<1>2. CASE Next
  BY <1>0, <1>2, RunsStep, ResumesStep, WalkStep, ResolvesStep, DiesStep, WorldStep DEF Next, IInv
<1> QED BY <1>1, <1>2

\* The inductive invariant holds always, for every layout, every number of
\* processes and all the bounds.
THEOREM Inductive == Spec => []IInv
BY InitIInv, NextIInv, PTL DEF Spec

\* A tag stands only behind a walk that completed every declared extension,
\* except for hooks behind a refusal whose boundary dropped it.
THEOREM TagBehindExtensions == Spec => []TagFollowsExtensions
<1>1. IInv => TagFollowsExtensions BY DEF IInv, WalkInv
<1> QED BY <1>1, Inductive, PTL

\* The tag carries for every declared mutation the bytes its plan re-derives,
\* if nobody edited the tree, wherever processes died and resumed.
THEOREM TagIsAsPlanned == Spec => []TagCarriesPlannedBytes
<1>1. IInv => TagCarriesPlannedBytes BY DEF IInv, WalkInv
<1> QED BY <1>1, Inductive, PTL

\* Calls that follow one another complete no extension twice.
THEOREM ExtensionsRunOnce == Spec => []SequentialWalksRunOnce
<1>1. ASSUME IInv PROVE SequentialWalksRunOnce
  <2> SUFFICES ASSUME ~overlapped, NEW s \in Extension
               PROVE  Cardinality(At(s, "completed")) <= 1
    BY DEF SequentialWalksRunOnce
  <2>1. \A i, j \in At(s, "completed") : i = j
    BY <1>1 DEF IInv, SequentialInv, Single
  <2>2. CASE At(s, "completed") = {}
    BY <2>2, FS_EmptySet
  <2>3. CASE At(s, "completed") # {}
    <3>1. PICK i \in At(s, "completed") : TRUE
      BY <2>3
    <3>2. At(s, "completed") = {i}
      BY <2>1, <3>1
    <3>3. Cardinality({i}) = 1
      BY FS_Singleton
    <3> QED BY <3>2, <3>3
  <2> QED BY <2>2, <2>3
<1> QED BY <1>1, Inductive, PTL

=============================================================================
