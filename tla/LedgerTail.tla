----------------------------- MODULE LedgerTail -----------------------------
(***************************************************************************)
(* The record stream of one attempt and the classifications read off it:   *)
(* the projections of src/execution/ledger.ts and the verdict of           *)
(* classifyResume (src/execution/resume.ts).  All are pure functions of    *)
(* the tail.                                                               *)
(*                                                                         *)
(* Every attempt of a plan carries the plan's own fingerprint, so the plan *)
(* record's fingerprint always matches and the `stale` verdict, which a    *)
(* caller gets for another plan's attempt, has no place here.              *)
(***************************************************************************)
EXTENDS Naturals, Sequences

CONSTANTS
  Stages   \* CANONICAL_STAGES: the stages of a walk, in order

ASSUME StagesAssumption ==
  /\ Stages \in Seq(STRING) /\ Stages # <<>>
  /\ \A i, j \in DOMAIN Stages : Stages[i] = Stages[j] => i = j

Stage == {Stages[i] : i \in DOMAIN Stages}

PlanRecord == [kind |-> "plan"]
AbandonmentRecord == [kind |-> "abandonment"]
ResolutionRecord == [kind |-> "resolution"]
StepRecord(stage, to) == [kind |-> "step", stage |-> stage, to |-> to]

Record ==
  {PlanRecord, AbandonmentRecord, ResolutionRecord}
    \union [kind : {"step"}, stage : Stage, to : {"started", "completed"}]

Holds(tail, record) == \E i \in DOMAIN tail : tail[i] = record

\* An append whose record the tip already holds is absorbed.
Extended(tail, record) ==
  IF tail # <<>> /\ tail[Len(tail)] = record THEN tail ELSE Append(tail, record)

PlanRecorded(tail) == Holds(tail, PlanRecord)
Abandoned(tail) == Holds(tail, AbandonmentRecord)
Resolved(tail) == Holds(tail, ResolutionRecord)
Completed(tail, stage) == Holds(tail, StepRecord(stage, "completed"))

\* The ledger's step state is the stage's last record.
StepState(tail, stage) ==
  LET at == {i \in DOMAIN tail : tail[i].kind = "step" /\ tail[i].stage = stage} IN
  IF at = {} THEN "none" ELSE tail[CHOOSE i \in at : \A j \in at : j <= i].to

\* The stages the ledger does not show as completed, by index: a stage that
\* was started again after its completion is one of them.
Uncompleted(tail) == {i \in DOMAIN Stages : StepState(tail, Stages[i]) # "completed"}

FirstUncompleted(tail) == CHOOSE i \in Uncompleted(tail) : \A j \in Uncompleted(tail) : i <= j

\* A completed record with no start before it: structurally corrupt.
Corrupt(tail) ==
  \E i \in DOMAIN tail :
    /\ tail[i].kind = "step" /\ tail[i].to = "completed"
    /\ \A j \in 1 .. i - 1 : tail[j] # StepRecord(tail[i].stage, "started")

\* classifyResume for an attempt whose process-local state is `state`.  A
\* recorded abandonment makes it throw.
Verdict(tail, state) ==
  IF Abandoned(tail) THEN "throws"
  ELSE IF \/ ~PlanRecorded(tail)
          \/ Corrupt(tail)
          \/ state = "blocked" /\ ~Resolved(tail)
  THEN "escalate"
  ELSE IF Uncompleted(tail) = {} THEN "complete" ELSE "resume"

=============================================================================
