---------------------------- MODULE ChannelStage ----------------------------
(***************************************************************************)
(* The channel-transition stage (src/app/channels.ts, and its place in the *)
(* walk of src/app/engine.ts) over the git channel store: the processes    *)
(* that drive one attempt through the stage, while other attempts move the *)
(* same channels.  A planned move reads the channel, looks up the prior    *)
(* move the attempt recorded, runs the store's compare-and-set, and        *)
(* appends the move's record; a crash between two of these leaves the      *)
(* stage started, and a resume drives it from its first move again.        *)
(*                                                                         *)
(* The attempt's ledger is one sequence here (GitLedger shows it is), and  *)
(* holds of the stage only the move records and the completion.            *)
(***************************************************************************)
EXTENDS GitChannelStore, FiniteSets

CONSTANTS
  Moves,       \* plannedChannelMoves(planLine): channels and targets, in order
  MaxOutside,  \* bound: moves by others than the attempt's drivers
  MaxFailures  \* bound: drivers that die inside the stage

ASSUME MovesAssumption ==
  /\ Moves \in Seq([channel : Channel, to : Target])
  /\ \A i, j \in DOMAIN Moves : Moves[i].channel = Moves[j].channel => i = j

VARIABLES
  tail,      \* the attempt's records of the stage, append order
  stage,     \* where in the stage each process is
  landings,  \* history: how often the attempt's drivers moved each channel
  outside, failures

vars == <<storeVars, tail, stage, landings, outside, failures>>

Completion == [kind |-> "completed"]
MoveRecord(channel, from, to, observed) ==
  [kind |-> "move", channel |-> channel, from |-> from, to |-> to, fingerprint |-> observed]

Records == {tail[i] : i \in DOMAIN tail}
MoveRecords(channel) == {r \in Records : r.kind = "move" /\ r.channel = channel}

\* An append whose record the tip already holds is absorbed (GitLedger).
Extended(record) ==
  IF tail # <<>> /\ tail[Len(tail)] = record THEN tail ELSE Append(tail, record)

Out == [at |-> "out"]

Init ==
  /\ InitStore
  /\ tail = <<>>
  /\ stage = [p \in Process |-> Out]
  /\ landings = [c \in Channel |-> 0]
  /\ outside = 0 /\ failures = 0

Planned(p) == Moves[stage[p].move]
At(p, next) == stage' = [stage EXCEPT ![p] = next]

\* Mutant: the last move of the list is taken for the end of it.
MutantProceed(p, move) ==
  At(p, [stage[p] EXCEPT !.at = IF move >= Len(Moves) THEN "complete" ELSE "observe",
                         !.move = move, !.observed = Hidden])

\* The next move of the list, or the end of it.
Proceed(p, move) ==
  At(p, [stage[p] EXCEPT !.at = IF move > Len(Moves) THEN "complete" ELSE "observe",
                         !.move = move, !.observed = Hidden])

-----------------------------------------------------------------------------
\* A verified advance of the stage: a completed one is walked past.  `known`
\* is kept for the properties: the moves on record as the driver comes in.
Enters(p) ==
  /\ stage[p] = Out
  /\ Completion \notin Records
  /\ At(p, [at |-> IF Moves = <<>> THEN "complete" ELSE "observe", move |-> 1,
            observed |-> Hidden, known |-> {c \in Channel : MoveRecords(c) # {}}])
  /\ UNCHANGED <<storeVars, tail, landings, outside, failures>>

Observes(p) ==
  /\ stage[p].at = "observe"
  /\ At(p, [stage[p] EXCEPT !.at = "recall", !.observed = pointer[Planned(p).channel]])
  /\ UNCHANGED <<storeVars, tail, landings, outside, failures>>

\* Mutant: the move always assumes what it observed.
MutantAssumed(p) == stage[p].observed

\* recordedPriorTarget: the last move the attempt recorded for the channel,
\* or else the observed target.
Assumed(p) ==
  LET recorded == {i \in DOMAIN tail : tail[i] \in MoveRecords(Planned(p).channel)} IN
  IF recorded = {} THEN stage[p].observed
  ELSE tail[CHOOSE i \in recorded : \A j \in recorded : j <= i].to

Recalls(p) ==
  /\ stage[p].at = "recall"
  /\ CallApply(p, Planned(p).channel, Assumed(p), Planned(p).to)
  /\ At(p, [stage[p] EXCEPT !.at = "apply"])
  /\ UNCHANGED <<tail, landings, outside, failures>>

Landed(p) == landings' = [landings EXCEPT ![apply[p].channel] = @ + 1]

\* The steps of the store's move.
Applies(p) ==
  /\ \/ (Reads(p) \/ Loses(p) \/ Fails(p)) /\ UNCHANGED landings
     \/ (Lands(p) \/ LandsUnreported(p)) /\ Landed(p)
  /\ UNCHANGED <<tail, stage, outside, failures>>

Decided(p) == stage[p].at = "apply" /\ apply[p] = Rest

\* Mutant: a conflict is taken for a move that already stands.
MutantMoved == {"applied", "noop", "conflict"}

\* The outcomes that advance the stage.
Moved == {"applied", "noop"}

\* The record of a decided move, then the next move.
Writes(p) ==
  /\ Decided(p) /\ reply[p].kind \in Moved
  /\ tail' = Extended(MoveRecord(Planned(p).channel, stage[p].observed, Planned(p).to,
                                 reply[p].observed))
  /\ Proceed(p, stage[p].move + 1)
  /\ Takes(p)
  /\ UNCHANGED <<landings, outside, failures>>

\* A conflict or an ambiguous move records nothing and stops the walk.
Stops(p) ==
  /\ Decided(p) /\ reply[p].kind \notin Moved
  /\ At(p, Out)
  /\ Takes(p)
  /\ UNCHANGED <<tail, landings, outside, failures>>

Completes(p) ==
  /\ stage[p].at = "complete"
  /\ tail' = Extended(Completion)
  /\ At(p, Out)
  /\ UNCHANGED <<storeVars, landings, outside, failures>>

\* The process dies, or a git command outside the landing throws.
Dies(p) ==
  /\ failures < MaxFailures
  /\ stage[p] # Out
  /\ Drops(p)
  /\ At(p, Out)
  /\ failures' = failures + 1
  /\ UNCHANGED <<tail, landings, outside>>

\* Another attempt's stage moves the channel.
OutsideMoves(channel, to) ==
  /\ outside < MaxOutside
  /\ pointer[channel] # to
  /\ refs' = [refs EXCEPT ![channel] = Append(@, to)]
  /\ outside' = outside + 1
  /\ UNCHANGED <<apply, reply, faults, tail, stage, landings, failures>>

Drives(p) ==
  \/ Observes(p) \/ Recalls(p) \/ Writes(p) \/ Stops(p) \/ Completes(p)
  \/ StoreStep(p) /\ Applies(p)

Next ==
  \/ \E p \in Process :
       \/ Enters(p) \/ Observes(p) \/ Recalls(p) \/ Applies(p)
       \/ Writes(p) \/ Stops(p) \/ Completes(p) \/ Dies(p)
  \/ \E channel \in Channel, to \in Target : OutsideMoves(channel, to)

Spec == Init /\ [][Next]_vars

\* A walk that is not killed keeps running.
FairSpec == Spec /\ \A p \in Process : WF_vars(Drives(p))

-----------------------------------------------------------------------------
(* Properties.                                                             *)

Record == {Completion} \union
  [kind : {"move"}, channel : Channel, from : Port!State, to : Target, fingerprint : Port!State]

Drivers == [at : {"observe", "recall", "apply", "complete"}, move : 1 .. Len(Moves) + 1,
            observed : Port!State, known : SUBSET Channel]

\* A driver is inside the store's call only between its recall and its
\* record, and past the last move only to complete.
TypeOK ==
  /\ StoreTypeOK
  /\ tail \in Seq(Record)
  /\ stage \in [Process -> Drivers \union {Out}]
  /\ \A p \in Process :
       /\ stage[p] # Out => (stage[p].at = "complete" <=> stage[p].move = Len(Moves) + 1)
       /\ apply[p] # Rest => /\ stage[p].at = "apply"
                             /\ apply[p].channel = Planned(p).channel
                             /\ apply[p].to = Planned(p).to
  /\ landings \in [Channel -> Nat]

\* What a channel has been, the hidden state of an absent ref included.
StatesUpTo(channel, n) == {Hidden} \union {refs[channel][i] : i \in 1 .. n}

\* A recorded move happened: its target stood, its prior stood no later, and
\* its fingerprint is of one of the two.
RecordedMovesHappened ==
  \A r \in Records : r.kind = "move" =>
    /\ r.fingerprint \in {r.from, r.to}
    /\ \E n \in DOMAIN refs[r.channel] :
         refs[r.channel][n] = r.to /\ r.from \in StatesUpTo(r.channel, n)

\* "a half-moved promotion is never reported green": whatever crashed, was
\* raced, or could not be told, a completed stage moved and recorded every
\* planned channel before its completion.
CompletedMeansMoved ==
  \A k \in DOMAIN tail : tail[k] = Completion =>
    \A i \in DOMAIN Moves : \E j \in 1 .. k - 1 :
      tail[j].kind = "move" /\ tail[j].channel = Moves[i].channel /\ tail[j].to = Moves[i].to

\* "an out-of-band drift past the recorded prior classifies `conflict`
\* instead of a silent re-point": a driver that came in when a channel's move
\* was on record does not move that channel.
DriftIsNotRepointed ==
  [][\A p \in Process, c \in Channel :
       apply[p].at = "land" /\ apply'[p] # apply[p] /\ landings'[c] # landings[c]
         => c # apply[p].channel \/ c \notin stage[p].known]_vars

\* The store's loop has no bound of its own: a round is lost only to a
\* rival's landing, so with finitely many rivals a driver gets through the
\* stage or stops.
EveryStageEnds == \A p \in Process : stage[p] # Out ~> stage[p] = Out

\* ChannelTransitionRecord, src/execution/types.ts: "a move whose observed
\* prior target no longer matches ... is `conflict`, never a silent second
\* move".  The attempt's drivers move a channel at most once.
NoSecondMove == \A c \in Channel : landings[c] <= 1

=============================================================================
