--------------------------- MODULE ExecutionLedger --------------------------
(***************************************************************************)
(* The ledger port (ExecutionLedger of src/execution/types.ts): what its   *)
(* append, appendStart and tail promise the processes that call them.  One *)
(* log is the record stream of one attempt; the streams of two attempts    *)
(* share nothing.  The in-memory ledger (src/execution/ledger.ts) is this  *)
(* module without Absorb and the unreported steps; the git ledger, whose   *)
(* calls span several git commands, is the module GitLedger, shown to      *)
(* implement this one.                                                     *)
(*                                                                         *)
(* A record is known by its canonical bytes: two appends of one record are *)
(* appends of the same value.                                              *)
(***************************************************************************)
EXTENDS Naturals, Sequences

CONSTANTS
  Process,     \* the processes that share the attempt's stream
  Start,       \* write-ahead start records, written by appendStart
  Other,       \* the records append writes: completions, resolutions, ...
  PlanRecord   \* the attempt's plan record

VARIABLES
  log,    \* the attempt's records, append order
  reply   \* the last answer the port gave, and to whom

vars == <<log, reply>>

Record == Start \union Other \union {PlanRecord}

Reply ==
       [to : Process, appended : Start \union Other]
  \union [to : Process, tail : Seq(Record)]
NoReply == [to |-> "nobody"]

Holds(records, record) == \E i \in DOMAIN records : records[i] = record

\* planFingerprint(attemptId) # null.
PlanRecorded(records) == Holds(records, PlanRecord)

\* The content-aware append: the stream's tip holds exactly these bytes.
AtTip(records, record) == records # <<>> /\ records[Len(records)] = record

-----------------------------------------------------------------------------
Init ==
  /\ log = <<>>
  /\ reply = NoReply

Land(record) == log' = Append(log, record)

\* The first half of appendStart: the plan record, once.
OpenPlan ==
  /\ ~PlanRecorded(log)
  /\ Land(PlanRecord)
  /\ UNCHANGED reply

\* A start lands only after its appendStart has opened the plan.
Permitted(record) == record \in Start => PlanRecorded(log)

AppendRecord(p, record) ==
  /\ Permitted(record)
  /\ Land(record)
  /\ reply' = [to |-> p, appended |-> record]

\* The record landed and the caller, told otherwise, is still appending.
AppendUnreported(record) ==
  /\ Permitted(record)
  /\ Land(record)
  /\ UNCHANGED reply

\* The append is satisfied by the tip, whoever wrote it.
Absorb(p, record) ==
  /\ Permitted(record)
  /\ AtTip(log, record)
  /\ reply' = [to |-> p, appended |-> record]
  /\ UNCHANGED log

ReadTail(p) ==
  /\ reply' = [to |-> p, tail |-> log]
  /\ UNCHANGED log

Next ==
  \/ OpenPlan
  \/ \E record \in Start \union Other : AppendUnreported(record)
  \/ \E p \in Process, record \in Start \union Other :
       AppendRecord(p, record) \/ Absorb(p, record)
  \/ \E p \in Process : ReadTail(p)

Spec == Init /\ [][Next]_vars

-----------------------------------------------------------------------------
(* Properties.                                                             *)

TypeOK ==
  /\ log \in Seq(Record)
  /\ reply \in Reply \union {NoReply}

\* "the attempt's plan record is its first, written once": one plan record
\* at most, however many processes open the attempt, and no write-ahead
\* start precedes it, so a tail that records work names the plan it is of.
PlanPrecedesWork ==
  /\ \A i, j \in DOMAIN log : log[i] = PlanRecord /\ log[j] = PlanRecord => i = j
  /\ \A j \in DOMAIN log : log[j] \in Start => \E i \in 1 .. j - 1 : log[i] = PlanRecord

=============================================================================
