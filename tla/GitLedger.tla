------------------------------ MODULE GitLedger -----------------------------
(***************************************************************************)
(* The git-backed ledger (src/adapters/git/ledger-git.ts): the stream of   *)
(* one attempt is one ref, one commit per record.  An append is at most    *)
(* MaxRounds rounds of reading the ref, classifying the write against the  *)
(* tail and a compare-and-set landing; every tail is served from the       *)
(* process's cache when the ref still is the tip the cached history was    *)
(* walked from.  The calls of several processes interleave at every git    *)
(* command; this module implements ExecutionLedger.                        *)
(*                                                                         *)
(* A commit is determined by its record and its parent (the binding        *)
(* commits with a fixed identity and clock), so a tip is the sequence of   *)
(* records of its first-parent history.                                    *)
(***************************************************************************)
EXTENDS GitRefs, Sequences, FiniteSets

CONSTANTS Start, Other, PlanRecord,
  MaxRecords,  \* bound: no append is issued once the stream holds this many
  MaxRounds    \* MAX_CAS_ATTEMPTS of ledger-git.ts

ASSUME RecordAssumption == PlanRecord \notin Start \union Other /\ Start \intersect Other = {}
ASSUME MaxRoundsAssumption == MaxRounds \in Nat \ {0}

VARIABLES
  stream,  \* the ref: the history of its tip commit
  told,   \* the last answer any process was given
  call,    \* the call each process is in, and how far
  cache    \* each process's walked tail, none or one

ledgerVars == <<stream, told, call, cache, faults>>

Ledger == INSTANCE ExecutionLedger WITH log <- stream, reply <- told

\* A call: what it is after, its next git command, the record it writes or
\* looks for, the base of its round and the rounds it has lost.
At(goal, at, record) ==
  [goal |-> goal, at |-> at, record |-> record, base |-> <<>>, lost |-> 0]

Idle == At("rest", "rest", PlanRecord)

InitLedger ==
  /\ stream = <<>>
  /\ told = Ledger!NoReply
  /\ call = [p \in Process |-> Idle]
  /\ cache = [p \in Process |-> {}]
  /\ faults = 0

Proceed(p, next) == call' = [call EXCEPT ![p] = next]

\* The opening of a #casAppend: `record` is written for `goal`.
CasAppend(p, goal, record) == Proceed(p, At(goal, "base", record))

ReadFor(p, goal, record) == Proceed(p, At(goal, "probe", record))

-----------------------------------------------------------------------------
(* The calls.                                                              *)

CallAppendStart(p, record) ==
  /\ call[p].goal = "rest"
  /\ Len(stream) < MaxRecords
  /\ CasAppend(p, "open", record)
  /\ UNCHANGED <<stream, told, cache, faults>>

CallAppend(p, record) ==
  /\ call[p].goal = "rest"
  /\ Len(stream) < MaxRecords
  /\ CasAppend(p, "append", record)
  /\ UNCHANGED <<stream, told, cache, faults>>

CallTail(p) ==
  /\ call[p].goal = "rest"
  /\ ReadFor(p, "tail", PlanRecord)
  /\ UNCHANGED <<stream, told, cache, faults>>

-----------------------------------------------------------------------------
(* Reading.                                                                *)

\* Mutant: a lost round takes the new base and lands without classifying.
MutantBaseReads(p) ==
  /\ call[p].at = "base"
  /\ Proceed(p, [call[p] EXCEPT !.at = IF call[p].lost = 0 THEN "probe" ELSE "land", !.base = stream])
  /\ UNCHANGED <<stream, told, cache, faults>>

BaseReads(p) ==
  /\ call[p].at = "base"
  /\ Proceed(p, [call[p] EXCEPT !.at = "probe", !.base = stream])
  /\ UNCHANGED <<stream, told, cache, faults>>

\* The record of p's call is in the stream: appendStart still looks it up.
Appended(p) ==
  /\ told' = [to |-> p, appended |-> call[p].record]
  /\ IF call[p].record \in Start THEN ReadFor(p, "confirm", call[p].record) ELSE Proceed(p, Idle)

\* Mutant: the record is looked for in the whole tail.
MutantCarries(records, record) == Ledger!Holds(records, record)

\* The content-aware half of an append: the tip already is this record.
Carries(records, record) == Ledger!AtTip(records, record)

\* What a tail tells the call that read it.
Serve(p, records) ==
  \/ /\ call[p].goal = "open"
     /\ IF Ledger!PlanRecorded(records)
        THEN CasAppend(p, "append", call[p].record)
        ELSE Proceed(p, [call[p] EXCEPT !.at = "land"])
     /\ UNCHANGED told
  \/ /\ call[p].goal = "append"
     /\ IF Carries(records, call[p].record)
        THEN Appended(p)
        ELSE Proceed(p, [call[p] EXCEPT !.at = "land"]) /\ UNCHANGED told
  \/ /\ call[p].goal = "tail"
     /\ told' = [to |-> p, tail |-> records]
     /\ Proceed(p, Idle)
  \/ /\ call[p].goal = "confirm"
     /\ Proceed(p, IF Ledger!Holds(records, call[p].record) THEN Idle ELSE At("lost", "lost", call[p].record))
     /\ UNCHANGED told

Cached(p) == {entry \in cache[p] : entry.tip = stream}

\* The probe reads the ref; a history walked from that tip is served as is.
Probes(p) ==
  /\ call[p].at = "probe"
  /\ \/ \E entry \in Cached(p) : Serve(p, entry.records)
     \/ /\ Cached(p) = {}
        /\ Proceed(p, [call[p] EXCEPT !.at = "walk"])
        /\ UNCHANGED told
  /\ UNCHANGED <<stream, cache, faults>>

\* The history is walked from the ref as it is by now.
Walks(p) ==
  /\ call[p].at = "walk"
  /\ Serve(p, stream)
  /\ cache' = [cache EXCEPT ![p] = {[tip |-> stream, records |-> stream]}]
  /\ UNCHANGED <<stream, faults>>

-----------------------------------------------------------------------------
(* Landing.                                                                *)

Written(p) == IF call[p].goal = "open" THEN PlanRecord ELSE call[p].record

Landing(p) == call[p].at = "land"

\* Mutant: the update-ref carries no old value.
MutantExtends(p) ==
  /\ Landing(p)
  /\ stream' = Append(call[p].base, Written(p))

\* The compare-and-set: the ref still is the base this round read.
Extends(p) ==
  /\ Landing(p)
  /\ stream = call[p].base
  /\ stream' = Append(call[p].base, Written(p))

\* Mutant: the cache follows the ref and forgets the record.
MutantCacheAppendForgets(p) ==
  cache' = [cache EXCEPT ![p] =
              {[tip |-> stream', records |-> entry.records] :
                 entry \in {e \in @ : e.tip = call[p].base}}]

\* A landing extends the cached history it was built on, or drops it.
CacheAppend(p) ==
  cache' = [cache EXCEPT ![p] =
              {[tip |-> stream', records |-> Append(entry.records, Written(p))] :
                 entry \in {e \in @ : e.tip = call[p].base}}]

Lands(p) ==
  /\ Extends(p)
  /\ CacheAppend(p)
  /\ \/ /\ call[p].goal = "open"
        /\ CasAppend(p, "append", call[p].record)
        /\ UNCHANGED told
     \/ /\ call[p].goal = "append"
        /\ Appended(p)
  /\ UNCHANGED faults

\* The next round re-reads and re-classifies; the last one fails closed.
NextRound(p) ==
  Proceed(p, IF call[p].lost + 1 = MaxRounds
          THEN Idle
          ELSE [call[p] EXCEPT !.at = "base", !.lost = @ + 1])

Loses(p) ==
  /\ Landing(p)
  /\ stream # call[p].base
  /\ NextRound(p)
  /\ UNCHANGED <<stream, told, cache, faults>>

\* update-ref moved the ref and then failed: the re-read finds it moved,
\* which reads as a loss.
LandsUnreported(p) ==
  /\ Unreported
  /\ Extends(p)
  /\ NextRound(p)
  /\ UNCHANGED <<told, cache>>

\* The process dies and its cache with it, or the call throws a git fault.
Dies(p) ==
  /\ Proceed(p, Idle)
  /\ cache' = [cache EXCEPT ![p] = {}]
  /\ UNCHANGED <<stream, told, faults>>

NextLedger ==
  \E p \in Process :
    \/ \E record \in Start : CallAppendStart(p, record)
    \/ \E record \in Other : CallAppend(p, record)
    \/ CallTail(p)
    \/ BaseReads(p) \/ Probes(p) \/ Walks(p)
    \/ Lands(p) \/ Loses(p) \/ LandsUnreported(p)
    \/ Dies(p)

SpecLedger == InitLedger /\ [][NextLedger]_ledgerVars

-----------------------------------------------------------------------------
(* Properties.                                                             *)

LedgerTypeOK ==
  /\ stream \in Seq(Ledger!Record)
  /\ \A p \in Process :
       /\ call[p].goal \in {"rest", "open", "append", "tail", "confirm", "lost"}
       /\ call[p].record \in Ledger!Record
       /\ call[p].lost \in 0 .. MaxRounds - 1
       /\ Cardinality(cache[p]) <= 1

\* The races of the processes show as nothing but records appended one at a
\* time, absorbed only by an equal tip, and tails that were the stream at
\* one instant of the read: forward-only, no lost or rewritten record, no
\* stale tail served by a cache.
ImplementsLedger == Ledger!Spec

PlanPrecedesWork == Ledger!PlanPrecedesWork

\* appendStart's last look finds the record it has just appended or seen
\* absorbed: "the ledger lost the step record it just appended" is never
\* thrown.
NothingLost == \A p \in Process : call[p].goal # "lost"

\* "never serving a history the cache does not hold": what the cache would
\* serve for a tip is the history of that tip.
CacheIsHistory == \A p \in Process : \A entry \in cache[p] : entry.records = entry.tip

=============================================================================
