---------------------------- MODULE GitClaimStore ---------------------------
(***************************************************************************)
(* The git-backed claim store (src/adapters/git/claim-store-git.ts): one   *)
(* register ref per release line, each commit holding the line's whole     *)
(* claim set and its recorded takeovers.  An acquire or a release is a     *)
(* loop of reads and compare-and-set landings over that ref, interleaved   *)
(* with the loops of other processes; this module implements ClaimStore.   *)
(*                                                                         *)
(* A register commit is a number: a landing extends the ref it was based   *)
(* on, so two commits of one ref are equal only if they are the same       *)
(* landing.  A token is drawn when its claim lands; draws that lose their  *)
(* compare-and-set are never observed.                                     *)
(***************************************************************************)
EXTENDS GitRefs, FiniteSets

CONSTANTS Line, Version, Stream, Sequence, Attempt,
  MaxClaims    \* bound: no acquire is issued once this many claims landed

ASSUME BoundsAssumption == IsFiniteSet(Process) /\ MaxClaims \in Nat /\ MaxFaults \in Nat

VARIABLES
  register,    \* the register ref of each line: tip, claims, supersessions
  nextToken,
  reply,       \* the last answer any process was given
  doing,       \* the call each process is in, and how far
  read         \* the register as the process's current iteration read it

vars == <<register, nextToken, reply, doing, read, faults>>

allClaims == UNION {register[l].claims : l \in Line}
allSupersessions == UNION {register[l].supersessions : l \in Line}

\* A claim may land for every acquire issued, and once more for every
\* unreported landing that was released again before it was re-read.
Port == INSTANCE ClaimStore WITH
          claims <- allClaims,
          supersessions <- allSupersessions,
          MaxClaims <- MaxClaims + Cardinality(Process) + MaxFaults

Absent == [tip |-> 0, claims |-> {}, supersessions |-> {}]
Rest == [op |-> "rest"]

Init ==
  /\ register = [l \in Line |-> Absent]
  /\ nextToken = 1
  /\ reply = Port!NoReply
  /\ doing = [p \in Process |-> Rest]
  /\ read = [p \in Process |-> Absent]
  /\ faults = 0

-----------------------------------------------------------------------------
(* Steps shared by the loops.                                              *)

Goto(p, step) == doing' = [doing EXCEPT ![p] = step]

Return(p, answer) ==
  /\ reply' = [to |-> p, answer |-> answer]
  /\ Goto(p, Rest)
  /\ read' = [read EXCEPT ![p] = Absent]

\* The compare-and-set: the ref moves only if it still is what was read.
Unmoved(p, line) == register[line].tip = read[p].tip

AppendCommit(p, line, heldNext, recordsNext) ==
  register' = [register EXCEPT ![line] =
                 [tip |-> @.tip + 1, claims |-> heldNext, supersessions |-> recordsNext]]

-----------------------------------------------------------------------------
(* acquire.                                                                *)

CallAcquire(p, scope, attempt) ==
  /\ doing[p].op = "rest"
  /\ nextToken <= MaxClaims
  /\ Goto(p, [op |-> "acquire", scope |-> scope, attempt |-> attempt])
  /\ UNCHANGED <<register, nextToken, reply, read, faults>>

\* One read gives the set, the takeovers and the base of the next landing,
\* and adjudication of a held or excluded scope answers from that read.
AcquireReads(p) ==
  LET scope == doing[p].scope
      at == register[scope.line]
  IN
  /\ doing[p].op = "acquire"
  /\ \/ /\ Port!Accepts(scope, at.claims)
        /\ read' = [read EXCEPT ![p] = at]
        /\ Goto(p, [doing[p] EXCEPT !.op = "land"])
        /\ UNCHANGED reply
     \/ /\ ~Port!Accepts(scope, at.claims)
        /\ \E refusal \in Port!Refusals(scope, doing[p].attempt, at.claims, at.supersessions) :
             Return(p, refusal)
  /\ UNCHANGED <<register, nextToken, faults>>

\* Mutant: the update-ref carries no old value.
MutantAcquireAppends(p) ==
  LET scope == doing[p].scope
      taker == [scope |-> scope, token |-> nextToken, holder |-> doing[p].attempt]
  IN
  /\ doing[p].op = "land"
  /\ AppendCommit(p, scope.line, read[p].claims \union {taker},
            Port!MergeSupersessions(read[p].supersessions,
              Port!SupersededLeases(scope, doing[p].attempt, read[p].claims), taker))
  /\ nextToken' = nextToken + 1

\* The whole next set, computed from the read, lands in one compare-and-set.
AcquireAppends(p) ==
  LET scope == doing[p].scope
      taker == [scope |-> scope, token |-> nextToken, holder |-> doing[p].attempt]
  IN
  /\ doing[p].op = "land"
  /\ Unmoved(p, scope.line)
  /\ AppendCommit(p, scope.line, read[p].claims \union {taker},
            Port!MergeSupersessions(read[p].supersessions,
              Port!SupersededLeases(scope, doing[p].attempt, read[p].claims), taker))
  /\ nextToken' = nextToken + 1

AcquireLands(p) ==
  /\ AcquireAppends(p)
  /\ Return(p, [kind |-> "claim",
                claim |-> [scope |-> doing[p].scope, token |-> nextToken,
                           holder |-> doing[p].attempt]])
  /\ UNCHANGED faults

\* update-ref moved the ref and then failed: the re-read finds a moved ref,
\* which reads as a loss, and the loop starts over.
AcquireLandsUnreported(p) ==
  /\ Unreported
  /\ AcquireAppends(p)
  /\ Goto(p, [doing[p] EXCEPT !.op = "acquire"])
  /\ read' = [read EXCEPT ![p] = Absent]
  /\ UNCHANGED reply

\* Mutant: a lost landing is tried again on the base it was read on.
MutantAcquireLoses(p) ==
  /\ doing[p].op = "land"
  /\ ~Unmoved(p, doing[p].scope.line)
  /\ UNCHANGED vars

AcquireLoses(p) ==
  /\ doing[p].op = "land"
  /\ ~Unmoved(p, doing[p].scope.line)
  /\ Goto(p, [doing[p] EXCEPT !.op = "acquire"])
  /\ read' = [read EXCEPT ![p] = Absent]
  /\ UNCHANGED <<register, nextToken, reply, faults>>

-----------------------------------------------------------------------------
(* verify and release.                                                     *)

\* One walk over every register; a token's claim and its takeovers live in
\* the one register of their line, so the walk answers from one commit.
VerifyWalks(p, token) ==
  /\ doing[p].op = "rest"
  /\ \E verdict \in Port!Verdicts(token, allClaims, allSupersessions) : Return(p, verdict)
  /\ UNCHANGED <<register, nextToken, faults>>

\* The walk that resolves the token: absent, or a stable-version record,
\* releases nothing.
ReleaseWalks(p, token) ==
  LET leases == {c \in allClaims : c.token = token /\ c.scope.kind # "stable-version"} IN
  /\ doing[p].op = "rest"
  /\ \/ /\ leases = {}
        /\ Return(p, [kind |-> "released"])
     \/ \E lease \in leases :
          /\ Goto(p, [op |-> "release", token |-> token, line |-> lease.scope.line])
          /\ UNCHANGED <<reply, read>>
  /\ UNCHANGED <<register, nextToken, faults>>

ReleaseReads(p) ==
  LET at == register[doing[p].line] IN
  /\ doing[p].op = "release"
  /\ \/ /\ \E c \in at.claims : c.token = doing[p].token
        /\ read' = [read EXCEPT ![p] = at]
        /\ Goto(p, [doing[p] EXCEPT !.op = "remove"])
        /\ UNCHANGED reply
     \/ /\ \A c \in at.claims : c.token # doing[p].token
        /\ Return(p, [kind |-> "released"])
  /\ UNCHANGED <<register, nextToken, faults>>

ReleaseAppends(p) ==
  /\ doing[p].op = "remove"
  /\ Unmoved(p, doing[p].line)
  /\ AppendCommit(p, doing[p].line, {c \in read[p].claims : c.token # doing[p].token},
            read[p].supersessions)

ReleaseLands(p) ==
  /\ ReleaseAppends(p)
  /\ Return(p, [kind |-> "released"])
  /\ UNCHANGED <<nextToken, faults>>

ReleaseLandsUnreported(p) ==
  /\ Unreported
  /\ ReleaseAppends(p)
  /\ Goto(p, [doing[p] EXCEPT !.op = "release"])
  /\ read' = [read EXCEPT ![p] = Absent]
  /\ UNCHANGED <<nextToken, reply>>

ReleaseLoses(p) ==
  /\ doing[p].op = "remove"
  /\ ~Unmoved(p, doing[p].line)
  /\ Goto(p, [doing[p] EXCEPT !.op = "release"])
  /\ read' = [read EXCEPT ![p] = Absent]
  /\ UNCHANGED <<register, nextToken, reply, faults>>

-----------------------------------------------------------------------------
\* The process dies anywhere in a call, or the call throws: a ref lock that
\* outlives its three attempts, or any other git fault.
Crash(p) ==
  /\ doing[p].op # "rest"
  /\ Goto(p, Rest)
  /\ read' = [read EXCEPT ![p] = Absent]
  /\ UNCHANGED <<register, nextToken, reply, faults>>

Step(p) ==
  \/ AcquireReads(p) \/ AcquireLands(p) \/ AcquireLoses(p)
  \/ ReleaseReads(p) \/ ReleaseLands(p) \/ ReleaseLoses(p)

Next ==
  \E p \in Process :
    \/ \E scope \in Port!Scope, attempt \in Attempt : CallAcquire(p, scope, attempt)
    \/ \E token \in 1 .. nextToken - 1 : VerifyWalks(p, token) \/ ReleaseWalks(p, token)
    \/ Step(p)
    \/ AcquireLandsUnreported(p) \/ ReleaseLandsUnreported(p)
    \/ Crash(p)

Spec == Init /\ [][Next]_vars

\* A synchronous call that is not killed keeps running.
FairSpec == Spec /\ \A p \in Process : WF_vars(Step(p))

-----------------------------------------------------------------------------
(* Properties.                                                             *)

Register ==
  [tip : Nat, claims : SUBSET Port!Claim, supersessions : SUBSET Port!Supersession]

\* A register holds its own line's claims, and a read is only kept between a
\* loop's read and its landing.
TypeOK ==
  /\ \A l \in Line :
       /\ register[l].tip \in Nat
       /\ \A c \in register[l].claims : c \in Port!Claim /\ c.scope.line = l
       /\ \A r \in register[l].supersessions :
            r \in Port!Supersession /\ r.superseded.scope.line = l
  /\ Port!TypeOK
  /\ \A p \in Process :
       /\ doing[p].op \in {"rest", "acquire", "land", "release", "remove"}
       /\ read[p] \in Register
       /\ doing[p].op \notin {"land", "remove"} => read[p] = Absent

\* Whatever the races, lost landings, unreported landings and crashes, the
\* registers behave as one atomic claim store: no lost update, no claim two
\* holders were granted, every answer true at one instant of its call.
ImplementsClaimStore == Port!Spec

\* The loops have no bound of their own.  A loop is thrown back only by a
\* rival's landing, and as long as rivals issue finitely many calls every
\* call is answered (or its process dies).
EveryCallReturns == \A p \in Process : doing[p].op # "rest" ~> doing[p].op = "rest"

=============================================================================
