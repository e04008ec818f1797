--------------------------- MODULE RegisterProofs ---------------------------
(***************************************************************************)
(* The claim registers implement the claim port, and the git ledger the    *)
(* ledger port, for any number of processes, calls, unreported landings    *)
(* and crashes.  A loop lands on the ref it read or on none.  What a claim *)
(* loop computed of one line's register is what the port computes of the   *)
(* whole store, because adjudication never looks at another line; what a   *)
(* ledger call learned of the stream stays true, because it only grows.    *)
(***************************************************************************)
EXTENDS GitClaimStore, GitLedger, FiniteSetTheorems, TLAPS

Acquiring == [op : {"acquire", "land"}, scope : Port!Scope, attempt : Attempt]
Releasing == [op : {"release", "remove"}, token : Port!Token, line : Line]
CallType == {Rest} \union Acquiring \union Releasing

\* A register holds its own line's claims and takeovers, a token names one
\* claim of all the registers, and the next token none.
StoreInv ==
  /\ register \in [Line -> Register]
  /\ nextToken \in Port!Token
  /\ \A l \in Line :
       /\ \A c \in register[l].claims : c.scope.line = l /\ c.token < nextToken
       /\ \A r \in register[l].supersessions : r.superseded.scope.line = l
  /\ \A c, d \in allClaims : c.token = d.token => c = d

\* What a loop has read of a ref is what the ref holds until the ref moves,
\* and it moves forward only.
Base(at, line) ==
  /\ at.tip <= register[line].tip
  /\ at.tip = register[line].tip => at = register[line]

\* What a loop of release is after, as long as it stands.
Leased(token, line) ==
  \A c \in allClaims :
    c.token = token => c.scope.line = line /\ c.scope.kind # "stable-version"

Sound(step, at) ==
  /\ step.op = "land" => Base(at, step.scope.line) /\ Port!Accepts(step.scope, at.claims)
  /\ step.op \in {"release", "remove"} =>
       step.token < nextToken /\ Leased(step.token, step.line)
  /\ step.op = "remove" => Base(at, step.line)

CallsInv ==
  /\ doing \in [Process -> CallType]
  /\ read \in [Process -> Register]
  /\ \A p \in Process : Sound(doing[p], read[p])

\* An acquire in progress may still land; what landed beyond the bound on the
\* calls was asked for below it, or landed unreported.
Asking == {p \in Process : doing[p].op \in {"acquire", "land"}}
Budgeted ==
  /\ faults \in Nat /\ faults <= MaxFaults
  /\ nextToken + Cardinality(Asking) <= MaxClaims + 1 + Cardinality(Process) + faults

IInv == StoreInv /\ CallsInv /\ Budgeted

-----------------------------------------------------------------------------
(* Adjudication reads the registers of one line only.                      *)

\* The claims and takeovers of a line are those of its register.
LEMMA LinesApart ==
  ASSUME StoreInv, NEW line \in Line
  PROVE  /\ register[line].claims = {c \in allClaims : c.scope.line = line}
         /\ register[line].supersessions
                = {r \in allSupersessions : r.superseded.scope.line = line}
BY DEF StoreInv, allClaims, allSupersessions

\* What may be claimed of a line, its register alone says.
LEMMA AcceptsByLine ==
  ASSUME StoreInv, NEW scope \in Port!Scope
  PROVE  /\ scope.line \in Line
         /\ Port!Accepts(scope, allClaims) <=> Port!Accepts(scope, register[scope.line].claims)
<1>1. scope.line \in Line
  BY DEF Port!Scope, Port!StableScope, Port!PrereleaseScope, Port!LineScope
<1>2. \A c \in allClaims :
         c.scope.line # scope.line => c.scope # scope /\ ~Port!ExcludedBy(scope, c.scope)
  BY DEF Port!ExcludedBy
<1>3. register[scope.line].claims = {c \in allClaims : c.scope.line = scope.line}
  BY <1>1, LinesApart
<1> QED BY <1>1, <1>2, <1>3 DEF Port!Accepts

\* And whose refusal it is.
LEMMA RefusalsByLine ==
  ASSUME StoreInv, NEW scope \in Port!Scope, NEW attempt
  PROVE  Port!Refusals(scope, attempt, register[scope.line].claims,
                       register[scope.line].supersessions)
           = Port!Refusals(scope, attempt, allClaims, allSupersessions)
<1> DEFINE at == register[scope.line]
           same == {c \in allClaims : c.scope = scope}
<1>1. /\ at.claims = {c \in allClaims : c.scope.line = scope.line}
      /\ at.supersessions = {r \in allSupersessions : r.superseded.scope.line = scope.line}
  BY AcceptsByLine, LinesApart
<1>2. {c \in at.claims : c.scope = scope} = same
  BY <1>1
<1>3. {d \in at.claims : Port!ExcludedBy(scope, d.scope)}
        = {d \in allClaims : Port!ExcludedBy(scope, d.scope)}
  BY <1>1 DEF Port!ExcludedBy
<1>4. ASSUME NEW winner \in same
      PROVE  Port!Adjudicate(winner, attempt, at.supersessions)
               = Port!Adjudicate(winner, attempt, allSupersessions)
  <2>1. {r \in at.supersessions : r.superseded.scope = winner.scope}
          = {r \in allSupersessions : r.superseded.scope = winner.scope}
    BY <1>1
  <2> QED BY <2>1 DEF Port!Adjudicate
<1>5. {Port!Adjudicate(winner, attempt, at.supersessions) : winner \in same}
        = {Port!Adjudicate(winner, attempt, allSupersessions) : winner \in same}
  BY <1>4
<1> HIDE DEF at
<1>6. Port!Refusals(scope, attempt, at.claims, at.supersessions)
        = Port!Refusals(scope, attempt, allClaims, allSupersessions)
  BY <1>2, <1>3, <1>5 DEF Port!Refusals
<1> QED BY <1>6 DEF at

\* The takeover records an acquire adds to its line's register are those the
\* port adds to the whole store.
LEMMA MergeByLine ==
  ASSUME StoreInv, NEW scope \in Port!Scope, NEW attempt, NEW taker
  PROVE  /\ Port!SupersededLeases(scope, attempt, register[scope.line].claims)
              = Port!SupersededLeases(scope, attempt, allClaims)
         /\ Port!MergeSupersessions(allSupersessions,
                Port!SupersededLeases(scope, attempt, allClaims), taker)
              = {r \in allSupersessions : r.superseded.scope.line # scope.line}
                \union Port!MergeSupersessions(register[scope.line].supersessions,
                         Port!SupersededLeases(scope, attempt, allClaims), taker)
<1>1. /\ register[scope.line].claims = {c \in allClaims : c.scope.line = scope.line}
      /\ register[scope.line].supersessions
             = {r \in allSupersessions : r.superseded.scope.line = scope.line}
  BY AcceptsByLine, LinesApart
<1>2. Port!SupersededLeases(scope, attempt, register[scope.line].claims)
        = Port!SupersededLeases(scope, attempt, allClaims)
  BY <1>1 DEF Port!SupersededLeases
<1>3. \A lease \in Port!SupersededLeases(scope, attempt, allClaims) : lease.scope.line = scope.line
  BY DEF Port!SupersededLeases
<1> DEFINE passed == Port!SupersededLeases(scope, attempt, allClaims)
           keeps(r) == \A lease \in passed : lease.scope # r.superseded.scope
<1>4. \A r : r.superseded.scope.line # scope.line => keeps(r)
  BY <1>3
<1> HIDE DEF keeps
<1>5. {r \in allSupersessions : keeps(r)}
        = {r \in allSupersessions : r.superseded.scope.line # scope.line}
          \union {r \in register[scope.line].supersessions : keeps(r)}
  BY <1>1, <1>4
<1> QED BY <1>2, <1>5 DEF Port!MergeSupersessions, keeps

-----------------------------------------------------------------------------
(* Steps.                                                                  *)

\* The asking calls after one process moved.
LEMMA AskingFinite ==
  /\ IsFiniteSet(Asking) /\ Cardinality(Asking) \in Nat
  /\ Cardinality(Process) \in Nat /\ Cardinality(Asking) <= Cardinality(Process)
<1>1. Asking \subseteq Process
  BY DEF Asking
<1> QED BY <1>1, BoundsAssumption, FS_Subset, FS_CardinalityType

\* A step that changes no register: one process moves on, knowing what is so.
LEMMA QuietKeeps ==
  ASSUME IInv, UNCHANGED <<register, nextToken>>,
         NEW p \in Process, NEW step \in CallType, NEW at \in Register,
         doing' = [doing EXCEPT ![p] = step], read' = [read EXCEPT ![p] = at],
         Sound(step, at), faults' = faults,
         step.op \in {"acquire", "land"} =>
           doing[p].op \in {"acquire", "land"} \/ nextToken <= MaxClaims
  PROVE  IInv'
<1>1. StoreInv'
  BY DEF IInv, StoreInv, allClaims
<1>2. \A q \in Process : /\ doing'[q] = (IF q = p THEN step ELSE doing[q])
                         /\ read'[q] = (IF q = p THEN at ELSE read[q])
  BY DEF IInv, CallsInv
<1>3. CallsInv'
  <2>1. \A token, line : Leased(token, line)' = Leased(token, line)
    BY DEF Leased, allClaims
  <2>2. \A a, line : Base(a, line)' = Base(a, line)
    BY DEF Base
  <2>3. \A s, a : Sound(s, a)' = Sound(s, a)
    BY <2>1, <2>2 DEF Sound
  <2> QED BY <1>2, <2>3 DEF IInv, CallsInv
<1>4. Budgeted'
  <2>1. /\ Asking' \subseteq Asking \union {p}
        /\ step.op \in {"acquire", "land"} => p \in Asking \/ nextToken <= MaxClaims
        /\ step.op \notin {"acquire", "land"} => Asking' \subseteq Asking
    BY <1>2 DEF Asking
  <2>2. nextToken \in Nat
    BY DEF IInv, StoreInv, Port!Token
  <2>3. CASE nextToken <= MaxClaims
    <3>1. Cardinality(Asking') <= Cardinality(Process) /\ Cardinality(Asking') \in Nat
      <4>1. Asking' \subseteq Process
        BY DEF Asking
      <4> QED BY <4>1, BoundsAssumption, FS_Subset, FS_CardinalityType
    <3> QED BY <2>2, <2>3, <3>1, AskingFinite, BoundsAssumption DEF IInv, Budgeted
  <2>4. CASE Asking' \subseteq Asking
    <3>1. Cardinality(Asking') <= Cardinality(Asking) /\ Cardinality(Asking') \in Nat
      BY <2>4, AskingFinite, FS_Subset, FS_CardinalityType
    <3> QED BY <2>2, <3>1, AskingFinite, BoundsAssumption DEF IInv, Budgeted
  <2> QED BY <2>1, <2>3, <2>4
<1> QED BY <1>1, <1>3, <1>4 DEF IInv

\* A landing leaves the other lines and the other calls what they were.
Extended(line, held, records) ==
  /\ register' \in [Line -> Register]
  /\ register'[line].tip = register[line].tip + 1
  /\ register'[line].claims = held /\ register'[line].supersessions = records
  /\ \A l \in Line \ {line} : register'[l] = register[l]

\* An append to a line's ref leaves every other line as it was.
LEMMA AppendExtends ==
  ASSUME StoreInv, NEW p, NEW line \in Line, NEW held, held \subseteq Port!Claim,
         NEW records, records \subseteq Port!Supersession, AppendCommit(p, line, held, records)
  PROVE  Extended(line, held, records)
<1> DEFINE next == [tip |-> register[line].tip + 1, claims |-> held, supersessions |-> records]
<1>1. register' = [register EXCEPT ![line] = next]
  BY DEF AppendCommit
<1>2. next \in Register
  BY DEF StoreInv, Register
<1>3. next.tip = register[line].tip + 1 /\ next.claims = held /\ next.supersessions = records
  OBVIOUS
<1> HIDE DEF next
<1> QED BY <1>1, <1>2, <1>3 DEF StoreInv, Extended

\* The other calls know what they knew, whatever lands, if what is new has a
\* token that none of them has.
StaysSound == \A step \in CallType, at \in Register : Sound(step, at) => Sound(step, at)'

\* A landing on one line's ref falsifies nothing another loop has read.
LEMMA LandingIsSound ==
  ASSUME IInv, NEW line \in Line, NEW held, NEW records, Extended(line, held, records),
         nextToken' \in Nat, nextToken <= nextToken',
         \A c \in allClaims' : c \in allClaims \/ c.token = nextToken
  PROVE  StaysSound
<1> SUFFICES ASSUME NEW step \in CallType, NEW at \in Register, Sound(step, at)
             PROVE  Sound(step, at)'
  BY DEF StaysSound
<1>0. \A l \in Line : register[l].tip \in Nat
  BY DEF IInv, StoreInv, Register
<1>1. ASSUME NEW l \in Line, Base(at, l) PROVE Base(at, l)'
  <2>1. at.tip \in Nat
    BY DEF Register
  <2>2. l = line \/ register'[l] = register[l]
    BY DEF Extended
  <2> QED BY <1>0, <1>1, <2>1, <2>2 DEF Base, Extended
<1>2. ASSUME NEW token, token \in Nat, token < nextToken, NEW l, Leased(token, l)
      PROVE  Leased(token, l)'
  <2>1. \A c \in allClaims' : c.token = token => c \in allClaims
    BY <1>2 DEF IInv, StoreInv, Port!Token
  <2> QED BY <1>2, <2>1 DEF Leased
<1>3. CASE step.op = "land"
  <2>1. step.scope \in Port!Scope
    BY <1>3 DEF CallType, Rest, Acquiring, Releasing
  <2>2. step.scope.line \in Line
    BY <2>1 DEF Port!Scope, Port!StableScope, Port!PrereleaseScope, Port!LineScope
  <2> QED BY <1>1, <1>3, <2>2 DEF Sound
<1>4. CASE step.op \in {"release", "remove"}
  <2>1. step.token \in Nat /\ step.line \in Line
    BY <1>4 DEF CallType, Rest, Acquiring, Releasing, Port!Token
  <2>2. step.token < nextToken'
    BY <1>4, <2>1 DEF Sound, IInv, StoreInv, Port!Token
  <2> QED BY <1>1, <1>2, <1>4, <2>1, <2>2 DEF Sound
<1> QED BY <1>3, <1>4 DEF Sound

\* What the registers hold together, after a landing on one of them.
LEMMA TogetherAfter ==
  ASSUME StoreInv, NEW line \in Line, NEW held, NEW records, Extended(line, held, records)
  PROVE  /\ allClaims' = {c \in allClaims : c.scope.line # line} \union held
         /\ allSupersessions'
                = {r \in allSupersessions : r.superseded.scope.line # line} \union records
<1>1. allClaims' = UNION {register'[l].claims : l \in Line}
      /\ allSupersessions' = UNION {register'[l].supersessions : l \in Line}
  BY DEF allClaims, allSupersessions
<1>2. /\ \A l \in Line \ {line} : register'[l] = register[l]
      /\ register'[line].claims = held /\ register'[line].supersessions = records
  BY DEF Extended
<1>3. \A l \in Line : /\ register[l].claims = {c \in allClaims : c.scope.line = l}
                     /\ register[l].supersessions
                            = {r \in allSupersessions : r.superseded.scope.line = l}
  BY LinesApart
<1>4. /\ \A c \in allClaims : c.scope.line \in Line
      /\ \A r \in allSupersessions : r.superseded.scope.line \in Line
  BY DEF StoreInv, allClaims, allSupersessions
<1>5. allClaims' = {c \in allClaims : c.scope.line # line} \union held
  BY <1>1, <1>2, <1>3, <1>4
<1>6. allSupersessions'
          = {r \in allSupersessions : r.superseded.scope.line # line} \union records
  BY <1>1, <1>2, <1>3, <1>4
<1> QED BY <1>5, <1>6

Taker(p) == [scope |-> doing[p].scope, token |-> nextToken, holder |-> doing[p].attempt]

\* The base an acquire lands on is what it read, so what it computed of it is
\* what the port computes of the whole store, and the store accepts.
LEMMA AcquireIsLand ==
  ASSUME IInv, NEW p \in Process, AcquireAppends(p)
  PROVE  /\ doing[p] \in Acquiring /\ doing[p].op = "land"
         /\ Port!Land(doing[p].scope, doing[p].attempt)
         /\ StoreInv' /\ nextToken' = nextToken + 1
         /\ StaysSound
<1> DEFINE scope == doing[p].scope
           attempt == doing[p].attempt
           line == scope.line
           was == register[line]
<1>1. /\ doing[p] \in Acquiring /\ doing[p].op = "land"
      /\ scope \in Port!Scope /\ attempt \in Attempt /\ line \in Line
  <2>1. doing[p] \in Acquiring /\ doing[p].op = "land"
    BY DEF IInv, CallsInv, CallType, Rest, Acquiring, Releasing, AcquireAppends
  <2> QED BY <2>1, AcceptsByLine DEF Acquiring, IInv
<1>2. read[p] = was /\ Port!Accepts(scope, was.claims)
  BY <1>1 DEF IInv, CallsInv, Sound, Base, AcquireAppends, Unmoved
<1>3. PICK taker : taker = Taker(p)
  OBVIOUS
<1>4. /\ taker \in Port!Claim /\ taker.scope = scope /\ taker.token = nextToken /\ taker.holder = attempt
      /\ nextToken \in Nat \ {0}
  BY <1>1, <1>3 DEF Taker, IInv, StoreInv, Port!Claim, Port!Token
<1> DEFINE passed == Port!SupersededLeases(scope, attempt, allClaims)
           held == was.claims \union {taker}
           records == Port!MergeSupersessions(was.supersessions, passed, taker)
<1>5. Port!SupersededLeases(scope, attempt, was.claims) = passed
  BY <1>1, MergeByLine DEF IInv
<1>6. AppendCommit(p, line, held, records) /\ nextToken' = nextToken + 1
  BY <1>2, <1>3, <1>5 DEF AcquireAppends, Taker
<1>7. /\ was.claims \subseteq Port!Claim /\ was.supersessions \subseteq Port!Supersession
      /\ passed \subseteq was.claims
  <2>1. was \in Register
    BY <1>1 DEF IInv, StoreInv
  <2> QED BY <1>5, <2>1 DEF Register, Port!SupersededLeases
<1>8. records \subseteq Port!Supersession /\ \A r \in records : r.superseded.scope.line = line
  <2>1. \A lease \in passed : [superseded |-> lease, supersededBy |-> taker] \in Port!Supersession
    BY <1>4, <1>7 DEF Port!Supersession
  <2>2. \A lease \in passed : lease.scope.line = line
    BY DEF Port!SupersededLeases
  <2> QED BY <1>1, <1>7, <2>1, <2>2 DEF Port!MergeSupersessions, IInv, StoreInv
<1>9. Extended(line, held, records)
  BY <1>1, <1>4, <1>6, <1>7, <1>8, AppendExtends DEF IInv
<1>10. /\ allClaims' = allClaims \union {taker}
       /\ allSupersessions' = Port!MergeSupersessions(allSupersessions, passed, taker)
  <2>1. /\ allClaims' = {c \in allClaims : c.scope.line # line} \union held
        /\ allSupersessions'
               = {r \in allSupersessions : r.superseded.scope.line # line} \union records
    BY <1>1, <1>9, TogetherAfter DEF IInv
  <2>2. was.claims = {c \in allClaims : c.scope.line = line}
    BY <1>1, LinesApart DEF IInv
  <2> QED BY <1>1, <2>1, <2>2, MergeByLine DEF IInv
<1>11. Port!Land(scope, attempt)
  <2>1. Port!Accepts(scope, allClaims)
    BY <1>1, <1>2, AcceptsByLine DEF IInv
  <2>2. nextToken <= MaxClaims + Cardinality(Process) + MaxFaults
    <3>1. p \in Asking /\ IsFiniteSet(Asking)
      BY <1>1, AskingFinite DEF Asking
    <3>2. Cardinality(Asking) >= 1
      BY <3>1, AskingFinite, FS_EmptySet
    <3> QED BY <1>4, <3>2, AskingFinite, BoundsAssumption DEF IInv, Budgeted
  <2>3. taker = Port!NextClaim(scope, attempt)
    BY <1>3 DEF Taker, Port!NextClaim
  <2> QED BY <1>6, <1>10, <2>1, <2>2, <2>3 DEF Port!Land
<1>12. StoreInv'
  <2>1. nextToken' \in Port!Token
    BY <1>4, <1>6 DEF Port!Token
  <2>2. ASSUME NEW l \in Line
        PROVE /\ \A c \in register'[l].claims : c.scope.line = l /\ c.token < nextToken'
              /\ \A r \in register'[l].supersessions : r.superseded.scope.line = l
    <3>1. \A c \in register[l].claims : c.token \in Nat /\ c.scope.line = l /\ c.token < nextToken
      BY DEF IInv, StoreInv, Register, Port!Claim, Port!Token
    <3>2. \A c \in register'[l].claims : c.scope.line = l /\ c.token < nextToken'
      BY <1>1, <1>4, <1>6, <1>9, <3>1 DEF Extended
    <3>3. \A r \in register'[l].supersessions : r.superseded.scope.line = l
      BY <1>1, <1>8, <1>9 DEF Extended, IInv, StoreInv
    <3> QED BY <3>2, <3>3
  <2>3. \A c \in allClaims : c.token < nextToken /\ c.token \in Nat
    BY DEF IInv, StoreInv, allClaims, Register, Port!Claim, Port!Token
  <2>4. \A c, d \in allClaims' : c.token = d.token => c = d
    BY <1>4, <1>10, <2>3 DEF IInv, StoreInv
  <2> QED BY <1>9, <2>1, <2>2, <2>4 DEF StoreInv, Extended
<1>13. StaysSound
  <2>2. nextToken' \in Nat /\ nextToken <= nextToken'
    BY <1>4, <1>6
  <2>3. \A c \in allClaims' : c \in allClaims \/ c.token = nextToken
    BY <1>4, <1>10
  <2> HIDE DEF line, held, records
  <2> QED BY <1>1, <1>9, <2>2, <2>3, LandingIsSound
<1> QED BY <1>1, <1>6, <1>11, <1>12, <1>13

\* What a release removes from its line is all the store has of its token.
LEMMA ReleaseIsReleased ==
  ASSUME IInv, NEW p \in Process, ReleaseAppends(p), UNCHANGED nextToken
  PROVE  /\ doing[p] \in Releasing /\ doing[p].op = "remove"
         /\ doing[p].token \in 1 .. nextToken - 1
         /\ allClaims' = Port!Released(doing[p].token, allClaims)
         /\ UNCHANGED allSupersessions
         /\ StoreInv'
         /\ StaysSound
<1> DEFINE token == doing[p].token
           line == doing[p].line
           was == register[line]
           held == {c \in was.claims : c.token # token}
<1>1. /\ doing[p] \in Releasing /\ doing[p].op = "remove"
      /\ token \in Port!Token /\ token < nextToken /\ line \in Line
      /\ Leased(token, line) /\ nextToken \in Nat
  <2>1. doing[p] \in Releasing /\ doing[p].op = "remove"
    BY DEF IInv, CallsInv, CallType, Rest, Acquiring, Releasing, ReleaseAppends
  <2> QED BY <2>1 DEF Releasing, IInv, CallsInv, Sound, StoreInv, Port!Token
<1>2. read[p] = was
  BY <1>1 DEF IInv, CallsInv, Sound, Base, ReleaseAppends, Unmoved
<1>3. AppendCommit(p, line, held, was.supersessions)
  BY <1>2 DEF ReleaseAppends
<1>4. held \subseteq Port!Claim /\ was.supersessions \subseteq Port!Supersession
  BY <1>1 DEF IInv, StoreInv, Register
<1>5. Extended(line, held, was.supersessions)
  BY <1>1, <1>3, <1>4, AppendExtends DEF IInv
<1>6. /\ was.claims = {c \in allClaims : c.scope.line = line}
      /\ was.supersessions = {r \in allSupersessions : r.superseded.scope.line = line}
  BY <1>1, LinesApart DEF IInv
<1>7. /\ allClaims' = {c \in allClaims : c.scope.line # line} \union held
      /\ allSupersessions'
             = {r \in allSupersessions : r.superseded.scope.line # line} \union was.supersessions
  BY <1>1, <1>5, TogetherAfter DEF IInv
<1>8. allClaims' = {c \in allClaims : c.token # token}
  BY <1>1, <1>6, <1>7 DEF Leased
<1>9. allClaims' = Port!Released(token, allClaims)
  BY <1>1, <1>8 DEF Leased, Port!Released
<1>10. UNCHANGED allSupersessions
  BY <1>6, <1>7
<1>11. StoreInv'
  <2>1. ASSUME NEW l \in Line
        PROVE  /\ register'[l].claims \subseteq register[l].claims
               /\ register'[l].supersessions = register[l].supersessions
    BY <1>5 DEF Extended
  <2>2. register' \in [Line -> Register]
    BY <1>5 DEF Extended
  <2>3. \A c, d \in allClaims' : c.token = d.token => c = d
    BY <1>8 DEF IInv, StoreInv
  <2>4. \A l \in Line : /\ \A c \in register'[l].claims : c.scope.line = l /\ c.token < nextToken'
                       /\ \A r \in register'[l].supersessions : r.superseded.scope.line = l
    BY <2>1 DEF IInv, StoreInv
  <2> QED BY <2>2, <2>3, <2>4 DEF IInv, StoreInv
<1>12. StaysSound
  <2>2. nextToken' \in Nat /\ nextToken <= nextToken'
    BY <1>1
  <2>3. \A c \in allClaims' : c \in allClaims \/ c.token = nextToken
    BY <1>8
  <2> HIDE DEF line, held
  <2> QED BY <1>1, <1>5, <2>2, <2>3, LandingIsSound
<1>13. token \in 1 .. nextToken - 1
  BY <1>1 DEF Port!Token
<1> QED BY <1>1, <1>9, <1>10, <1>11, <1>12, <1>13

\* A landing done, its caller forgets what it read, and is done or asks again.
LEMMA LandingKeeps ==
  ASSUME IInv, StoreInv', NEW p \in Process, NEW step \in CallType, Sound(step, Absent)',
         doing' = [doing EXCEPT ![p] = step], read' = [read EXCEPT ![p] = Absent],
         StaysSound,
         \/ UNCHANGED <<nextToken, faults>> /\ step.op \notin {"acquire", "land"}
         \/ /\ nextToken' = nextToken + 1 /\ faults' = faults
            /\ doing[p].op = "land" /\ step.op = "rest"
         \/ nextToken' = nextToken + 1 /\ faults < MaxFaults /\ faults' = faults + 1
             /\ doing[p].op = "land" /\ step.op \in {"acquire", "land"}
         \/ nextToken' = nextToken /\ faults < MaxFaults /\ faults' = faults + 1
             /\ step.op \notin {"acquire", "land"}
  PROVE  IInv'
<1>1. \A q \in Process : /\ doing'[q] = (IF q = p THEN step ELSE doing[q])
                         /\ read'[q] = (IF q = p THEN Absent ELSE read[q])
  BY DEF IInv, CallsInv
<1>2. Absent \in Register
  BY DEF Absent, Register
<1>3. CallsInv'
  <2>1. doing' \in [Process -> CallType] /\ read' \in [Process -> Register]
    BY <1>2 DEF IInv, CallsInv
  <2>2. ASSUME NEW q \in Process PROVE Sound(doing[q], read[q])'
    <3>1. PICK s \in CallType, a \in Register : s = doing'[q] /\ a = read'[q]
      BY <2>1
    <3>2. Sound(s, a)'
      BY <1>1, <3>1 DEF IInv, CallsInv, StaysSound
    <3> QED BY <3>1, <3>2 DEF Sound
  <2> QED BY <2>1, <2>2 DEF CallsInv
<1>4. Budgeted'
  <2>0. nextToken \in Nat /\ faults \in Nat
    BY DEF IInv, StoreInv, Port!Token, Budgeted
  <2>1. step.op \notin {"acquire", "land"} => Asking' = Asking \ {p}
    BY <1>1 DEF Asking
  <2>2. step.op \in {"acquire", "land"} /\ doing[p].op = "land" => Asking' = Asking
    BY <1>1 DEF Asking
  <2>3. /\ Cardinality(Asking \ {p}) \in Nat /\ Cardinality(Asking \ {p}) <= Cardinality(Asking)
        /\ doing[p].op = "land" => Cardinality(Asking \ {p}) = Cardinality(Asking) - 1
    <3>1. doing[p].op = "land" => p \in Asking
      BY DEF Asking
    <3>2. Cardinality(Asking \ {p})
            = IF p \in Asking THEN Cardinality(Asking) - 1 ELSE Cardinality(Asking)
      BY AskingFinite, FS_RemoveElement
    <3>3. Cardinality(Asking \ {p}) \in Nat
      <4>1. IsFiniteSet(Asking \ {p})
        BY AskingFinite, FS_RemoveElement
      <4> QED BY <4>1, FS_CardinalityType
    <3> QED BY <3>1, <3>2, <3>3, AskingFinite
  <2>4. /\ faults <= MaxFaults
        /\ nextToken + Cardinality(Asking) <= MaxClaims + 1 + Cardinality(Process) + faults
    BY DEF IInv, Budgeted
  <2>5. faults' \in Nat /\ faults' <= MaxFaults
    BY <2>0, <2>4, BoundsAssumption
  <2>6. nextToken' + Cardinality(Asking') <= MaxClaims + 1 + Cardinality(Process) + faults'
    <3>1. CASE UNCHANGED <<nextToken, faults>> /\ step.op \notin {"acquire", "land"}
      <4>1. /\ Asking' = Asking \ {p} /\ Cardinality(Asking \ {p}) <= Cardinality(Asking)
            /\ nextToken' = nextToken /\ faults' = faults
        BY <2>1, <2>3, <3>1
      <4> QED BY <2>0, <2>3, <2>4, <4>1, AskingFinite, BoundsAssumption
    <3>2. CASE /\ nextToken' = nextToken + 1 /\ faults' = faults
               /\ doing[p].op = "land" /\ step.op = "rest"
      <4>1. Asking' = Asking \ {p} /\ Cardinality(Asking \ {p}) = Cardinality(Asking) - 1
        BY <2>1, <2>3, <3>2
      <4> QED BY <2>0, <2>3, <2>4, <3>2, <4>1, AskingFinite, BoundsAssumption
    <3>3. CASE /\ nextToken' = nextToken + 1 /\ faults' = faults + 1
               /\ doing[p].op = "land" /\ step.op \in {"acquire", "land"}
      BY <2>0, <2>2, <2>4, <3>3, AskingFinite, BoundsAssumption
    <3>4. CASE nextToken' = nextToken /\ faults' = faults + 1 /\ step.op \notin {"acquire", "land"}
      <4>1. Asking' = Asking \ {p} /\ Cardinality(Asking \ {p}) <= Cardinality(Asking)
        BY <2>1, <2>3, <3>4
      <4> QED BY <2>0, <2>3, <2>4, <3>4, <4>1, AskingFinite, BoundsAssumption
    <3> QED BY <3>1, <3>2, <3>3, <3>4
  <2> QED BY <2>5, <2>6 DEF Budgeted
<1> QED BY <1>3, <1>4 DEF IInv

-----------------------------------------------------------------------------
(* Every step of the registers is a step of the port, or leaves it alone.  *)

Implements == [Port!Next]_Port!vars

\* At first nothing is held, read or asked for.
LEMMA InitIInv == Init => IInv
<1> SUFFICES ASSUME Init PROVE IInv
  OBVIOUS
<1>1. Absent \in Register /\ Rest \in CallType
  BY DEF Absent, Register, CallType
<1>2. StoreInv
  BY <1>1 DEF Init, StoreInv, allClaims, Port!Token, Absent
<1>3. CallsInv
  BY <1>1 DEF Init, CallsInv, Sound, Rest
<1>4. Asking = {}
  BY DEF Init, Asking, Rest
<1>5. Budgeted
  BY <1>4, AskingFinite, FS_EmptySet, BoundsAssumption DEF Init, Budgeted
<1> QED BY <1>2, <1>3, <1>5 DEF IInv

\* An answer that a call gives and changes nothing with.
LEMMA AnswerKeeps ==
  ASSUME IInv, NEW p \in Process, NEW answer, Return(p, answer),
         UNCHANGED <<register, nextToken, faults>>
  PROVE  IInv'
<1>1. Rest \in CallType /\ Absent \in Register /\ Sound(Rest, Absent)
  BY DEF CallType, Absent, Register, Sound, Rest
<1> QED BY <1>1, QuietKeeps DEF Return, Goto, Rest

\* acquireClaim begins: the port sees nothing yet.
LEMMA CallAcquireStep ==
  ASSUME IInv, NEW p \in Process, NEW scope \in Port!Scope, NEW attempt \in Attempt,
         CallAcquire(p, scope, attempt)
  PROVE  IInv' /\ Implements
<1> DEFINE step == [op |-> "acquire", scope |-> scope, attempt |-> attempt]
<1>1. step \in CallType /\ Sound(step, read[p]) /\ read[p] \in Register /\ step.op = "acquire"
  BY DEF CallType, Acquiring, Sound, IInv, CallsInv
<1>2. read' = [read EXCEPT ![p] = read[p]] /\ doing' = [doing EXCEPT ![p] = step]
  BY DEF CallAcquire, Goto, IInv, CallsInv
<1>3. nextToken <= MaxClaims /\ UNCHANGED <<register, nextToken, reply, faults>>
  BY DEF CallAcquire
<1> HIDE DEF step
<1>4. IInv'
  BY <1>1, <1>2, <1>3, QuietKeeps
<1>5. Implements
  BY <1>3 DEF Implements, Port!vars, allClaims, allSupersessions
<1> QED BY <1>4, <1>5

\* The read of acquire's loop refuses as the port does, or lets it land.
LEMMA AcquireReadsStep ==
  ASSUME IInv, NEW p \in Process, AcquireReads(p)
  PROVE  IInv' /\ Implements
<1> DEFINE scope == doing[p].scope
           attempt == doing[p].attempt
           at == register[scope.line]
<1>1. /\ doing[p] \in Acquiring /\ doing[p].op = "acquire"
      /\ scope \in Port!Scope /\ attempt \in Attempt /\ scope.line \in Line /\ at \in Register
  <2>1. doing[p] \in Acquiring /\ doing[p].op = "acquire"
    BY DEF IInv, CallsInv, CallType, Rest, Acquiring, Releasing, AcquireReads
  <2> QED BY <2>1, AcceptsByLine DEF Acquiring, IInv, StoreInv
<1>2. UNCHANGED <<register, nextToken, faults>>
  BY DEF AcquireReads
<1>3. CASE /\ Port!Accepts(scope, at.claims)
           /\ read' = [read EXCEPT ![p] = at]
           /\ Goto(p, [doing[p] EXCEPT !.op = "land"])
           /\ UNCHANGED reply
  <2> DEFINE step == [doing[p] EXCEPT !.op = "land"]
  <2>1. step \in CallType /\ step.op = "land" /\ step.scope = scope
    BY <1>1 DEF CallType, Acquiring
  <2>2. Base(at, scope.line)
    BY <1>1 DEF Base, Register
  <2>3. doing' = [doing EXCEPT ![p] = step]
    BY <1>3 DEF Goto
  <2> HIDE DEF step
  <2>4. Sound(step, at)
    BY <1>3, <2>1, <2>2 DEF Sound
  <2>5. IInv'
    BY <1>1, <1>2, <1>3, <2>1, <2>3, <2>4, QuietKeeps
  <2>6. Implements
    BY <1>2, <1>3 DEF Implements, Port!vars, allClaims, allSupersessions
  <2> QED BY <2>5, <2>6
<1>4. ASSUME NEW refusal \in Port!Refusals(scope, attempt, at.claims, at.supersessions),
             Return(p, refusal)
      PROVE  IInv' /\ Implements
  <2>1. IInv'
    BY <1>2, <1>4, AnswerKeeps
  <2>2. refusal \in Port!Refusals(scope, attempt, allClaims, allSupersessions)
    BY <1>1, RefusalsByLine DEF IInv
  <2>3. UNCHANGED <<allClaims, allSupersessions, nextToken>>
    BY <1>2 DEF allClaims, allSupersessions
  <2>4. Port!Refuse(p, scope, attempt)
    BY <1>4, <2>2, <2>3 DEF Port!Refuse, Port!Answers, Return
  <2> QED BY <1>1, <2>1, <2>4 DEF Implements, Port!Next
<1> QED BY <1>3, <1>4 DEF AcquireReads

\* The landing of acquire is the port's grant, reported or not.
LEMMA AcquireAppendsStep ==
  ASSUME IInv, NEW p \in Process, AcquireLands(p) \/ AcquireLandsUnreported(p)
  PROVE  IInv' /\ Implements
<1>1. AcquireAppends(p)
  BY DEF AcquireLands, AcquireLandsUnreported
<1>2. /\ doing[p] \in Acquiring /\ doing[p].op = "land"
      /\ Port!Land(doing[p].scope, doing[p].attempt)
      /\ StoreInv' /\ nextToken' = nextToken + 1 /\ StaysSound
  BY <1>1, AcquireIsLand
<1>3. doing[p].scope \in Port!Scope /\ doing[p].attempt \in Attempt
  BY <1>2 DEF Acquiring
<1>4. Absent \in Register
  BY DEF Absent, Register
<1>5. CASE AcquireLands(p)
  <2>1. Rest \in CallType /\ Rest.op = "rest" /\ Sound(Rest, Absent)'
    BY DEF CallType, Sound, Rest
  <2>2. /\ doing' = [doing EXCEPT ![p] = Rest] /\ read' = [read EXCEPT ![p] = Absent]
        /\ faults' = faults
    BY <1>5 DEF AcquireLands, Return, Goto
  <2>3. IInv'
    BY <1>2, <2>1, <2>2, LandingKeeps
  <2>4. Port!Grant(p, doing[p].scope, doing[p].attempt)
    BY <1>2, <1>5 DEF AcquireLands, Return, Port!Grant, Port!Answers, Port!NextClaim
  <2> QED BY <1>3, <2>3, <2>4 DEF Implements, Port!Next
<1>6. CASE AcquireLandsUnreported(p)
  <2>1. PICK step : step = [doing[p] EXCEPT !.op = "acquire"]
    OBVIOUS
  <2>2. step \in CallType /\ step.op = "acquire"
    BY <1>2, <2>1 DEF CallType, Acquiring
  <2>3. Sound(step, Absent)'
    BY <2>2 DEF Sound
  <2>4. /\ doing' = [doing EXCEPT ![p] = step] /\ read' = [read EXCEPT ![p] = Absent]
        /\ faults < MaxFaults /\ faults' = faults + 1 /\ UNCHANGED reply
    BY <1>6, <2>1 DEF AcquireLandsUnreported, Unreported, Goto
  <2>5. IInv'
    BY <1>2, <2>2, <2>3, <2>4, LandingKeeps
  <2>6. Port!GrantUnreported(doing[p].scope, doing[p].attempt)
    BY <1>2, <2>4 DEF Port!GrantUnreported
  <2> QED BY <1>3, <2>5, <2>6 DEF Implements, Port!Next
<1> QED BY <1>5, <1>6

\* A call that goes back to its read, or dies, forgets what it read.
LEMMA ForgetsStep ==
  ASSUME IInv, NEW p \in Process, AcquireLoses(p) \/ ReleaseLoses(p) \/ Crash(p)
  PROVE  IInv' /\ Implements
<1>0. /\ Absent \in Register /\ doing[p] \in CallType /\ Sound(doing[p], read[p])
      /\ UNCHANGED <<register, nextToken, reply, faults>>
      /\ read' = [read EXCEPT ![p] = Absent]
  BY DEF Absent, Register, IInv, CallsInv, AcquireLoses, ReleaseLoses, Crash
<1>1. Implements
  BY <1>0 DEF Implements, Port!vars, allClaims, allSupersessions
<1>2. ASSUME NEW step \in CallType, doing' = [doing EXCEPT ![p] = step], Sound(step, Absent),
             step.op = "acquire" => doing[p].op = "land", step.op # "land"
      PROVE  IInv'
  <2>1. step.op \in {"acquire", "land"} => doing[p].op \in {"acquire", "land"}
    BY <1>2
  <2> QED BY <1>0, <1>2, <2>1, QuietKeeps
<1>3. CASE AcquireLoses(p)
  <2>1. PICK step : step = [doing[p] EXCEPT !.op = "acquire"]
    OBVIOUS
  <2>2. step \in CallType /\ step.op = "acquire" /\ doing[p].op = "land"
    BY <1>0, <1>3, <2>1 DEF AcquireLoses, CallType, Rest, Acquiring, Releasing
  <2>3. doing' = [doing EXCEPT ![p] = step] /\ Sound(step, Absent)
    BY <1>3, <2>1, <2>2 DEF AcquireLoses, Goto, Sound
  <2> QED BY <1>1, <1>2, <2>2, <2>3
<1>4. CASE ReleaseLoses(p)
  <2>1. PICK step : step = [doing[p] EXCEPT !.op = "release"]
    OBVIOUS
  <2>2. /\ step \in CallType /\ step.op = "release" /\ doing[p].op = "remove"
        /\ step.token = doing[p].token /\ step.line = doing[p].line
    BY <1>0, <1>4, <2>1 DEF ReleaseLoses, CallType, Rest, Acquiring, Releasing
  <2>3. doing' = [doing EXCEPT ![p] = step] /\ Sound(step, Absent)
    BY <1>0, <1>4, <2>1, <2>2 DEF ReleaseLoses, Goto, Sound
  <2> QED BY <1>1, <1>2, <2>2, <2>3
<1>5. CASE Crash(p)
  <2>1. Rest \in CallType /\ Rest.op = "rest"
    BY DEF CallType, Rest
  <2>2. doing' = [doing EXCEPT ![p] = Rest] /\ Sound(Rest, Absent)
    BY <1>5, <2>1 DEF Crash, Goto, Sound
  <2> QED BY <1>1, <1>2, <2>1, <2>2
<1> QED BY <1>3, <1>4, <1>5

\* verifyClaim's walk over the registers answers as the port does.
LEMMA VerifyWalksStep ==
  ASSUME IInv, NEW p \in Process, NEW token \in 1 .. nextToken - 1, VerifyWalks(p, token)
  PROVE  IInv' /\ Implements
<1>1. PICK verdict \in Port!Verdicts(token, allClaims, allSupersessions) : Return(p, verdict)
  BY DEF VerifyWalks
<1>2. UNCHANGED <<register, nextToken, faults>>
  BY DEF VerifyWalks
<1>3. IInv'
  BY <1>1, <1>2, AnswerKeeps
<1>4. Port!Verify(p, token)
  BY <1>1, <1>2 DEF Port!Verify, Port!Answers, Return, allClaims, allSupersessions
<1> QED BY <1>3, <1>4 DEF Implements, Port!Next

\* A token that no lease has any more is released already.
LEMMA AnsweredRelease ==
  ASSUME IInv, NEW p \in Process, NEW token \in 1 .. nextToken - 1,
         Return(p, [kind |-> "released"]), UNCHANGED <<register, nextToken, faults>>,
         \A c \in allClaims : c.token = token => c.scope.kind = "stable-version"
  PROVE  IInv' /\ Implements
<1>1. IInv'
  BY AnswerKeeps
<1>2. Port!Released(token, allClaims) = allClaims
  BY DEF Port!Released
<1>3. Port!Release(p, token)
  BY <1>2 DEF Port!Release, Port!Answers, Return, allClaims, allSupersessions
<1> QED BY <1>1, <1>3 DEF Implements, Port!Next

\* releaseClaim's walk finds the lease to remove, or answers.
LEMMA ReleaseWalksStep ==
  ASSUME IInv, NEW p \in Process, NEW token \in 1 .. nextToken - 1, ReleaseWalks(p, token)
  PROVE  IInv' /\ Implements
<1>0. UNCHANGED <<register, nextToken, faults>>
  BY DEF ReleaseWalks
<1>1. CASE /\ {c \in allClaims : c.token = token /\ c.scope.kind # "stable-version"} = {}
           /\ Return(p, [kind |-> "released"])
  BY <1>0, <1>1, AnsweredRelease
<1>2. ASSUME NEW lease \in allClaims, lease.token = token, lease.scope.kind # "stable-version",
             Goto(p, [op |-> "release", token |-> token, line |-> lease.scope.line]),
             UNCHANGED <<reply, read>>
      PROVE  IInv' /\ Implements
  <2> DEFINE step == [op |-> "release", token |-> token, line |-> lease.scope.line]
  <2>1. nextToken \in Nat /\ lease.scope.line \in Line
    BY DEF IInv, StoreInv, Port!Token, allClaims
  <2>2. /\ step \in CallType /\ step.op = "release"
        /\ step.token = token /\ step.line = lease.scope.line
    BY <2>1 DEF CallType, Releasing, Port!Token
  <2>3. Leased(token, lease.scope.line) /\ token < nextToken
    BY <1>2, <2>1 DEF Leased, IInv, StoreInv
  <2>4. /\ doing' = [doing EXCEPT ![p] = step]
        /\ read' = [read EXCEPT ![p] = read[p]] /\ read[p] \in Register
    BY <1>2 DEF Goto, IInv, CallsInv
  <2> HIDE DEF step
  <2>5. Sound(step, read[p])
    BY <2>2, <2>3 DEF Sound
  <2>6. IInv'
    BY <1>0, <2>2, <2>4, <2>5, QuietKeeps
  <2>7. Implements
    BY <1>0, <1>2 DEF Implements, Port!vars, allClaims, allSupersessions
  <2> QED BY <2>6, <2>7
<1> QED BY <1>1, <1>2 DEF ReleaseWalks

\* The read of release's loop finds the lease still there, or answers.
LEMMA ReleaseReadsStep ==
  ASSUME IInv, NEW p \in Process, ReleaseReads(p)
  PROVE  IInv' /\ Implements
<1> DEFINE token == doing[p].token
           line == doing[p].line
           at == register[line]
<1>0. /\ doing[p] \in Releasing /\ doing[p].op = "release" /\ line \in Line /\ at \in Register
      /\ token < nextToken /\ Leased(token, line) /\ token \in 1 .. nextToken - 1
      /\ UNCHANGED <<register, nextToken, faults>>
  <2>1. doing[p] \in Releasing /\ doing[p].op = "release"
    BY DEF IInv, CallsInv, CallType, Rest, Acquiring, Releasing, ReleaseReads
  <2>2. line \in Line /\ token \in Port!Token /\ nextToken \in Nat
    BY <2>1 DEF Releasing, IInv, StoreInv, Port!Token
  <2>3. token < nextToken /\ Leased(token, line)
    BY <2>1 DEF IInv, CallsInv, Sound
  <2> QED BY <2>1, <2>2, <2>3 DEF ReleaseReads, IInv, StoreInv, Port!Token
<1>1. CASE /\ \A c \in at.claims : c.token # token
           /\ Return(p, [kind |-> "released"])
  <2>1. \A c \in allClaims : c.token # token
    BY <1>0, <1>1, LinesApart DEF Leased, IInv
  <2>2. PICK t \in 1 .. nextToken - 1 : t = token
    BY <1>0
  <2> QED BY <1>0, <1>1, <2>1, <2>2, AnsweredRelease
<1>2. CASE /\ read' = [read EXCEPT ![p] = at]
           /\ Goto(p, [doing[p] EXCEPT !.op = "remove"])
           /\ UNCHANGED reply
  <2> DEFINE step == [doing[p] EXCEPT !.op = "remove"]
  <2>1. step \in CallType /\ step.op = "remove" /\ step.token = token /\ step.line = line
    BY <1>0 DEF CallType, Releasing
  <2>2. Base(at, line)
    BY <1>0 DEF Base, Register
  <2>3. doing' = [doing EXCEPT ![p] = step]
    BY <1>2 DEF Goto
  <2> HIDE DEF step
  <2>4. Sound(step, at)
    BY <1>0, <2>1, <2>2 DEF Sound
  <2>5. IInv'
    BY <1>0, <1>2, <2>1, <2>3, <2>4, QuietKeeps
  <2>6. Implements
    BY <1>0, <1>2 DEF Implements, Port!vars, allClaims, allSupersessions
  <2> QED BY <2>5, <2>6
<1> QED BY <1>1, <1>2 DEF ReleaseReads

\* The landing of release is the port's removal, reported or not.
LEMMA ReleaseAppendsStep ==
  ASSUME IInv, NEW p \in Process, ReleaseLands(p) \/ ReleaseLandsUnreported(p)
  PROVE  IInv' /\ Implements
<1>1. ReleaseAppends(p) /\ UNCHANGED nextToken
  BY DEF ReleaseLands, ReleaseLandsUnreported
<1>2. /\ doing[p] \in Releasing /\ doing[p].op = "remove"
      /\ doing[p].token \in 1 .. nextToken - 1
      /\ allClaims' = Port!Released(doing[p].token, allClaims)
      /\ UNCHANGED allSupersessions /\ StoreInv' /\ StaysSound
  BY <1>1, ReleaseIsReleased
<1>3. CASE ReleaseLands(p)
  <2>1. Rest \in CallType /\ Rest.op = "rest" /\ Sound(Rest, Absent)'
    BY DEF CallType, Sound, Rest
  <2>2. /\ doing' = [doing EXCEPT ![p] = Rest] /\ read' = [read EXCEPT ![p] = Absent]
        /\ UNCHANGED <<nextToken, faults>>
    BY <1>3 DEF ReleaseLands, Return, Goto
  <2>3. IInv'
    BY <1>2, <2>1, <2>2, LandingKeeps
  <2>4. Port!Release(p, doing[p].token)
    BY <1>1, <1>2, <1>3 DEF ReleaseLands, Return, Port!Release, Port!Answers
  <2> QED BY <1>2, <2>3, <2>4 DEF Implements, Port!Next
<1>4. CASE ReleaseLandsUnreported(p)
  <2>1. PICK step : step = [doing[p] EXCEPT !.op = "release"]
    OBVIOUS
  <2>2. /\ step \in CallType /\ step.op = "release"
        /\ step.token = doing[p].token /\ step.line = doing[p].line
    BY <1>2, <2>1 DEF CallType, Releasing
  <2>3. Sound(step, Absent)'
    <3>1. Sound(step, Absent)
      BY <1>2, <2>2 DEF IInv, CallsInv, Sound
    <3>2. Absent \in Register
      BY DEF Absent, Register
    <3>3. PICK at \in Register : at = Absent
      BY <3>2
    <3>4. Sound(step, at)'
      BY <1>2, <2>2, <3>1, <3>3 DEF StaysSound
    <3> QED BY <3>3, <3>4 DEF Absent
  <2>4. /\ doing' = [doing EXCEPT ![p] = step] /\ read' = [read EXCEPT ![p] = Absent]
        /\ faults < MaxFaults /\ faults' = faults + 1 /\ UNCHANGED <<nextToken, reply>>
    BY <1>4, <2>1 DEF ReleaseLandsUnreported, Unreported, Goto
  <2>5. IInv'
    BY <1>2, <2>2, <2>3, <2>4, LandingKeeps
  <2>6. Port!ReleaseUnreported(doing[p].token)
    BY <1>2, <2>4 DEF Port!ReleaseUnreported
  <2> QED BY <1>2, <2>5, <2>6 DEF Implements, Port!Next
<1> QED BY <1>3, <1>4

\* Every step keeps the invariant and is a step of the port or a stutter.
LEMMA NextImplements == IInv /\ [Next]_vars => IInv' /\ Implements
<1> SUFFICES ASSUME IInv, [Next]_vars PROVE IInv' /\ Implements
  OBVIOUS
<1>1. CASE UNCHANGED vars
  BY <1>1 DEF vars, IInv, StoreInv, CallsInv, Sound, Base, Leased, Budgeted, Asking,
              allClaims, allSupersessions, Implements, Port!vars
<1>2. CASE Next
  BY <1>2, CallAcquireStep, AcquireReadsStep, AcquireAppendsStep, ForgetsStep, VerifyWalksStep,
     ReleaseWalksStep, ReleaseReadsStep, ReleaseAppendsStep DEF Next, Step
<1> QED BY <1>1, <1>2

\* The inductive invariant holds in every reachable state.
THEOREM RegistersInductive == Spec => []IInv
<1>1. IInv /\ [Next]_vars => IInv'
  BY NextImplements
<1> QED BY <1>1, InitIInv, PTL DEF Spec

\* The registers are the claim port: whatever loops of acquire and release
\* interleave, whichever landing went unreported and wherever a process dies,
\* every step grants, refuses, releases or answers as one atomic store does,
\* or does nothing it could show.
THEOREM RegistersImplementPort == Spec => ImplementsClaimStore
<1>1. Init => Port!Init
  BY DEF Init, Port!Init, allClaims, allSupersessions, Absent
<1>2. IInv /\ [Next]_vars => [Port!Next]_Port!vars
  BY NextImplements DEF Implements
<1> QED BY <1>1, <1>2, RegistersInductive, PTL DEF Spec, ImplementsClaimStore, Port!Spec

-----------------------------------------------------------------------------
(* The ledger.  What a probe serves is always the stream as it stands,     *)
(* because a cached history is the history of its tip; a landing extends   *)
(* the very base its round classified; and what a call learned about the   *)
(* stream (the plan is recorded, its record is in) stays true, because the *)
(* stream only grows.                                                      *)

Goals == {"rest", "open", "append", "tail", "confirm", "lost"}
Places == {"rest", "base", "probe", "walk", "land", "lost"}

CallOK ==
  call \in [Process -> [goal : Goals, at : Places, record : Ledger!Record,
                        base : Seq(Ledger!Record), lost : 0 .. MaxRounds - 1]]

\* What each call may rely on.
CallKnows ==
  \A p \in Process :
    /\ call[p].goal # "lost"
    /\ Ledger!PlanRecorded(call[p].base) => Ledger!PlanRecorded(stream)
    /\ call[p].at = "land" => call[p].goal \in {"open", "append"}
    /\ call[p].goal = "open" => /\ call[p].record \in Start
                                /\ call[p].at = "land" => ~Ledger!PlanRecorded(call[p].base)
    /\ call[p].goal = "append" => /\ call[p].record \in Start \union Other
                                  /\ call[p].record \in Start => Ledger!PlanRecorded(stream)
    /\ call[p].goal = "confirm" => /\ call[p].record \in Start
                                   /\ Ledger!Holds(stream, call[p].record)

StreamOK == stream \in Seq(Ledger!Record)

CacheOK == cache \in [Process -> SUBSET [tip : Seq(Ledger!Record), records : Seq(Ledger!Record)]]

CacheSingle == \A p \in Process : \A d, e \in cache[p] : d = e

LedgerInv ==
  /\ StreamOK
  /\ CallOK
  /\ CallKnows
  /\ CacheOK
  /\ CacheSingle
  /\ CacheIsHistory
  /\ PlanPrecedesWork

-----------------------------------------------------------------------------
(* Facts about the stream.                                                *)

\* The stream that lands: the base of the round and the record written.
LEMMA ExtendsStream ==
  ASSUME LedgerInv, NEW p \in Process, Extends(p)
  PROVE  /\ Written(p) \in Ledger!Record
         /\ stream' = Append(stream, Written(p))
         /\ StreamOK'
BY DEF LedgerInv, StreamOK, CallOK, CallKnows, Extends, Landing, Written, Ledger!Record

\* What is in the stream stays in it when the stream grows.
LEMMA HoldsGrows ==
  ASSUME StreamOK, NEW record \in Ledger!Record, stream' = Append(stream, record)
  PROVE  /\ \A r : Ledger!Holds(stream, r) => Ledger!Holds(stream', r)
         /\ Ledger!Holds(stream', record)
         /\ Ledger!PlanRecorded(stream) => Ledger!PlanRecorded(stream')
<1>1. /\ stream \in Seq(Ledger!Record)
      /\ Len(stream') = Len(stream) + 1
      /\ stream'[Len(stream) + 1] = record
      /\ \A i \in 1 .. Len(stream) : stream'[i] = stream[i]
      /\ DOMAIN stream = 1 .. Len(stream) /\ DOMAIN stream' = 1 .. Len(stream) + 1
      /\ Len(stream) \in Nat
  BY DEF StreamOK
<1>2. \A r : Ledger!Holds(stream, r) => Ledger!Holds(stream', r)
  BY <1>1 DEF Ledger!Holds
<1>3. Ledger!Holds(stream', record)
  BY <1>1 DEF Ledger!Holds
<1>4. Ledger!PlanRecorded(stream) => Ledger!PlanRecorded(stream')
  BY <1>2 DEF Ledger!PlanRecorded
<1> QED BY <1>2, <1>3, <1>4

\* A landing keeps the plan record single and ahead of every start.
LEMMA GrowsInOrder ==
  ASSUME StreamOK, PlanPrecedesWork, NEW record \in Ledger!Record,
         stream' = Append(stream, record),
         record = PlanRecord => ~Ledger!PlanRecorded(stream),
         Ledger!Permitted(record)
  PROVE  PlanPrecedesWork'
<1>1. /\ Len(stream) \in Nat
      /\ stream'[Len(stream) + 1] = record
      /\ \A i \in 1 .. Len(stream) : stream'[i] = stream[i]
      /\ DOMAIN stream = 1 .. Len(stream) /\ DOMAIN stream' = 1 .. Len(stream) + 1
  BY DEF StreamOK
<1>2. \A i, j \in DOMAIN stream' : stream'[i] = PlanRecord /\ stream'[j] = PlanRecord => i = j
  BY <1>1 DEF PlanPrecedesWork, Ledger!PlanPrecedesWork, Ledger!PlanRecorded, Ledger!Holds
<1>3. ASSUME NEW j \in DOMAIN stream', stream'[j] \in Start
      PROVE  \E i \in 1 .. j - 1 : stream'[i] = PlanRecord
  <2>1. CASE j = Len(stream) + 1
    BY <1>1, <1>3, <2>1 DEF Ledger!Permitted, Ledger!PlanRecorded, Ledger!Holds
  <2>2. CASE j \in 1 .. Len(stream)
    <3>1. PICK i \in 1 .. j - 1 : stream[i] = PlanRecord
      BY <1>1, <1>3, <2>2 DEF PlanPrecedesWork, Ledger!PlanPrecedesWork
    <3> QED BY <1>1, <2>2, <3>1
  <2> QED BY <1>1, <2>1, <2>2
<1> QED BY <1>2, <1>3 DEF PlanPrecedesWork, Ledger!PlanPrecedesWork

\* A landing leaves in the cache the history of the new tip, or nothing.
LEMMA CacheFollows ==
  ASSUME LedgerInv, NEW p \in Process, Extends(p), CacheAppend(p)
  PROVE  CacheOK' /\ CacheSingle' /\ CacheIsHistory'
<1> DEFINE extended == {[tip |-> stream', records |-> Append(entry.records, Written(p))] :
                           entry \in {e \in cache[p] : e.tip = call[p].base}}
           Entry == [tip : Seq(Ledger!Record), records : Seq(Ledger!Record)]
<1>1. stream' = Append(call[p].base, Written(p))
  BY DEF Extends
<1>2. stream' \in Seq(Ledger!Record) /\ Written(p) \in Ledger!Record
  BY ExtendsStream DEF StreamOK
<1>3. cache \in [Process -> SUBSET Entry] /\ cache' = [cache EXCEPT ![p] = extended]
  BY DEF LedgerInv, CacheOK, CacheAppend
<1>4. ASSUME NEW entry \in cache[p]
      PROVE  [tip |-> stream', records |-> Append(entry.records, Written(p))] \in Entry
  BY <1>2, <1>3
<1>5. extended \in SUBSET Entry
  BY <1>4
<1>6. CacheOK'
  BY <1>3, <1>5 DEF CacheOK
<1>7. \A entry \in extended : entry.records = entry.tip
  <2>1. ASSUME NEW e \in cache[p], e.tip = call[p].base
        PROVE  Append(e.records, Written(p)) = stream'
    BY <1>1, <2>1 DEF LedgerInv, CacheIsHistory
  <2>2. SUFFICES ASSUME NEW entry \in extended PROVE entry.records = entry.tip
    OBVIOUS
  <2>3. PICK e \in cache[p] :
          /\ e.tip = call[p].base
          /\ entry = [tip |-> stream', records |-> Append(e.records, Written(p))]
    OBVIOUS
  <2>4. entry.records = Append(e.records, Written(p)) /\ entry.tip = stream'
    BY <2>3
  <2> QED BY <2>1, <2>3, <2>4
<1>8. CacheIsHistory'
  BY <1>3, <1>7 DEF LedgerInv, CacheIsHistory
<1>9. \A d, e \in extended : d = e
  BY DEF LedgerInv, CacheSingle
<1>10. CacheSingle'
  BY <1>3, <1>9 DEF LedgerInv, CacheSingle
<1> QED BY <1>6, <1>8, <1>10

\* A served history is the stream: the cache answers only for its own tip.
LEMMA CachedIsStream ==
  ASSUME LedgerInv, NEW p \in Process, NEW entry \in Cached(p)
  PROVE  entry.records = stream
BY DEF LedgerInv, CacheIsHistory, Cached

-----------------------------------------------------------------------------
(* The calls.                                                             *)

Call ==
  [goal : Goals, at : Places, record : Ledger!Record,
   base : Seq(Ledger!Record), lost : 0 .. MaxRounds - 1]

\* A step that moves p's call to `next` keeps the calls' invariants when the
\* stream loses nothing and `next` knows enough of the stream after the step.
LEMMA ProceedKeeps ==
  ASSUME LedgerInv, NEW p \in Process, NEW next \in Call, Proceed(p, next),
         \A r : Ledger!Holds(stream, r) => Ledger!Holds(stream', r),
         next.goal # "lost",
         Ledger!PlanRecorded(next.base) => Ledger!PlanRecorded(stream'),
         next.at = "land" => next.goal \in {"open", "append"},
         next.goal = "open" => /\ next.record \in Start
                               /\ next.at = "land" => ~Ledger!PlanRecorded(next.base),
         next.goal = "append" => /\ next.record \in Start \union Other
                                 /\ next.record \in Start => Ledger!PlanRecorded(stream'),
         next.goal = "confirm" => next.record \in Start /\ Ledger!Holds(stream', next.record)
  PROVE  CallOK' /\ CallKnows'
<1>1. call' = [call EXCEPT ![p] = next]
  BY DEF Proceed
<1>2. CallOK'
  BY <1>1 DEF LedgerInv, CallOK, Call
<1>3. \A q \in Process : call'[q] = IF q = p THEN next ELSE call[q]
  BY <1>1 DEF LedgerInv, CallOK
<1>4. Ledger!PlanRecorded(stream) => Ledger!PlanRecorded(stream')
  BY DEF Ledger!PlanRecorded
<1>5. ASSUME NEW q \in Process
      PROVE  /\ call'[q].goal # "lost"
             /\ Ledger!PlanRecorded(call'[q].base) => Ledger!PlanRecorded(stream')
             /\ call'[q].at = "land" => call'[q].goal \in {"open", "append"}
             /\ call'[q].goal = "open" =>
                  /\ call'[q].record \in Start
                  /\ call'[q].at = "land" => ~Ledger!PlanRecorded(call'[q].base)
             /\ call'[q].goal = "append" =>
                  /\ call'[q].record \in Start \union Other
                  /\ call'[q].record \in Start => Ledger!PlanRecorded(stream')
             /\ call'[q].goal = "confirm" =>
                  /\ call'[q].record \in Start
                  /\ Ledger!Holds(stream', call'[q].record)
  <2>1. CASE q = p
    BY <1>3, <2>1
  <2>2. CASE q # p
    BY <1>3, <1>4, <2>2 DEF LedgerInv, CallKnows
  <2> QED BY <2>1, <2>2
<1>6. CallKnows'
  BY <1>5 DEF CallKnows
<1> QED BY <1>2, <1>6

\* The records a fresh call, a probe for a goal and a lost round consist of.
LEMMA CallTypes ==
  ASSUME NEW record \in Ledger!Record, NEW goal \in Goals, NEW at \in Places
  PROVE  At(goal, at, record) \in Call /\ Idle \in Call /\ ~Ledger!PlanRecorded(<<>>)
BY MaxRoundsAssumption DEF At, Idle, Call, Goals, Places, Ledger!Record, Ledger!PlanRecorded, Ledger!Holds

\* A call that goes to rest keeps the calls' invariants.
LEMMA IdleKeeps ==
  ASSUME LedgerInv, NEW p \in Process, Proceed(p, Idle),
         \A r : Ledger!Holds(stream, r) => Ledger!Holds(stream', r)
  PROVE  CallOK' /\ CallKnows'
<1>1. /\ Idle \in Call /\ Idle.goal = "rest" /\ Idle.at = "rest"
      /\ ~Ledger!PlanRecorded(Idle.base)
  BY CallTypes DEF Idle, At, Ledger!Record, Goals, Places
<1> QED BY <1>1, ProceedKeeps

\* A call that starts a compare-and-set or a read keeps them too.
LEMMA AtKeeps ==
  ASSUME LedgerInv, NEW p \in Process, NEW goal \in Goals \ {"lost"}, NEW at \in {"base", "probe"},
         NEW record \in Ledger!Record, Proceed(p, At(goal, at, record)),
         \A r : Ledger!Holds(stream, r) => Ledger!Holds(stream', r),
         goal = "open" => record \in Start,
         goal = "append" => /\ record \in Start \union Other
                            /\ record \in Start => Ledger!PlanRecorded(stream'),
         goal = "confirm" => record \in Start /\ Ledger!Holds(stream', record)
  PROVE  CallOK' /\ CallKnows'
<1> DEFINE next == At(goal, at, record)
<1>1. next \in Call /\ ~Ledger!PlanRecorded(<<>>)
  BY CallTypes DEF Places
<1>2. next.goal = goal /\ next.at = at /\ next.record = record /\ next.base = <<>>
  BY DEF At
<1> HIDE DEF next
<1>3. Proceed(p, next)
  BY DEF next
<1> QED BY <1>1, <1>2, <1>3, ProceedKeeps

\* The end of an append, landed or absorbed.
LEMMA AppendedKeeps ==
  ASSUME LedgerInv, NEW p \in Process, call[p].goal = "append", Appended(p),
         \A r : Ledger!Holds(stream, r) => Ledger!Holds(stream', r),
         Ledger!Holds(stream', call[p].record)
  PROVE  CallOK' /\ CallKnows'
<1>1. call[p].record \in Ledger!Record
  BY DEF LedgerInv, CallOK
<1>2. CASE call[p].record \in Start
  <2>1. Proceed(p, At("confirm", "probe", call[p].record))
    BY <1>2 DEF Appended, ReadFor
  <2> QED BY <1>1, <1>2, <2>1, AtKeeps DEF Goals
<1>3. CASE call[p].record \notin Start
  BY <1>3, IdleKeeps DEF Appended
<1> QED BY <1>2, <1>3

\* What a call makes of the stream keeps the calls' invariants.
LEMMA ServeKeeps ==
  ASSUME LedgerInv, NEW p \in Process, call[p].at \in {"probe", "walk"}, Serve(p, stream),
         UNCHANGED stream
  PROVE  CallOK' /\ CallKnows'
<1> DEFINE next == [call[p] EXCEPT !.at = "land"]
<1>1. /\ \A r : Ledger!Holds(stream, r) => Ledger!Holds(stream', r)
      /\ call[p] \in Call /\ call[p].record \in Ledger!Record
  BY DEF LedgerInv, CallOK, Call
<1>2. /\ next \in Call /\ next.goal = call[p].goal /\ next.at = "land"
      /\ next.record = call[p].record /\ next.base = call[p].base
  BY <1>1 DEF Call, Places
<1>3. CASE call[p].goal = "open"
  <2>0. call[p].record \in Start
    BY <1>3 DEF LedgerInv, CallKnows
  <2>1. CASE Ledger!PlanRecorded(stream)
    <3>1. Proceed(p, At("append", "base", call[p].record))
      BY <1>3, <2>1 DEF Serve, CasAppend
    <3> QED BY <1>1, <2>0, <2>1, <3>1, AtKeeps DEF Goals
  <2>2. CASE ~Ledger!PlanRecorded(stream)
    <3>1. Proceed(p, next)
      BY <1>3, <2>2 DEF Serve
    <3>2. ~Ledger!PlanRecorded(call[p].base)
      BY <2>2 DEF LedgerInv, CallKnows
    <3> HIDE DEF next
    <3> QED BY <1>1, <1>2, <1>3, <2>0, <3>1, <3>2, ProceedKeeps
  <2> QED BY <2>1, <2>2
<1>4. CASE call[p].goal = "append"
  <2>1. CASE Carries(stream, call[p].record)
    <3>1. Appended(p)
      BY <1>4, <2>1 DEF Serve
    <3>2. Ledger!Holds(stream', call[p].record)
      BY <2>1 DEF Carries, Ledger!AtTip, Ledger!Holds, LedgerInv, StreamOK
    <3> QED BY <1>1, <1>4, <3>1, <3>2, AppendedKeeps
  <2>2. CASE ~Carries(stream, call[p].record)
    <3>1. Proceed(p, next)
      BY <1>4, <2>2 DEF Serve
    <3>2. /\ Ledger!PlanRecorded(call[p].base) => Ledger!PlanRecorded(stream')
          /\ call[p].record \in Start \union Other
          /\ call[p].record \in Start => Ledger!PlanRecorded(stream')
      BY <1>4 DEF LedgerInv, CallKnows
    <3> HIDE DEF next
    <3> QED BY <1>1, <1>2, <1>4, <3>1, <3>2, ProceedKeeps
  <2> QED BY <2>1, <2>2
<1>5. CASE call[p].goal = "tail"
  BY <1>1, <1>5, IdleKeeps DEF Serve
<1>6. CASE call[p].goal = "confirm"
  <2>1. Ledger!Holds(stream, call[p].record)
    BY <1>6 DEF LedgerInv, CallKnows
  <2> QED BY <1>1, <1>6, <2>1, IdleKeeps DEF Serve
<1> QED BY <1>3, <1>4, <1>5, <1>6 DEF Serve

\* A lost round keeps them: it re-reads, or gives up.
LEMMA NextRoundKeeps ==
  ASSUME LedgerInv, NEW p \in Process, call[p].at = "land", NextRound(p),
         \A r : Ledger!Holds(stream, r) => Ledger!Holds(stream', r)
  PROVE  CallOK' /\ CallKnows'
<1> DEFINE next == [call[p] EXCEPT !.at = "base", !.lost = @ + 1]
<1>1. CASE call[p].lost + 1 = MaxRounds
  BY <1>1, IdleKeeps DEF NextRound
<1>2. CASE call[p].lost + 1 # MaxRounds
  <2>1. Proceed(p, next)
    BY <1>2 DEF NextRound
  <2>2. /\ next \in Call /\ next.goal = call[p].goal /\ next.at = "base"
        /\ next.record = call[p].record /\ next.base = call[p].base
    <3>1. call[p] \in Call
      BY DEF LedgerInv, CallOK, Call
    <3>2. call[p].lost + 1 \in 0 .. MaxRounds - 1
      BY <1>2, <3>1, MaxRoundsAssumption DEF Call
    <3>3. "base" \in Places
      BY DEF Places
    <3> QED BY <3>1, <3>2, <3>3 DEF Call
  <2>3. /\ call[p].goal \in {"open", "append"}
        /\ call[p].goal = "open" => call[p].record \in Start
        /\ Ledger!PlanRecorded(call[p].base) => Ledger!PlanRecorded(stream')
        /\ call[p].goal = "append" => /\ call[p].record \in Start \union Other
                                      /\ call[p].record \in Start => Ledger!PlanRecorded(stream')
    BY DEF LedgerInv, CallKnows, Ledger!PlanRecorded
  <2> HIDE DEF next
  <2> QED BY <2>1, <2>2, <2>3, ProceedKeeps
<1> QED BY <1>1, <1>2

-----------------------------------------------------------------------------
(* The invariant.                                                         *)

\* The part of the invariant only landings and walks can disturb.
LEMMA StreamStays ==
  ASSUME LedgerInv, UNCHANGED <<stream, cache>>
  PROVE  StreamOK' /\ CacheOK' /\ CacheSingle' /\ CacheIsHistory' /\ PlanPrecedesWork'
BY DEF LedgerInv, StreamOK, CacheOK, CacheSingle, CacheIsHistory, PlanPrecedesWork,
       Ledger!PlanPrecedesWork

\* The write that lands is in order: the plan where none is recorded, a
\* start where it is.
LEMMA LandsInOrder ==
  ASSUME LedgerInv, NEW p \in Process, Extends(p)
  PROVE  /\ StreamOK' /\ PlanPrecedesWork'
         /\ \A r : Ledger!Holds(stream, r) => Ledger!Holds(stream', r)
         /\ Ledger!Holds(stream', Written(p))
<1>1. /\ Written(p) \in Ledger!Record /\ stream' = Append(stream, Written(p))
      /\ StreamOK /\ PlanPrecedesWork /\ StreamOK'
  BY ExtendsStream DEF LedgerInv
<1>2. /\ call[p].goal = "open" /\ Written(p) = PlanRecord /\ ~Ledger!PlanRecorded(stream)
      \/ /\ call[p].goal = "append" /\ Written(p) \in Start \union Other
         /\ Written(p) \in Start => Ledger!PlanRecorded(stream)
  BY DEF LedgerInv, CallKnows, Extends, Landing, Written
<1>3. Written(p) = PlanRecord => ~Ledger!PlanRecorded(stream)
  BY <1>2, RecordAssumption
<1>4. Ledger!Permitted(Written(p))
  BY <1>2, RecordAssumption DEF Ledger!Permitted
<1>5. PlanPrecedesWork'
  BY <1>1, <1>3, <1>4, GrowsInOrder
<1> QED BY <1>1, <1>5, HoldsGrows

\* The initial state satisfies the invariant.
LEMMA InitLedgerInv == InitLedger => LedgerInv
<1> SUFFICES ASSUME InitLedger PROVE LedgerInv
  OBVIOUS
<1>1. /\ Idle \in Call /\ Idle.goal = "rest" /\ Idle.at = "rest"
      /\ Idle.base = <<>> /\ ~Ledger!PlanRecorded(<<>>)
  BY CallTypes DEF Idle, At, Ledger!Record, Goals, Places
<1>2. StreamOK /\ CacheOK /\ CacheSingle /\ CacheIsHistory /\ PlanPrecedesWork
  BY DEF InitLedger, StreamOK, CacheOK, CacheSingle, CacheIsHistory, PlanPrecedesWork,
         Ledger!PlanPrecedesWork
<1>3. CallOK /\ CallKnows
  <2> HIDE DEF Idle
  <2> QED BY <1>1 DEF InitLedger, CallOK, CallKnows, Call
<1> QED BY <1>2, <1>3 DEF LedgerInv

\* Every step keeps it.
LEMMA NextLedgerInv == LedgerInv /\ [NextLedger]_ledgerVars => LedgerInv'
<1> SUFFICES ASSUME LedgerInv, [NextLedger]_ledgerVars PROVE LedgerInv'
  OBVIOUS
<1>0. CASE UNCHANGED ledgerVars
  BY <1>0, StreamStays DEF LedgerInv, ledgerVars, CallOK, CallKnows
<1> SUFFICES ASSUME NEW p \in Process,
                    \/ \E record \in Start : CallAppendStart(p, record)
                    \/ \E record \in Other : CallAppend(p, record)
                    \/ CallTail(p)
                    \/ BaseReads(p) \/ Probes(p) \/ Walks(p)
                    \/ Lands(p) \/ Loses(p) \/ LandsUnreported(p)
                    \/ Dies(p)
             PROVE  LedgerInv'
  BY <1>0 DEF NextLedger
<1>1. ASSUME NEW record \in Start, CallAppendStart(p, record) PROVE LedgerInv'
  <2>1. CallOK' /\ CallKnows'
    BY <1>1, AtKeeps DEF CallAppendStart, CasAppend, Goals, Ledger!Record
  <2> QED BY <1>1, <2>1, StreamStays DEF LedgerInv, CallAppendStart
<1>2. ASSUME NEW record \in Other, CallAppend(p, record) PROVE LedgerInv'
  <2>1. CallOK' /\ CallKnows'
    BY <1>2, AtKeeps, RecordAssumption DEF CallAppend, CasAppend, Goals, Ledger!Record
  <2> QED BY <1>2, <2>1, StreamStays DEF LedgerInv, CallAppend
<1>3. CASE CallTail(p)
  <2>1. CallOK' /\ CallKnows'
    BY <1>3, AtKeeps DEF CallTail, ReadFor, Goals, Ledger!Record
  <2> QED BY <1>3, <2>1, StreamStays DEF LedgerInv, CallTail
<1>4. CASE BaseReads(p)
  <2> DEFINE next == [call[p] EXCEPT !.at = "probe", !.base = stream]
  <2>1. /\ Proceed(p, next) /\ UNCHANGED <<stream, cache>>
        /\ next \in Call /\ next.goal = call[p].goal /\ next.at = "probe"
        /\ next.record = call[p].record /\ next.base = stream
    BY <1>4 DEF BaseReads, LedgerInv, CallOK, StreamOK, Call, Places
  <2>2. /\ call[p].goal # "lost"
        /\ call[p].goal = "open" => call[p].record \in Start
        /\ call[p].goal = "append" => /\ call[p].record \in Start \union Other
                                      /\ call[p].record \in Start => Ledger!PlanRecorded(stream')
        /\ call[p].goal = "confirm" => call[p].record \in Start /\ Ledger!Holds(stream', call[p].record)
    BY <2>1 DEF LedgerInv, CallKnows
  <2>3. CallOK' /\ CallKnows'
    <3> HIDE DEF next
    <3> QED BY <2>1, <2>2, ProceedKeeps
  <2> QED BY <2>1, <2>3, StreamStays DEF LedgerInv
<1>5. CASE Probes(p)
  <2>1. CASE \E entry \in Cached(p) : Serve(p, entry.records)
    <3>1. Serve(p, stream)
      BY <2>1, CachedIsStream
    <3>2. CallOK' /\ CallKnows'
      BY <1>5, <3>1, ServeKeeps DEF Probes
    <3> QED BY <1>5, <3>2, StreamStays DEF LedgerInv, Probes
  <2>2. CASE Proceed(p, [call[p] EXCEPT !.at = "walk"])
    <3> DEFINE next == [call[p] EXCEPT !.at = "walk"]
    <3>1. /\ Proceed(p, next) /\ UNCHANGED <<stream, cache>>
          /\ next \in Call /\ next.goal = call[p].goal /\ next.at = "walk"
          /\ next.record = call[p].record /\ next.base = call[p].base
      BY <1>5, <2>2 DEF Probes, LedgerInv, CallOK, Call, Places
    <3>2. /\ call[p].goal # "lost"
          /\ Ledger!PlanRecorded(call[p].base) => Ledger!PlanRecorded(stream')
          /\ call[p].goal = "open" => call[p].record \in Start
          /\ call[p].goal = "append" => /\ call[p].record \in Start \union Other
                                        /\ call[p].record \in Start => Ledger!PlanRecorded(stream')
          /\ call[p].goal = "confirm" => /\ call[p].record \in Start
                                         /\ Ledger!Holds(stream', call[p].record)
      BY <3>1 DEF LedgerInv, CallKnows
    <3>3. CallOK' /\ CallKnows'
      <4> HIDE DEF next
      <4> QED BY <3>1, <3>2, ProceedKeeps
    <3> QED BY <3>1, <3>3, StreamStays DEF LedgerInv
  <2> QED BY <1>5, <2>1, <2>2 DEF Probes
<1>6. CASE Walks(p)
  <2>1. CallOK' /\ CallKnows'
    BY <1>6, ServeKeeps DEF Walks
  <2>2. StreamOK' /\ PlanPrecedesWork'
    BY <1>6 DEF Walks, LedgerInv, StreamOK, PlanPrecedesWork, Ledger!PlanPrecedesWork
  <2>3. CacheOK' /\ CacheSingle' /\ CacheIsHistory'
    BY <1>6 DEF Walks, LedgerInv, StreamOK, CacheOK, CacheSingle, CacheIsHistory
  <2> QED BY <2>1, <2>2, <2>3 DEF LedgerInv
<1>7. CASE Lands(p)
  <2>1. StreamOK' /\ PlanPrecedesWork' /\ CacheOK' /\ CacheSingle' /\ CacheIsHistory'
    BY <1>7, LandsInOrder, CacheFollows DEF Lands
  <2>2. CASE call[p].goal = "open"
    <3>1. Proceed(p, At("append", "base", call[p].record))
      BY <1>7, <2>2 DEF Lands, CasAppend
    <3>2. call[p].record \in Start /\ Ledger!PlanRecorded(stream')
      BY <1>7, <2>2, LandsInOrder DEF Lands, Written, LedgerInv, CallKnows, Ledger!PlanRecorded
    <3>3. CallOK' /\ CallKnows'
      BY <1>7, <3>1, <3>2, LandsInOrder, AtKeeps DEF Lands, Goals, Ledger!Record
    <3> QED BY <2>1, <3>3 DEF LedgerInv
  <2>3. CASE call[p].goal = "append"
    <3>1. Appended(p) /\ Ledger!Holds(stream', call[p].record)
      BY <1>7, <2>3, LandsInOrder DEF Lands, Written
    <3>2. CallOK' /\ CallKnows'
      BY <1>7, <2>3, <3>1, LandsInOrder, AppendedKeeps DEF Lands
    <3> QED BY <2>1, <3>2 DEF LedgerInv
  <2> QED BY <1>7, <2>2, <2>3 DEF Lands
<1>8. CASE Loses(p)
  <2>1. CallOK' /\ CallKnows'
    BY <1>8, NextRoundKeeps DEF Loses, Landing
  <2> QED BY <1>8, <2>1, StreamStays DEF LedgerInv, Loses
<1>9. CASE LandsUnreported(p)
  <2>1. StreamOK' /\ PlanPrecedesWork'
    BY <1>9, LandsInOrder DEF LandsUnreported
  <2>2. CallOK' /\ CallKnows'
    BY <1>9, LandsInOrder, NextRoundKeeps DEF LandsUnreported, Extends, Landing
  <2>3. CacheOK' /\ CacheSingle' /\ CacheIsHistory'
    BY <1>9 DEF LandsUnreported, LedgerInv, CacheOK, CacheSingle, CacheIsHistory
  <2> QED BY <2>1, <2>2, <2>3 DEF LedgerInv
<1>10. CASE Dies(p)
  <2>1. CallOK' /\ CallKnows'
    BY <1>10, IdleKeeps DEF Dies
  <2>2. StreamOK' /\ PlanPrecedesWork'
    BY <1>10 DEF Dies, LedgerInv, StreamOK, PlanPrecedesWork, Ledger!PlanPrecedesWork
  <2>3. CacheOK' /\ CacheSingle' /\ CacheIsHistory'
    BY <1>10 DEF Dies, LedgerInv, CacheOK, CacheSingle, CacheIsHistory
  <2> QED BY <2>1, <2>2, <2>3 DEF LedgerInv
<1> QED BY <1>1, <1>2, <1>3, <1>4, <1>5, <1>6, <1>7, <1>8, <1>9, <1>10

\* Every reachable state satisfies the invariant.
THEOREM LedgerInductive == SpecLedger => []LedgerInv
BY InitLedgerInv, NextLedgerInv, PTL DEF SpecLedger

\* Type correctness of the stream, the calls and the caches.
THEOREM LedgerTypeCorrect == SpecLedger => []LedgerTypeOK
<1>1. LedgerInv => LedgerTypeOK
  <2> SUFFICES ASSUME LedgerInv, NEW p \in Process
               PROVE  Cardinality(cache[p]) <= 1
    BY DEF LedgerInv, LedgerTypeOK, StreamOK, CallOK, Goals, CallKnows
  <2>1. CASE cache[p] = {}
    BY <2>1, FS_EmptySet
  <2>2. CASE cache[p] # {}
    <3>1. PICK entry \in cache[p] : TRUE
      BY <2>2
    <3>2. cache[p] = {entry}
      BY <3>1 DEF LedgerInv, CacheSingle
    <3> QED BY <3>2, FS_Singleton
  <2> QED BY <2>1, <2>2
<1> QED BY <1>1, LedgerInductive, PTL

\* The plan record is the attempt's first of its kind and only one, and no
\* write-ahead start precedes it, whichever processes open the attempt.
THEOREM PlanFirst == SpecLedger => []PlanPrecedesWork
<1>1. LedgerInv => PlanPrecedesWork
  BY DEF LedgerInv
<1> QED BY <1>1, LedgerInductive, PTL

\* appendStart never throws for a record it has just written.
THEOREM AppendsAreFound == SpecLedger => []NothingLost
<1>1. LedgerInv => NothingLost
  BY DEF LedgerInv, CallKnows, NothingLost
<1> QED BY <1>1, LedgerInductive, PTL

\* No cache ever serves a history that is not the one of the ref's tip,
\* whoever grew the stream since it was filled.
THEOREM CachesAreTrue == SpecLedger => []CacheIsHistory
<1>1. LedgerInv => CacheIsHistory
  BY DEF LedgerInv
<1> QED BY <1>1, LedgerInductive, PTL

-----------------------------------------------------------------------------
(* The refinement.                                                        *)

\* What a call makes of the stream is an absorbed append or a tail of the
\* port, or nothing the port sees.
LEMMA ServeImplements ==
  ASSUME LedgerInv, NEW p \in Process, Serve(p, stream), UNCHANGED stream
  PROVE  [Ledger!Next]_Ledger!vars
<1>1. CASE call[p].goal \in {"open", "confirm"}
  BY <1>1 DEF Serve, Ledger!vars
<1>2. CASE call[p].goal = "append"
  <2>1. CASE Carries(stream, call[p].record)
    <3>1. Ledger!Absorb(p, call[p].record)
      BY <1>2, <2>1 DEF Serve, Appended, Carries, Ledger!Absorb, Ledger!Permitted, LedgerInv, CallKnows
    <3>2. call[p].record \in Start \union Other
      BY <1>2 DEF LedgerInv, CallKnows
    <3> QED BY <3>1, <3>2 DEF Ledger!Next
  <2>2. CASE ~Carries(stream, call[p].record)
    BY <1>2, <2>2 DEF Serve, Ledger!vars
  <2> QED BY <2>1, <2>2
<1>3. CASE call[p].goal = "tail"
  <2>1. Ledger!ReadTail(p)
    BY <1>3 DEF Serve, Ledger!ReadTail
  <2> QED BY <2>1 DEF Ledger!Next
<1> QED BY <1>1, <1>2, <1>3 DEF Serve

\* A landing is the opening of the plan or an append of the port.
LEMMA ExtendsImplements ==
  ASSUME LedgerInv, NEW p \in Process, Extends(p)
  PROVE  \/ call[p].goal = "open" /\ ~Ledger!PlanRecorded(stream) /\ Ledger!Land(PlanRecord)
         \/ /\ call[p].goal = "append" /\ call[p].record \in Start \union Other
            /\ Ledger!Permitted(call[p].record) /\ Ledger!Land(call[p].record)
BY DEF LedgerInv, CallKnows, Extends, Landing, Written, Ledger!Land, Ledger!Permitted

\* Every step of the git ledger is a step of the port or leaves it alone.
LEMMA LedgerStepImplementsPort == LedgerInv /\ [NextLedger]_ledgerVars => [Ledger!Next]_Ledger!vars
<1> SUFFICES ASSUME LedgerInv, [NextLedger]_ledgerVars PROVE [Ledger!Next]_Ledger!vars
  OBVIOUS
<1>1. CASE UNCHANGED <<stream, told>>
  BY <1>1 DEF Ledger!vars
<1> SUFFICES ASSUME NEW p \in Process,
                    Probes(p) \/ Walks(p) \/ Lands(p) \/ LandsUnreported(p)
             PROVE  [Ledger!Next]_Ledger!vars
  BY <1>1 DEF NextLedger, ledgerVars, CallAppendStart, CallAppend, CallTail, BaseReads, Loses, Dies
<1>2. CASE Probes(p)
  <2>1. CASE \E entry \in Cached(p) : Serve(p, entry.records)
    <3>1. Serve(p, stream)
      BY <2>1, CachedIsStream
    <3> QED BY <1>2, <3>1, ServeImplements DEF Probes
  <2>2. CASE UNCHANGED told
    BY <1>2, <2>2 DEF Probes, Ledger!vars
  <2> QED BY <1>2, <2>1, <2>2 DEF Probes
<1>3. CASE Walks(p)
  BY <1>3, ServeImplements DEF Walks
<1>4. CASE Lands(p)
  <2>1. CASE call[p].goal = "open"
    <3>1. Ledger!OpenPlan
      BY <1>4, <2>1, ExtendsImplements DEF Lands, Ledger!OpenPlan
    <3> QED BY <3>1 DEF Ledger!Next
  <2>2. CASE call[p].goal = "append"
    <3>1. Ledger!AppendRecord(p, call[p].record) /\ call[p].record \in Start \union Other
      BY <1>4, <2>2, ExtendsImplements DEF Lands, Appended, Ledger!AppendRecord
    <3> QED BY <3>1 DEF Ledger!Next
  <2> QED BY <1>4, <2>1, <2>2 DEF Lands
<1>5. CASE LandsUnreported(p)
  <2>1. CASE call[p].goal = "open"
    <3>1. Ledger!OpenPlan
      BY <1>5, <2>1, ExtendsImplements DEF LandsUnreported, Ledger!OpenPlan
    <3> QED BY <3>1 DEF Ledger!Next
  <2>2. CASE call[p].goal = "append"
    <3>1. Ledger!AppendUnreported(call[p].record) /\ call[p].record \in Start \union Other
      BY <1>5, <2>2, ExtendsImplements DEF LandsUnreported, Ledger!AppendUnreported
    <3> QED BY <3>1 DEF Ledger!Next
  <2> QED BY <1>5, <2>1, <2>2, ExtendsImplements DEF LandsUnreported
<1> QED BY <1>2, <1>3, <1>4, <1>5

\* The git ledger implements the ledger port: a forward-only log that loses,
\* duplicates and rewrites nothing, for any number of processes and faults.
THEOREM LedgerImplementsPort == SpecLedger => ImplementsLedger
<1>1. InitLedger => Ledger!Init
  BY DEF InitLedger, Ledger!Init
<1> QED BY <1>1, LedgerInductive, LedgerStepImplementsPort, PTL DEF SpecLedger, ImplementsLedger, Ledger!Spec

=============================================================================
