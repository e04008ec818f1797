------------------------- MODULE ChannelStageProofs -------------------------
(***************************************************************************)
(* For any channels, plan, processes and bounds: the git channel store,    *)
(* driven by the channel stage, implements the channel store port.  The    *)
(* argument: a landing extends the very history whose tip its round        *)
(* adjudicated, because the compare-and-set compares the whole history; so *)
(* at the instant of the landing the channel is at the assumed state.      *)
(***************************************************************************)
EXTENDS ChannelStage, SequenceTheorems, WellFoundedInduction, TLAPS

-----------------------------------------------------------------------------
(* Facts about histories and plans.                                        *)

\* What a channel reads as after a landing.
LEMMA StateOfLanded ==
  ASSUME NEW history \in Seq(Port!State), NEW state \in Port!State
  PROVE  /\ Append(history, state) \in Seq(Port!State)
         /\ StateOf(Append(history, state)) = state
<1>1. /\ Append(history, state) \in Seq(Port!State)
      /\ Append(history, state) # <<>>
      /\ Append(history, state)[Len(Append(history, state))] = state
  BY AppendProperties
<1> QED
  BY <1>1 DEF StateOf

LEMMA StateOfType ==
  ASSUME NEW history \in Seq(Port!State)
  PROVE  StateOf(history) \in Port!State
<1>1. CASE history = <<>>
  BY <1>1 DEF StateOf, Port!State
<1>2. CASE history # <<>>
  <2>1. Len(history) \in DOMAIN history
    BY <1>2, LenProperties, EmptySeq
  <2> QED
    BY <1>2, <2>1, ElementOfSeq DEF StateOf
<1> QED
  BY <1>1, <1>2

LEMMA PointerType ==
  ASSUME TypeOK
  PROVE  pointer \in [Channel -> Port!State]
BY StateOfType DEF TypeOK, StoreTypeOK, pointer

\* A driver that has a move to make has one of the plan.
LEMMA PlannedType ==
  ASSUME TypeOK, NEW p \in Process, stage[p] # Out, stage[p].at # "complete"
  PROVE  /\ stage[p] \in Drivers
         /\ stage[p].move \in 1 .. Len(Moves)
         /\ Planned(p).channel \in Channel /\ Planned(p).to \in Target
<1>1. stage[p] \in Drivers
  BY DEF TypeOK
<1>2. Len(Moves) \in Nat /\ Moves \in [1 .. Len(Moves) -> [channel : Channel, to : Target]]
  BY MovesAssumption, LenProperties DEF MovesAssumption
<1>3. stage[p].move \in 1 .. Len(Moves)
  BY <1>1, <1>2 DEF TypeOK, Drivers
<1> QED
  BY <1>1, <1>2, <1>3 DEF Planned

\* A bounded set of naturals has a last element.
LEMMA LastOf ==
  ASSUME NEW n \in Nat, NEW S \in SUBSET (1 .. n), S # {}
  PROVE  \E i \in S : \A j \in S : j <= i
<1> DEFINE T == {n - i : i \in S}
<1>1. T \subseteq Nat
  BY SMT
<1>2. T # {}
  <2>1. PICK i \in S : TRUE
    OBVIOUS
  <2>2. n - i \in T
    OBVIOUS
  <2> QED
    BY <2>2
<1>3. \A j \in S : n - j \in T
  OBVIOUS
<1>4. \A e \in T : \E i \in S : e = n - i
  OBVIOUS
<1> HIDE DEF T
<1>5. IsWellFoundedOn(OpToRel(<, Nat), Nat)
  BY NatLessThanWellFounded
<1> DEFINE R == OpToRel(<, Nat)
<1>6. \A d, e \in Nat : <<e, d>> \notin R => ~(e < d)
  BY DEF OpToRel
<1> HIDE DEF R
<1>7. PICK d \in T : \A e \in T : <<e, d>> \notin R
  BY <1>1, <1>2, <1>5, WFMin DEF R
<1>8. PICK i \in S : d = n - i
  BY <1>4
<1>9. ASSUME NEW j \in S PROVE j <= i
  <2>1. n - j \in T /\ n - j \in Nat /\ d \in Nat
    BY <1>1, <1>3
  <2>2. ~(n - j < d)
    BY <2>1, <1>6, <1>7
  <2>3. i \in Nat /\ j \in Nat
    OBVIOUS
  <2> QED
    BY <2>1, <2>2, <2>3, <1>8, SMT
<1> QED
  BY <1>9

\* The prior a move assumes is what it observed, or a target it recorded.
LEMMA AssumedIsKnown ==
  ASSUME TypeOK, NEW p \in Process, stage[p] \in Drivers
  PROVE  \/ MoveRecords(Planned(p).channel) = {} /\ Assumed(p) = stage[p].observed
         \/ \E r \in MoveRecords(Planned(p).channel) : Assumed(p) = r.to
<1> DEFINE recorded == {i \in DOMAIN tail : tail[i] \in MoveRecords(Planned(p).channel)}
<1>1. MoveRecords(Planned(p).channel) = {} <=> recorded = {}
  BY DEF MoveRecords, Records
<1>2. CASE recorded = {}
  BY <1>1, <1>2 DEF Assumed
<1>3. CASE recorded # {}
  <2>1. Len(tail) \in Nat /\ recorded \in SUBSET (1 .. Len(tail))
    BY LenProperties DEF TypeOK
  <2>2. \E i \in recorded : \A j \in recorded : j <= i
    BY <1>3, <2>1, LastOf
  <2> DEFINE last == CHOOSE i \in recorded : \A j \in recorded : j <= i
  <2>3. last \in recorded
    BY <2>2
  <2>4. Assumed(p) = tail[last].to
    BY <1>3 DEF Assumed
  <2> QED
    BY <2>3, <2>4
<1> QED
  BY <1>2, <1>3

LEMMA AssumedType ==
  ASSUME TypeOK, NEW p \in Process, stage[p] \in Drivers
  PROVE  Assumed(p) \in Port!State
<1>1. \A r \in MoveRecords(Planned(p).channel) : r.to \in Target
  <2>1. Records \subseteq Record
    BY ElementOfSeq, LenProperties DEF TypeOK, Records
  <2> QED
    BY <2>1 DEF MoveRecords, Record, Completion
<1>2. stage[p].observed \in Port!State
  BY DEF Drivers
<1> QED
  BY <1>1, <1>2, AssumedIsKnown DEF Port!State

\* An append keeps the tail, or extends it.
LEMMA ExtendedTail ==
  ASSUME tail \in Seq(Record), NEW r \in Record
  PROVE  /\ Extended(r) \in Seq(Record)
         /\ Extended(r) = tail \/ Extended(r) = Append(tail, r)
         /\ \E i \in DOMAIN Extended(r) : Extended(r)[i] = r
         /\ \A i \in DOMAIN tail : i \in DOMAIN Extended(r) /\ Extended(r)[i] = tail[i]
         /\ \A i \in DOMAIN Extended(r) : i \in DOMAIN tail \/ Extended(r)[i] = r
<1>1. CASE tail # <<>> /\ tail[Len(tail)] = r
  BY <1>1, LenProperties, EmptySeq DEF Extended
<1>2. CASE ~(tail # <<>> /\ tail[Len(tail)] = r)
  BY <1>2, AppendProperties, LenProperties DEF Extended
<1> QED
  BY <1>1, <1>2

-----------------------------------------------------------------------------
(* Type correctness.                                                       *)

\* A landing extends the history its round read with the target of the call.
LEMMA LandedHistory ==
  ASSUME TypeOK, NEW p \in Process, Extends(p)
  PROVE  /\ apply[p] \in InCall
         /\ refs' \in [Channel -> Seq(Port!State)]
         /\ refs' = [refs EXCEPT ![apply[p].channel] = Append(refs[apply[p].channel], apply[p].to)]
         /\ pointer[apply[p].channel] = apply[p].from
         /\ pointer' = [pointer EXCEPT ![apply[p].channel] = apply[p].to]
<1>1. apply[p] \in InCall
  BY DEF Extends, TypeOK, StoreTypeOK, Rest
<1>2. refs' = [refs EXCEPT ![apply[p].channel] = Append(refs[apply[p].channel], apply[p].to)]
  BY DEF Extends
<1>3. /\ apply[p].channel \in Channel /\ apply[p].to \in Port!State
      /\ refs \in [Channel -> Seq(Port!State)]
  BY <1>1 DEF InCall, TypeOK, StoreTypeOK
<1>4. refs' \in [Channel -> Seq(Port!State)]
  BY <1>2, <1>3, StateOfLanded
<1>5. pointer[apply[p].channel] = apply[p].from
  BY <1>3 DEF Extends, TypeOK, StoreTypeOK, pointer
<1>6. pointer' = [c \in Channel |-> StateOf(refs'[c])]
  BY DEF pointer, StateOf
<1>7. pointer' = [pointer EXCEPT ![apply[p].channel] = apply[p].to]
  BY <1>2, <1>3, <1>6, StateOfLanded DEF pointer
<1> QED
  BY <1>1, <1>2, <1>4, <1>5, <1>7

\* The store's own steps keep its types, and a call stays the call it is or ends.
LEMMA StoreTyped ==
  ASSUME TypeOK, NEW p \in Process,
         Reads(p) \/ Loses(p) \/ Fails(p) \/ Lands(p) \/ LandsUnreported(p)
  PROVE  /\ StoreTypeOK'
         /\ apply[p] \in InCall
         /\ \A q \in Process : q # p => apply'[q] = apply[q] /\ reply'[q] = reply[q]
         /\ apply'[p] # Rest => /\ apply'[p].channel = apply[p].channel
                                /\ apply'[p].from = apply[p].from
                                /\ apply'[p].to = apply[p].to
                                /\ UNCHANGED reply
<1> USE FaultsAssumption DEF FaultsAssumption, TypeOK, StoreTypeOK
<1>1. apply[p] \in InCall
  BY DEF Reads, Loses, Fails, Lands, LandsUnreported, Extends, Rest
<1>2. apply[p].channel \in Channel /\ refs[apply[p].channel] \in Seq(Port!State)
  BY <1>1 DEF InCall
<1>3. StateOf(refs[apply[p].channel]) \in Port!State
  BY <1>2, StateOfType
<1>4. CASE Reads(p)
  <2> DEFINE history == refs[apply[p].channel]
  <2>1. refs' = refs /\ faults' = faults
    BY <1>4 DEF Reads
  <2>2. CASE /\ apply' = [apply EXCEPT ![p] = Rest]
             /\ \E kind \in {"noop", "conflict"} :
                  reply' = [reply EXCEPT ![p] = Port!Answer(kind, StateOf(history))]
    <3>1. reply' \in [Process -> Port!Replies]
      BY <1>3, <2>2 DEF Port!Replies, Port!Answer
    <3> QED
      BY <1>1, <2>1, <2>2, <3>1 DEF Rest
  <2>3. CASE /\ StateOf(history) = apply[p].from /\ StateOf(history) # apply[p].to
             /\ Goto(p, [apply[p] EXCEPT !.at = "land", !.base = history])
             /\ UNCHANGED reply
    <3>1. [apply[p] EXCEPT !.at = "land", !.base = history] \in InCall
      BY <1>1, <1>2 DEF InCall
    <3>2. apply' \in [Process -> InCall \union {Rest}]
      BY <2>3, <3>1 DEF Goto
    <3>3. apply'[p] = [apply[p] EXCEPT !.at = "land", !.base = history]
      BY <2>3 DEF Goto
    <3>4. /\ apply'[p].base = history /\ apply'[p].from = apply[p].from
          /\ apply'[p].to = apply[p].to /\ apply'[p].channel = apply[p].channel
      BY <1>1, <3>3 DEF InCall
    <3> QED
      BY <1>1, <2>1, <2>3, <3>2, <3>4 DEF Goto
  <2> QED
    BY <1>4, <2>2, <2>3 DEF Reads, Returns, Goto
<1>5. CASE Loses(p)
  <2>1. [apply[p] EXCEPT !.at = "read", !.base = <<>>] \in InCall
    BY <1>1, EmptySeq DEF InCall
  <2>2. apply' \in [Process -> InCall \union {Rest}]
    BY <1>5, <2>1 DEF Loses, Goto
  <2>3. apply'[p] = [apply[p] EXCEPT !.at = "read", !.base = <<>>]
    BY <1>5 DEF Loses, Goto
  <2>4. /\ apply'[p].at = "read" /\ apply'[p].from = apply[p].from
        /\ apply'[p].to = apply[p].to /\ apply'[p].channel = apply[p].channel
    BY <1>1, <2>3 DEF InCall
  <2> QED
    BY <1>1, <1>5, <2>2, <2>4 DEF Loses, Goto
<1>6. CASE Fails(p)
  <2>1. reply' \in [Process -> Port!Replies]
    BY <1>6 DEF Fails, Returns, Port!Replies
  <2> QED
    BY <1>1, <1>6, <2>1 DEF Fails, Returns, Goto, Rest
<1>7. CASE Lands(p)
  <2>1. refs' \in [Channel -> Seq(Port!State)]
    BY <1>7, LandedHistory DEF Lands
  <2>2. reply' \in [Process -> Port!Replies]
    BY <1>1, <1>7 DEF Lands, Returns, InCall, Port!Replies, Port!Answer
  <2> QED
    BY <1>1, <1>7, <2>1, <2>2 DEF Lands, Returns, Goto, Rest
<1>8. CASE LandsUnreported(p)
  <2>1. refs' \in [Channel -> Seq(Port!State)] /\ faults' \in 0 .. MaxFaults
    BY <1>8, LandedHistory DEF LandsUnreported
  <2>2. CASE Goto(p, [apply[p] EXCEPT !.at = "read", !.base = <<>>]) /\ UNCHANGED reply
    <3>1. [apply[p] EXCEPT !.at = "read", !.base = <<>>] \in InCall
      BY <1>1, EmptySeq DEF InCall
    <3>2. apply' \in [Process -> InCall \union {Rest}]
      BY <2>2, <3>1 DEF Goto
    <3>3. apply'[p] = [apply[p] EXCEPT !.at = "read", !.base = <<>>]
      BY <2>2 DEF Goto
    <3>4. /\ apply'[p].at = "read" /\ apply'[p].from = apply[p].from
          /\ apply'[p].to = apply[p].to /\ apply'[p].channel = apply[p].channel
      BY <1>1, <3>3 DEF InCall
    <3> QED
      BY <1>1, <2>1, <2>2, <3>2, <3>4 DEF Goto
  <2>3. CASE Returns(p, Port!Ambiguous)
    <3>1. reply' \in [Process -> Port!Replies]
      BY <2>3 DEF Returns, Port!Replies
    <3> QED
      BY <1>1, <2>1, <2>3, <3>1 DEF Returns, Goto, Rest
  <2> QED
    BY <1>8, <2>2, <2>3 DEF LandsUnreported
<1> QED
  BY <1>4, <1>5, <1>6, <1>7, <1>8

LEMMA TypeInit ==
  ASSUME Init
  PROVE  TypeOK
<1>1. StoreTypeOK
  BY EmptySeq, FaultsAssumption
  DEF Init, InitStore, StoreTypeOK, Rest, FaultsAssumption, Port!Replies, Port!NoReply
<1> QED
  BY <1>1, EmptySeq DEF Init, InitStore, TypeOK, Out, Rest

\* A driver that is not in the store's call leaves the store alone.
LEMMA TypeStep ==
  ASSUME TypeOK, [Next]_vars
  PROVE  TypeOK'
<1>1. Len(Moves) \in Nat
  BY MovesAssumption, LenProperties DEF MovesAssumption
<1>2. ASSUME NEW p \in Process, Enters(p) PROVE TypeOK'
  <2> DEFINE next == [at |-> IF Moves = <<>> THEN "complete" ELSE "observe", move |-> 1,
                      observed |-> Hidden, known |-> {c \in Channel : MoveRecords(c) # {}}]
  <2>1. stage' = [stage EXCEPT ![p] = next]
    BY <1>2 DEF Enters, At
  <2>2. next \in Drivers /\ (next.at = "complete" <=> next.move = Len(Moves) + 1)
    BY <1>1, MovesAssumption, EmptySeq DEF Drivers, Port!State, MovesAssumption
  <2>3. stage' \in [Process -> Drivers \union {Out}]
    BY <2>1, <2>2 DEF TypeOK
  <2>4. \A q \in Process : /\ apply[q] # Rest => q # p
                           /\ q # p => stage'[q] = stage[q]
                           /\ q = p => stage'[q] = next
    BY <1>2, <2>1 DEF Enters, TypeOK, Out
  <2> QED
    BY <1>2, <2>2, <2>3, <2>4 DEF Enters, TypeOK, StoreTypeOK, storeVars, Planned, StateOf
<1>3. ASSUME NEW p \in Process, Observes(p) PROVE TypeOK'
  <2>1. stage[p] \in Drivers /\ Planned(p).channel \in Channel
    BY <1>3, PlannedType DEF Observes, Out, Drivers
  <2> DEFINE next == [stage[p] EXCEPT !.at = "recall", !.observed = pointer[Planned(p).channel]]
  <2>0. pointer[Planned(p).channel] \in Port!State
    BY <2>1, PointerType
  <2>2. /\ next \in Drivers /\ next.move = stage[p].move /\ next.at = "recall"
    BY <2>0, <2>1 DEF Drivers
  <2>3. stage' = [stage EXCEPT ![p] = next]
    BY <1>3 DEF Observes, At
  <2> QED
    BY <1>3, <2>1, <2>2, <2>3 DEF Observes, TypeOK, StoreTypeOK, storeVars, Planned, StateOf, Out, Drivers
<1>4. ASSUME NEW p \in Process, Recalls(p) PROVE TypeOK'
  <2>1. /\ stage[p] \in Drivers /\ stage[p].at = "recall"
        /\ Planned(p).channel \in Channel /\ Planned(p).to \in Target
    BY <1>4, PlannedType DEF Recalls, Out, Drivers
  <2> DEFINE next == [stage[p] EXCEPT !.at = "apply"]
             asked == [at |-> "read", channel |-> Planned(p).channel, from |-> Assumed(p),
                       to |-> Planned(p).to, base |-> <<>>]
  <2>2. /\ next \in Drivers /\ next.move = stage[p].move /\ next.at = "apply"
    BY <2>1 DEF Drivers
  <2>3. stage' = [stage EXCEPT ![p] = next]
    BY <1>4 DEF Recalls, At
  <2>4. asked \in InCall
    BY <2>1, AssumedType, EmptySeq DEF InCall, Port!State
  <2>5. apply' = [apply EXCEPT ![p] = asked]
    BY <1>4 DEF Recalls, CallApply, Goto
  <2>6. StoreTypeOK'
    BY <1>4, <2>4, <2>5 DEF Recalls, CallApply, TypeOK, StoreTypeOK, StateOf
  <2>7. \A q \in Process : q # p => stage'[q] = stage[q] /\ apply'[q] = apply[q]
    BY <2>3, <2>5 DEF TypeOK, StoreTypeOK
  <2>8. stage'[p] = next /\ apply'[p] = asked
    BY <2>3, <2>5 DEF TypeOK, StoreTypeOK
  <2>9. stage' \in [Process -> Drivers \union {Out}]
    BY <2>2, <2>3 DEF TypeOK
  <2> HIDE DEF next
  <2>10. /\ apply'[p].channel = Planned(p)'.channel /\ apply'[p].to = Planned(p)'.to
    BY <2>2, <2>8 DEF Planned
  <2>11. stage[p].move # Len(Moves) + 1
    BY <2>1 DEF TypeOK, Out
  <2>12. \A q \in Process :
           stage'[q] # Out => (stage'[q].at = "complete" <=> stage'[q].move = Len(Moves) + 1)
    BY <2>2, <2>7, <2>8, <2>11 DEF TypeOK
  <2>13. \A q \in Process :
           apply'[q] # Rest => /\ stage'[q].at = "apply"
                               /\ apply'[q].channel = Planned(q)'.channel
                               /\ apply'[q].to = Planned(q)'.to
    BY <2>2, <2>7, <2>8, <2>10 DEF TypeOK, Planned
  <2> QED
    BY <1>4, <2>6, <2>9, <2>12, <2>13 DEF Recalls, TypeOK
<1>5. ASSUME NEW p \in Process, Applies(p) PROVE TypeOK'
  <2>1. /\ StoreTypeOK'
        /\ apply[p] \in InCall
        /\ \A q \in Process : q # p => apply'[q] = apply[q]
        /\ apply'[p] # Rest => /\ apply'[p].channel = apply[p].channel
                               /\ apply'[p].to = apply[p].to
    BY <1>5, StoreTyped DEF Applies
  <2>2. landings' \in [Channel -> Nat]
    BY <1>5, <2>1 DEF Applies, Landed, TypeOK, InCall
  <2> QED
    BY <1>5, <2>1, <2>2 DEF Applies, TypeOK, Planned, Rest, InCall
<1>6. ASSUME NEW p \in Process, Writes(p) PROVE TypeOK'
  <2>1. /\ stage[p] \in Drivers /\ stage[p].move \in 1 .. Len(Moves)
        /\ Planned(p).channel \in Channel /\ Planned(p).to \in Target
    BY <1>6, PlannedType DEF Writes, Decided, Out, Drivers
  <2> DEFINE move == stage[p].move + 1
             next == [stage[p] EXCEPT !.at = IF move > Len(Moves) THEN "complete" ELSE "observe",
                                      !.move = move, !.observed = Hidden]
  <2>2. /\ next \in Drivers /\ (next.at = "complete" <=> next.move = Len(Moves) + 1)
    <3>1. move \in 1 .. Len(Moves) + 1 /\ (move > Len(Moves) <=> move = Len(Moves) + 1)
      BY <1>1, <2>1
    <3> HIDE DEF move
    <3> QED
      BY <2>1, <3>1 DEF Drivers, Port!State
  <2>3. stage' = [stage EXCEPT ![p] = next]
    BY <1>6 DEF Writes, Proceed, At
  <2>4. reply[p].observed \in Port!State
    BY <1>6 DEF Writes, Moved, TypeOK, StoreTypeOK, Port!Replies, Port!Ambiguous, Port!NoReply
  <2>5. tail' \in Seq(Record)
    BY <1>6, <2>1, <2>4, ExtendedTail DEF Writes, TypeOK, Record, MoveRecord, Drivers
  <2>6. StoreTypeOK' /\ apply' = apply /\ apply[p] = Rest
    BY <1>6 DEF Writes, Takes, TypeOK, StoreTypeOK, StateOf, Port!Replies
  <2> HIDE DEF next
  <2> QED
    BY <1>6, <2>2, <2>3, <2>5, <2>6 DEF Writes, TypeOK, Planned
<1>7. ASSUME NEW p \in Process, Stops(p) PROVE TypeOK'
  <2>1. StoreTypeOK' /\ apply' = apply /\ apply[p] = Rest
    BY <1>7 DEF Stops, Takes, TypeOK, StoreTypeOK, StateOf, Port!Replies
  <2> QED
    BY <1>7, <2>1 DEF Stops, At, TypeOK, Planned
<1>8. ASSUME NEW p \in Process, Completes(p) PROVE TypeOK'
  <2>1. tail' \in Seq(Record)
    BY <1>8, ExtendedTail DEF Completes, TypeOK, Record
  <2>2. StoreTypeOK' /\ apply' = apply /\ apply[p] = Rest
    BY <1>8 DEF Completes, storeVars, TypeOK, StoreTypeOK, StateOf
  <2> QED
    BY <1>8, <2>1, <2>2 DEF Completes, At, TypeOK, Planned
<1>9. ASSUME NEW p \in Process, Dies(p) PROVE TypeOK'
  <2>1. StoreTypeOK' /\ apply' = [apply EXCEPT ![p] = Rest]
    BY <1>9 DEF Dies, Drops, Goto, TypeOK, StoreTypeOK, StateOf, Port!Replies, Rest
  <2> QED
    BY <1>9, <2>1 DEF Dies, At, TypeOK, StoreTypeOK, Planned
<1>10. ASSUME NEW channel \in Channel, NEW to \in Target, OutsideMoves(channel, to)
       PROVE  TypeOK'
  <2>1. refs' \in [Channel -> Seq(Port!State)]
    BY <1>10, StateOfLanded DEF OutsideMoves, TypeOK, StoreTypeOK, Port!State
  <2> QED
    BY <1>10, <2>1 DEF OutsideMoves, TypeOK, StoreTypeOK, StateOf, Planned
<1>11. CASE UNCHANGED vars
  BY <1>11 DEF vars, storeVars, TypeOK, StoreTypeOK, StateOf, Planned
<1> QED
  BY <1>2, <1>3, <1>4, <1>5, <1>6, <1>7, <1>8, <1>9, <1>10, <1>11 DEF Next

\* The stage's type invariant always holds.
THEOREM TypeCorrect == Spec => []TypeOK
BY TypeInit, TypeStep, PTL DEF Spec

-----------------------------------------------------------------------------
(* Refinement.                                                             *)

Asked(transition) ==
  [channel |-> transition.channel, from |-> transition.from, to |-> transition.to]

\* A call in progress shows at the port as the move it was asked for.
LEMMA CallShows ==
  ASSUME TypeOK, NEW p \in Process
  PROVE  /\ apply[p] = Rest => call[p] = Port!NoCall
         /\ apply[p] # Rest => /\ apply[p] \in InCall
                               /\ call[p] = Asked(apply[p])
                               /\ call[p] # Port!NoCall
                               /\ call[p].channel = apply[p].channel
                               /\ call[p].from = apply[p].from
                               /\ call[p].to = apply[p].to
<1>1. apply[p] = Rest => call[p] = Port!NoCall
  BY DEF call, Port!NoCall
<1>2. ASSUME apply[p] # Rest PROVE call[p] = Asked(apply[p])
  BY <1>2 DEF call, Asked
<1>3. "from" \in DOMAIN Asked(apply[p]) /\ "from" \notin DOMAIN Port!NoCall
  BY DEF Asked, Port!NoCall
<1> QED
  BY <1>1, <1>2, <1>3 DEF TypeOK, StoreTypeOK, Asked

\* A call that goes on asks for the same move.
LEMMA CallStays ==
  ASSUME TypeOK, TypeOK', NEW p \in Process,
         \A q \in Process : q # p => apply'[q] = apply[q],
         apply[p] # Rest,
         apply'[p] # Rest => /\ apply'[p].channel = apply[p].channel
                             /\ apply'[p].from = apply[p].from
                             /\ apply'[p].to = apply[p].to
  PROVE  call' = IF apply'[p] = Rest THEN [call EXCEPT ![p] = Port!NoCall] ELSE call
<1>1. \A q \in Process : q # p => call'[q] = call[q]
  BY DEF call
<1>2. CASE apply'[p] = Rest
  BY <1>1, <1>2 DEF call, Port!NoCall
<1>3. CASE apply'[p] # Rest
  BY <1>1, <1>3 DEF call
<1> QED
  BY <1>2, <1>3

LEMMA PortInit ==
  ASSUME Init
  PROVE  Port!Init
<1>1. pointer = [c \in Channel |-> Hidden]
  BY DEF Init, InitStore, pointer, StateOf
<1>2. call = [p \in Process |-> Port!NoCall]
  BY DEF Init, InitStore, call, Port!NoCall
<1> QED
  BY <1>1, <1>2 DEF Init, InitStore, Port!Init

\* The steps of the store's move.
LEMMA PortMove ==
  ASSUME TypeOK, TypeOK', NEW p \in Process,
         Reads(p) \/ Loses(p) \/ Fails(p) \/ Lands(p) \/ LandsUnreported(p)
  PROVE  Port!Next \/ UNCHANGED Port!vars
<1>1. /\ apply[p] \in InCall /\ apply[p] # Rest
      /\ \A q \in Process : q # p => apply'[q] = apply[q]
      /\ apply'[p] # Rest => /\ apply'[p].channel = apply[p].channel
                             /\ apply'[p].from = apply[p].from
                             /\ apply'[p].to = apply[p].to
                             /\ UNCHANGED reply
  BY StoreTyped DEF InCall, Rest
<1>2. call' = IF apply'[p] = Rest THEN [call EXCEPT ![p] = Port!NoCall] ELSE call
  BY <1>1, CallStays
<1>3. /\ call[p] # Port!NoCall
      /\ call[p].channel = apply[p].channel
      /\ call[p].from = apply[p].from
      /\ call[p].to = apply[p].to
  BY <1>1, CallShows
<1>4. apply[p].channel \in Channel /\ pointer[apply[p].channel] = StateOf(refs[apply[p].channel])
  BY <1>1 DEF InCall, pointer
<1>5. refs' = refs => pointer' = pointer
  BY DEF pointer, StateOf
<1>6. CASE Reads(p)
  <2> DEFINE state == StateOf(refs[apply[p].channel])
  <2>1. CASE state = apply[p].to /\ Returns(p, Port!Answer("noop", state))
    <3>1. apply'[p] = Rest
      BY <2>1 DEF Returns, Goto, TypeOK, StoreTypeOK
    <3>2. Port!Decline(p)
      BY <1>2, <1>3, <1>4, <1>5, <1>6, <2>1, <3>1 DEF Reads, Returns, Port!Decline, Port!Answers
    <3> QED
      BY <3>2 DEF Port!Next
  <2>2. CASE state \notin {apply[p].from, apply[p].to} /\ Returns(p, Port!Answer("conflict", state))
    <3>1. apply'[p] = Rest
      BY <2>2 DEF Returns, Goto, TypeOK, StoreTypeOK
    <3>2. Port!Decline(p)
      BY <1>2, <1>3, <1>4, <1>5, <1>6, <2>2, <3>1 DEF Reads, Returns, Port!Decline, Port!Answers
    <3> QED
      BY <3>2 DEF Port!Next
  <2>3. CASE Goto(p, [apply[p] EXCEPT !.at = "land", !.base = refs[apply[p].channel]])
             /\ UNCHANGED reply
    <3>1. apply'[p] = [apply[p] EXCEPT !.at = "land", !.base = refs[apply[p].channel]]
      BY <2>3 DEF Goto, TypeOK, StoreTypeOK
    <3>2. apply'[p] # Rest
      BY <1>1, <3>1 DEF InCall, Rest
    <3> QED
      BY <1>2, <1>5, <1>6, <2>3, <3>2 DEF Reads, Port!vars
  <2> QED
    BY <1>6, <2>1, <2>2, <2>3 DEF Reads
<1>7. CASE Loses(p)
  <2>1. apply'[p] = [apply[p] EXCEPT !.at = "read", !.base = <<>>]
    BY <1>7 DEF Loses, Goto, TypeOK, StoreTypeOK
  <2>2. apply'[p] # Rest
    BY <1>1, <2>1 DEF InCall, Rest
  <2> QED
    BY <1>2, <1>5, <1>7, <2>2 DEF Loses, Port!vars
<1>8. CASE Fails(p)
  <2>1. apply'[p] = Rest
    BY <1>8 DEF Fails, Returns, Goto, TypeOK, StoreTypeOK
  <2>2. Port!Undetermined(p)
    BY <1>2, <1>3, <1>5, <1>8, <2>1 DEF Fails, Returns, Port!Undetermined, Port!Answers
  <2> QED
    BY <2>2 DEF Port!Next
<1>9. ASSUME Extends(p) PROVE Port!Move(p)
  BY <1>1, <1>3, <1>9, LandedHistory DEF Port!Move, Extends, TypeOK, StoreTypeOK
<1>10. CASE Lands(p)
  <2>1. apply'[p] = Rest
    BY <1>10 DEF Lands, Returns, Goto, TypeOK, StoreTypeOK
  <2>2. Port!Apply(p)
    BY <1>2, <1>3, <1>9, <1>10, <2>1 DEF Lands, Returns, Port!Apply, Port!Answers
  <2> QED
    BY <2>2 DEF Port!Next
<1>11. CASE LandsUnreported(p)
  <2>1. CASE Goto(p, [apply[p] EXCEPT !.at = "read", !.base = <<>>]) /\ UNCHANGED reply
    <3>1. apply'[p] = [apply[p] EXCEPT !.at = "read", !.base = <<>>]
      BY <2>1 DEF Goto, TypeOK, StoreTypeOK
    <3>2. apply'[p] # Rest
      BY <1>1, <3>1 DEF InCall, Rest
    <3>3. Port!ApplyUnreported(p)
      BY <1>2, <1>9, <1>11, <2>1, <3>2 DEF LandsUnreported, Port!ApplyUnreported
    <3> QED
      BY <3>3 DEF Port!Next
  <2>2. CASE Returns(p, Port!Ambiguous)
    <3>1. apply'[p] = Rest
      BY <2>2 DEF Returns, Goto, TypeOK, StoreTypeOK
    <3>2. Port!ApplyUndetermined(p)
      BY <1>2, <1>3, <1>9, <1>11, <2>2, <3>1
      DEF LandsUnreported, Returns, Port!ApplyUndetermined, Port!Answers
    <3> QED
      BY <3>2 DEF Port!Next
  <2> QED
    BY <1>11, <2>1, <2>2 DEF LandsUnreported
<1> QED
  BY <1>6, <1>7, <1>8, <1>10, <1>11

\* Every step of the stage is a step of the port, or none.
LEMMA PortStep ==
  ASSUME TypeOK, TypeOK', [Next]_vars
  PROVE  Port!Next \/ UNCHANGED Port!vars
<1>1. /\ refs' = refs => pointer' = pointer
      /\ apply' = apply => call' = call
  BY DEF pointer, StateOf, call
<1>2. ASSUME NEW p \in Process, Enters(p) \/ Observes(p) \/ Completes(p)
      PROVE  UNCHANGED Port!vars
  BY <1>1, <1>2 DEF Enters, Observes, Completes, storeVars, Port!vars
<1>3. ASSUME NEW p \in Process, Recalls(p) PROVE Port!Next
  <2> DEFINE transition == [channel |-> Planned(p).channel, from |-> Assumed(p), to |-> Planned(p).to]
  <2>1. transition \in Port!Transition
    BY <1>3, PlannedType, AssumedType DEF Recalls, Out, Port!Transition, Port!State
  <2>2. apply' = [apply EXCEPT ![p] = [at |-> "read", channel |-> Planned(p).channel,
                                       from |-> Assumed(p), to |-> Planned(p).to, base |-> <<>>]]
    BY <1>3 DEF Recalls, CallApply, Goto
  <2>3. call' = [call EXCEPT ![p] = transition]
    BY <2>2 DEF call, Rest, TypeOK, StoreTypeOK
  <2>4. call[p] = Port!NoCall
    BY <1>3, CallShows DEF Recalls, CallApply
  <2>5. Port!Calls(p, transition)
    BY <1>1, <1>3, <2>3, <2>4 DEF Recalls, CallApply, Port!Calls
  <2> QED
    BY <2>1, <2>5 DEF Port!Next
<1>4. ASSUME NEW p \in Process, Applies(p) PROVE Port!Next \/ UNCHANGED Port!vars
  BY <1>4, PortMove DEF Applies
<1>5. ASSUME NEW p \in Process, Writes(p) \/ Stops(p) \/ Dies(p) PROVE Port!Next
  <2>1. /\ refs' = refs
        /\ reply' = [reply EXCEPT ![p] = Port!NoReply]
        /\ apply' = [apply EXCEPT ![p] = Rest]
    BY <1>5 DEF Writes, Stops, Dies, Takes, Drops, Goto, TypeOK, StoreTypeOK
  <2>2. call' = [call EXCEPT ![p] = Port!NoCall]
    BY <2>1 DEF call, Rest, Port!NoCall, TypeOK, StoreTypeOK
  <2>3. Port!Taken(p)
    BY <1>1, <2>1, <2>2 DEF Port!Taken
  <2> QED
    BY <2>3 DEF Port!Next
<1>6. ASSUME NEW channel \in Channel, NEW to \in Target, OutsideMoves(channel, to)
      PROVE  Port!Next
  <2>1. /\ refs' = [refs EXCEPT ![channel] = Append(refs[channel], to)]
        /\ apply' = apply /\ reply' = reply
        /\ to \in Port!State
    BY <1>6 DEF OutsideMoves, Port!State
  <2>2. pointer' = [c \in Channel |-> StateOf(refs'[c])]
    BY DEF pointer, StateOf
  <2>3. pointer' = [pointer EXCEPT ![channel] = to]
    BY <2>1, <2>2, StateOfLanded DEF pointer, TypeOK, StoreTypeOK
  <2>4. Port!Elsewhere(channel, to)
    BY <1>1, <2>1, <2>3 DEF Port!Elsewhere
  <2> QED
    BY <2>1, <2>4 DEF Port!Next
<1>7. CASE UNCHANGED vars
  BY <1>1, <1>7 DEF vars, storeVars, Port!vars
<1> QED
  BY <1>2, <1>3, <1>4, <1>5, <1>6, <1>7 DEF Next

\* The channel stage over the git store is a use of the channel store port:
\* its moves are compare-and-sets at one instant each, and an answer tells
\* what stood at that instant.
THEOREM Refinement == Spec => ImplementsChannelStore
<1>1. Init => Port!Init
  BY PortInit
<1>2. TypeOK /\ TypeOK' /\ [Next]_vars => [Port!Next]_(Port!vars)
  BY PortStep
<1> QED
  BY <1>1, <1>2, TypeCorrect, PTL DEF Spec, ImplementsChannelStore, Port!Spec

-----------------------------------------------------------------------------
(* The completion, and the records.                                        *)

\* The move of the plan is on record.
OnRecord(i) ==
  \E j \in DOMAIN tail :
    tail[j].kind = "move" /\ tail[j].channel = Moves[i].channel /\ tail[j].to = Moves[i].to

\* A driver has put every move before its own on record.
DriversMoved ==
  \A p \in Process : stage[p] # Out => \A i \in 1 .. stage[p].move - 1 : OnRecord(i)

LEMMA MovedInit ==
  ASSUME Init
  PROVE  DriversMoved /\ CompletedMeansMoved
BY DEF Init, DriversMoved, CompletedMeansMoved, Out

LEMMA MovedStep ==
  ASSUME TypeOK, TypeOK', DriversMoved, CompletedMeansMoved, [Next]_vars
  PROVE  DriversMoved' /\ CompletedMeansMoved'
<1>1. /\ Len(Moves) \in Nat /\ DOMAIN Moves = 1 .. Len(Moves)
      /\ tail \in Seq(Record) /\ Len(tail) \in Nat /\ DOMAIN tail = 1 .. Len(tail)
  BY MovesAssumption, LenProperties DEF TypeOK, MovesAssumption
<1>2. ASSUME NEW r \in Record, tail' = Extended(r)
      PROVE  \A i : OnRecord(i) => OnRecord(i)'
  BY <1>1, <1>2, ExtendedTail DEF OnRecord
<1>3. tail' = tail => CompletedMeansMoved' /\ \A i : OnRecord(i) => OnRecord(i)'
  BY DEF CompletedMeansMoved, OnRecord
<1>4. ASSUME NEW p \in Process, Enters(p) PROVE DriversMoved' /\ CompletedMeansMoved'
  <2>1. \A q \in Process : stage'[q] = stage[q] \/ stage'[q].move = 1
    BY <1>4 DEF Enters, At, TypeOK
  <2> QED
    BY <1>3, <1>4, <2>1 DEF Enters, DriversMoved
<1>5. ASSUME NEW p \in Process,
             Observes(p) \/ Recalls(p) \/ Applies(p) \/ Stops(p) \/ Dies(p)
      PROVE  DriversMoved' /\ CompletedMeansMoved'
  <2>1. tail' = tail
    BY <1>5 DEF Observes, Recalls, Applies, Stops, Dies
  <2>2. ASSUME NEW q \in Process, stage'[q] # Out
        PROVE  stage[q] # Out /\ stage'[q].move = stage[q].move
    <3>1. CASE Observes(p)
      <4>1. stage[p] \in Drivers /\ stage[p] # Out
        BY <3>1, PlannedType DEF Observes, Out
      <4> QED
        BY <2>2, <3>1, <4>1 DEF Observes, At, TypeOK, Drivers
    <3>2. CASE Recalls(p)
      <4>1. stage[p] \in Drivers /\ stage[p] # Out
        BY <3>2, PlannedType DEF Recalls, Out
      <4> QED
        BY <2>2, <3>2, <4>1 DEF Recalls, At, TypeOK, Drivers
    <3> QED
      BY <1>5, <2>2, <3>1, <3>2 DEF Applies, Stops, Dies, At, TypeOK
  <2> QED
    BY <1>3, <2>1, <2>2 DEF DriversMoved
<1>6. ASSUME NEW p \in Process, Writes(p) PROVE DriversMoved' /\ CompletedMeansMoved'
  <2>1. /\ stage[p] \in Drivers /\ stage[p].move \in 1 .. Len(Moves) /\ stage[p] # Out
        /\ Planned(p).channel \in Channel /\ Planned(p).to \in Target
    BY <1>6, PlannedType DEF Writes, Decided, Out
  <2>2. reply[p].observed \in Port!State
    BY <1>6 DEF Writes, Moved, TypeOK, StoreTypeOK, Port!Replies, Port!Ambiguous, Port!NoReply
  <2> DEFINE r == MoveRecord(Planned(p).channel, stage[p].observed, Planned(p).to, reply[p].observed)
  <2>3. /\ r \in Record /\ tail' = Extended(r)
        /\ r.kind = "move" /\ r.channel = Planned(p).channel /\ r.to = Planned(p).to
    BY <1>6, <2>1, <2>2 DEF Writes, Record, MoveRecord, Drivers
  <2> HIDE DEF r
  <2>4. \A i : i = stage[p].move => OnRecord(i)'
    <3>1. \E j \in DOMAIN tail' : tail'[j] = r
      BY <1>1, <2>3, ExtendedTail
    <3>2. r.channel = Moves[stage[p].move].channel /\ r.to = Moves[stage[p].move].to
      BY <2>3 DEF Planned
    <3> QED
      BY <2>3, <3>1, <3>2 DEF OnRecord
  <2>5. stage'[p].move = stage[p].move + 1
    BY <1>6, <2>1 DEF Writes, Proceed, At, TypeOK, Drivers
  <2>6. \A q \in Process : q # p => stage'[q] = stage[q]
    BY <1>6 DEF Writes, Proceed, At, TypeOK
  <2>7. DriversMoved'
    <3>1. ASSUME NEW i \in 1 .. stage'[p].move - 1 PROVE OnRecord(i)'
      <4>1. stage[p].move \in Nat /\ (i \in 1 .. stage[p].move - 1 \/ i = stage[p].move)
        BY <2>1, <2>5, <3>1
      <4> QED
        BY <1>2, <2>1, <2>3, <2>4, <4>1 DEF DriversMoved
    <3> QED
      BY <1>2, <2>3, <2>6, <3>1 DEF DriversMoved
  <2>8. r # Completion
    BY <2>3 DEF Completion
  <2>9. CompletedMeansMoved'
    <3>1. CASE tail' = Append(tail, r)
      <4>1. /\ DOMAIN tail' = 1 .. Len(tail) + 1 /\ tail'[Len(tail) + 1] = r
            /\ \A j \in 1 .. Len(tail) : tail'[j] = tail[j]
        BY <1>1, <2>3, <3>1, AppendProperties, LenProperties
      <4>2. ASSUME NEW k \in 1 .. Len(tail) + 1, tail'[k] = Completion
            PROVE  k \in 1 .. Len(tail) /\ tail[k] = Completion
        BY <1>1, <2>8, <4>1, <4>2
      <4>3. ASSUME NEW k \in 1 .. Len(tail), NEW j \in 1 .. k - 1
            PROVE  tail'[j] = tail[j]
        BY <1>1, <4>1
      <4> QED
        BY <1>1, <4>1, <4>2, <4>3 DEF CompletedMeansMoved
    <3> QED
      BY <1>1, <1>3, <2>3, <3>1, ExtendedTail
  <2> QED
    BY <2>7, <2>9
<1>7. ASSUME NEW p \in Process, Completes(p) PROVE DriversMoved' /\ CompletedMeansMoved'
  <2>1. Completion \in Record /\ tail' = Extended(Completion)
    BY <1>7 DEF Completes, Record
  <2>2. \A i \in 1 .. Len(Moves) : OnRecord(i)
    BY <1>1, <1>7 DEF Completes, DriversMoved, TypeOK, Out
  <2>3. CASE tail' = tail
    BY <1>3, <1>7, <2>3 DEF Completes, At, DriversMoved, TypeOK
  <2>4. CASE tail' = Append(tail, Completion)
    <3>1. /\ DOMAIN tail' = 1 .. Len(tail) + 1
          /\ \A j \in 1 .. Len(tail) : tail'[j] = tail[j]
      BY <1>1, <2>1, <2>4, AppendProperties, LenProperties
    <3>2. ASSUME NEW k \in 1 .. Len(tail), NEW j \in 1 .. k - 1
          PROVE  tail'[j] = tail[j]
      BY <1>1, <3>1
    <3>3. \A i \in DOMAIN Moves : \E j \in 1 .. Len(tail) :
            tail'[j].kind = "move" /\ tail'[j].channel = Moves[i].channel /\ tail'[j].to = Moves[i].to
      BY <1>1, <2>2, <3>1 DEF OnRecord
    <3>4. ASSUME NEW k \in DOMAIN tail', tail'[k] = Completion, NEW i \in DOMAIN Moves
          PROVE  \E j \in 1 .. k - 1 :
                   tail'[j].kind = "move" /\ tail'[j].channel = Moves[i].channel /\ tail'[j].to = Moves[i].to
      <4>1. CASE k = Len(tail) + 1
        BY <1>1, <3>3, <4>1
      <4>2. CASE k \in 1 .. Len(tail)
        BY <1>1, <3>1, <3>2, <3>4, <4>2 DEF CompletedMeansMoved
      <4> QED
        BY <1>1, <3>1, <4>1, <4>2
    <3>5. CompletedMeansMoved'
      BY <3>4 DEF CompletedMeansMoved
    <3>6. DriversMoved'
      BY <1>2, <1>7, <2>1 DEF Completes, At, DriversMoved, TypeOK
    <3> QED
      BY <3>5, <3>6
  <2> QED
    BY <1>1, <2>1, <2>3, <2>4, ExtendedTail
<1>8. ASSUME NEW channel \in Channel, NEW to \in Target, OutsideMoves(channel, to)
      PROVE  DriversMoved' /\ CompletedMeansMoved'
  BY <1>3, <1>8 DEF OutsideMoves, DriversMoved
<1>9. CASE UNCHANGED vars
  BY <1>3, <1>9 DEF vars, DriversMoved
<1> QED
  BY <1>4, <1>5, <1>6, <1>7, <1>8, <1>9 DEF Next

\* A completed channel stage moved and recorded every planned channel before
\* its completion: a half-moved promotion is never reported done.
THEOREM CompletionIsHonest == Spec => []CompletedMeansMoved
<1>1. TypeOK /\ DriversMoved /\ CompletedMeansMoved /\ TypeOK' /\ [Next]_vars
        => (DriversMoved /\ CompletedMeansMoved)'
  BY MovedStep
<1>2. Init => DriversMoved /\ CompletedMeansMoved
  BY MovedInit
<1> QED
  BY <1>1, <1>2, TypeCorrect, PTL DEF Spec

-----------------------------------------------------------------------------
(* The truth of the records.  A driver's knowledge of the channel is what  *)
(* it observed, which the history holds for good, and the answer it got.   *)

Happened(channel, from, to, fingerprint) ==
  /\ fingerprint \in {from, to}
  /\ \E n \in DOMAIN refs[channel] : refs[channel][n] = to /\ from \in StatesUpTo(channel, n)

Seen(channel, state) == state \in StatesUpTo(channel, Len(refs[channel]))

\* A recorded move is one of the plan.
RecordsPlanned ==
  \A r \in Records : r.kind = "move" =>
    \E i \in DOMAIN Moves : Moves[i].channel = r.channel /\ Moves[i].to = r.to

\* The prior a call assumes is the observed state, or the target itself, from
\* which no landing starts; and a decided move happened.
Knows(p) ==
  /\ stage[p].at \in {"recall", "apply"} => Seen(Planned(p).channel, stage[p].observed)
  /\ apply[p] # Rest => apply[p].from \in {stage[p].observed, Planned(p).to}
  /\ Decided(p) /\ reply[p].kind \in Moved =>
       Happened(Planned(p).channel, stage[p].observed, Planned(p).to, reply[p].observed)

HappenedInv ==
  /\ RecordsPlanned
  /\ RecordedMovesHappened
  /\ \A p \in Process : Knows(p)

\* Histories only grow.
Grows ==
  \A c \in Channel :
    /\ Len(refs[c]) <= Len(refs'[c])
    /\ \A n \in 1 .. Len(refs[c]) : refs'[c][n] = refs[c][n]

LEMMA GrowsByLanding ==
  ASSUME TypeOK, NEW channel \in Channel, NEW to \in Port!State,
         refs' = refs \/ refs' = [refs EXCEPT ![channel] = Append(refs[channel], to)]
  PROVE  Grows
<1>1. \A c \in Channel : Len(refs[c]) \in Nat
  BY LenProperties DEF TypeOK, StoreTypeOK
<1>2. CASE refs' = refs
  BY <1>1, <1>2 DEF Grows
<1>3. CASE refs' = [refs EXCEPT ![channel] = Append(refs[channel], to)]
  <2>1. /\ Len(Append(refs[channel], to)) = Len(refs[channel]) + 1
        /\ \A n \in 1 .. Len(refs[channel]) : Append(refs[channel], to)[n] = refs[channel][n]
    BY AppendProperties DEF TypeOK, StoreTypeOK
  <2> QED
    BY <1>1, <1>3, <2>1 DEF Grows, TypeOK, StoreTypeOK
<1> QED
  BY <1>2, <1>3

\* What a history has held, it holds.
LEMMA HistoryStands ==
  ASSUME TypeOK, TypeOK', Grows, NEW c \in Channel
  PROVE  /\ \A state : Seen(c, state) => Seen(c, state)'
         /\ \A from, to, fingerprint :
              Happened(c, from, to, fingerprint) => Happened(c, from, to, fingerprint)'
<1>1. /\ Len(refs[c]) \in Nat /\ DOMAIN refs[c] = 1 .. Len(refs[c])
      /\ Len(refs'[c]) \in Nat /\ DOMAIN refs'[c] = 1 .. Len(refs'[c])
  BY LenProperties DEF TypeOK, StoreTypeOK
<1>2. /\ Len(refs[c]) <= Len(refs'[c])
      /\ \A n \in 1 .. Len(refs[c]) : refs'[c][n] = refs[c][n]
  BY DEF Grows
<1>3. ASSUME NEW n \in 0 .. Len(refs[c]), NEW m \in n .. Len(refs'[c])
      PROVE  StatesUpTo(c, n) \subseteq StatesUpTo(c, m)'
  BY <1>1, <1>2 DEF StatesUpTo
<1>4. ASSUME NEW state, Seen(c, state) PROVE Seen(c, state)'
  <2>1. StatesUpTo(c, Len(refs[c])) \subseteq {Hidden} \union {refs'[c][i] : i \in 1 .. Len(refs'[c])}
    BY <1>1, <1>2 DEF StatesUpTo
  <2> QED
    BY <1>4, <2>1 DEF Seen, StatesUpTo
<1>5. ASSUME NEW from, NEW to, NEW fingerprint, Happened(c, from, to, fingerprint)
      PROVE  Happened(c, from, to, fingerprint)'
  <2>1. PICK n \in 1 .. Len(refs[c]) : refs[c][n] = to /\ from \in StatesUpTo(c, n)
    BY <1>1, <1>5 DEF Happened
  <2>2. n \in 1 .. Len(refs'[c]) /\ refs'[c][n] = to
    BY <1>1, <1>2, <2>1
  <2>3. from \in StatesUpTo(c, n)'
    BY <1>1, <1>3, <2>1, <2>2
  <2> QED
    BY <1>1, <1>5, <2>2, <2>3 DEF Happened
<1> QED
  BY <1>4, <1>5

\* A process that takes no step knows what it knew.
LEMMA KnowledgeStands ==
  ASSUME TypeOK, TypeOK', Grows, NEW q \in Process, Knows(q),
         stage'[q] = stage[q], apply'[q] = apply[q], reply'[q] = reply[q]
  PROVE  Knows(q)'
<1>1. CASE stage[q] # Out /\ stage[q].at # "complete"
  <2>1. Planned(q).channel \in Channel
    BY <1>1, PlannedType
  <2>2. Planned(q)' = Planned(q)
    BY DEF Planned
  <2>3. stage[q].at \in {"recall", "apply"} =>
          Seen(Planned(q).channel, stage[q].observed)'
    BY <2>1, <2>2, HistoryStands DEF Knows
  <2>4. Decided(q) /\ reply[q].kind \in Moved =>
          Happened(Planned(q).channel, stage[q].observed, Planned(q).to, reply[q].observed)'
    BY <2>1, <2>2, HistoryStands DEF Knows
  <2> QED
    BY <2>2, <2>3, <2>4 DEF Knows, Decided, Moved
<1>2. CASE stage[q] = Out \/ stage[q].at = "complete"
  <2>1. stage'[q].at \notin {"recall", "apply"}
    BY <1>2 DEF Out
  <2>2. apply'[q] = Rest
    BY <2>1 DEF TypeOK
  <2> QED
    BY <2>1, <2>2 DEF Knows, Decided
<1> QED
  BY <1>1, <1>2

\* The records stay true as long as no new one is written.
LEMMA RecordsStand ==
  ASSUME TypeOK, TypeOK', Grows, RecordsPlanned, RecordedMovesHappened, Records' \subseteq Records
  PROVE  RecordsPlanned' /\ RecordedMovesHappened'
<1>1. RecordsPlanned'
  BY DEF RecordsPlanned
<1>2. ASSUME NEW r \in Records', r.kind = "move"
      PROVE  Happened(r.channel, r.from, r.to, r.fingerprint)'
  <2>1. r.channel \in Channel
    BY <1>2, ElementOfSeq, LenProperties DEF TypeOK, Records, Record, Completion
  <2>2. Happened(r.channel, r.from, r.to, r.fingerprint)
    BY <1>2 DEF RecordedMovesHappened, Happened
  <2> QED
    BY <2>1, <2>2, HistoryStands
<1>3. RecordedMovesHappened'
  BY <1>2 DEF RecordedMovesHappened, Happened
<1> QED
  BY <1>1, <1>3

LEMMA HappenedInit ==
  ASSUME Init
  PROVE  HappenedInv
BY DEF Init, InitStore, HappenedInv, RecordsPlanned, RecordedMovesHappened, Records, Knows, Decided,
       Out, Rest

\* What a driver learns from a decided move.
LEMMA DecidedReply ==
  ASSUME TypeOK, NEW p \in Process, reply[p].kind \in Moved
  PROVE  reply[p].observed \in Port!State
BY DEF Moved, TypeOK, StoreTypeOK, Port!Replies, Port!Ambiguous, Port!NoReply

\* The steps of the store's move: what lands was assumed, and is observed.
LEMMA KnowsMove ==
  ASSUME TypeOK, TypeOK', NEW p \in Process, Knows(p), Applies(p)
  PROVE  /\ Grows
         /\ Knows(p)'
         /\ \A q \in Process : q # p => apply'[q] = apply[q] /\ reply'[q] = reply[q]
<1>1. /\ apply[p] \in InCall /\ apply[p] # Rest
      /\ \A q \in Process : q # p => apply'[q] = apply[q] /\ reply'[q] = reply[q]
      /\ apply'[p] # Rest => /\ apply'[p].from = apply[p].from
                             /\ UNCHANGED reply
  BY StoreTyped DEF Applies, InCall, Rest
<1>2. PICK c \in Channel, to \in Target, observed \in {stage[p].observed} :
        /\ c = Planned(p).channel /\ c = apply[p].channel
        /\ to = Planned(p).to /\ to = apply[p].to
        /\ observed = stage[p].observed
        /\ stage[p].at = "apply"
  BY <1>1, PlannedType DEF TypeOK, Out
<1>3. /\ stage' = stage
      /\ c = Planned(p)'.channel /\ to = Planned(p)'.to /\ observed = stage'[p].observed
  BY <1>2 DEF Applies, Planned
<1>4. Grows
  BY <1>1, <1>2, GrowsByLanding, LandedHistory
  DEF Applies, Reads, Loses, Fails, Lands, LandsUnreported, Port!State
<1>5. Seen(c, observed) /\ Seen(c, observed)'
  BY <1>2, <1>4, HistoryStands DEF Knows
<1>6. apply'[p] # Rest => apply'[p].from \in {observed, to}
  BY <1>1, <1>2 DEF Knows
<1>7. /\ refs[c] \in Seq(Port!State) /\ Len(refs[c]) \in Nat /\ DOMAIN refs[c] = 1 .. Len(refs[c])
  BY LenProperties DEF TypeOK, StoreTypeOK
<1>8. ASSUME NEW f, f = reply'[p].observed, apply'[p] = Rest, reply'[p].kind \in Moved
      PROVE  Happened(c, observed, to, f)'
  <2>1. CASE Reads(p)
    <3>1. CASE StateOf(refs[c]) = to /\ Returns(p, Port!Answer("noop", StateOf(refs[c])))
      <4>1. f = to
        BY <1>8, <3>1 DEF Returns, Port!Answer, TypeOK, StoreTypeOK
      <4>2. refs[c] # <<>>
        BY <3>1, HiddenAssumption DEF HiddenAssumption, StateOf
      <4>3. Len(refs[c]) \in DOMAIN refs[c] /\ refs[c][Len(refs[c])] = to
        BY <1>7, <3>1, <4>2, EmptySeq DEF StateOf
      <4>4. Happened(c, observed, to, f)
        BY <1>5, <4>1, <4>3 DEF Happened, Seen
      <4> QED
        BY <1>4, <4>4, HistoryStands
    <3>2. CASE Returns(p, Port!Answer("conflict", StateOf(refs[c])))
      <4>1. reply'[p].kind = "conflict"
        BY <3>2 DEF Returns, Port!Answer, TypeOK, StoreTypeOK
      <4> QED
        BY <1>8, <4>1 DEF Moved
    <3>3. CASE Goto(p, [apply[p] EXCEPT !.at = "land", !.base = refs[c]])
      <4>1. apply'[p] = [apply[p] EXCEPT !.at = "land", !.base = refs[c]]
        BY <3>3 DEF Goto, TypeOK, StoreTypeOK
      <4> QED
        BY <1>1, <1>8, <4>1 DEF InCall, Rest
    <3> QED
      BY <1>2, <2>1, <3>1, <3>2, <3>3 DEF Reads
  <2>2. CASE Lands(p)
    <3>1. f = observed
      <4>1. reply'[p].observed = apply[p].from
        BY <2>2 DEF Lands, Returns, Port!Answer, TypeOK, StoreTypeOK
      <4>2. apply[p].from # to
        BY <1>2, <2>2 DEF Lands, Extends, TypeOK, StoreTypeOK
      <4> QED
        BY <1>1, <1>2, <1>8, <4>1, <4>2 DEF Knows
    <3>2. refs'[c] = Append(refs[c], to)
      BY <1>2, <2>2, LandedHistory DEF Lands, TypeOK, StoreTypeOK
    <3>3. to \in Port!State
      BY DEF Port!State
    <3>4. /\ Len(refs'[c]) = Len(refs[c]) + 1
          /\ refs'[c][Len(refs'[c])] = to
          /\ Len(refs'[c]) \in DOMAIN refs'[c]
      BY <1>7, <3>2, <3>3, AppendProperties, LenProperties
    <3> QED
      BY <1>5, <3>1, <3>4 DEF Happened, Seen
  <2>3. CASE Loses(p) \/ Fails(p) \/ LandsUnreported(p)
    <3>1. [apply[p] EXCEPT !.at = "read", !.base = <<>>] # Rest
      BY <1>1 DEF InCall, Rest
    <3>2. Returns(p, Port!Ambiguous)
      BY <1>8, <2>3, <3>1 DEF Loses, Fails, LandsUnreported, Goto, TypeOK, StoreTypeOK
    <3>3. reply'[p].kind = "ambiguous"
      BY <3>2 DEF Returns, Port!Ambiguous, TypeOK, StoreTypeOK
    <3> QED
      BY <1>8, <3>3 DEF Moved
  <2> QED
    BY <2>1, <2>2, <2>3 DEF Applies
<1>9. Knows(p)'
  <2>1. Decided(p)' => apply'[p] = Rest
    BY DEF Decided
  <2>2. \A f : f = reply'[p].observed /\ apply'[p] = Rest /\ reply'[p].kind \in Moved
          => Happened(c, observed, to, f)'
    BY <1>8
  <2>3. reply'[p].kind \in Moved' <=> reply'[p].kind \in Moved
    BY DEF Moved
  <2> QED
    BY <1>3, <1>5, <1>6, <2>1, <2>2, <2>3 DEF Knows
<1> QED
  BY <1>1, <1>4, <1>9

LEMMA HappenedStep ==
  ASSUME TypeOK, TypeOK', HappenedInv, [Next]_vars
  PROVE  HappenedInv'
<1> USE DEF HappenedInv
<1>1. refs' = refs => Grows
  BY LenProperties DEF Grows, TypeOK, StoreTypeOK
<1>2. tail' = tail => Records' \subseteq Records
  BY DEF Records
<1>3. ASSUME NEW p \in Process, Enters(p) \/ Completes(p) \/ Stops(p) \/ Dies(p)
      PROVE  HappenedInv'
  <2>1. /\ refs' = refs
        /\ \A q \in Process : q # p => /\ stage'[q] = stage[q] /\ apply'[q] = apply[q]
                                       /\ reply'[q] = reply[q]
    BY <1>3 DEF Enters, Completes, Stops, Dies, Takes, Drops, Goto, At, storeVars, TypeOK, StoreTypeOK
  <2>2. stage'[p].at \notin {"recall", "apply"}
    BY <1>3 DEF Enters, Completes, Stops, Dies, At, Out, TypeOK
  <2>3. apply'[p] = Rest
    BY <2>2 DEF TypeOK
  <2>4. Knows(p)'
    BY <2>2, <2>3 DEF Knows, Decided
  <2>5. \A q \in Process : Knows(q)'
    BY <1>1, <2>1, <2>4, KnowledgeStands
  <2>6. RecordsPlanned' /\ RecordedMovesHappened'
    <3>1. CASE tail' = tail
      BY <1>1, <1>2, <2>1, <3>1, RecordsStand
    <3>2. CASE tail' = Extended(Completion)
      <4>1. \A r \in Records' : r \in Records \/ r = Completion
        <5>1. Completion \in Record /\ tail \in Seq(Record)
          BY DEF Record, TypeOK
        <5> QED
          BY <3>2, <5>1, ExtendedTail DEF Records
      <4>2. Completion.kind # "move"
        BY DEF Completion
      <4> QED
        BY <2>1, <4>1, <4>2 DEF RecordsPlanned, RecordedMovesHappened, StatesUpTo
    <3> QED
      BY <1>3, <3>1, <3>2 DEF Enters, Completes, Stops, Dies
  <2> QED
    BY <2>5, <2>6
<1>4. ASSUME NEW p \in Process, Observes(p) PROVE HappenedInv'
  <2>1. /\ refs' = refs /\ tail' = tail /\ apply' = apply /\ reply' = reply
        /\ \A q \in Process : q # p => stage'[q] = stage[q]
    BY <1>4 DEF Observes, At, storeVars, TypeOK
  <2>2. stage[p] \in Drivers /\ Planned(p).channel \in Channel /\ stage[p].at = "observe"
    BY <1>4, PlannedType DEF Observes, Out
  <2>3. /\ stage'[p].at = "recall" /\ stage'[p].move = stage[p].move
        /\ stage'[p].observed = StateOf(refs[Planned(p).channel])
    BY <1>4, <2>2 DEF Observes, At, TypeOK, Drivers, pointer
  <2>4. Planned(p)' = Planned(p)
    BY <2>3 DEF Planned
  <2>5. /\ Len(refs[Planned(p).channel]) \in Nat
        /\ refs[Planned(p).channel] # <<>> => Len(refs[Planned(p).channel]) > 0
    BY <2>2, LenProperties, EmptySeq DEF TypeOK, StoreTypeOK
  <2>6. Seen(Planned(p).channel, StateOf(refs[Planned(p).channel]))
    BY <2>5 DEF Seen, StatesUpTo, StateOf
  <2>7. Seen(Planned(p).channel, stage[p].observed)'
    BY <2>1, <2>3, <2>4, <2>6 DEF Seen, StatesUpTo
  <2>8. apply'[p] = Rest
    BY <2>1, <2>2 DEF TypeOK
  <2>9. Knows(p)'
    BY <2>3, <2>7, <2>8 DEF Knows, Decided
  <2>10. \A q \in Process : Knows(q)'
    BY <1>1, <2>1, <2>9, KnowledgeStands
  <2> QED
    BY <1>1, <1>2, <2>1, <2>10, RecordsStand
<1>5. ASSUME NEW p \in Process, Recalls(p) PROVE HappenedInv'
  <2>1. /\ refs' = refs /\ tail' = tail /\ reply' = reply
        /\ \A q \in Process : q # p => stage'[q] = stage[q] /\ apply'[q] = apply[q]
    BY <1>5 DEF Recalls, CallApply, Goto, At, TypeOK, StoreTypeOK
  <2>2. /\ stage[p] \in Drivers /\ stage[p].move \in 1 .. Len(Moves)
        /\ Planned(p).channel \in Channel /\ stage[p].at = "recall"
    BY <1>5, PlannedType DEF Recalls, Out
  <2>3. /\ stage'[p].at = "apply" /\ stage'[p].move = stage[p].move
        /\ stage'[p].observed = stage[p].observed
    BY <1>5, <2>2 DEF Recalls, At, TypeOK, Drivers
  <2>4. Planned(p)' = Planned(p)
    BY <2>3 DEF Planned
  <2>5. apply'[p].from = Assumed(p) /\ apply'[p] # Rest
    BY <1>5 DEF Recalls, CallApply, Goto, TypeOK, StoreTypeOK, Rest
  <2>6. Assumed(p) \in {stage[p].observed, Planned(p).to}
    <3>1. Len(Moves) \in Nat /\ DOMAIN Moves = 1 .. Len(Moves)
      BY MovesAssumption, LenProperties DEF MovesAssumption
    <3>2. ASSUME NEW r \in MoveRecords(Planned(p).channel) PROVE r.to = Planned(p).to
      <4>1. PICK i \in DOMAIN Moves : Moves[i].channel = r.channel /\ Moves[i].to = r.to
        BY DEF RecordsPlanned, MoveRecords
      <4>2. i = stage[p].move
        BY <2>2, <3>1, <4>1, MovesAssumption DEF MovesAssumption, MoveRecords, Planned
      <4> QED
        BY <4>1, <4>2 DEF Planned
    <3> QED
      BY <2>2, <3>2, AssumedIsKnown
  <2>7. Seen(Planned(p).channel, stage[p].observed)'
    BY <2>1, <2>2, <2>3, <2>4 DEF Knows, Seen, StatesUpTo
  <2>8. Knows(p)'
    BY <2>3, <2>4, <2>5, <2>6, <2>7 DEF Knows, Decided
  <2>9. \A q \in Process : Knows(q)'
    BY <1>1, <2>1, <2>8, KnowledgeStands
  <2> QED
    BY <1>1, <1>2, <2>1, <2>9, RecordsStand
<1>6. ASSUME NEW p \in Process, Applies(p) PROVE HappenedInv'
  <2>1. /\ Grows /\ Knows(p)' /\ tail' = tail /\ stage' = stage
        /\ \A q \in Process : q # p => apply'[q] = apply[q] /\ reply'[q] = reply[q]
    BY <1>6, KnowsMove DEF Applies
  <2>2. \A q \in Process : Knows(q)'
    BY <2>1, KnowledgeStands
  <2> QED
    BY <1>2, <2>1, <2>2, RecordsStand
<1>7. ASSUME NEW p \in Process, Writes(p) PROVE HappenedInv'
  <2>1. /\ refs' = refs /\ apply' = apply
        /\ \A q \in Process : q # p => stage'[q] = stage[q] /\ reply'[q] = reply[q]
    BY <1>7 DEF Writes, Takes, Proceed, At, TypeOK, StoreTypeOK
  <2>2. /\ stage[p] \in Drivers /\ stage[p].move \in 1 .. Len(Moves)
        /\ Planned(p).channel \in Channel /\ Planned(p).to \in Target
    BY <1>7, PlannedType DEF Writes, Decided, Out
  <2>3. stage'[p].at \in {"observe", "complete"}
    BY <1>7, <2>2 DEF Writes, Proceed, At, TypeOK, Drivers
  <2>4. Knows(p)'
    BY <1>7, <2>1, <2>3 DEF Knows, Decided, Writes
  <2>5. \A q \in Process : Knows(q)'
    BY <1>1, <2>1, <2>4, KnowledgeStands
  <2>6. reply[p].observed \in Port!State
    BY <1>7, DecidedReply DEF Writes
  <2> DEFINE r == MoveRecord(Planned(p).channel, stage[p].observed, Planned(p).to, reply[p].observed)
  <2>7. /\ r \in Record /\ tail' = Extended(r)
        /\ r.channel = Planned(p).channel /\ r.to = Planned(p).to
        /\ r.from = stage[p].observed /\ r.fingerprint = reply[p].observed
    BY <1>7, <2>2, <2>6 DEF Writes, Record, MoveRecord, Drivers
  <2>8. Happened(r.channel, r.from, r.to, r.fingerprint)
    BY <1>7, <2>7 DEF Writes, Knows
  <2> HIDE DEF r
  <2>9. \A s \in Records' : s \in Records \/ s = r
    BY <2>7, ExtendedTail DEF Records, TypeOK
  <2>10. RecordsPlanned'
    <3>1. \E i \in DOMAIN Moves : Moves[i].channel = r.channel /\ Moves[i].to = r.to
      BY <2>2, <2>7, MovesAssumption, LenProperties DEF MovesAssumption, Planned
    <3> QED
      BY <2>9, <3>1 DEF RecordsPlanned
  <2>11. RecordedMovesHappened'
    BY <2>1, <2>8, <2>9 DEF RecordedMovesHappened, Happened, StatesUpTo
  <2> QED
    BY <2>5, <2>10, <2>11
<1>8. ASSUME NEW channel \in Channel, NEW to \in Target, OutsideMoves(channel, to)
      PROVE  HappenedInv'
  <2>1. Grows
    BY <1>8, GrowsByLanding DEF OutsideMoves, Port!State
  <2>2. tail' = tail /\ stage' = stage /\ apply' = apply /\ reply' = reply
    BY <1>8 DEF OutsideMoves
  <2>3. \A q \in Process : Knows(q)'
    BY <2>1, <2>2, KnowledgeStands
  <2> QED
    BY <1>2, <2>1, <2>2, <2>3, RecordsStand
<1>9. CASE UNCHANGED vars
  <2>1. refs' = refs /\ tail' = tail /\ stage' = stage /\ apply' = apply /\ reply' = reply
    BY <1>9 DEF vars, storeVars
  <2>2. \A q \in Process : Knows(q)'
    BY <1>1, <2>1, KnowledgeStands
  <2> QED
    BY <1>1, <1>2, <2>1, <2>2, RecordsStand
<1> QED
  BY <1>3, <1>4, <1>5, <1>6, <1>7, <1>8, <1>9 DEF Next

\* Every recorded move happened, whoever raced it and whatever crashed.
THEOREM RecordsAreTrue == Spec => []RecordedMovesHappened
<1>1. TypeOK /\ HappenedInv /\ TypeOK' /\ [Next]_vars => HappenedInv'
  BY HappenedStep
<1>2. HappenedInv => RecordedMovesHappened
  BY DEF HappenedInv
<1> QED
  BY <1>1, <1>2, HappenedInit, TypeCorrect, PTL DEF Spec

-----------------------------------------------------------------------------
(* Drift.  A driver whose channel has a recorded move assumes the target    *)
(* itself, so its call has nothing to land.                                *)

KnownRecorded == \A p \in Process : stage[p] # Out => \A c \in stage[p].known : MoveRecords(c) # {}

KnownAssumed ==
  \A p \in Process :
    apply[p] # Rest /\ apply[p].channel \in stage[p].known => apply[p].from = apply[p].to

DriftInv == KnownRecorded /\ KnownAssumed

LEMMA DriftInit ==
  ASSUME Init
  PROVE  DriftInv
BY DEF Init, InitStore, DriftInv, KnownRecorded, KnownAssumed

\* A move on record stays on record.
LEMMA RecordsKept ==
  ASSUME TypeOK, TypeOK', [Next]_vars, NEW c
  PROVE  MoveRecords(c) # {} => MoveRecords(c)' # {}
<1>1. CASE tail' = tail
  BY <1>1 DEF MoveRecords, Records
<1>2. ASSUME NEW r \in Record, tail' = Extended(r) PROVE Records \subseteq Records'
  BY <1>2, ExtendedTail DEF Records, TypeOK
<1>3. ASSUME NEW p \in Process, Writes(p) PROVE Records \subseteq Records'
  <2>1. /\ stage[p] \in Drivers /\ Planned(p).channel \in Channel /\ Planned(p).to \in Target
    BY <1>3, PlannedType DEF Writes, Decided, Out
  <2>2. reply[p].observed \in Port!State
    BY <1>3, DecidedReply DEF Writes
  <2>3. MoveRecord(Planned(p).channel, stage[p].observed, Planned(p).to, reply[p].observed) \in Record
    BY <2>1, <2>2 DEF Record, MoveRecord, Drivers
  <2> QED
    BY <1>2, <1>3, <2>3 DEF Writes
<1>4. ASSUME NEW p \in Process, Completes(p) PROVE Records \subseteq Records'
  BY <1>2, <1>4 DEF Completes, Record
<1> QED
  BY <1>1, <1>3, <1>4
  DEF Next, vars, Enters, Observes, Recalls, Applies, Stops, Dies, OutsideMoves, MoveRecords

\* A driver's place in the stage is its own doing.
LEMMA OwnStep ==
  ASSUME TypeOK, [Next]_vars, NEW q \in Process, stage'[q] # stage[q]
  PROVE  Enters(q) \/ Observes(q) \/ Recalls(q) \/ Writes(q) \/ stage'[q] = Out
<1>1. ASSUME NEW p \in Process, NEW next, At(p, next) PROVE p = q
  BY <1>1 DEF At, TypeOK
<1>2. ASSUME NEW p \in Process, Enters(p) \/ Observes(p) \/ Recalls(p) PROVE p = q
  BY <1>1, <1>2 DEF Enters, Observes, Recalls
<1>3. ASSUME NEW p \in Process, Writes(p) PROVE p = q
  BY <1>1, <1>3 DEF Writes, Proceed
<1>4. ASSUME NEW p \in Process, Stops(p) \/ Completes(p) \/ Dies(p) PROVE stage'[q] = Out
  <2>1. p = q
    BY <1>1, <1>4 DEF Stops, Completes, Dies
  <2> QED
    BY <1>4, <2>1 DEF Stops, Completes, Dies, At, TypeOK
<1>5. ASSUME NEW p \in Process, Applies(p) PROVE FALSE
  BY <1>5 DEF Applies
<1>6. ASSUME NEW channel \in Channel, NEW to \in Target, OutsideMoves(channel, to) PROVE FALSE
  BY <1>6 DEF OutsideMoves
<1>7. CASE UNCHANGED vars
  BY <1>7 DEF vars
<1> QED
  BY <1>2, <1>3, <1>4, <1>5, <1>6, <1>7 DEF Next

\* What a driver came in with stays with it, and only its recall calls the store.
LEMMA InsideStep ==
  ASSUME TypeOK, NEW q \in Process, Observes(q) \/ Recalls(q) \/ Writes(q)
  PROVE  /\ stage[q] # Out
         /\ stage'[q].known = stage[q].known
         /\ Observes(q) \/ Writes(q) => stage'[q].at # "apply"
<1>1. stage[q] \in Drivers /\ stage[q] # Out
  BY PlannedType DEF Observes, Recalls, Writes, Decided, Out
<1>2. CASE Observes(q)
  BY <1>1, <1>2 DEF Observes, At, TypeOK, Drivers
<1>3. CASE Recalls(q)
  <2>1. stage'[q] = [stage[q] EXCEPT !.at = "apply"] /\ stage[q].at = "recall"
    BY <1>3 DEF Recalls, At, TypeOK
  <2>2. ~Observes(q) /\ ~Writes(q)
    BY <2>1 DEF Observes, Writes, Decided
  <2> QED
    BY <1>1, <2>1, <2>2 DEF Drivers
<1>4. CASE Writes(q)
  BY <1>1, <1>4 DEF Writes, Proceed, At, TypeOK, Drivers
<1> QED
  BY <1>1, <1>2, <1>3, <1>4

LEMMA DriftStep ==
  ASSUME TypeOK, TypeOK', HappenedInv, DriftInv, [Next]_vars
  PROVE  DriftInv'
<1>3. KnownRecorded'
  <2> SUFFICES ASSUME NEW q \in Process, stage'[q] # Out, NEW c \in stage'[q].known
               PROVE  MoveRecords(c)' # {}
    BY DEF KnownRecorded
  <2>1. CASE Enters(q)
    <3>1. stage'[q].known = {d \in Channel : MoveRecords(d) # {}}
      BY <2>1 DEF Enters, At, TypeOK
    <3> QED
      BY <3>1, RecordsKept
  <2>2. CASE ~Enters(q)
    <3>1. stage[q] # Out /\ stage'[q].known = stage[q].known
      BY <2>2, OwnStep, InsideStep
    <3> QED
      BY <3>1, RecordsKept DEF DriftInv, KnownRecorded
  <2> QED
    BY <2>1, <2>2
<1>4. KnownAssumed'
  <2> SUFFICES ASSUME NEW q \in Process, apply'[q] # Rest, apply'[q].channel \in stage'[q].known
               PROVE  apply'[q].from = apply'[q].to
    BY DEF KnownAssumed
  <2>1. stage'[q].at = "apply" /\ stage'[q] # Out
    BY DEF TypeOK, Out
  <2>2. CASE Recalls(q)
    <3>1. /\ stage[q] \in Drivers /\ stage[q].move \in 1 .. Len(Moves) /\ stage[q] # Out
      BY <2>2, PlannedType DEF Recalls, Out
    <3>2. /\ apply'[q].channel = Planned(q).channel /\ apply'[q].to = Planned(q).to
          /\ apply'[q].from = Assumed(q)
      BY <2>2 DEF Recalls, CallApply, Goto, TypeOK, StoreTypeOK
    <3>3. stage'[q].known = stage[q].known
      BY <2>2, <3>1 DEF Recalls, At, TypeOK, Drivers
    <3>4. MoveRecords(Planned(q).channel) # {}
      BY <3>1, <3>2, <3>3 DEF DriftInv, KnownRecorded
    <3>5. Len(Moves) \in Nat /\ DOMAIN Moves = 1 .. Len(Moves)
      BY MovesAssumption, LenProperties DEF MovesAssumption
    <3>6. ASSUME NEW r \in MoveRecords(Planned(q).channel) PROVE r.to = Planned(q).to
      <4>1. PICK i \in DOMAIN Moves : Moves[i].channel = r.channel /\ Moves[i].to = r.to
        BY DEF HappenedInv, RecordsPlanned, MoveRecords
      <4>2. i = stage[q].move
        BY <3>1, <3>5, <4>1, MovesAssumption DEF MovesAssumption, MoveRecords, Planned
      <4> QED
        BY <4>1, <4>2 DEF Planned
    <3> QED
      BY <3>1, <3>2, <3>4, <3>6, AssumedIsKnown
  <2>3. CASE apply'[q] = apply[q] /\ stage'[q] = stage[q]
    BY <2>3 DEF DriftInv, KnownAssumed
  <2>4. CASE Applies(q)
    <3>1. /\ apply'[q].channel = apply[q].channel
          /\ apply'[q].from = apply[q].from
          /\ apply'[q].to = apply[q].to
          /\ apply[q] # Rest
      BY <2>4, StoreTyped DEF Applies, InCall, Rest
    <3>2. stage'[q] = stage[q]
      BY <2>4 DEF Applies
    <3> QED
      BY <3>1, <3>2 DEF DriftInv, KnownAssumed
  <2>5. CASE stage'[q] # stage[q] /\ ~Recalls(q)
    <3>1. Enters(q) => stage'[q].at # "apply"
      BY DEF Enters, At, TypeOK
    <3> QED
      BY <2>1, <2>5, <3>1, OwnStep, InsideStep
  <2>6. CASE apply'[q] # apply[q] /\ stage'[q] = stage[q]
    <3>1. Applies(q) \/ Recalls(q)
      <4>1. ASSUME NEW p \in Process, Applies(p) PROVE \A o \in Process : o # p => apply'[o] = apply[o]
        BY <4>1, StoreTyped DEF Applies
      <4> QED
        BY <2>1, <2>6, <4>1
        DEF Next, vars, storeVars, Enters, Observes, Recalls, CallApply, Writes, Takes, Stops, Completes,
            Dies, Drops, Goto, OutsideMoves, TypeOK, StoreTypeOK
    <3> QED
      BY <2>2, <2>4, <3>1
  <2> QED
    BY <2>2, <2>3, <2>5, <2>6
<1> QED
  BY <1>3, <1>4 DEF DriftInv

\* A driver that came in when a channel's move was on record does not move
\* that channel, wherever it has drifted to.
THEOREM DriftIsRefused == Spec => DriftIsNotRepointed
<1>1. TypeOK /\ HappenedInv /\ DriftInv /\ TypeOK' /\ [Next]_vars => HappenedInv' /\ DriftInv'
  BY HappenedStep, DriftStep
<1>2. ASSUME TypeOK, DriftInv
      PROVE  \A p \in Process, c \in Channel :
               apply[p].at = "land" => c # apply[p].channel \/ c \notin stage[p].known
  BY <1>2 DEF DriftInv, KnownAssumed, TypeOK, StoreTypeOK, Rest
<1>3. TypeOK /\ DriftInv /\ [Next]_vars => [\A p \in Process, c \in Channel :
         apply[p].at = "land" /\ apply'[p] # apply[p] /\ landings'[c] # landings[c]
           => c # apply[p].channel \/ c \notin stage[p].known]_vars
  BY <1>2
<1> QED
  BY <1>1, <1>3, HappenedInit, DriftInit, TypeCorrect, PTL DEF Spec, DriftIsNotRepointed

=============================================================================
