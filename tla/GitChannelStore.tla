--------------------------- MODULE GitChannelStore --------------------------
(***************************************************************************)
(* The git-backed channel store (src/adapters/git/channel-store-git.ts):   *)
(* one ref per channel, whose tip commit holds the channel's state.  A     *)
(* move is a loop of reads and compare-and-set landings over the ref,      *)
(* interleaved at every git command with the moves of other processes.     *)
(* The module is the store's steps; ChannelStage composes them with their  *)
(* caller, and its runs and proofs show that the store implements          *)
(* ChannelStore.                                                           *)
(*                                                                         *)
(* A commit is determined by its state and its parent (the binding commits *)
(* with a fixed identity and clock), so a ref is the sequence of states of *)
(* its first-parent history, empty when the ref is absent.                 *)
(***************************************************************************)
EXTENDS Naturals, Sequences

CONSTANTS Channel, Target, Hidden, Process,
  MaxFaults   \* bound: landings around which a git command fails

ASSUME HiddenAssumption == Hidden \notin Target
ASSUME FaultsAssumption == MaxFaults \in Nat

VARIABLES
  refs,     \* the channel refs: the history of each tip
  apply,    \* the applyTransition each process is in, and how far
  reply,    \* the answer each process was given and has not yet taken
  faults    \* failures around a landing so far

storeVars == <<refs, apply, reply, faults>>

\* An absent ref reads as the hidden channel.
StateOf(history) == IF history = <<>> THEN Hidden ELSE history[Len(history)]

pointer == [c \in Channel |-> StateOf(refs[c])]

Rest == [at |-> "rest"]

\* The move of a call in progress, as the port's caller asked for it.
call == [p \in Process |->
  IF apply[p] = Rest THEN [channel |-> "none"]
  ELSE [channel |-> apply[p].channel, from |-> apply[p].from, to |-> apply[p].to]]

Port == INSTANCE ChannelStore

InitStore ==
  /\ refs = [c \in Channel |-> <<>>]
  /\ apply = [p \in Process |-> Rest]
  /\ reply = [p \in Process |-> Port!NoReply]
  /\ faults = 0

Goto(p, next) == apply' = [apply EXCEPT ![p] = next]

CallApply(p, channel, from, to) ==
  /\ apply[p] = Rest
  /\ Goto(p, [at |-> "read", channel |-> channel, from |-> from, to |-> to, base |-> <<>>])
  /\ UNCHANGED <<refs, reply, faults>>

Returns(p, answer) ==
  /\ Goto(p, Rest)
  /\ reply' = [reply EXCEPT ![p] = answer]

\* One read gives the state and the base of the landing; only a state that
\* is the assumed one, and not yet the target, is worth landing on.
Reads(p) ==
  LET history == refs[apply[p].channel]
      state == StateOf(history)
  IN
  /\ apply[p].at = "read"
  /\ \/ /\ state = apply[p].to
        /\ Returns(p, Port!Answer("noop", state))
     \/ /\ state \notin {apply[p].from, apply[p].to}
        /\ Returns(p, Port!Answer("conflict", state))
     \/ /\ state = apply[p].from /\ state # apply[p].to
        /\ Goto(p, [apply[p] EXCEPT !.at = "land", !.base = history])
        /\ UNCHANGED reply
  /\ UNCHANGED <<refs, faults>>

\* Mutant: the landing is tried again on the base it was read on.
MutantLoses(p) ==
  /\ apply[p].at = "land"
  /\ refs[apply[p].channel] # apply[p].base
  /\ UNCHANGED storeVars

\* A lost compare-and-set re-reads and re-evaluates.
Loses(p) ==
  /\ apply[p].at = "land"
  /\ refs[apply[p].channel] # apply[p].base
  /\ Goto(p, [apply[p] EXCEPT !.at = "read", !.base = <<>>])
  /\ UNCHANGED <<refs, reply, faults>>

\* Mutant: the update-ref carries no old value.
MutantExtends(p) ==
  /\ apply[p].at = "land"
  /\ refs' = [refs EXCEPT ![apply[p].channel] = Append(apply[p].base, apply[p].to)]

\* The compare-and-set: the ref still is the history this round read.
Extends(p) ==
  /\ apply[p].at = "land"
  /\ refs[apply[p].channel] = apply[p].base
  /\ refs' = [refs EXCEPT ![apply[p].channel] = Append(@, apply[p].to)]

Lands(p) ==
  /\ Extends(p)
  /\ Returns(p, Port!Answer("applied", apply[p].from))
  /\ UNCHANGED faults

\* update-ref moved the ref and then failed: the re-read finds it moved,
\* which reads as a loss; or the re-read fails too, and the move is ambiguous.
LandsUnreported(p) ==
  /\ faults < MaxFaults
  /\ Extends(p)
  /\ faults' = faults + 1
  /\ \/ Goto(p, [apply[p] EXCEPT !.at = "read", !.base = <<>>]) /\ UNCHANGED reply
     \/ Returns(p, Port!Ambiguous)

\* A git command around the landing fails and nothing moved: ambiguous too.
Fails(p) ==
  /\ faults < MaxFaults
  /\ apply[p].at = "land"
  /\ Returns(p, Port!Ambiguous)
  /\ faults' = faults + 1
  /\ UNCHANGED refs

Takes(p) ==
  /\ apply[p] = Rest
  /\ reply' = [reply EXCEPT ![p] = Port!NoReply]
  /\ UNCHANGED <<refs, apply, faults>>

\* The process dies in the call or after it, or the read throws.
Drops(p) ==
  /\ Goto(p, Rest)
  /\ reply' = [reply EXCEPT ![p] = Port!NoReply]
  /\ UNCHANGED <<refs, faults>>

StoreStep(p) == Reads(p) \/ Lands(p) \/ Loses(p)

-----------------------------------------------------------------------------
(* Properties.                                                             *)

InCall == [at : {"read", "land"}, channel : Channel, from : Port!State, to : Port!State,
           base : Seq(Port!State)]

\* A landing is only ever tried from the assumed state to another one.
StoreTypeOK ==
  /\ refs \in [Channel -> Seq(Port!State)]
  /\ reply \in [Process -> Port!Replies]
  /\ apply \in [Process -> InCall \union {Rest}]
  /\ \A p \in Process : apply[p].at = "land" => /\ StateOf(apply[p].base) = apply[p].from
                                                /\ apply[p].from # apply[p].to
  /\ faults \in 0 .. MaxFaults

\* The moves of the processes show as compare-and-sets at one instant each:
\* none adjudicates against a stale state, none overwrites a rival's move,
\* and `applied` is answered once, by the move that landed.
ImplementsChannelStore == Port!Spec

=============================================================================
