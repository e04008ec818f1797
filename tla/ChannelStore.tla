---------------------------- MODULE ChannelStore ----------------------------
(***************************************************************************)
(* The channel store port (ChannelStore of src/execution/types.ts): a      *)
(* channel is a pointer to a released version, or hidden, and a move of it *)
(* is a compare-and-set over the target it assumes.  Every call takes      *)
(* effect and is answered at one instant.  The git store, whose moves span *)
(* several git commands, is the module GitChannelStore.                    *)
(*                                                                         *)
(* An answer carries the state the store decided on: the content           *)
(* fingerprint of the code is a function of that state.                    *)
(***************************************************************************)

CONSTANTS
  Channel,  \* channel ids
  Target,   \* released versions a channel may point at
  Hidden,   \* the hidden state, which an unrecorded channel reads as
  Process   \* the processes that call the port

VARIABLES
  pointer,  \* each channel's state
  call,     \* the move each process has asked for, until it is answered
  reply     \* the answer each process was given and has not yet taken

vars == <<pointer, call, reply>>

State == Target \union {Hidden}
Transition == [channel : Channel, from : State, to : State]
NoCall == [channel |-> "none"]

Answer(kind, observed) == [kind |-> kind, observed |-> observed]
Ambiguous == [kind |-> "ambiguous"]
NoReply == [kind |-> "none"]

Replies == {Ambiguous, NoReply} \union [kind : {"applied", "noop", "conflict"}, observed : State]

-----------------------------------------------------------------------------
Init ==
  /\ pointer = [c \in Channel |-> Hidden]
  /\ call = [p \in Process |-> NoCall]
  /\ reply = [p \in Process |-> NoReply]

Calls(p, transition) ==
  /\ call[p] = NoCall
  /\ call' = [call EXCEPT ![p] = transition]
  /\ UNCHANGED <<pointer, reply>>

Answers(p, answer) ==
  /\ call[p] # NoCall
  /\ call' = [call EXCEPT ![p] = NoCall]
  /\ reply' = [reply EXCEPT ![p] = answer]

\* The move assumes `from`, and `from` is what stands.
Move(p) ==
  /\ call[p] # NoCall
  /\ pointer[call[p].channel] = call[p].from
  /\ call[p].from # call[p].to
  /\ pointer' = [pointer EXCEPT ![call[p].channel] = call[p].to]

Apply(p) == Move(p) /\ Answers(p, Answer("applied", call[p].from))

\* The move landed and its caller, told otherwise, is still at it.
ApplyUnreported(p) == Move(p) /\ UNCHANGED <<call, reply>>

\* The move landed, and the store cannot tell.
ApplyUndetermined(p) == Move(p) /\ Answers(p, Ambiguous)

\* The target already stands; or neither it nor the assumed one does.
Decline(p) ==
  /\ call[p] # NoCall
  /\ LET state == pointer[call[p].channel] IN
       \/ state = call[p].to /\ Answers(p, Answer("noop", state))
       \/ state \notin {call[p].from, call[p].to} /\ Answers(p, Answer("conflict", state))
  /\ UNCHANGED pointer

\* The move did not land, and the store cannot tell.
Undetermined(p) == Answers(p, Ambiguous) /\ UNCHANGED pointer

\* The caller goes on with its answer, or dies with it or in the call.
Taken(p) ==
  /\ call' = [call EXCEPT ![p] = NoCall]
  /\ reply' = [reply EXCEPT ![p] = NoReply]
  /\ UNCHANGED pointer

\* A caller outside Process.
Elsewhere(channel, to) ==
  /\ pointer' = [pointer EXCEPT ![channel] = to]
  /\ UNCHANGED <<call, reply>>

Next ==
  \/ \E p \in Process :
       \/ \E transition \in Transition : Calls(p, transition)
       \/ Apply(p) \/ ApplyUnreported(p) \/ ApplyUndetermined(p)
       \/ Decline(p) \/ Undetermined(p) \/ Taken(p)
  \/ \E channel \in Channel, to \in State : Elsewhere(channel, to)

Spec == Init /\ [][Next]_vars

=============================================================================
