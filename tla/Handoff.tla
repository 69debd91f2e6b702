------------------------------ MODULE Handoff ------------------------------
(***************************************************************************)
(* The handoff of inputs from one committee to the next of                 *)
(* sec013/src/main.rs.  Old nodes sign what becomes of an input, at most   *)
(* one handoff per input and epoch transition; new nodes activate a        *)
(* certified handoff, one per input; and a new node votes for a successor  *)
(* only under an activation certificate, for the digest it inherits.       *)
(*                                                                         *)
(* A node serves one request at a time and syncs its choice before it      *)
(* signs, so choices are shares, survive restarts, and a request is one    *)
(* step.  Both committees have the same size; they share no keys, and a    *)
(* member stands for the node of that index in either.  Byzantine nodes    *)
(* sign anything.                                                          *)
(***************************************************************************)
EXTENDS Committee

CONSTANTS
  Transitions,    \* pairs of epochs a handoff may name
  OurTransition,  \* the one the new committee accepts
  HandoffInputs,
  HandoffDigests,
  LockRounds      \* the round numbers a handoff may carry

ASSUME TransitionAssumption == OurTransition \in Transitions

VARIABLES
  oldChoices,  \* choices and shares of honest old nodes
  newChoices,  \* activation choices and shares of honest new nodes
  newVotes     \* votes of honest new nodes

handoffVars == <<oldChoices, newChoices, newVotes>>

Handoffs == [transition : Transitions, input : HandoffInputs, status : {"locked", "final"},
             round : LockRounds, digest : HandoffDigests]
Choices == [node : Honest, handoff : Handoffs]
NewVotes == [node : Honest, input : HandoffInputs, digest : HandoffDigests]

HandoffInit == oldChoices = {} /\ newChoices = {} /\ newVotes = {}

-----------------------------------------------------------------------------
Choice(v, h) == [node |-> v, handoff |-> h]
NewVote(v, i, d) == [node |-> v, input |-> i, digest |-> d]

SameHandoffKey(g, h) == g.transition = h.transition /\ g.input = h.input

\* Mutant: a choice is remembered per status.
MayChooseAgain(choices, v, h) ==
  \A c \in choices : c.node = v /\ SameHandoffKey(c.handoff, h) /\ c.handoff.status = h.status
                       => c.handoff = h

\* ChoiceStore::choose.
MayChoose(choices, v, h) ==
  \A c \in choices : c.node = v /\ SameHandoffKey(c.handoff, h) => c.handoff = h

\* verify_handoff_cert_any and verify_activation_cert.
HandoffAgreed(h) == IsQuorum({v \in Honest : Choice(v, h) \in oldChoices} \cup Byzantine)

ForNewEpoch(h) == h.transition = OurTransition /\ HandoffAgreed(h)

Activated(h) ==
  ForNewEpoch(h) /\ IsQuorum({v \in Honest : Choice(v, h) \in newChoices} \cup Byzantine)

\* OP_OLD_SIGN.
OldSign(v, h) ==
  /\ MayChoose(oldChoices, v, h)
  /\ oldChoices' = oldChoices \cup {Choice(v, h)}
  /\ UNCHANGED <<newChoices, newVotes>>

\* OP_NEW_ACTIVATE.
NewActivate(v, h) ==
  /\ ForNewEpoch(h)
  /\ MayChoose(newChoices, v, h)
  /\ newChoices' = newChoices \cup {Choice(v, h)}
  /\ UNCHANGED <<oldChoices, newVotes>>

\* Mutant: the new node does not look at the status.
NewVoteAnyStatus(v, h, d) ==
  /\ Activated(h) /\ Choice(v, h) \in newChoices
  /\ d = h.digest
  /\ newVotes' = newVotes \cup {NewVote(v, h.input, d)}
  /\ UNCHANGED <<oldChoices, newChoices>>

\* OP_NEW_VOTE.
NewNodeVote(v, h, d) ==
  /\ Activated(h) /\ Choice(v, h) \in newChoices
  /\ h.status = "locked" /\ d = h.digest
  /\ newVotes' = newVotes \cup {NewVote(v, h.input, d)}
  /\ UNCHANGED <<oldChoices, newChoices>>

HandoffNext ==
  \E v \in Honest, h \in Handoffs :
    \/ OldSign(v, h)
    \/ NewActivate(v, h)
    \/ \E d \in HandoffDigests : NewNodeVote(v, h, d)

HandoffSpec == HandoffInit /\ [][HandoffNext]_handoffVars

-----------------------------------------------------------------------------
HandoffTypeOK ==
  oldChoices \subseteq Choices /\ newChoices \subseteq Choices /\ newVotes \subseteq NewVotes

\* The new committee agrees on a successor.
NewlyFinal(i, d) == IsQuorum({v \in Honest : NewVote(v, i, d) \in newVotes} \cup Byzantine)

\* "finalized old-epoch inputs are treated as consumed", "locked old-epoch state
\* constrains new-epoch voting to the inherited digest" (sec013/README.md:17-18):
\* what the new committee makes final is the one digest a certified handoff
\* locked, and no handoff of the input as final is certified.
NewEpochInherits ==
  \A i \in HandoffInputs, d \in HandoffDigests : NewlyFinal(i, d) =>
    /\ \E h \in Handoffs : h.input = i /\ ForNewEpoch(h)
    /\ \A h \in Handoffs : h.input = i /\ ForNewEpoch(h) => h.status = "locked" /\ h.digest = d
=============================================================================
