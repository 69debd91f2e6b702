------------------------------ MODULE Finalize ------------------------------
(***************************************************************************)
(* The clients of integration001/src/main.rs over the nodes of Node.  A    *)
(* call asks a list of honest nodes for prevotes, one after the other,     *)
(* assembles the certificate, asks the same nodes for precommits,          *)
(* assembles the second one and then has every node apply the transfer     *)
(* (finalize_transfer, apply_to_validator).  The split of round 1 is a     *)
(* call on a list that is shorter than a quorum.  Clients are threads, so  *)
(* calls overlap (finalize_bench_concurrently).                            *)
(*                                                                         *)
(* One request is one step, because a node serves one connection at a time *)
(* and its client waits for the answer.  The exception is a request that   *)
(* fails on the client's side (refused connection, timeout, lost answer):  *)
(* the call returns an error, and the node may still serve the request at  *)
(* any later time, or never.  That covers a node that is killed and        *)
(* restarted on another port while it is asked.                            *)
(***************************************************************************)
EXTENDS Node, Sequences

CONSTANTS
  Clients,       \* the client threads
  ContactLists,  \* the lists of honest nodes a call may ask
  MaxCalls,      \* bound: calls of all clients
  MaxFaults      \* bound: requests that fail on the client's side

ASSUME FinalizeAssumption ==
  /\ ContactLists \subseteq Seq(Honest)
  /\ MaxCalls \in Nat
  /\ MaxFaults \in Nat

VARIABLES
  call,    \* call[c]: the call client c is in
  late,    \* requests whose client gave up and that no node has served yet
  calls,   \* calls made so far
  faults   \* requests failed so far

fvars == <<vars, call, late, calls, faults>>

Kinds == Phases \cup {"apply"}

\* stage is what the call asks for, asked the number of contacts that have
\* answered, signers those of them that voted, qc the signer set of the prevote
\* certificate and todo the nodes that have not applied yet.
Call == [stage : Kinds, round : Rounds, intent : Intents,
         contacts : ContactLists, asked : Nat, signers : SUBSET Validators,
         qc : SUBSET Validators, todo : SUBSET Validators]

\* Before the first call and after each has returned its result or an error.
NoCall == [stage |-> "idle"]

Request == [kind : Kinds, node : Validators, round : Rounds, intent : Intents,
            qc : SUBSET Validators]

CallsTypeOK ==
  /\ call \in [Clients -> Call \cup {NoCall}]
  /\ late \subseteq {m \in Request : m.kind \in Phases => m.node \in Honest}
  /\ calls \in 0..MaxCalls
  /\ faults \in 0..MaxFaults

\* Mutant: the votes are asked for in the next round.
NewCallOfNextRound(r, i, contacts) ==
  [stage |-> "prevote", round |-> r + 1, intent |-> i, contacts |-> contacts,
   asked |-> 0, signers |-> {}, qc |-> {}, todo |-> {}]

NewCall(r, i, contacts) ==
  [stage |-> "prevote", round |-> r, intent |-> i, contacts |-> contacts,
   asked |-> 0, signers |-> {}, qc |-> {}, todo |-> {}]

\* A contact answered: voters is that contact, or nobody when it refused.
Answered(k, voters) ==
  [k EXCEPT !.asked = k.asked + 1, !.signers = k.signers \cup voters]

\* Mutant: the prevotes are counted again as precommits.
WithQcKeepingVotes(k) ==
  [k EXCEPT !.stage = "precommit", !.asked = 0, !.qc = k.signers]

\* The prevote certificate is assembled, and the precommits are asked for.
WithQc(k) ==
  [k EXCEPT !.stage = "precommit", !.asked = 0, !.signers = {}, !.qc = k.signers]

\* Both certificates are assembled, and every node is to apply the transfer.
Finalized(k) == [k EXCEPT !.stage = "apply", !.todo = Validators]

\* v has applied the transfer; after the last node has, the call returns.
AppliedAt(k, v) ==
  IF k.todo = {v} THEN NoCall ELSE [k EXCEPT !.todo = k.todo \ {v}]

FInit ==
  /\ Init
  /\ call = [c \in Clients |-> NoCall]
  /\ late = {}
  /\ calls = 0
  /\ faults = 0

-----------------------------------------------------------------------------
(* Requests and how a node serves them                                     *)

\* The request call c makes of node v; a prevote request carries no certificate.
RequestTo(c, v) ==
  [kind |-> call[c].stage, node |-> v, round |-> call[c].round,
   intent |-> call[c].intent, qc |-> call[c].qc]

\* The requests a call has outstanding: votes are asked for one contact at a
\* time, apply threads run next to each other.
Outstanding(c) ==
  CASE call[c].stage = "apply" -> {RequestTo(c, v) : v \in call[c].todo}
    [] call[c].stage \in Phases /\ call[c].asked < Len(call[c].contacts) ->
         {RequestTo(c, call[c].contacts[call[c].asked + 1])}
    [] OTHER -> {}

\* Mutant: a prevote is answered before it is stored.
HandlesUnstored(m) ==
  \/ /\ m.kind = "prevote"
     /\ AcceptsPrevote(m.node, m.round, m.intent)
     /\ Issue(m.node, "prevote", m.round, m.intent, {})
     /\ UNCHANGED <<votes, lock, live, applied>>
  \/ m.kind = "precommit" /\ Precommit(m.node, m.round, m.intent, m.qc)
  \/ m.kind = "apply" /\ Apply(m.node, m.intent)

\* The node does what is asked.
Handles(m) ==
  \/ m.kind = "prevote" /\ Prevote(m.node, m.round, m.intent)
  \/ m.kind = "precommit" /\ Precommit(m.node, m.round, m.intent, m.qc)
  \/ m.kind = "apply" /\ Apply(m.node, m.intent)

\* An applied transfer is acknowledged again without a change.
Repeats(m) == m.kind = "apply" /\ m.intent \in applied[m.node]

Accepts(m) ==
  \/ m.kind = "prevote" /\ AcceptsPrevote(m.node, m.round, m.intent)
  \/ m.kind = "precommit" /\ AcceptsPrecommit(m.node, m.round, m.intent, m.qc)
  \/ m.kind = "apply" /\ AcceptsApply(m.node, m.intent)

Grants(m) == Handles(m) \/ (Repeats(m) /\ UNCHANGED vars)

Refuses(m) == ~ Accepts(m) /\ ~ Repeats(m) /\ UNCHANGED vars

-----------------------------------------------------------------------------
(* Client steps                                                            *)

\* make_proposal signs nothing for a transfer its owner did not authorise.
Start(c) ==
  /\ call[c] = NoCall
  /\ calls < MaxCalls
  /\ \E i \in Authorized, r \in Rounds, contacts \in ContactLists :
       call' = [call EXCEPT ![c] = NewCall(r, i, contacts)]
  /\ calls' = calls + 1
  /\ UNCHANGED <<vars, late, faults>>

\* collect_votes: a vote is kept, a refusal skipped.
AskForVote(c) ==
  /\ call[c].stage \in Phases
  /\ \E m \in Outstanding(c) :
       \/ /\ Grants(m)
          /\ call' = [call EXCEPT ![c] = Answered(call[c], {m.node})]
       \/ /\ Refuses(m)
          /\ call' = [call EXCEPT ![c] = Answered(call[c], {})]
  /\ UNCHANGED <<late, calls, faults>>

\* assemble_qc fails the call when the votes are too few.
Assemble(c) ==
  /\ call[c].stage \in Phases
  /\ call[c].asked = Len(call[c].contacts)
  /\ call' = [call EXCEPT ![c] =
       CASE ~ IsQuorum(call[c].signers) -> NoCall
         [] IsQuorum(call[c].signers) /\ call[c].stage = "prevote" -> WithQc(call[c])
         [] OTHER -> Finalized(call[c])]
  /\ UNCHANGED <<vars, late, calls, faults>>

\* apply_to_validator: a refusal fails the call.  What the other apply threads
\* still do they may as well have done before, since they ask other nodes.
AskToApply(c) ==
  /\ call[c].stage = "apply"
  /\ \E m \in Outstanding(c) :
       \/ /\ Grants(m)
          /\ call' = [call EXCEPT ![c] = AppliedAt(call[c], m.node)]
       \/ /\ Refuses(m)
          /\ call' = [call EXCEPT ![c] = NoCall]
  /\ UNCHANGED <<late, calls, faults>>

\* An error of rpc fails the call; the request may still reach the node.
RpcFails(c) ==
  /\ faults < MaxFaults
  /\ \E m \in Outstanding(c) : late' = late \cup {m}
  /\ call' = [call EXCEPT ![c] = NoCall]
  /\ faults' = faults + 1
  /\ UNCHANGED <<vars, calls>>

\* serve_connection: the node serves it and fails to send the answer.
ServeLate(m) ==
  /\ Grants(m) \/ Refuses(m)
  /\ late' = late \ {m}
  /\ UNCHANGED <<call, calls, faults>>

Proceed == \E c \in Clients : AskForVote(c) \/ Assemble(c) \/ AskToApply(c)

FNext ==
  \/ \E c \in Clients : Start(c) \/ RpcFails(c)
  \/ Proceed
  \/ \E m \in late : ServeLate(m)

\* Client threads run until their calls return, and a node answers every
\* connection it accepts, so some open call gets on.  Nobody has to make another
\* call, and a request whose client gave up need not arrive.
FSpec == FInit /\ [][FNext]_fvars /\ WF_fvars(Proceed)

-----------------------------------------------------------------------------
(* Properties                                                              *)

\* What the clients and the late requests do to the nodes, Node allows: whatever
\* holds of Node for arbitrary clients holds of these.
ImplementsNode == Spec

\* The certificates finalize_transfer returns make a finality chain, whatever
\* failed, was repeated or overlapped on the way.
ReturnedChainIsFinal ==
  \A c \in Clients : call[c].stage = "apply" =>
    FinalityChain(call[c].round, call[c].intent, call[c].qc)

\* v lacks the cell i consumes only because it has yet to apply the transfer
\* that creates it.
Behind(v, i) ==
  /\ InputOf[i] \notin Genesis
  /\ \A j \in applied[v] : InputOf[i] \notin OutputsOf[j]

Full(v, i) == ~ Cardinality(KnownIds(v) \cup OutputsOf[i]) <= MaxCollection

\* "Validator rejected valid apply": a node refuses a finalised transfer only when
\* it has missed an earlier one, or its state is full.  A conflict is no reason.
ApplyFailsOnlyBehind ==
  \A c \in Clients : call[c].stage = "apply" =>
    \A m \in Outstanding(c) :
      Accepts(m) \/ Repeats(m) \/ Behind(m.node, m.intent) \/ Full(m.node, m.intent)

Contacted(c) == {call[c].contacts[n] : n \in 1..Len(call[c].contacts)}

\* The cell can be spent everywhere, and no contact has voted for a conflicting
\* transfer in the call's round, or is locked on one or in a higher round.
Undisputed(c) ==
  LET r == call[c].round  i == call[c].intent IN
  /\ \A v \in Validators : InputOf[i] \in live[v] /\ ~ Full(v, i)
  /\ \A v \in Contacted(c) :
       /\ \A l \in lock[v][InputOf[i]] : l.intent = i /\ l.round <= r
       /\ \A w \in votes[v] : ~ (w.round = r /\ Conflicting(w.intent, i))

\* From here on nothing can disturb the call: no request will fail, no call is
\* made or under way and no late request is pending for a conflicting transfer or
\* in a higher round, and none can apply the transfer on one node alone.
Undisturbed(c) ==
  LET Harmless(s, r, i) ==
        /\ ~ Conflicting(i, call[c].intent)
        /\ i = call[c].intent => r <= call[c].round /\ s # "apply"
  IN
  /\ faults = MaxFaults /\ calls = MaxCalls
  /\ \A d \in Clients \ {c} : call[d] # NoCall =>
       Harmless("prevote", call[d].round, call[d].intent)
  /\ \A m \in late : Harmless(m.kind, m.round, m.intent)

\* A call that starts undisputed and undisturbed ends with the transfer applied on
\* every node, whatever calls failed half way before, on either side of a split
\* ("must progress after eventual communication", PASS-MATRIX.md).
UndisputedCallsSettle ==
  \A i \in Intents :
    (\E c \in Clients :
        /\ call[c].stage = "prevote" /\ call[c].asked = 0 /\ call[c].intent = i
        /\ IsQuorum(Contacted(c)) /\ Undisputed(c) /\ Undisturbed(c))
      ~> (\A v \in Validators : i \in applied[v])
=============================================================================
